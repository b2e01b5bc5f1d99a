---------------------------- MODULE TouchMapper -----------------------------
(***************************************************************************)
(* The touch mappers of InputReaderZizhan.cpp when the device is a screen: *)
(* from evdev's frames to what the listener is told.                       *)
(*                                                                         *)
(* A frame of the wire changes the accumulator (slots, a single touch, or  *)
(* the whole list of contacts anew).  Its sync becomes a raw state, raw    *)
(* states wait in mRawStatesPending while a first touch may still turn out *)
(* to be a Bluetooth stylus, and each is then cooked and told: virtual     *)
(* keys, buttons, hover, touches.  Overruns reset the mapper with frames   *)
(* still on the wire, a gesture key cancels the touch, and the display can *)
(* come, change and go.                                                    *)
(*                                                                         *)
(* A place is an integer on a line and a contact has one tool type.  The   *)
(* mapper is one record; the pointer mode is in PointerGestures.           *)
(***************************************************************************)
EXTENDS Integers, Sequences, FiniteSets, SequencesExt, Functions

CONSTANTS
  Slots,      \* contacts the panel follows at once
  Places,     \* where a contact can be
  Surface,    \* the places on the display
  KeyAt,      \* place -> the virtual key there, or "none"
  Kinds,      \* the devices to explore: protocol, stylus nearby, pen button, what its
              \* contacts do and how many come, the events its evdev buffer holds, and the
              \* changes it meets
  MaxPending, \* frames that come while a first touch waits
  MaxChanges  \* changes of the display, of the stylus's presence, and gesture keys

ASSUME TouchAssumption ==
  /\ Slots \in Nat \ {0} /\ Places \subseteq Int /\ Surface \subseteq Places /\ 0 \in Places
  /\ KeyAt \in [Places -> STRING]
  /\ \A k \in Kinds : /\ k.protocol \in {"slots", "single", "list"} /\ k.stylus \in BOOLEAN /\ k.button \in BOOLEAN
                      /\ k.places \subseteq Places /\ k.pressures \subseteq {0, 1} /\ k.wire \in Nat /\ k.contacts \in Nat
                      /\ k.changes \subseteq {"display", "stylus", "cancel"}
  /\ MaxPending \in Nat /\ MaxChanges \in Nat

VARIABLES
  kind,    \* the device
  hand,    \* the driver's slots: tracking id or -1, place, pressure
  button,  \* the panel pen's button is held
  kslot,   \* the driver's current slot
  trkid,   \* the driver's next tracking id
  wire,    \* the evdev buffer
  m,       \* the InputDevice and its touch mapper
  told,    \* what the listener believes
  missed,  \* history: a wait of pending states was forgotten
  changes  \* changes made so far

vars == <<kind, hand, button, kslot, trkid, wire, m, told, missed, changes>>

SlotIds  == 1..Slots
None     == "none"
SYN      == [type |-> "SYN", value |-> 0]
DROPPED  == [type |-> "DROPPED", value |-> 0]
Ev(t, v) == [type |-> t, value |-> v]

EmptySlot == [used |-> FALSE, tid |-> -1, x |-> 0, p |-> 0]
EmptyRaw  == [ptrs |-> <<>>, buttons |-> {}]
NoKey     == [down |-> FALSE, code |-> None, ignored |-> FALSE]
NoStylus  == [pressure |-> 0, buttons |-> {}]

Fresh ==
  [mode |-> "DIRECT", viewport |-> "a", connected |-> FALSE,
   slots |-> [i \in SlotIds |-> EmptySlot], slot |-> 1, button |-> FALSE,
   ids |-> <<>>, have |-> FALSE,
   pending |-> <<>>, last |-> EmptyRaw, aborted |-> FALSE, sentHover |-> FALSE,
   key |-> NoKey, quiet |-> FALSE,
   stylus |-> NoStylus, stylusId |-> -1, fusion |-> FALSE, dataPending |-> FALSE, armed |-> FALSE]

NothingTold == [touch |-> {}, hover |-> FALSE, buttons |-> {}, key |-> None, lost |-> FALSE]

Touching(raw) == {raw.ptrs[i].id : i \in {j \in DOMAIN raw.ptrs : ~raw.ptrs[j].hover}}
Hovering(raw) == {raw.ptrs[i].id : i \in {j \in DOMAIN raw.ptrs : raw.ptrs[j].hover}}
Down(raw)     == raw.ptrs # <<>>
PlaceOf(raw, id) == raw.ptrs[CHOOSE i \in DOMAIN raw.ptrs : raw.ptrs[i].id = id].x
LeastOf(ids)  == CHOOSE i \in ids : \A j \in ids : i <= j
FirstFree(ids) == LeastOf(0..(2 * Slots) \ ids)

-----------------------------------------------------------------------------
(* From events to contacts                                                 *)

\* an event of the wire, as the accumulator of the protocol takes it
Accumulate(s, e) ==
  LET current == IF kind.protocol = "list" /\ s.slot = 0 THEN 1 ELSE s.slot
      Put(slot) == IF current \notin SlotIds THEN s
                   ELSE [s EXCEPT !.slot = current, !.slots[current] = slot]
      old == IF current \in SlotIds THEN s.slots[current] ELSE EmptySlot
  IN CASE e.type = "SLOT"   -> [s EXCEPT !.slot = e.value]
       [] e.type = "REPORT" -> [s EXCEPT !.slot = @ + 1]
       [] e.type = "BUTTON" -> [s EXCEPT !.button = e.value = 1]
       [] e.type = "TID"    -> Put(IF e.value < 0 THEN [old EXCEPT !.used = FALSE]
                                   ELSE [old EXCEPT !.used = TRUE, !.tid = e.value])
       [] e.type = "TOUCH"  -> [s EXCEPT !.slots[1].used = e.value = 1]
       [] e.type = "X"      -> Put([old EXCEPT !.used = @ \/ kind.protocol # "single", !.x = e.value])
       [] e.type = "P"      -> Put([old EXCEPT !.used = @ \/ kind.protocol # "single", !.p = e.value])
       [] OTHER             -> s

\* slots cannot be read back, a single touch can
ResetAccumulator(s) ==
  CASE kind.protocol = "slots" -> [s EXCEPT !.slots = [i \in SlotIds |-> EmptySlot], !.slot = kslot]
    [] kind.protocol = "list"  -> [s EXCEPT !.slots = [i \in SlotIds |-> EmptySlot], !.slot = 0]
    [] OTHER -> [s EXCEPT !.slots[1] = [used |-> hand[1].tid >= 0, tid |-> -1, x |-> hand[1].x, p |-> hand[1].p]]

\* the id that follows a tracking id
Track(map, tid) ==
  LET known == {n \in DOMAIN map : map[n] = tid} IN
  IF known # {} THEN LeastOf(known) ELSE FirstFree(DOMAIN map)

\* ids by tracking id, while every contact has one
SyncTouch(s) ==
  LET used == SelectSeq([i \in SlotIds |-> i], LAMBDA i : s.slots[i].used)
      Take(acc, i) ==
        LET tid == s.slots[i].tid
            id  == Track(acc.map, tid)
        IN IF ~acc.have \/ tid < 0 THEN [acc EXCEPT !.have = FALSE, !.ids = <<>>]
           ELSE [acc EXCEPT !.map = [n \in DOMAIN @ \cup {id} |-> IF n = id THEN tid ELSE @[n]],
                            !.ids = Append(@, id)]
      done == FoldLeft(Take, [have |-> kind.protocol # "single", map |-> s.ids, ids |-> <<>>], used)
  IN [have |-> done.have,
      ids  |-> IF done.have THEN Restrict(done.map, ToSet(done.ids)) ELSE <<>>,
      ptrs |-> [k \in DOMAIN used |->
                 [id |-> IF done.have THEN done.ids[k] ELSE -1,
                  x |-> s.slots[used[k]].x, hover |-> s.slots[used[k]].p = 0]]]

Distance(a, b) == (a.x - b.x) * (a.x - b.x)

\* what taking pairs by increasing distance can give: maximal, and no closer pair left apart
Matchings(last, ptrs) ==
  {f \in UNION {[d -> DOMAIN last] : d \in SUBSET DOMAIN ptrs} :
     /\ \A c, k \in DOMAIN f : f[c] = f[k] => c = k
     /\ \A c \in DOMAIN ptrs, l \in DOMAIN last :
          \E k \in DOMAIN f : /\ k = c \/ f[k] = l
                              /\ Distance(ptrs[k], last[f[k]]) <= Distance(ptrs[c], last[l])}

\* without tracking ids: the nearest contact of the last frame, then the first free ids
AssignPointerIds(last, ptrs) ==
  LET Fill(f) ==
        LET Next1(acc, c) == Append(acc, IF c \in DOMAIN f THEN last[f[c]].id
                                          ELSE FirstFree(ToSet(acc) \cup {last[f[k]].id : k \in DOMAIN f}))
            ids == FoldLeft(Next1, <<>>, [c \in DOMAIN ptrs |-> c])
        IN [c \in DOMAIN ptrs |-> [ptrs[c] EXCEPT !.id = ids[c]]]
  IN {Fill(f) : f \in Matchings(last, ptrs)}

-----------------------------------------------------------------------------
(* Telling.  A state s carries the mapper s.m and the listener s.told.     *)

CookedButtons(raw) == IF Down(raw) THEN raw.buttons ELSE {}

\* the listener drops what does not continue the touch it knows
DispatchTouches(s, cur) ==
  LET was == Touching(s.m.last)
      now == Touching(cur)
      begins == s.told.touch = {} /\ was \cap now = {}
  IN [s EXCEPT !.told.touch = IF @ = was \/ begins THEN now ELSE @]

DispatchButtonRelease(s, cur) == [s EXCEPT !.told.buttons = @ \ (CookedButtons(s.m.last) \ CookedButtons(cur))]
DispatchButtonPress(s, cur)   == [s EXCEPT !.told.buttons = @ \cup (CookedButtons(cur) \ CookedButtons(s.m.last))]

DispatchHoverExit(s, cur) ==
  IF s.m.sentHover /\ (Hovering(cur) = {} \/ Touching(cur) # {})
  THEN [s EXCEPT !.m.sentHover = FALSE, !.told.hover = FALSE] ELSE s

DispatchHoverEnterAndMove(s, cur) ==
  IF Touching(cur) = {} /\ Hovering(cur) # {}
  THEN [s EXCEPT !.m.sentHover = TRUE, !.told.hover = TRUE] ELSE s

DispatchVirtualKey(s, code) == [s EXCEPT !.told.key = IF s.m.key.ignored THEN @ ELSE code]

\* Mutant: a touch that leaves the virtual key lets go of it without a word
LeaveVirtualKeyQuiet(s) == [s EXCEPT !.m.key.down = FALSE]

LeaveVirtualKey(s) == [DispatchVirtualKey(s, None) EXCEPT !.m.key.down = FALSE]

PressVirtualKey(s, code) ==
  LET pressed == [s EXCEPT !.m.key = [down |-> TRUE, code |-> code, ignored |-> s.m.quiet]]
  IN DispatchVirtualKey(pressed, code)

FindVirtualKeyHit(x)    == KeyAt[x]
IsPointInsideSurface(x) == x \in Surface

\* virtual keys: released, held, left or pressed; else the keys go quiet for a while
ConsumeRawTouches(s, cur) ==
  LET ids   == Touching(cur)
      first == PlaceOf(cur, LeastOf(ids))
      held  == s.m.key.down /\ Cardinality(ids) = 1 /\ FindVirtualKeyHit(first) = s.m.key.code
      left  == IF s.m.key.down THEN LeaveVirtualKey(s) ELSE s
      began == Touching(s.m.last) = {} /\ ids # {}
  IN IF ids = {} THEN left
     ELSE IF held THEN s
     ELSE IF began /\ ~IsPointInsideSurface(first)
          THEN IF Cardinality(ids) = 1 /\ FindVirtualKeyHit(first) # None THEN PressVirtualKey(left, FindVirtualKeyHit(first)) ELSE left
     ELSE [left EXCEPT !.m.quiet = TRUE]

StillAborted(aborted, cur) == aborted /\ Down(cur)

ApplyExternalStylusButtonState(s, raw) ==
  IF s.m.mode = "DIRECT" /\ s.m.connected /\ s.m.stylusId # -1
  THEN [raw EXCEPT !.buttons = @ \cup s.m.stylus.buttons] ELSE raw

\* what consumeRawTouches answers is not used: its touches are told as well
CookAndDispatch(s, raw) ==
  LET cur  == ApplyExternalStylusButtonState(s, raw)
      keys == ConsumeRawTouches(s, cur)
      out  == IF keys.m.aborted THEN keys
              ELSE DispatchButtonPress(
                     DispatchHoverEnterAndMove(
                       DispatchTouches(
                         DispatchHoverExit(DispatchButtonRelease(keys, cur), cur), cur), cur), cur)
  IN [out EXCEPT !.m.aborted = StillAborted(@, cur), !.m.last = cur,
                 !.told.lost = @ /\ Down(cur)]

-----------------------------------------------------------------------------
(* Waiting for the stylus                                                  *)

ClearStylusDataPendingFlags(s) == [s EXCEPT !.m.fusion = FALSE, !.m.dataPending = FALSE]

ResetExternalStylus(s) ==
  [ClearStylusDataPendingFlags(s) EXCEPT !.m.stylus = NoStylus, !.m.stylusId = -1]

WaitForStylus(s) == [s EXCEPT !.m.fusion = TRUE, !.m.armed = TRUE]

\* may a raw state go on, and with which stylus?
AssignExternalStylusId(s, raw, timeout) ==
  LET initial == ~Down(s.m.last) /\ Down(raw)
      fused   == IF ~initial THEN s
                 ELSE IF s.m.stylus.pressure # 0
                      THEN [s EXCEPT !.m.stylusId = IF Touching(raw) = {} THEN Slots + 1 ELSE LeastOf(Touching(raw))]
                 ELSE ResetExternalStylus(s)
  IN IF s.m.mode # "DIRECT" \/ ~s.m.connected THEN [wait |-> FALSE, s |-> s]
     ELSE IF initial /\ s.m.stylus.pressure = 0 /\ ~timeout THEN [wait |-> TRUE, s |-> WaitForStylus(s)]
     ELSE [wait |-> FALSE,
           s |-> IF fused.m.stylusId \in Touching(raw) THEN fused ELSE [fused EXCEPT !.m.stylusId = -1]]

\* drain mRawStatesPending, up to a first touch that must wait
ProcessRawTouches(s0, timeout) ==
  LET Step(acc, raw) ==
        LET a == AssignExternalStylusId(acc.s, raw, timeout) IN
        IF acc.wait THEN acc
        ELSE IF a.wait THEN [acc EXCEPT !.wait = TRUE, !.s = a.s]
        ELSE [wait |-> FALSE,
              s |-> [CookAndDispatch(ClearStylusDataPendingFlags(a.s), raw) EXCEPT !.m.pending = Tail(@)]]
      s == FoldLeft(Step, [wait |-> FALSE, s |-> s0], s0.m.pending).s
  IN IF ~s.m.dataPending THEN s
     ELSE IF timeout THEN CookAndDispatch(ClearStylusDataPendingFlags(s), s.m.last)
     ELSE IF s.m.fusion THEN s ELSE WaitForStylus(s)

Now == [m |-> m, told |-> told]
Waiting == m.pending # <<>> \/ m.dataPending
Become(s) ==
  /\ m' = s.m /\ told' = s.told
  /\ missed' = (missed /\ (s.m.pending # <<>> \/ s.m.dataPending))

-----------------------------------------------------------------------------
(* The panel                                                               *)

\* what the driver writes when the contacts become new: only what changed
Frame(new) ==
  LET Changed(i) == (IF new[i].tid = hand[i].tid THEN <<>>
                     ELSE IF kind.protocol = "single" THEN <<Ev("TOUCH", IF new[i].tid < 0 THEN 0 ELSE 1)>>
                     ELSE <<Ev("TID", new[i].tid)>>)
                    \o (IF new[i].x = hand[i].x THEN <<>> ELSE <<Ev("X", new[i].x)>>)
                    \o (IF new[i].p = hand[i].p THEN <<>> ELSE <<Ev("P", new[i].p)>>)
      Listed(i)  == IF new[i].tid < 0 THEN <<>> ELSE <<Ev("X", new[i].x), Ev("P", new[i].p), Ev("REPORT", 0)>>
      Slotted(acc, i) == IF new[i] = hand[i] THEN acc
                         ELSE [slot |-> i, out |-> acc.out
                               \o (IF acc.slot = i \/ kind.protocol = "single" THEN <<>> ELSE <<Ev("SLOT", i)>>)
                               \o Changed(i)]
      all == [i \in SlotIds |-> i]
      slotted == FoldLeft(Slotted, [slot |-> kslot, out |-> <<>>], all)
  IN IF kind.protocol = "list" THEN [slot |-> kslot, out |-> FlattenSeq([i \in SlotIds |-> Listed(i)])]
     ELSE slotted

\* evdev keeps whole frames, and after an overrun only the news that it overran
Write(events) ==
  wire' = IF Len(wire) + Len(events) + 1 <= kind.wire THEN wire \o events \o <<SYN>> ELSE <<DROPPED, SYN>>

Touch(new, more) ==
  /\ new # hand /\ trkid + more <= kind.contacts
  /\ hand' = new /\ trkid' = trkid + more
  /\ Write(Frame(new).out) /\ kslot' = Frame(new).slot
  /\ UNCHANGED <<kind, button, m, told, missed, changes>>

\* one contact comes or moves
TouchOne(i, x, p) ==
  /\ kind.protocol = "single" => i = 1
  /\ Touch([hand EXCEPT ![i] = [tid |-> IF @.tid < 0 THEN trkid ELSE @.tid, x |-> x, p |-> p]],
           IF hand[i].tid < 0 THEN 1 ELSE 0)

Lift(i) == hand[i].tid >= 0 /\ Touch([hand EXCEPT ![i].tid = -1], 0)

\* every contact goes in one frame, or two come in one
LiftTogether ==
  /\ \A i \in SlotIds : hand[i].tid >= 0
  /\ Touch([i \in SlotIds |-> [hand[i] EXCEPT !.tid = -1]], 0)

TouchTogether(x, y) ==
  /\ Slots >= 2 /\ kind.protocol # "single"
  /\ hand[1].tid < 0 /\ hand[2].tid < 0
  /\ Touch([hand EXCEPT ![1] = [tid |-> trkid, x |-> x, p |-> 1],
                        ![2] = [tid |-> trkid + 1, x |-> y, p |-> 1]], 2)

PenButton ==
  /\ kind.button
  /\ button' = ~button
  /\ Write(<<Ev("BUTTON", IF button THEN 0 ELSE 1)>>)
  /\ UNCHANGED <<kind, hand, kslot, trkid, m, told, missed, changes>>

-----------------------------------------------------------------------------
(* The reader                                                              *)

\* reset: of the accumulators, of the mapper, and of the listener
ResetMapper(s) ==
  LET acc == ResetAccumulator(s.m) IN
  [m |-> [acc EXCEPT !.button = button, !.ids = <<>>, !.have = FALSE, !.pending = <<>>, !.last = EmptyRaw,
                     !.aborted = FALSE, !.sentHover = FALSE, !.key.down = FALSE,
                     !.stylus = NoStylus, !.stylusId = -1, !.fusion = FALSE, !.dataPending = FALSE],
   told |-> NothingTold]

FinishSync(s) ==
  IF kind.protocol = "list" THEN [s EXCEPT !.slots = [i \in SlotIds |-> EmptySlot], !.slot = 0] ELSE s

\* the state that assignPointerIds compares with: a vector that grows has moved the last pending one
LastFor(s) == IF s.pending = <<>> THEN {s.last.ptrs} ELSE {Last(s.pending).ptrs, <<>>}

\* the raw states that a sync can push
Synced(s) ==
  LET t == SyncTouch(s)
      buttons == IF s.button THEN {"STYLUS"} ELSE {}
      assigned == IF t.have THEN {t.ptrs} ELSE UNION {AssignPointerIds(last, t.ptrs) : last \in LastFor(s)}
  IN {[FinishSync(s) EXCEPT !.ids = t.ids, !.have = t.have,
                            !.pending = Append(@, [ptrs |-> ptrs, buttons |-> buttons])] : ptrs \in assigned}

\* the reader takes the oldest frame of the wire
ReadFrame ==
  /\ wire # <<>> /\ Len(m.pending) < MaxPending
  /\ LET end  == LeastOf({k \in DOMAIN wire : wire[k] = SYN})
         body == SubSeq(wire, 1, end - 1)
     IN /\ wire' = SubSeq(wire, end + 1, Len(wire))
        /\ IF body # <<>> /\ body[1] = DROPPED THEN Become(ResetMapper(Now))
           ELSE \E s \in Synced(FoldLeft(Accumulate, m, body)) :
                  Become(ProcessRawTouches([m |-> s, told |-> told], FALSE))
  /\ UNCHANGED <<kind, hand, button, kslot, trkid, changes>>

\* what the external stylus can report at a sync
StylusReports == [pressure : {0, 1}, buttons : SUBSET {"STYLUS"}]

\* a report reaches every touch mapper
UpdateExternalStylusState(report) ==
  /\ m.connected
  /\ LET s == [Now EXCEPT !.m.stylus = report] IN
       /\ s # Now
       /\ IF m.stylusId # -1 \/ m.fusion
          THEN Become(ProcessRawTouches([s EXCEPT !.m.dataPending = TRUE], FALSE)) ELSE Become(s)
  /\ UNCHANGED <<kind, hand, button, kslot, trkid, wire, changes>>

\* the requested timeout has passed; a disabled device lets it pass
TimeoutExpired ==
  /\ m.armed
  /\ LET s == [Now EXCEPT !.m.armed = FALSE] IN
       IF m.mode = "DIRECT" /\ m.fusion THEN Become(ProcessRawTouches(s, TRUE))
       ELSE m' = s.m /\ missed' = (missed \/ Waiting) /\ UNCHANGED told
  /\ UNCHANGED <<kind, hand, button, kslot, trkid, wire, changes>>

QuietTimeEnds ==
  /\ m.quiet
  /\ m' = [m EXCEPT !.quiet = FALSE]
  /\ UNCHANGED <<kind, hand, button, kslot, trkid, wire, told, missed, changes>>

\* a gesture key of the same device
CancelTouch ==
  /\ "cancel" \in kind.changes /\ changes < MaxChanges /\ changes' = changes + 1
  /\ Touching(m.last) # {}
  /\ Become([m |-> [m EXCEPT !.aborted = TRUE], told |-> [told EXCEPT !.touch = {}, !.buttons = {}]])
  /\ UNCHANGED <<kind, hand, button, kslot, trkid, wire>>

\* configureSurface: which display, which mode; only a usable display resets the listener
ConfigureSurface(viewport, connected) ==
  /\ changes < MaxChanges /\ changes' = changes + 1
  /\ viewport # m.viewport \/ m.mode = "DISABLED" \/ connected # m.connected
  /\ LET s    == IF connected THEN Now ELSE ResetExternalStylus(Now)
         mode == IF viewport = None THEN "DISABLED" ELSE "DIRECT"
         reset == mode # "DISABLED" /\ (viewport # m.viewport \/ mode # m.mode)
     IN /\ m' = [s.m EXCEPT !.connected = connected, !.mode = mode,
                             !.viewport = IF viewport = None THEN @ ELSE viewport]
        /\ told' = IF reset THEN [NothingTold EXCEPT !.lost = Down(m.last)] ELSE told
        /\ missed' = (missed \/ (~connected /\ m.pending # <<>>))
  /\ UNCHANGED <<kind, hand, button, kslot, trkid, wire>>

\* what findViewport can find: one display, another, or none
Viewports == {"a", "b", None}

\* the display goes, comes back or changes
DisplayChanges(viewport) == "display" \in kind.changes /\ ConfigureSurface(viewport, m.connected)

StylusPresence ==
  /\ "stylus" \in kind.changes
  /\ ConfigureSurface(IF m.mode = "DISABLED" THEN None ELSE m.viewport, ~m.connected)

-----------------------------------------------------------------------------

Init ==
  /\ kind \in Kinds
  /\ hand = [i \in SlotIds |-> [tid |-> -1, x |-> 0, p |-> 0]]
  /\ button = FALSE /\ kslot = 1 /\ trkid = 0 /\ wire = <<>>
  /\ m = [Fresh EXCEPT !.connected = kind.stylus, !.slot = IF kind.protocol = "list" THEN 0 ELSE 1]
  /\ told = NothingTold /\ missed = FALSE /\ changes = 0

Panel ==
  \/ \E i \in SlotIds, x \in kind.places, p \in kind.pressures : TouchOne(i, x, p)
  \/ \E i \in SlotIds : Lift(i)
  \/ LiftTogether
  \/ \E x, y \in kind.places : TouchTogether(x, y)
  \/ PenButton

Next ==
  \/ Panel
  \/ ReadFrame
  \/ \E report \in StylusReports : UpdateExternalStylusState(report)
  \/ TimeoutExpired
  \/ QuietTimeEnds
  \/ CancelTouch
  \/ \E v \in Viewports : DisplayChanges(v)
  \/ StylusPresence

Spec == Init /\ [][Next]_vars
-----------------------------------------------------------------------------

\* What the listener believes is what was last cooked, through waits for a stylus, aborted
\* touches and numbers that come and go; but for a touch that a new display reset midway.
TouchesTold ==
  ~told.lost /\ ~m.aborted =>
    /\ told.touch = Touching(m.last)
    /\ told.hover = (Touching(m.last) = {} /\ Hovering(m.last) # {})
    /\ told.buttons = CookedButtons(m.last)

\* A virtual key is down while exactly one contact is on it, and the listener believes a
\* key down only then.
KeyHeld ==
  /\ m.key.down => /\ Cardinality(Touching(m.last)) = 1
                   /\ KeyAt[PlaceOf(m.last, LeastOf(Touching(m.last)))] = m.key.code
  /\ told.key # None => m.key.down /\ ~m.key.ignored /\ m.key.code = told.key

\* "This can cause the touch point to jump, but at least there will be no stuck touches":
\* once no contact is left and the wire is read, no slot is in use and nothing is believed.
NoStuckTouches ==
  wire = <<>> /\ (\A i \in SlotIds : hand[i].tid < 0) =>
    /\ \A i \in SlotIds : ~m.slots[i].used
    /\ m.pending = <<>> => ~Down(m.last) /\ told.touch = {} /\ ~told.hover /\ told.key = None

\* Raw states wait only for a timeout that has been asked for: no touch hangs until the
\* next one comes.  The exception is real: a wait is forgotten when the stylus leaves, or the
\* device is disabled when the timeout passes (4953), and its states come with the next touch.
PendingWaited == (m.pending # <<>> \/ m.dataPending) /\ ~missed => m.armed /\ m.fusion

\* No two contacts share an id, however the ids were found.
IdsDistinct == \A i, j \in DOMAIN m.last.ptrs : m.last.ptrs[i].id = m.last.ptrs[j].id => i = j

\* A contact keeps its id while every contact has a tracking id.
TrackedIdsKept ==
  [][m.have /\ m'.have => \A n \in DOMAIN m.ids, k \in DOMAIN m'.ids : m.ids[n] = m'.ids[k] => n = k]_vars

\* the newest raw state there is
Newest(s) == IF s.pending = <<>> THEN s.last.ptrs ELSE Last(s.pending).ptrs
AloneAt(ptrs, i) == \A j \in DOMAIN ptrs : ptrs[j].x = ptrs[i].x => j = i

\* Without tracking ids a contact that stays where it is keeps its id, whatever other contacts
\* come and go with it (assignPointerIds).  The exception is real: while states wait, sync
\* matches with one that is freed (4655-4679), and a contact can become another.
StillIdsKept ==
  [][~m'.have /\ m.pending = <<>> =>
       \A i \in DOMAIN Newest(m), j \in DOMAIN Newest(m') :
         LET was == Newest(m)
             is  == Newest(m')
         IN  was[i].x = is[j].x /\ AloneAt(was, i) /\ AloneAt(is, j) => was[i].id = is[j].id]_vars

\* No touch, key or frame is stuck, lost or told as another's (InputReaderZizhan.cpp
\* 1782-1930, 4640-5230).
TouchesSafe == TouchesTold /\ KeyHeld /\ NoStuckTouches /\ PendingWaited /\ IdsDistinct
=============================================================================

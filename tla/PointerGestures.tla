--------------------------- MODULE PointerGestures ---------------------------
(***************************************************************************)
(* The touch mappers of InputReaderZizhan.cpp when the device is a         *)
(* touchpad: fingers become the gestures of a pointer on the screen.       *)
(*                                                                         *)
(* Each frame has cooked fingers, perhaps a stylus or a mouse on the same  *)
(* pad, and a button.  The usage decides who moves the pointer; gestures   *)
(* go through preparePointerGestures, which picks the next mode, and       *)
(* dispatchPointerGestures, which tells the listener the difference; a     *)
(* stylus or a mouse goes through dispatchPointerSimple.  Times and places *)
(* are choices: whether an interval is over, whether fingers have moved    *)
(* far, apart or together, whether the pointer stayed near the tap.  Out   *)
(* of the pointer mode the touches take the way of TouchMapper, untold     *)
(* here.                                                                   *)
(***************************************************************************)
EXTENDS Integers, Sequences, FiniteSets, SequencesExt, Functions

CONSTANTS
  Fingers,    \* pointer ids of fingers
  MaxChanges  \* configurations, resets and cancelled touches

VARIABLES
  mode,    \* the device's mode
  usage,   \* who moves the pointer: mPointerUsage
  g,       \* mPointerGesture
  simple,  \* mPointerSimple: what it is doing
  last,    \* the last cooked frame
  armed,   \* a timeout is requested
  told,    \* what the listener believes
  mixed,   \* history: more than one finger, or the button, since no finger was there
  changes

vars == <<mode, usage, g, simple, last, armed, told, mixed, changes>>

NoTouch   == -1
Multi     == {"PRESS", "SWIPE", "FREEFORM"}
DownModes == Multi \cup {"TAP", "TAP_DRAG", "BUTTON"}

NoGesture == [mode |-> "NEUTRAL", ids |-> {}, touch |-> NoTouch, active |-> -1,
              map |-> [f \in Fingers |-> 0], tap |-> FALSE, quiet |-> FALSE]
NoFrame     == [fingers |-> {}, stylus |-> "away", mouse |-> FALSE, button |-> FALSE]
NothingTold == [ids |-> {}, down |-> FALSE, hover |-> FALSE]
NotDown     == [down |-> FALSE, hover |-> FALSE]

LeastOf(S) == CHOOSE i \in S : \A j \in S : i <= j

-----------------------------------------------------------------------------
(* The next gesture: g's mode and ids are the last ones until they are told, and each *)
(* case gives outcomes with the next.                                                 *)

Outcome(g1, m, ids, finish, cancel) == [g |-> g1, mode |-> m, ids |-> ids, finish |-> finish, cancel |-> cancel]

\* keep the active touch as long as it is there
ActiveTouch(touch, fingers) ==
  IF touch \in fingers THEN touch ELSE IF fingers = {} THEN NoTouch ELSE LeastOf(fingers)

\* a swipe or freeform with one finger left, or a button let go under two
EntersQuietTime(g1, cur) ==
  \/ g1.mode \in Multi /\ Cardinality(cur.fingers) < 2
  \/ g1.mode = "BUTTON" /\ Cardinality(cur.fingers) >= 2 /\ ~cur.button

\* quiet time may be over or not; without a touch it is
QuietTimes(g1, cur) ==
  IF cur.fingers = {} THEN {FALSE} ELSE {q \in {TRUE} : g1.quiet} \cup {EntersQuietTime(g1, cur)}

Quiet(g1) == {Outcome([g1 EXCEPT !.active = -1], "QUIET", {}, g1.mode # "QUIET", FALSE)}

\* the button: the pointer follows the active touch or the fastest
ButtonClickOrDrag(g1, cur) ==
  LET starts   == g1.mode # "BUTTON"
      active   == IF starts THEN 0 ELSE g1.active
      followed == {g1.touch} \cup (IF Cardinality(cur.fingers) > 1 THEN cur.fingers ELSE {})
  IN {Outcome([g1 EXCEPT !.active = active, !.touch = t], "BUTTON", {active}, starts, FALSE) : t \in followed}

\* no finger: a tap when a single one came and went in time, or nothing
NoFinger(g1, was) ==
  LET taps == {t \in {TRUE} : g1.tap /\ g1.mode \in {"HOVER", "TAP_DRAG"} /\ Cardinality(was.fingers) = 1}
  IN {Outcome([g1 EXCEPT !.active = -1], "NEUTRAL", {}, g1.mode # "NEUTRAL", FALSE)}
     \cup {Outcome([g1 EXCEPT !.active = 0], "TAP", {0}, TRUE, FALSE) : t \in taps}

\* one finger: hover, or drag what a tap has begun
OneFinger(g1, was) ==
  LET drags == IF g1.mode = "TAP" THEN BOOLEAN ELSE {g1.mode = "TAP_DRAG"}
      active(drag) == IF drag THEN g1.active ELSE 0
      now(drag) == [g1 EXCEPT !.active = active(drag), !.tap = @ \/ was.fingers = {}]
  IN {Outcome(now(drag), IF drag THEN "TAP_DRAG" ELSE "HOVER", {active(drag)}, ~drag /\ g1.mode # "HOVER", FALSE)
        : drag \in drags}

FirstFree(used) == LeastOf(0..Cardinality(used) \ used)

\* every id of the last frame, those of lifted fingers too, stays used for this one
Used(g1, kept) == IF g1.mode = "FREEFORM" THEN g1.ids ELSE {}

\* a gesture id for every finger: those of the last frame keep theirs
Freeform(g1, was, cur, finish, cancel) ==
  LET goesOn == g1.mode = "FREEFORM"
      kept   == IF goesOn THEN was.fingers \cap cur.fingers ELSE {}
      lost   == ~goesOn \/ \E t \in was.fingers \ cur.fingers : g1.map[t] = g1.active
      Map(acc, t) == LET id == FirstFree(acc.used) IN
                     [used |-> acc.used \cup {id}, map |-> [acc.map EXCEPT ![t] = id]]
      mapped == FoldLeft(Map, [used |-> Used(g1, kept), map |-> g1.map], SetToSortSeq(cur.fingers \ kept, <))
      ids    == {mapped.map[t] : t \in cur.fingers}
  IN Outcome([g1 EXCEPT !.map = mapped.map, !.active = IF lost THEN LeastOf(ids) ELSE @],
             "FREEFORM", ids, finish, cancel)

\* several fingers: begin with a press, and decide for a swipe or freeform when two have moved
ManyFingers(g1, was, cur) ==
  LET count == Cardinality(cur.fingers)
      moved == Cardinality(cur.fingers \cap was.fingers) >= 2
      Stay(m, active, finish, cancel) == Outcome([g1 EXCEPT !.active = active], m, {active}, finish, cancel)
      Free(active, finish) == Freeform([g1 EXCEPT !.active = active], was, cur, finish, TRUE)
      FromPress(active, finish, cancel) ==
        {Stay("PRESS", active, finish, cancel)}
        \cup {Free(active, finish) : t \in {t \in {TRUE} : moved}}
        \cup {Stay("SWIPE", active, finish, cancel) : t \in {t \in {TRUE} : moved /\ count = 2}}
      Continue ==
        CASE g1.mode = "PRESS" -> FromPress(g1.active, FALSE, FALSE)
          [] g1.mode = "SWIPE" -> {IF count > 2 THEN Free(g1.active, FALSE) ELSE Stay("SWIPE", g1.active, FALSE, FALSE)}
          [] OTHER -> {Freeform(g1, was, cur, FALSE, FALSE)}
  IN IF g1.mode \notin Multi THEN FromPress(0, TRUE, FALSE)
     ELSE Continue \cup (IF count > Cardinality(was.fingers) THEN FromPress(0, FALSE, TRUE) ELSE {})

\* Mutant: any quick touch can end as a tap
ResetTapNever(g1) == g1.tap

\* a tap only if nothing but hover and taps came before
ResetTap(g1) == g1.tap /\ g1.mode \in {"HOVER", "TAP", "TAP_DRAG"}

PreparePointerGestures(g0, was, cur) ==
  LET g1 == [g0 EXCEPT !.tap = ResetTap(g0), !.touch = ActiveTouch(@, cur.fingers)]
      Next1(g2) ==
        IF g2.quiet THEN Quiet(g2)
        ELSE IF cur.button THEN ButtonClickOrDrag(g2, cur)
        ELSE IF cur.fingers = {} THEN NoFinger(g2, was)
        ELSE IF Cardinality(cur.fingers) = 1 THEN OneFinger(g2, was)
        ELSE ManyFingers(g2, was, cur)
  IN UNION {Next1([g1 EXCEPT !.quiet = q]) : q \in QuietTimes(g1, cur)}

-----------------------------------------------------------------------------
(* Telling.  A state s carries the gesture s.g, the simple pointer s.simple, s.armed and *)
(* the listener s.told.                                                                  *)

Now == [g |-> g, simple |-> simple, armed |-> armed, told |-> told]
Become(s) == g' = s.g /\ simple' = s.simple /\ armed' = s.armed /\ told' = s.told

\* ids go up, or are cancelled together, and others come down
DispatchPointerGestures(s, o) ==
  LET up   == IF o.finish \/ o.cancel THEN s.g.ids ELSE s.g.ids \ o.ids
      ids  == IF o.mode \in DownModes THEN o.ids ELSE {}
      down == ids \ (s.g.ids \ up)
  IN [s EXCEPT !.g = [o.g EXCEPT !.mode = o.mode, !.ids = ids],
               !.armed = @ \/ o.mode = "TAP",
               !.told.ids = (@ \ up) \cup down]

DispatchPointerSimple(s, down, hover) ==
  [s EXCEPT !.simple = [down |-> down, hover |-> hover],
            !.told.down = (@ /\ ~s.simple.down) \/ down,
            !.told.hover = (@ /\ ~s.simple.hover) \/ hover]

AbortPointerGestures(s) == [s EXCEPT !.g = NoGesture, !.told.ids = IF s.g.ids = {} THEN @ ELSE {}]

AbortPointerUsage(s, who) ==
  CASE who = "GESTURES" -> AbortPointerGestures(s)
    [] who \in {"STYLUS", "MOUSE"} -> DispatchPointerSimple(s, FALSE, FALSE)
    [] OTHER -> s

\* a stylus, then a mouse, then fingers or the button; else as before
ChosenUsage(cur) ==
  IF cur.stylus # "away" THEN "STYLUS"
  ELSE IF cur.mouse THEN "MOUSE"
  ELSE IF cur.fingers # {} \/ cur.button THEN "GESTURES"
  ELSE usage

\* who takes precedence hides the others
Cooked(cur) ==
  [cur EXCEPT !.mouse = @ /\ cur.stylus = "away",
              !.fingers = IF cur.stylus # "away" \/ cur.mouse THEN {} ELSE @]

-----------------------------------------------------------------------------

\* cookAndDispatch and dispatchPointerUsage: another usage aborts the one before
Frame(cur) ==
  LET c   == Cooked(cur)
      who == ChosenUsage(cur)
      s   == IF who = usage THEN Now ELSE AbortPointerUsage(Now, usage)
  IN /\ mode = "POINTER"
     /\ usage' = who
     /\ \/ who = "GESTURES" /\ \E o \in PreparePointerGestures(s.g, last, c) : Become(DispatchPointerGestures(s, o))
        \/ who = "STYLUS" /\ Become(DispatchPointerSimple(s, c.stylus = "down", c.stylus = "hover"))
        \/ who = "MOUSE" /\ Become(DispatchPointerSimple(s, c.mouse /\ c.button, c.mouse /\ ~c.button))
        \/ who = "NONE" /\ Become(s)
     /\ last' = c
     /\ mixed' = (c.fingers # {} /\ (mixed \/ Cardinality(c.fingers) > 1 \/ c.button))
     /\ UNCHANGED <<mode, changes>>

\* in any other mode no finger is cooked, and the gesture stays as it was
FrameElsewhere ==
  /\ mode # "POINTER"
  /\ last' = NoFrame /\ mixed' = FALSE
  /\ UNCHANGED <<mode, usage, g, simple, armed, told, changes>>

\* Mutant: a timeout that comes too early is not asked for again
TimeoutForgets(over) ==
  LET waits == mode = "POINTER" /\ usage = "GESTURES" /\ g.mode = "TAP"
      done  == Outcome([g EXCEPT !.active = -1], "NEUTRAL", {}, TRUE, FALSE)
  IN /\ armed
     /\ IF waits /\ over THEN Become([DispatchPointerGestures(Now, done) EXCEPT !.armed = FALSE])
        ELSE Become([Now EXCEPT !.armed = FALSE])
     /\ UNCHANGED <<mode, usage, last, mixed, changes>>

\* a timeout, this one's or another's: a tap is finished once its interval is over
TimeoutExpired(over) ==
  LET waits == mode = "POINTER" /\ usage = "GESTURES" /\ g.mode = "TAP"
      done  == Outcome([g EXCEPT !.active = -1], "NEUTRAL", {}, TRUE, FALSE)
  IN /\ armed
     /\ IF waits /\ over THEN Become([DispatchPointerGestures(Now, done) EXCEPT !.armed = FALSE])
        ELSE Become([Now EXCEPT !.armed = waits])
     /\ UNCHANGED <<mode, usage, last, mixed, changes>>

Change == changes < MaxChanges /\ changes' = changes + 1

\* configureSurface: the display goes or comes, or the policy turns gestures off or on;
\* only the pointer mode aborts what was under way
ConfigureSurface(next) ==
  /\ Change
  /\ mode' = next
  /\ IF next = "POINTER"
     THEN usage' = "NONE" /\ Become([AbortPointerUsage(Now, usage) EXCEPT !.told = NothingTold])
     ELSE usage' = usage /\ Become([Now EXCEPT !.told = IF next = "DISABLED" \/ next = mode THEN @ ELSE NothingTold])
  /\ UNCHANGED <<last, mixed>>

\* an overrun, or the device is disabled or enabled
Reset ==
  /\ Change
  /\ usage' = "NONE" /\ last' = NoFrame /\ mixed' = FALSE
  /\ Become([Now EXCEPT !.g = NoGesture, !.simple = NotDown, !.told = NothingTold])
  /\ UNCHANGED mode

\* a gesture key of the same device
CancelTouch ==
  /\ Change
  /\ usage' = "NONE" /\ Become(AbortPointerUsage(Now, usage))
  /\ UNCHANGED <<mode, last, mixed>>

-----------------------------------------------------------------------------

Init ==
  /\ mode = "POINTER" /\ usage = "NONE" /\ g = NoGesture /\ simple = NotDown /\ last = NoFrame
  /\ armed = FALSE /\ told = NothingTold /\ mixed = FALSE /\ changes = 0

Frames == [fingers : SUBSET Fingers, stylus : {"away", "hover", "down"}, mouse : BOOLEAN, button : BOOLEAN]

Next ==
  \/ \E cur \in Frames : Frame(cur)
  \/ FrameElsewhere
  \/ \E over \in BOOLEAN : TimeoutExpired(over)
  \/ \E next \in {"POINTER", "DISABLED", "UNSCALED"} : ConfigureSurface(next)
  \/ Reset
  \/ CancelTouch

Spec == Init /\ [][Next]_vars
-----------------------------------------------------------------------------

\* The listener has exactly the pointers down that the gesture or the simple pointer has:
\* none is left down by a finish, a cancel, a change of usage or a pointer mode regained.
PointersTold ==
  mode = "POINTER" =>
    /\ told = [ids |-> g.ids, down |-> simple.down, hover |-> simple.hover]
    /\ g.ids # {} => usage = "GESTURES"
    /\ simple # NotDown => usage \in {"STYLUS", "MOUSE"}

\* A tap is down until its timeout, and the timeout has been asked for.
TapEnds == mode = "POINTER" /\ g.mode = "TAP" => armed

\* "If the gesture ever enters a mode other than TAP, HOVER or TAP_DRAG, without first
\* returning to NEUTRAL, then we should not generate tap event": a tap follows a touch of
\* one finger that met neither another nor the button.
TapIsSingle == [][g.mode # "TAP" /\ g'.mode = "TAP" => ~mixed]_vars

\* In freeform every finger has a gesture id of its own, and just those are told.
FreeformMapped ==
  mode = "POINTER" /\ g.mode = "FREEFORM" =>
    /\ g.ids = {g.map[t] : t \in last.fingers}
    /\ Cardinality(g.ids) = Cardinality(last.fingers)

\* No pointer of a gesture is left down or shared (InputReaderZizhan.cpp 5580-6560).
GesturesSafe == PointersTold /\ TapEnds /\ FreeformMapped
=============================================================================

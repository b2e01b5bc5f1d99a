---- MODULE Displays ----
(***************************************************************************)
(* The displays of SurfaceFlinger: hotplug events queued by binder threads *)
(* and taken in by the main thread, virtual displays that clients create,  *)
(* change and destroy, the DisplayDevices made for them in a commit, and   *)
(* the display objects that HWC2::Device keeps for the composer.           *)
(*                                                                         *)
(* A physical display's token stands for its entry in                      *)
(* mPhysicalDisplayTokens; the HWComposer between the two, which is not in *)
(* the tree, gives a display an id with its first connection and keeps it. *)
(***************************************************************************)
EXTENDS Naturals, SequencesExt

CONSTANTS Physical,    \* displays of the composer
          Internal,    \* the one that is connected at the start
          Virtual,     \* tokens for virtual displays
          Surfaces,    \* surfaces they may show on
          HwcVirtual,  \* mUseHwcVirtualDisplays: the composer makes virtual ones
          MaxEvents,   \* bound: hotplug events in all
          MaxChanges   \* bound: clients' changes in all

VARIABLES events,     \* mPendingHotplugEvents
          needed,     \* eDisplayTransactionNeeded
          current,    \* mCurrentState.displays, by token
          drawing,    \* mDrawingState.displays
          devices,    \* mDisplays: the DisplayDevice of each token
          objects,    \* HWC2::Device::mDisplays, each with its connected flag
          remade,     \* history: physical ones whose object went with a change of surface
          told,       \* the displays the schedulers' clients know as connected
          plugged,    \* the displays that are plugged in
          alive,      \* the virtual tokens clients hold
          count       \* the bounds' counts

vars == <<events, needed, current, drawing, devices, objects, remade, told,
          plugged, alive, count>>

NoSurface == "none"
Dormant == [surface |-> NoSurface, stack |-> 0]
Without(f, t) == Restrict(f, DOMAIN f \ {t})
With(f, t, v) == [x \in DOMAIN f \cup {t} |-> IF x = t THEN v ELSE f[x]]

----
(* HWC2::Device *)

\* onHotplug: a connection makes the object anew, a disconnection marks it
OnHotplug(os, d, connected) ==
    CASE connected -> With(os, d, TRUE)
      [] ~connected /\ d \in DOMAIN os -> [os EXCEPT ![d] = FALSE]
      [] OTHER -> os

----
(* What the main thread does to the displays.  st is the state it works on:
   the drawing state, the devices, the composer's objects, who was told. *)

State == [drawing |-> drawing, devices |-> devices, objects |-> objects, remade |-> remade,
          told |-> told]
Keep(f, ts) == Restrict(f, DOMAIN f \cap ts)

\* a display that is gone, or whose surface is another, loses its device, and
\* the composer its object; the clients are told only of one that is gone
Gone(st, cur) == DOMAIN st.drawing \ DOMAIN cur
Removed(st, cur) ==
    Gone(st, cur) \cup {t \in DOMAIN cur \cap DOMAIN st.drawing : cur[t].surface # st.drawing[t].surface}
\* dispatchDisplayHotplugEvent with the ids saved before the disconnection
DisconnectedIds(ts) == ts \cap Physical

DestroyDisplays(os, ts) == Keep(os, DOMAIN os \ ts)
RemoveDisplays(st, cur) ==
    LET off == Removed(st, cur) \cap DOMAIN st.devices
    IN  [st EXCEPT !.devices = Keep(@, DOMAIN @ \ off),
                   !.told = @ \ DisconnectedIds(off \cap Gone(st, cur)),
                   !.objects = DestroyDisplays(@, off),
                   !.remade = (@ \cup (off \cap Physical)) \ Gone(st, cur)]

\* a display that is new, or was just removed, gets a device; a virtual one
\* without a surface stays dormant, a physical one has its device whatever its
\* surface, but no new object
Added(st, cur) ==
    {t \in DOMAIN cur : (t \notin DOMAIN st.drawing \/ t \in Removed(st, cur))
                        /\ (t \in Virtual => cur[t].surface # NoSurface)}
CreateVirtualDisplays(os, ts) ==
    IF HwcVirtual THEN [t \in DOMAIN os \cup ts |-> t \in ts \/ os[t]] ELSE os
ProcessDisplayChanges(st, cur) ==
    LET off == RemoveDisplays(st, cur)
        new == Added(st, cur)
    IN  [drawing |-> cur,
         devices |-> [t \in DOMAIN off.devices \cup new |-> cur[t].stack],
         objects |-> CreateVirtualDisplays(off.objects, new \cap Virtual),
         remade |-> off.remade,
         told |-> off.told \cup (new \cap Physical)]

\* an event adds a display or takes it away, and that is drawn before the next
Plug(cur, e) == IF e.connected THEN (IF e.d \in DOMAIN cur THEN cur ELSE With(cur, e.d, Dormant))
                ELSE Without(cur, e.d)
AfterEvent(st, e) ==
    LET cur == Plug(st.current, e)
        after == ProcessDisplayChanges(
                     [st EXCEPT !.objects = OnHotplug(@, e.d, e.connected),
                                !.remade = IF e.connected THEN @ \ {e.d} ELSE @], cur)
    IN  after @@ [current |-> cur]
ProcessHotplugEvents(st) == FoldLeft(AfterEvent, st, events)

Becomes(st) ==
    /\ drawing' = st.drawing /\ devices' = st.devices /\ objects' = st.objects
    /\ remade' = st.remade /\ told' = st.told /\ current' = st.current

\* a commit that was asked to see to the displays
CommitDisplays ==
    /\ needed /\ needed' = FALSE
    /\ Becomes(ProcessHotplugEvents(ProcessDisplayChanges(State, current) @@ [current |-> current]))
    /\ events' = <<>>
    /\ UNCHANGED <<plugged, alive, count>>

\* any other commit, which takes the whole current state over
CommitOther ==
    /\ ~needed /\ drawing # current
    /\ drawing' = current
    /\ UNCHANGED <<events, needed, current, devices, objects, remade, told, plugged, alive, count>>

----
(* The binder threads, each under mStateLock *)

\* onHotplugReceived
OnHotplugReceived(d, connected) ==
    /\ count.events < MaxEvents /\ count' = [count EXCEPT !.events = @ + 1]
    /\ d # Internal \/ connected
    /\ connected \/ d \in plugged
    /\ plugged' = IF connected THEN plugged \cup {d} ELSE plugged \ {d}
    /\ events' = Append(events, [d |-> d, connected |-> connected])
    /\ needed' = TRUE
    /\ UNCHANGED <<current, drawing, devices, objects, remade, told, alive>>

Changes == /\ count.changes < MaxChanges /\ count' = [count EXCEPT !.changes = @ + 1]
           /\ UNCHANGED <<events, drawing, devices, objects, remade, told, plugged>>

\* createDisplay asks for nothing: the display is dormant
CreateDisplay(v) ==
    /\ Changes /\ v \notin alive
    /\ alive' = alive \cup {v}
    /\ current' = With(current, v, Dormant)
    /\ UNCHANGED needed

\* destroyDisplay, and the token's destructor when the last client drops it
DestroyDisplay(v) ==
    /\ Changes /\ v \in DOMAIN current
    /\ current' = Without(current, v) /\ needed' = TRUE
    /\ UNCHANGED alive

DropToken(v) ==
    /\ Changes /\ v \in alive
    /\ alive' = alive \ {v}
    /\ current' = Without(current, v) /\ needed' = TRUE

\* setDisplayStateLocked asks for a display transaction when something differs;
\* it takes a surface for any display
SetDisplayState(t, state) ==
    /\ Changes /\ t \in DOMAIN current
    /\ current[t] # state
    /\ current' = [current EXCEPT ![t] = state] /\ needed' = TRUE
    /\ UNCHANGED alive

States == [surface : Surfaces \cup {NoSurface}, stack : {0, 1}]

\* registerCallback reports the internal display on the main thread, which
\* takes the event in at once and asks for a transaction
Init ==
    LET one == [t \in {Internal} |-> Dormant]
    IN  /\ events = <<>> /\ needed = TRUE
        /\ current = one /\ drawing = one
        /\ devices = [t \in {Internal} |-> 0] /\ objects = [t \in {Internal} |-> TRUE]
        /\ remade = {} /\ told = {Internal} /\ plugged = {Internal} /\ alive = {}
        /\ count = [events |-> 0, changes |-> 0]

Next ==
    \/ CommitDisplays \/ CommitOther
    \/ \E d \in Physical, connected \in BOOLEAN : OnHotplugReceived(d, connected)
    \/ \E v \in Virtual : CreateDisplay(v) \/ DestroyDisplay(v) \/ DropToken(v)
    \/ \E t \in Physical \cup Virtual, state \in States : SetDisplayState(t, state)

Spec == Init /\ [][Next]_vars

----
(* Properties *)

\* Every device of the composer's has its object there, connected, and every
\* object is some device's: none is leaked and none is used after it was
\* destroyed, whatever the order of plugging, changing and destroying.  The
\* exception is real: a physical display that a client gives another surface,
\* which 2846 says is ignored, is made again without its object (2768-2780),
\* until it is plugged in anew.
ObjectsUsed ==
    /\ DOMAIN objects =
           (DOMAIN devices \cap (Physical \cup (IF HwcVirtual THEN Virtual ELSE {}))) \ remade
    /\ \A t \in DOMAIN objects : objects[t]

\* The schedulers' clients know exactly the physical displays that have a
\* device as connected.
ToldAsConnected == told = DOMAIN devices \cap Physical

\* Once nothing is asked for, the displays are those plugged in and those with
\* a surface, each on its layer stack: no event and no change is left behind.
NothingWaits ==
    ~needed =>
        /\ events = <<>> /\ DOMAIN current \cap Physical = plugged
        /\ DOMAIN devices = {t \in DOMAIN current : t \in Physical \/ current[t].surface # NoSurface}
        /\ \A t \in DOMAIN devices : devices[t] = current[t].stack

\* The three tables of displays agree through hotplug and clients' changes
\* (SurfaceFlinger.cpp 2640-2990).
DisplaysSafe == ObjectsUsed /\ ToldAsConnected /\ NothingWaits
====

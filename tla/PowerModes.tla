---- MODULE PowerModes ----
(***************************************************************************)
(* The power modes of SurfaceFlinger's displays and the hardware vsync of  *)
(* the internal one.  The scheduler's threads ask for vsync through the    *)
(* event control thread, which posts to the main thread; the main thread   *)
(* changes the power modes and tells the composer.  One flag,              *)
(* mHWCVsyncState, stands for what the composer was told last, whichever   *)
(* display it was about: turning another display off makes it forget that  *)
(* the internal one's vsyncs are on.                                       *)
(***************************************************************************)
EXTENDS Naturals, Sequences

CONSTANTS PoweredDisplays,  \* the physical displays whose mode clients change
          Internal,         \* the internal (primary) one
          MaxPosts          \* bound: messages waiting for the main thread

VARIABLES power,         \* the mode of each display
          vsyncState,    \* mHWCVsyncState
          vsyncPending,  \* mHWCVsyncPendingState
          hardware,      \* what the composer was told of each display's vsyncs
          misled,        \* history: the internal one's are on, the flag was cleared by another
          scheduler,     \* whether it wants the hardware's vsync and may
          control,       \* the event control thread: asked for, and posted
          posts          \* setPrimaryVsyncEnabled messages to the main thread

vars == <<power, vsyncState, vsyncPending, hardware, misled, scheduler, control, posts>>

Modes == {"OFF", "DOZE", "NORMAL", "DOZE_SUSPEND", "OTHER"}

Init ==
    /\ power = [d \in PoweredDisplays |-> "OFF"]
    /\ vsyncState = FALSE /\ vsyncPending = FALSE
    /\ hardware = [d \in PoweredDisplays |-> FALSE] /\ misled = FALSE
    /\ scheduler = [enabled |-> FALSE, available |-> FALSE]
    /\ control = [asked |-> FALSE, posted |-> FALSE]
    /\ posts = <<>>

\* the scheduler's part: what it becomes and what it asks of its thread
Asks(s) == /\ scheduler' = s
           /\ control' = [control EXCEPT !.asked = s.enabled]
DisableHardwareVsync(unavailable) ==
    Asks([enabled |-> FALSE, available |-> scheduler.available /\ ~unavailable])
ResyncToHardwareVsync(makeAvailable) ==
    IF makeAvailable \/ scheduler.available
    THEN Asks([enabled |-> TRUE, available |-> TRUE]) ELSE UNCHANGED <<scheduler, control>>

\* setVsyncEnabledInHWC: the composer is told when the flag says otherwise
SetVsyncEnabledInHWC(d, enabled) ==
    /\ vsyncState' = enabled
    /\ IF vsyncState # enabled
       THEN hardware' = [hardware EXCEPT ![d] = enabled] /\ misled' = (d # Internal)
       ELSE UNCHANGED <<hardware, misled>>

\* Mutant: a wish that comes late is passed on to a display that is off.
AnyPower == TRUE

\* setPrimaryVsyncEnabledInternal, on the main thread
IsPoweredOn == power[Internal] # "OFF"
SetPrimaryVsyncEnabled ==
    /\ posts # <<>>
    /\ vsyncPending' = Head(posts)
    /\ IF IsPoweredOn THEN SetVsyncEnabledInHWC(Internal, Head(posts))
       ELSE UNCHANGED <<hardware, misled, vsyncState>>
    /\ posts' = Tail(posts)
    /\ UNCHANGED <<power, scheduler, control>>

----
(* setPowerModeInternal, one action for each branch *)

Turns(d, mode) ==
    /\ power[d] # mode
    /\ power' = [power EXCEPT ![d] = mode]
    /\ UNCHANGED <<vsyncPending, posts>>

\* off to on: the pending vsync state is given to the composer
TurnOn(d, mode) ==
    /\ power[d] = "OFF" /\ Turns(d, mode)
    /\ IF d = Internal /\ mode # "DOZE_SUSPEND"
       THEN SetVsyncEnabledInHWC(d, vsyncPending) /\ ResyncToHardwareVsync(TRUE)
       ELSE UNCHANGED <<vsyncState, hardware, misled, scheduler, control>>

\* on to off: the vsync is disabled first, whichever display it is
TurnOff(d) ==
    /\ Turns(d, "OFF")
    /\ IF d = Internal /\ power[d] # "DOZE_SUSPEND"
       THEN DisableHardwareVsync(TRUE) ELSE UNCHANGED <<scheduler, control>>
    /\ SetVsyncEnabledInHWC(d, FALSE)

\* between modes of a display that is on
ChangeMode(d, mode) ==
    /\ power[d] # "OFF" /\ mode # "OFF" /\ Turns(d, mode)
    /\ CASE d = Internal /\ mode \in {"DOZE", "NORMAL"} /\ power[d] = "DOZE_SUSPEND" -> ResyncToHardwareVsync(TRUE)
         [] d = Internal /\ mode = "DOZE_SUSPEND" -> DisableHardwareVsync(TRUE)
         [] OTHER -> UNCHANGED <<scheduler, control>>
    /\ UNCHANGED <<vsyncState, hardware, misled>>

----
(* The threads beside the main thread *)

\* the scheduler has enough samples, or wants new ones; a change of the
\* configuration makes the vsync available whatever the power mode
SchedulerAsks ==
    /\ \/ DisableHardwareVsync(FALSE)
       \/ \E makeAvailable \in BOOLEAN : ResyncToHardwareVsync(makeAvailable)
    /\ UNCHANGED <<power, vsyncState, vsyncPending, hardware, misled, posts>>

\* the event control thread passes the last wish on
EventControl ==
    /\ control.asked # control.posted /\ Len(posts) < MaxPosts
    /\ control' = [control EXCEPT !.posted = control.asked]
    /\ posts' = Append(posts, control.asked)
    /\ UNCHANGED <<power, vsyncState, vsyncPending, hardware, misled, scheduler>>

Next ==
    \/ SetPrimaryVsyncEnabled \/ SchedulerAsks \/ EventControl
    \/ \E d \in PoweredDisplays :
        TurnOff(d) \/ \E mode \in Modes \ {"OFF"} : TurnOn(d, mode) \/ ChangeMode(d, mode)

Spec == Init /\ [][Next]_vars

----
(* Properties *)

TypeOK ==
    /\ power \in [PoweredDisplays -> Modes] /\ hardware \in [PoweredDisplays -> BOOLEAN]
    /\ vsyncState \in BOOLEAN /\ vsyncPending \in BOOLEAN /\ misled \in BOOLEAN
    /\ scheduler \in [enabled : BOOLEAN, available : BOOLEAN]
    /\ control \in [asked : BOOLEAN, posted : BOOLEAN]
    /\ posts \in Seq(BOOLEAN)

\* mHWCVsyncState says what the composer was told of the internal display,
\* unless another display's turning off has cleared it (:4606, with 4547): then
\* the internal one's vsyncs are on, until it is told anew.  The other displays
\* never give any.
FlagIsTrue ==
    /\ hardware[Internal] = (vsyncState \/ misled)
    /\ \A d \in PoweredDisplays \ {Internal} : ~hardware[d]

\* When no wish is on its way, the composer gives no vsyncs of the internal
\* display that the scheduler does not want, whatever modes it went through,
\* unless the flag was cleared by another display: then disabling them does
\* nothing.
VsyncWanted ==
    control.asked = control.posted /\ posts = <<>> =>
        (hardware[Internal] => scheduler.enabled \/ misled)

\* SurfaceFlinger.cpp:4605 "Make sure HWVsync is disabled before turning off
\* the display": a display that is off gives no vsyncs.  It fails for the
\* internal display after another one was turned off before it.
OffMeansNoVsync ==
    \A d \in PoweredDisplays : power[d] = "OFF" /\ hardware[d] => d = Internal /\ misled

\* Vsyncs come when they are wanted and the display is on.
VsyncsSafe == TypeOK /\ FlagIsTrue /\ VsyncWanted /\ OffMeansNoVsync
====

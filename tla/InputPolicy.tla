---------------------------- MODULE InputPolicy -----------------------------
(* What the input reader is told of the rest of the system: NativeInputManager *)
(* (com_android_server_input_InputManagerService.cpp).  Callers store their    *)
(* settings under mLock and, after releasing it, ask the reader to refresh its *)
(* configuration; the reader thread copies the settings under the same lock    *)
(* and applies them to the mouse, whose mapper (InputReader.cpp 2640-3060)     *)
(* holds the one pointer controller.  The policy itself has only a weak        *)
(* reference to it.  A section of mLock is one action.                         *)
EXTENDS Integers, FiniteSets

CONSTANTS
  Callers,   \* threads of the system server
  Displays,  \* 0 is the default display
  Settings,  \* the plain settings: "capture" is one
  MaxCalls   \* bound: calls of the service

VARIABLES
  service,    \* what the Java service answers: the display of the pointer
  locked,     \* mLocked
  controller, \* the pointer controller, alive as long as somebody holds it
  pc,         \* per caller: the step of its call
  pending,    \* the changes the reader has been asked to refresh
  reader,     \* the refresh under way and the configuration it has
  mouse,      \* the mapper of the mouse
  jni,        \* the JNI layer's own reference to the controller is set
  astray,     \* the pointer was moved or left elsewhere since it was placed last
  calls

vars == <<service, locked, controller, pc, pending, reader, mouse, jni,
          astray, calls>>

None == -1   \* ADISPLAY_ID_NONE
Default == 0
Idle == [op |-> "idle"]
Nothing == [mode |-> "none", display |-> Default]
Gone == [alive |-> FALSE, display |-> None, short |-> FALSE]

\* getReaderConfiguration: the part copied under mLock
Configuration(l) == [viewports |-> l.viewports, gestures |-> l.gestures, set |-> l.set,
                     disabled |-> l.disabled]

\* The reader's constructor reads the first configuration.
Init ==
  /\ service = Default
  /\ locked = [viewports |-> {}, pointer |-> Default, gestures |-> TRUE, dark |-> FALSE,
               disabled |-> FALSE, set |-> {}]
  /\ controller = Gone
  /\ pc = [c \in Callers |-> Idle]
  /\ pending = {}
  /\ reader = [step |-> "idle", changes |-> {}, config |-> Configuration(locked)]
  /\ mouse = Nothing /\ jni = FALSE /\ astray = FALSE /\ calls = 0

----------------------------------------------------------------------------
\* The pointer controller.

\* updatePointerDisplayLocked: the display the pointer belongs on, if there is one
Target(l) ==
  IF l.pointer \in l.viewports THEN l.pointer
  ELSE IF Default \in l.viewports THEN Default ELSE None

\* obtainPointerController
Obtain(l, c) ==
  LET kept == IF c.alive THEN c ELSE [alive |-> TRUE, display |-> None, short |-> l.dark]
  IN  IF Target(l) = None THEN kept ELSE [kept EXCEPT !.display = Target(l)]

\* The last strong reference takes the controller with it.
Kept(c, mapper, held) == IF mapper.mode \in {"pointer", "relative"} \/ held THEN c ELSE Gone

----------------------------------------------------------------------------
\* The calls.

Starts(c, call) ==
  /\ pc[c] = Idle /\ calls < MaxCalls
  /\ calls' = calls + 1
  /\ pc' = [pc EXCEPT ![c] = call]

Asks(change) == [op |-> "request", change |-> change]

\* Another window manager state: the service will answer with another display.
MovePointerDisplay(d) ==
  /\ calls < MaxCalls /\ d # service
  /\ service' = d /\ calls' = calls + 1
  /\ UNCHANGED <<locked, controller, pc, pending, reader, mouse, jni, astray>>

\* setDisplayViewports asks the service for the pointer's display before it locks.
SetDisplayViewports(c, viewports) ==
  /\ Starts(c, [op |-> "viewports", viewports |-> viewports, pointer |-> service])
  /\ UNCHANGED <<service, locked, controller, pending, reader, mouse, jni, astray>>

\* Mutant: the reader hears of the viewports only when the pointer moves to another display.
StoreViewportsQuietly(c) ==
  /\ pc[c].op = "viewports"
  /\ locked' = [locked EXCEPT !.viewports = pc[c].viewports, !.pointer = pc[c].pointer]
  /\ pc' = [pc EXCEPT ![c] = IF pc[c].pointer = locked.pointer THEN Idle ELSE Asks("display")]
  /\ UNCHANGED <<service, controller, pending, reader, mouse, jni, astray, calls>>

StoreViewports(c) ==
  /\ pc[c].op = "viewports"
  /\ locked' = [locked EXCEPT !.viewports = pc[c].viewports, !.pointer = pc[c].pointer]
  /\ pc' = [pc EXCEPT ![c] = Asks("display")]
  /\ UNCHANGED <<service, controller, pending, reader, mouse, jni, astray, calls>>

\* requestRefreshConfiguration
Request(c) ==
  /\ pc[c].op = "request"
  /\ pending' = pending \cup {pc[c].change}
  /\ pc' = [pc EXCEPT ![c] = Idle]
  /\ UNCHANGED <<service, locked, controller, reader, mouse, jni, astray, calls>>

\* setPointerSpeed, setShowTouches, setPointerCapture: what is set already returns at once.
Set(c, setting, on) ==
  /\ Starts(c, IF (setting \in locked.set) = on THEN Idle ELSE Asks(setting))
  /\ locked' = [locked EXCEPT !.set = IF on THEN @ \cup {setting} ELSE @ \ {setting}]
  /\ UNCHANGED <<service, controller, pending, reader, mouse, jni, astray>>

\* setInputDeviceEnabled, of the mouse
SetInputDeviceEnabled(c, enabled) ==
  /\ Starts(c, Asks("enabled"))
  /\ locked' = [locked EXCEPT !.disabled = ~enabled]
  /\ UNCHANGED <<service, controller, pending, reader, mouse, jni, astray>>

\* setInputWindows, after it has told the dispatcher: the windows of one display, that of the
\* call, decide for all.
SetInputWindows(c, disables) ==
  /\ Starts(c, [op |-> "windows", gestures |-> ~disables])
  /\ UNCHANGED <<service, locked, controller, pending, reader, mouse, jni, astray>>

StoreGestures(c) ==
  /\ pc[c].op = "windows"
  /\ locked' = [locked EXCEPT !.gestures = pc[c].gestures]
  /\ pc' = [pc EXCEPT ![c] = IF locked.gestures = pc[c].gestures THEN Idle ELSE Asks("gestures")]
  /\ UNCHANGED <<service, controller, pending, reader, mouse, jni, astray, calls>>

\* setSystemUiVisibility and updateInactivityTimeoutLocked
SetSystemUiVisibility(c, dark) ==
  /\ Starts(c, Idle)
  /\ locked' = [locked EXCEPT !.dark = dark]
  /\ controller' = IF controller.alive /\ dark # locked.dark
                   THEN [controller EXCEPT !.short = dark] ELSE controller
  /\ UNCHANGED <<service, pending, reader, mouse, jni, astray>>

\* nativedispatchMouse and nativedispatchMouseByCd leave their reference in a global variable.
DispatchMouse(c) ==
  /\ Starts(c, Idle)
  /\ controller' = Obtain(locked, controller)
  /\ jni' = TRUE /\ astray' = FALSE
  /\ UNCHANGED <<service, locked, pending, reader, mouse>>

----------------------------------------------------------------------------
\* The reader thread.

TakeChanges ==
  /\ reader.step = "idle" /\ pending # {}
  /\ reader' = [reader EXCEPT !.step = "read", !.changes = pending]
  /\ pending' = {}
  /\ UNCHANGED <<service, locked, controller, pc, mouse, jni, astray, calls>>

GetReaderConfiguration ==
  /\ reader.step = "read"
  /\ reader' = [reader EXCEPT !.step = "apply", !.config = Configuration(locked)]
  /\ UNCHANGED <<service, locked, controller, pc, pending, mouse, jni, astray, calls>>

\* CursorInputMapper::configure for the capture: the controller is kept.
Captured(m, captured) ==
  CASE captured /\ m.mode = "pointer"    -> [m EXCEPT !.mode = "relative"]
    [] ~captured /\ m.mode = "relative"  -> [m EXCEPT !.mode = "pointer"]
    [] OTHER                             -> m

\* CursorInputMapper::configure for the displays: a captured mouse leaves the pointer.
ResetsPosition(changes, m) == "display" \in changes /\ m.mode = "pointer"

\* The device is reset when it is enabled or disabled.
Apply ==
  /\ reader.step = "apply"
  /\ LET captured == IF "capture" \in reader.changes
                     THEN Captured(mouse, "capture" \in reader.config.set) ELSE mouse
         places == ResetsPosition(reader.changes, captured)
         after == IF places THEN Obtain(locked, controller) ELSE controller
     IN  /\ mouse' = IF "enabled" \in reader.changes
                     THEN [captured EXCEPT !.display = Default] ELSE captured
         /\ controller' = Kept(after, captured, jni)
         /\ astray' = IF places THEN FALSE
                      ELSE astray \/ ("display" \in reader.changes /\ captured.mode = "relative")
  /\ reader' = [reader EXCEPT !.step = "idle", !.changes = {}]
  /\ UNCHANGED <<service, locked, pc, pending, jni, calls>>

\* A mouse is plugged in: its first configuration obtains the controller twice.
AddMouse ==
  /\ reader.step = "idle" /\ mouse.mode = "none"
  /\ mouse' = Captured([mode |-> "pointer", display |-> Default], "capture" \in reader.config.set)
  /\ controller' = Obtain(locked, controller)
  /\ astray' = FALSE
  /\ UNCHANGED <<service, locked, pc, pending, reader, jni, calls>>

RemoveMouse ==
  /\ reader.step = "idle" /\ mouse.mode # "none"
  /\ mouse' = Nothing
  /\ controller' = Kept(controller, Nothing, jni)
  /\ UNCHANGED <<service, locked, pc, pending, reader, jni, astray, calls>>

\* The pointer reaches an edge: notifyLayerstackChanged takes it to another display without
\* the lock, and the mapper tells its events for that display from now on.
Cross ==
  /\ reader.step = "idle" /\ mouse.mode = "pointer" /\ ~reader.config.disabled
  /\ LET others == locked.viewports \ {controller.display}
         to == IF others = {} THEN Default ELSE CHOOSE d \in others : \A e \in others : d <= e
     IN  /\ mouse' = [mouse EXCEPT !.display = to]
         /\ controller' = IF others = {} THEN controller ELSE [controller EXCEPT !.display = to]
         /\ astray' = (astray \/ others # {})
  /\ UNCHANGED <<service, locked, pc, pending, reader, jni, calls>>

----------------------------------------------------------------------------
Call(c) ==
  \/ \E v \in {{Default}, Displays} : SetDisplayViewports(c, v)
  \/ \E s \in Settings, on \in BOOLEAN : Set(c, s, on)
  \/ \E b \in BOOLEAN : 
       SetInputDeviceEnabled(c, b) \/ SetSystemUiVisibility(c, b) \/ SetInputWindows(c, b)
  \/ DispatchMouse(c)

Continue(c) == StoreViewports(c) \/ StoreGestures(c) \/ Request(c)
Refresh == TakeChanges \/ GetReaderConfiguration \/ Apply

Next ==
  \/ \E c \in Callers : Call(c) \/ Continue(c)
  \/ \E d \in Displays : MovePointerDisplay(d)
  \/ Refresh \/ AddMouse \/ RemoveMouse \/ Cross

Spec == Init /\ [][Next]_vars

----------------------------------------------------------------------------
AtRest == reader.step = "idle" /\ pending = {} /\ \A c \in Callers : pc[c] = Idle

\* When every call has returned and the reader has refreshed, it works with the settings the
\* policy holds (setters 809-979, getReaderConfiguration 482-574).
ConfigurationCurrent == AtRest => reader.config = Configuration(locked)

\* At rest the pointer is on the display it belongs on, unless it has crossed an edge or the
\* displays changed while the mouse was captured (updatePointerDisplayLocked 605-620).
PointerPlaced ==
  AtRest /\ ~astray /\ mouse.mode = "pointer" /\ Target(locked) # None
    => controller.display = Target(locked)

\* The pointer's timeout follows the system bars also when it is created after they were
\* hidden (updateInactivityTimeoutLocked 887-897).
TimeoutFollows == controller.alive => controller.short = locked.dark

\* A mouse that moves the pointer has a controller for the policy to promote: nothing frees it
\* under the mapper, so that notifyLayerstackChanged (1056) may use it unchecked.
PointerHeld == mouse.mode = "pointer" => controller.alive

PolicySafe == ConfigurationCurrent /\ PointerPlaced /\ TimeoutFollows /\ PointerHeld
=============================================================================

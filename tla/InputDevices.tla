---------------------------- MODULE InputDevices ----------------------------
(***************************************************************************)
(* The devices of InputReader.cpp and the mappers that keep what is down:  *)
(* keys, mouse buttons, switches, joystick axes.                           *)
(*                                                                         *)
(* A device's raw events wait in its evdev buffer.  The reader takes them  *)
(* one by one under its lock and gives each to every mapper of the device. *)
(* A mapper remembers what it has reported and the listener believes what  *)
(* it was told; three things pull them apart: a buffer that overruns, a    *)
(* reset that reads the keys as they are now with older events still in    *)
(* the buffer, and a setting that changes between a press and a release.   *)
(*                                                                         *)
(* A device is one record.  The mappers are operators on the pair of that  *)
(* record and the key-mouse property, in the order createDeviceLocked adds *)
(* them.  Touch screens are in TouchMapper, vibrators in InputReaders.     *)
(***************************************************************************)
EXTENDS Integers, Sequences, FiniteSets, SequencesExt, Functions

CONSTANTS
  Devices,     \* the input devices there can be
  Setups,      \* what each device is: functions from Devices to sets of mappers
  Codes,       \* device -> the keys, buttons and switches it has
  Axis,        \* the joystick's axis: mode, raw bounds, split and filter
  AxisValues,  \* raw values the stick moves to
  VirtualKeys, \* keys whose layout flags them as virtual
  Box,         \* ro.target.product is "box"
  MaxBuffer    \* the events an evdev buffer holds

VARIABLES
  setup,      \* the mappers of each device, chosen once from its classes
  devices,    \* mDevices
  disabled,   \* config.disabledDevices
  turned,     \* the internal viewport is rotated by 90 degrees
  keyMouse,   \* the system property sys.KeyMouse.mKeyMouseState is "on"
  globalMeta, \* mGlobalMetaState
  pressed,    \* keys, buttons and switches as the hardware has them
  buffer,     \* evdev's buffer of each device
  dev         \* the InputDevice, its mappers, and what the listener was told

vars == <<setup, devices, disabled, turned, keyMouse, globalMeta, pressed, buffer, dev>>

MouseButtons == {"BTN_LEFT", "BTN_RIGHT", "BTN_MIDDLE", "BTN_FORWARD"}
OkKeys       == {"ENTER", "CENTER"}
Switches     == {"LID"}
REPORT       == [type |-> "SYN", code |-> "REPORT", value |-> 0]
DROPPED      == [type |-> "SYN", code |-> "DROPPED", value |-> 0]

\* the listener forgets a device that is reset
NothingTold == [keys |-> {}, down |-> {}, buttons |-> [m \in {"cursor", "keymouse"} |-> {}], axis |-> <<0, 0>>]

\* two of the fields are history.  missed: while the device drops, an overrun was
\* dropped too, or what it waits for went with the buffer.  torn: the mouse mode
\* was switched while the device had something down
Fresh ==
  [drop |-> FALSE, downs |-> <<>>, usage |-> 0, meta |-> {}, led |-> FALSE,
   acc |-> [m \in {"cursor", "keymouse"} |-> {}], state |-> [m \in {"cursor", "keymouse"} |-> {}],
   switches |-> {}, updated |-> {}, axisNew |-> <<0, 0>>, axisNow |-> <<0, 0>>,
   told |-> NothingTold, toldSwitches |-> {}, missed |-> FALSE, torn |-> FALSE]

-----------------------------------------------------------------------------
(* Buttons: CursorButtonAccumulator, and the mappers that turn its state   *)
(* into motions and keys                                                   *)

\* the last assignment of mBtnOk wins, so that a held ENTER is not read back
ResetButtons(held) == (held \cap MouseButtons) \cup (IF "CENTER" \in held THEN {"OK"} ELSE {})

AccumulateButton(acc, e, mouseOn) ==
  LET button == IF e.code \in OkKeys THEN "OK" ELSE e.code IN
  IF e.type # "KEY" \/ e.code \notin MouseButtons \cup (IF mouseOn THEN OkKeys ELSE {}) THEN acc
  ELSE IF e.value # 0 THEN acc \cup {button} ELSE acc \ {button}

GetButtonState(acc, mouseOn) ==
  (IF "BTN_LEFT" \in acc \/ ("OK" \in acc /\ mouseOn) THEN {"PRIMARY"} ELSE {})
  \cup (IF "BTN_RIGHT" \in acc THEN {"BACK"} ELSE {})
  \cup (IF "BTN_MIDDLE" \in acc THEN {"TERTIARY"} ELSE {})
  \cup (IF "BTN_FORWARD" \in acc THEN {"FORWARD"} ELSE {})

IsPointerDown(state) == state \cap {"PRIMARY", "SECONDARY", "TERTIARY"} # {}

ButtonKeys(state) == {<<"none", b>> : b \in state \cap {"BACK", "FORWARD"}}

\* what one sync tells: key downs, then releases, the motion and presses, then key ups
TellButtons(told, mapper, last, current) ==
  LET released == last \ current
      pressedNow == current \ last
  IN [told EXCEPT !.keys = (@ \cup ButtonKeys(pressedNow)) \ ButtonKeys(released),
                  !.buttons[mapper] = (@ \ released) \cup pressedNow,
                  !.down = IF IsPointerDown(last) = IsPointerDown(current) THEN @
                           ELSE IF IsPointerDown(current) THEN @ \cup {mapper} ELSE @ \ {mapper}]

CursorSync(s) ==
  LET current == GetButtonState(s.r.acc["cursor"], s.mouseOn) IN
  [s EXCEPT !.r.state["cursor"] = current,
            !.r.told = TellButtons(@, "cursor", s.r.state["cursor"], current)]

CursorProcess(s, e) ==
  LET counted == [s EXCEPT !.r.acc["cursor"] = AccumulateButton(@, e, s.mouseOn)] IN
  IF e = REPORT THEN CursorSync(counted) ELSE counted

\* the button state is taken over even when the mode is off and nothing is told
KeyMouseSync(s) ==
  LET current == GetButtonState(s.r.acc["keymouse"], s.mouseOn) IN
  [s EXCEPT !.r.state["keymouse"] = current,
            !.r.told = IF s.mouseOn THEN TellButtons(@, "keymouse", s.r.state["keymouse"], current) ELSE @]

KeyMouseProcess(s, e) ==
  LET counted == [s EXCEPT !.r.acc["keymouse"] = AccumulateButton(@, e, s.mouseOn)] IN
  IF e.type = "KEY" /\ e.code \in OkKeys THEN KeyMouseSync(counted) ELSE counted

-----------------------------------------------------------------------------
(* Keys: KeyboardInputMapper                                               *)

MapKey(scan, usage) == IF usage # 0 THEN "MAPPED_" \o scan ELSE scan

RotateKeyCode(code) == IF turned /\ code = "LEFT" THEN "DOWN" ELSE code

UpdateMetaState(meta, code, down) ==
  CASE code = "SHIFT" -> IF down THEN meta \cup {"SHIFT"} ELSE meta \ {"SHIFT"}
    [] code = "CAPS" /\ ~down -> IF "CAPS" \in meta THEN meta \ {"CAPS"} ELSE meta \cup {"CAPS"}
    [] OTHER -> meta

UpdateMetaStateIfNeeded(r, code, down) ==
  LET meta == UpdateMetaState(r.meta, code, down) IN
  IF meta = r.meta THEN r ELSE [r EXCEPT !.meta = meta, !.led = "CAPS" \in meta]

\* what a code is reported as while the arrows steer the mouse
SteeredKey(code, mouseOn) == IF mouseOn /\ code \in {"LEFT", "DOWN"} THEN "NAVIGATION_" \o code ELSE code

KeyDown(s, scan, usage, quiet) ==
  LET mapped == MapKey(scan, usage)
      known  == scan \in DOMAIN s.r.downs
      code   == IF known THEN s.r.downs[scan] ELSE RotateKeyCode(mapped)
      toggled == IF mapped = "PROFILE" /\ Box THEN ~s.mouseOn ELSE s.mouseOn
      held == UpdateMetaStateIfNeeded([s.r EXCEPT !.downs = (scan :> code) @@ @], code, TRUE)
  IN IF ~known /\ scan \in VirtualKeys /\ quiet THEN [s EXCEPT !.mouseOn = toggled]
     ELSE [s EXCEPT !.mouseOn = toggled,
                    !.r = [held EXCEPT !.told.keys = @ \cup {<<scan, SteeredKey(code, s.mouseOn)>>}]]

\* Mutant: key up with the code the layout gives now
KeyUpMappedAgain(s, scan) ==
  IF scan \notin DOMAIN s.r.downs THEN s
  ELSE LET code == RotateKeyCode(MapKey(scan, 0))
           freed == UpdateMetaStateIfNeeded([s.r EXCEPT !.downs = Restrict(@, DOMAIN @ \ {scan})], code, FALSE)
       IN [s EXCEPT !.r = [freed EXCEPT !.told.keys = @ \ {<<scan, SteeredKey(code, s.mouseOn)>>}]]

KeyUp(s, scan) ==
  IF scan \notin DOMAIN s.r.downs THEN s
  ELSE LET code == s.r.downs[scan]
           freed == UpdateMetaStateIfNeeded([s.r EXCEPT !.downs = Restrict(@, DOMAIN @ \ {scan})], code, FALSE)
       IN [s EXCEPT !.r = [freed EXCEPT !.told.keys = @ \ {<<scan, SteeredKey(code, s.mouseOn)>>}]]

\* a key or gamepad button, not a mouse button
IsKeyboardOrGamepadKey(code) == code \notin MouseButtons

KeyboardProcess(s, e, quiet) ==
  LET taken == [s EXCEPT !.r.usage = 0] IN
  CASE e.type = "KEY" /\ IsKeyboardOrGamepadKey(e.code) ->
         IF e.value # 0 THEN KeyDown(taken, e.code, s.r.usage, quiet) ELSE KeyUp(taken, e.code)
    [] e.type = "KEY" \/ e = REPORT -> taken
    [] e.type = "MSC" -> [s EXCEPT !.r.usage = e.value]
    [] OTHER -> s

KeyboardReset(r) == [r EXCEPT !.meta = {}, !.downs = <<>>, !.usage = 0, !.led = FALSE]

-----------------------------------------------------------------------------
(* Switches and joysticks                                                  *)

SwitchProcess(s, e) ==
  CASE e.type = "SW" ->
         [s EXCEPT !.r.switches = IF e.value # 0 THEN @ \cup {e.code} ELSE @ \ {e.code},
                   !.r.updated = @ \cup {e.code}]
    [] e = REPORT ->
         [s EXCEPT !.r.toldSwitches = (@ \ s.r.updated) \cup (s.r.switches \cap s.r.updated),
                   !.r.updated = {}]
    [] OTHER -> s

Distance(a, b) == IF a < b THEN b - a ELSE a - b

HasMovedNearer(filter, new, current, threshold) ==
  Distance(new, threshold) < filter /\ Distance(new, threshold) < Distance(current, threshold)

HasValueChangedSignificantly(filter, new, current, min, max) ==
  /\ new # current
  /\ \/ Distance(new, current) > filter
     \/ \E threshold \in {min, max, 0} : HasMovedNearer(filter, new, current, threshold)

\* the range of a scaled value; a split axis has two values from 0 up
AxisMin == IF Axis.mode = "split" THEN 0 ELSE Axis.min
AxisMax == IF Axis.mode = "split" THEN Axis.max - Axis.split ELSE Axis.max

\* a raw value as the pair of the axis and, for a split axis, its high axis
Scale(raw) ==
  CASE Axis.mode = "invert" -> <<(Axis.max - raw) + Axis.min, 0>>
    [] Axis.mode = "split" /\ raw < Axis.split -> <<Axis.split - raw, 0>>
    [] Axis.mode = "split" -> <<0, raw - Axis.split>>
    [] OTHER -> <<raw, 0>>

FilterAxes(r) ==
  LET significant(i) == /\ i = 1 \/ Axis.mode = "split"
                        /\ HasValueChangedSignificantly(Axis.filter, r.axisNew[i], r.axisNow[i], AxisMin, AxisMax)
      now == [i \in 1..2 |-> IF significant(i) THEN r.axisNew[i] ELSE r.axisNow[i]]
  IN IF \E i \in 1..2 : significant(i) THEN [r EXCEPT !.axisNow = now, !.told.axis = now] ELSE r

JoystickProcess(s, e) ==
  CASE e.type = "ABS" -> [s EXCEPT !.r.axisNew = Scale(e.value)]
    [] e = REPORT -> [s EXCEPT !.r = FilterAxes(@)]
    [] OTHER -> s

-----------------------------------------------------------------------------
(* The device: InputDevice                                                 *)

NotifyReset(r) == [r EXCEPT !.told = NothingTold]

\* held: what EVIOCGKEY reads, the keys now, not those of the events still in the buffer
ResetDevice(d, r, held) ==
  LET pointers == {"cursor", "keymouse"} \cap setup[d]
      keys     == IF "keyboard" \in setup[d] THEN KeyboardReset(r) ELSE r
      buttons  == [keys EXCEPT !.state = [m \in DOMAIN @ |-> {}],
                               !.acc = [m \in DOMAIN @ |-> IF m \in pointers THEN ResetButtons(held) ELSE {}]]
  IN NotifyReset([buttons EXCEPT !.axisNew = <<0, 0>>, !.axisNow = <<0, 0>>,
                                 !.missed = r.drop, !.torn = FALSE])

UpdateGlobalMetaState(there) == globalMeta' = UNION {dev'[d].meta : d \in there}

\* every mapper of the device gets the event, in the order they were added
Mappers(d, s0, e, quiet) ==
  LET on(mapper, before, after) == IF mapper \in setup[d] THEN after ELSE before
      s1 == on("switch", s0, SwitchProcess(s0, e))
      s2 == on("keyboard", s1, KeyboardProcess(s1, e, quiet))
      s3 == on("cursor", s2, CursorProcess(s2, e))
      s4 == on("keymouse", s3, KeyMouseProcess(s3, e))
  IN on("joystick", s4, JoystickProcess(s4, e))

\* what the switch of the mouse mode tears
HoldsSomething(r) ==
  \/ r.told.keys # {} \/ DOMAIN r.downs # {} \/ r.told.down # {}
  \/ \E m \in DOMAIN r.acc : r.told.buttons[m] # {} \/ r.state[m] # {} \/ "OK" \in r.acc[m]
Torn(r, before, mouseOn) == [r EXCEPT !.torn = @ \/ (mouseOn # keyMouse /\ HoldsSomething(before))]

\* SYN_DROPPED resets the device and what follows is dropped up to the next report
Process(d, quiet) ==
  LET e == Head(buffer[d])
      s == Mappers(d, [r |-> dev[d], mouseOn |-> keyMouse], e, quiet)
  IN /\ d \in devices /\ buffer[d] # <<>>
     /\ buffer' = [buffer EXCEPT ![d] = Tail(@)]
     /\ CASE dev[d].drop ->
               /\ dev' = [dev EXCEPT ![d].drop = (e # REPORT), ![d].missed = @ \/ e = DROPPED]
               /\ UNCHANGED <<keyMouse, globalMeta>>
          [] ~dev[d].drop /\ e = DROPPED ->
               /\ dev' = [dev EXCEPT ![d] = [ResetDevice(d, @, pressed[d]) EXCEPT !.drop = TRUE]]
               /\ UpdateGlobalMetaState(devices)
               /\ UNCHANGED keyMouse
          [] OTHER ->
               /\ dev' = [x \in Devices |-> Torn(IF x = d THEN s.r ELSE dev[x], dev[x], s.mouseOn)]
               /\ keyMouse' = s.mouseOn
               /\ IF s.r.meta # dev[d].meta THEN UpdateGlobalMetaState(devices) ELSE UNCHANGED globalMeta
     /\ UNCHANGED <<setup, devices, disabled, turned, pressed>>

ProcessEvent == \E d \in Devices, quiet \in IF VirtualKeys = {} THEN {FALSE} ELSE BOOLEAN : Process(d, quiet)

-----------------------------------------------------------------------------
(* Settings and devices that change: InputReader                           *)

\* a device that is disabled in the configuration is reset with its descriptor closed
AddDevice(d) ==
  /\ d \notin devices /\ setup[d] # {}
  /\ devices' = devices \cup {d}
  /\ dev' = [dev EXCEPT ![d] = ResetDevice(d, @, IF d \in disabled THEN {} ELSE pressed[d])]
  /\ UpdateGlobalMetaState(devices')
  /\ UNCHANGED <<setup, disabled, turned, keyMouse, pressed, buffer>>

\* the node is gone: its keys are no longer read, its buffer is lost
RemoveDevice(d) ==
  /\ d \in devices
  /\ devices' = devices \ {d}
  /\ dev' = [dev EXCEPT ![d] = [Fresh EXCEPT !.toldSwitches = dev[d].toldSwitches]]
  /\ UpdateGlobalMetaState(devices')
  /\ buffer' = [buffer EXCEPT ![d] = <<>>]
  /\ pressed' = [pressed EXCEPT ![d] = {}]
  /\ UNCHANGED <<setup, disabled, turned, keyMouse>>

\* CHANGE_ENABLED_STATE: the hub closes the descriptor after the reset, or opens it before
SetEnabled(d) ==
  /\ d \in devices
  /\ disabled' = IF d \in disabled THEN disabled \ {d} ELSE disabled \cup {d}
  /\ dev' = [dev EXCEPT ![d] = ResetDevice(d, @, pressed[d])]
  /\ UpdateGlobalMetaState(devices)
  /\ buffer' = [buffer EXCEPT ![d] = <<>>]
  /\ UNCHANGED <<setup, devices, turned, keyMouse, pressed>>

\* CHANGE_POINTER_CAPTURE: the listener is told of a reset, the buttons stay as they are
ConfigurePointerCapture ==
  /\ dev' = [d \in Devices |-> IF d \in devices /\ "cursor" \in setup[d] THEN NotifyReset(dev[d]) ELSE dev[d]]
  /\ UNCHANGED <<setup, devices, disabled, turned, keyMouse, globalMeta, pressed, buffer>>

\* CHANGE_DISPLAY_INFO: keyboards read the orientation of the internal viewport
ConfigureDisplay ==
  /\ turned' = ~turned
  /\ UNCHANGED <<setup, devices, disabled, keyMouse, globalMeta, pressed, buffer, dev>>

-----------------------------------------------------------------------------
(* The hardware and evdev                                                  *)

\* a packet that does not fit empties the buffer
Emit(d, packet) ==
  LET fits == Len(buffer[d]) + Len(packet) <= MaxBuffer IN
  /\ buffer' = [buffer EXCEPT ![d] = IF d \in disabled THEN <<>>
                                     ELSE IF fits THEN @ \o packet ELSE <<DROPPED>> \o packet]

KeyEvent(c, value) == [type |-> IF c \in Switches THEN "SW" ELSE "KEY", code |-> c, value |-> value]
ScanEvent(usage)   == [type |-> "MSC", code |-> "SCAN", value |-> usage]

Press(d, usage) ==
  \E c \in Codes[d] :
    /\ d \in devices
    /\ usage # 0 => c = "LEFT"
    /\ pressed' = [pressed EXCEPT ![d] = (@ \cup {c}) \ (@ \cap {c})]
    /\ Emit(d, (IF usage # 0 THEN <<ScanEvent(usage)>> ELSE <<>>)
               \o <<KeyEvent(c, IF c \in pressed[d] THEN 0 ELSE 1), REPORT>>)
    /\ UNCHANGED <<setup, devices, disabled, turned, keyMouse, globalMeta, dev>>

\* a held key repeats itself
Repeat(d) ==
  \E c \in pressed[d] \ Switches :
    /\ d \in devices /\ buffer[d] = <<>>
    /\ Emit(d, <<KeyEvent(c, 2), REPORT>>)
    /\ UNCHANGED <<setup, devices, disabled, turned, keyMouse, globalMeta, pressed, dev>>

MoveStick(d) ==
  \E v \in AxisValues :
    /\ d \in devices /\ "joystick" \in setup[d]
    /\ Emit(d, <<[type |-> "ABS", code |-> "X", value |-> v], REPORT>>)
    /\ UNCHANGED <<setup, devices, disabled, turned, keyMouse, globalMeta, pressed, dev>>

-----------------------------------------------------------------------------
Init ==
  /\ setup \in Setups
  /\ devices = {} /\ disabled = {} /\ turned = FALSE /\ keyMouse = FALSE /\ globalMeta = {}
  /\ pressed = [d \in Devices |-> {}]
  /\ buffer = [d \in Devices |-> <<>>]
  /\ dev = [d \in Devices |-> Fresh]

Next ==
  \/ ProcessEvent
  \/ ConfigurePointerCapture \/ ConfigureDisplay
  \/ \E d \in Devices : \/ AddDevice(d) \/ RemoveDevice(d) \/ SetEnabled(d)
                        \/ Press(d, 0) \/ Press(d, 1) \/ Repeat(d) \/ MoveStick(d)

Spec == Init /\ [][Next]_vars

-----------------------------------------------------------------------------
(* Properties                                                              *)

TypeOK ==
  /\ setup \in Setups /\ devices \subseteq Devices /\ disabled \subseteq Devices
  /\ turned \in BOOLEAN /\ keyMouse \in BOOLEAN /\ globalMeta \subseteq {"SHIFT", "CAPS"}
  /\ \A d \in Devices : /\ pressed[d] \subseteq Codes[d] /\ Len(buffer[d]) <= MaxBuffer
                        /\ DOMAIN dev[d].downs \subseteq Codes[d]

\* the reader has taken all the device has sent
AtRest(d) == d \in devices \ disabled /\ buffer[d] = <<>>

\* A key the listener holds down is one the mapper will release, with the scan
\* code and the key code of its press: whatever turns, repeats or is mapped
\* anew in between (mKeyDowns of KeyboardInputMapper::processKey).  The
\* exception is real: an arrow held while the mouse mode is switched is released
\* as another key (2473-2483, 2555-2565).
ReleasedAsPressed ==
  \A d \in devices : ~dev[d].torn =>
    dev[d].told.keys \subseteq {<<k, SteeredKey(dev[d].downs[k], keyMouse)>> : k \in DOMAIN dev[d].downs}
                             \cup ButtonKeys(dev[d].state["cursor"] \cup dev[d].state["keymouse"])

\* When a device's events are all read, every key and button the listener holds
\* down is down on the hardware: also when the buffer overran, a reset read
\* newer keys than the events it was reset for, or the device was disabled
\* while a key was held (InputDevice::process and reset).  Two exceptions are
\* real: a device that still drops and overruns again is not reset for the
\* second overrun, and one that is disabled meanwhile drops the first events
\* after it is enabled (1213-1224); and a switch of the mouse mode while
\* something is held, as above.
NothingStuck ==
  \A d \in devices : AtRest(d) /\ ~dev[d].missed /\ ~dev[d].torn =>
    LET held == GetButtonState(ResetButtons(pressed[d]), keyMouse) IN
    /\ \A key \in dev[d].told.keys : key[1] \in pressed[d] \/ key \in ButtonKeys(held)
    /\ \A m \in {"cursor", "keymouse"} :
         /\ dev[d].told.buttons[m] \subseteq held
         /\ m \in dev[d].told.down => IsPointerDown(held)

\* When a device's events are all read, the mouse buttons the mapper counts are
\* those that are down, those that went down in what the overrun lost included
\* (CursorButtonAccumulator::reset reads them from the hub), unless an overrun
\* was dropped or the device disabled while it dropped.
ButtonsReadBack ==
  \A d \in devices : AtRest(d) /\ ~dev[d].missed /\ "cursor" \in setup[d] =>
    dev[d].acc["cursor"] \cap MouseButtons = pressed[d] \cap MouseButtons

\* The meta state other devices' events carry is that of the keyboards that are
\* there, and each keyboard's caps lock light shows its own: through presses,
\* resets and keyboards unplugged with a modifier held (updateGlobalMetaStateLocked).
MetaCurrent ==
  /\ globalMeta = UNION {dev[d].meta : d \in devices}
  /\ \A d \in devices : dev[d].led = ("CAPS" \in dev[d].meta)

\* The noise filter of a joystick never hides where the stick is: a reported
\* value is off by at most the filter, and a stick at rest or at an end of its
\* range is reported exactly there (JoystickInputMapper::filterAxes).
AxesSettle ==
  \A d \in devices : "joystick" \in setup[d] /\ buffer[d] = <<>> =>
    \A i \in 1..2 : LET new == dev[d].axisNew[i]
                        now == dev[d].axisNow[i]
                    IN /\ Distance(new, now) <= Axis.filter
                       /\ new \in {AxisMin, 0, AxisMax} => new = now

\* What the listener believes of keys, buttons, modifiers and axes is what the
\* hardware says, through overruns, resets and unplugging (InputReader.cpp
\* 1191-1235, 2440-2620, 7730-7882).
KeysSafe ==
  TypeOK /\ ReleasedAsPressed /\ NothingStuck /\ ButtonsReadBack /\ MetaCurrent /\ AxesSettle
=============================================================================

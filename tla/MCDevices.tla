----------------------------- MODULE MCDevices ------------------------------
(* The way from raw events to what the listener is told, and the policy that  *)
(* configures it, in parts that share nothing; a behaviour picks one, the     *)
(* others stand still.                                                        *)
(*   touch: a line of places, the key HOME beside the display and two places  *)
(*          on it; devices of every protocol                                  *)
(*   keys:  a mouse with a key, two keyboards with a modifier each, a joystick*)
(*          with a switch, a remote control that moves the mouse              *)
(*   pad:   three fingers: enough for every mode of the gestures and for a    *)
(*          finger that follows a lifted one                                  *)
(*   fit:   touch devices of every kind on a panel of 8 by 4, shown whole or  *)
(*          between bars, in every orientation                                *)
(*   policy: two threads of the system server, two displays                   *)
(*   channel: three threads that register and unregister one channel          *)
EXTENDS TouchMapper

VARIABLES
    part,
    setup, devices, disabled, turned, keyMouse, globalMeta, pressed, buffer, dev,
    mode, usage, g, simple, last, armed, shown, mixed, met,
    device, config, deviceMode, viewport, surface, affine, hitBoxes, holds,
    service, locked, controller, pc, pending, reader, mouse, jni, astray, calls,
    registered, callback, disposed, step

MCPlaces == 0..2
MCSurface == {0, 1}
MCKeyAt == [x \in MCPlaces |-> IF x = 2 THEN "HOME" ELSE None]
Device(protocol, near, places, pressures, contacts, size, changed) ==
  [protocol |-> protocol, stylus |-> near, button |-> protocol = "single", places |-> places,
   pressures |-> pressures, contacts |-> contacts, wire |-> size, changes |-> changed]
MCKinds ==
  {Device("slots", FALSE, {0, 1}, {1}, 3, 6, {}),                     \* overruns with frames waiting
   Device("slots", FALSE, {0}, {0, 1}, 2, 3, {"cancel", "display"}),   \* contacts that hover
   Device("slots", FALSE, {0, 2}, {1}, 2, 3, {"cancel", "display"}),   \* a virtual key
   Device("slots", TRUE, {0}, {1}, 3, 5, {"display", "stylus"}),       \* a stylus nearby
   Device("single", FALSE, {0, 2}, {0, 1}, 3, 5, {}),                  \* read back at a reset
   Device("single", TRUE, {0, 2}, {1}, 2, 3, {}),                      \* and a virtual key
   Device("list", FALSE, {0, 1}, {1}, 3, 7, {"cancel", "display"}),    \* no tracking ids
   Device("list", TRUE, {0, 1}, {1}, 2, 7, {})}                        \* and frames that wait

KeyDevices == {"mouse", "kbd", "kbd2", "stick", "remote"}
Unused == [d \in KeyDevices |-> {}]
KeySetups ==
  {[Unused EXCEPT !["mouse"] = {"keyboard", "cursor"}],
   [Unused EXCEPT !["kbd"] = {"keyboard"}, !["kbd2"] = {"keyboard"}],
   [Unused EXCEPT !["stick"] = {"switch", "joystick"}],
   [Unused EXCEPT !["remote"] = {"keyboard", "keymouse"}]}
KeyCodes ==
  [d \in KeyDevices |-> CASE d = "mouse" -> {"LEFT", "BTN_LEFT", "BTN_RIGHT"}
                          [] d = "kbd"   -> {"CAPS"}
                          [] d = "kbd2"  -> {"SHIFT"}
                          [] d = "remote" -> {"PROFILE", "DOWN", "CENTER"}
                          [] OTHER       -> {"LID"}]
Keys == INSTANCE InputDevices WITH
  Devices <- KeyDevices, Setups <- KeySetups, Codes <- KeyCodes,
  Axis <- [mode |-> "split", min |-> -2, max |-> 3, split |-> 0, filter |-> 1],
  AxisValues <- -2..3, VirtualKeys <- {"CAPS"}, Box <- TRUE, MaxBuffer <- 4

Pad == INSTANCE PointerGestures WITH told <- shown, changes <- met, Fingers <- 0..2, MaxChanges <- 2

\* a viewport of the panel that shows its natural rectangle of left..right by top..bottom
Turn(o, w, h, l, t, r, b) ==
  LET V(width, height, left, top, right, bottom, dw, dh) ==
        [orientation |-> o, width |-> width, height |-> height, left |-> left, top |-> top,
         right |-> right, bottom |-> bottom, deviceWidth |-> dw, deviceHeight |-> dh]
  IN  CASE o = 0 -> V(w, h, l, t, r, b, 8, 4)
        [] o = 1 -> V(h, w, t, 8 - r, b, 8 - l, 4, 8)
        [] o = 2 -> V(w, h, 8 - r, 4 - b, 8 - l, 4 - t, 8, 4)
        [] o = 3 -> V(h, w, 4 - b, l, 4 - t, r, 4, 8)
PanelViewports ==
  [internal |-> {Turn(o, 16, 8, 0, 0, 8, 4) : o \in 0..3} \cup {Turn(o, 4, 2, 2, 1, 6, 3) : o \in {0, 1}}
                \cup {Turn(2, 8, 2, 0, 1, 8, 3), Turn(3, 4, 4, 2, 0, 6, 4)},
   external |-> {Turn(o, 8, 4, 0, 0, 8, 4) : o \in {0, 3}}]
Fitted(type, aware, external, port, axes, size, maxTouch, maxTool) ==
  [type |-> type, aware |-> aware, external |-> external, port |-> port, axes |-> axes, size |-> size,
   maxTouchMajor |-> maxTouch, maxToolMajor |-> maxTool, minX |-> 1, maxX |-> 4, minY |-> 0, maxY |-> 1]
FittedDevices ==
  {Fitted("screen", TRUE, FALSE, "none", {"touchMajor"}, "default", 3, 0),
   Fitted("screen", TRUE, TRUE, "none", {"toolMajor"}, "geometric", 3, 3),
   Fitted("screen", FALSE, FALSE, "external", {"touchMajor", "toolMajor"}, "area", 0, 3),
   Fitted("pointer", FALSE, FALSE, "none", {}, "area", 3, 3),
   Fitted("touchpad", FALSE, FALSE, "none", {"toolMajor"}, "none", 3, 0),
   Fitted("navigation", TRUE, FALSE, "none", {"touchMajor", "toolMajor"}, "diameter", 2, 0)}
Fit == INSTANCE TouchSurface WITH
  Devices <- FittedDevices, Viewports <- PanelViewports, mode <- deviceMode,
  VirtualKeys <- {[x |-> 2, y |-> 10, w |-> 4, h |-> 2], [x |-> 7, y |-> 3, w |-> 5, h |-> 4]}

Policy == INSTANCE InputPolicy WITH
  Callers <- {"c1", "c2"}, Displays <- {0, 1}, Settings <- {"capture"}, MaxCalls <- 3

Channels == INSTANCE InputChannels WITH Threads <- 1..3

keyVars == <<setup, devices, disabled, turned, keyMouse, globalMeta, pressed, buffer, dev>>
padVars == <<mode, usage, g, simple, last, armed, shown, mixed, met>>
fitVars == <<device, config, deviceMode, viewport, surface, affine, hitBoxes, holds>>
policyVars == <<service, locked, controller, pc, pending, reader, mouse, jni, astray, calls>>
channelVars == <<registered, callback, disposed, step>>
deviceVars == <<part, vars, keyVars, padVars, fitVars, policyVars, channelVars>>

DevicesInit ==
  /\ part \in {"touch", "keys", "pad", "fit", "policy", "channel"}
  /\ Init /\ Keys!Init /\ Pad!Init /\ Fit!Init /\ Policy!Init /\ Channels!Init
  /\ part # "touch" => kind = CHOOSE k \in Kinds : TRUE
  /\ part # "keys" => setup = CHOOSE s \in KeySetups : TRUE
  /\ part # "fit" => device = CHOOSE d \in FittedDevices : TRUE

DevicesNext ==
  /\ part' = part
  /\ \/ part = "touch" /\ Next /\ UNCHANGED <<keyVars, padVars, fitVars, policyVars, channelVars>>
     \/ part = "keys" /\ Keys!Next /\ UNCHANGED <<vars, padVars, fitVars, policyVars, channelVars>>
     \/ part = "pad" /\ Pad!Next /\ UNCHANGED <<vars, keyVars, fitVars, policyVars, channelVars>>
     \/ part = "fit" /\ Fit!Next /\ UNCHANGED <<vars, keyVars, padVars, policyVars, channelVars>>
     \/ part = "policy" /\ Policy!Next /\ UNCHANGED <<vars, keyVars, padVars, fitVars, channelVars>>
     \/ part = "channel" /\ Channels!Next /\ UNCHANGED <<vars, keyVars, padVars, fitVars, policyVars>>

DevicesSpec == DevicesInit /\ [][DevicesNext]_deviceVars

\* What the listener believes of keys, buttons, modifiers and axes is what the hardware says
\* (InputReader.cpp 1191-1235, 2440-2620, 7730-7882).
KeysSafe == part = "keys" => Keys!KeysSafe
\* No touch, key or frame is stuck, lost or told as another's (InputReaderZizhan.cpp
\* 1782-1930, 4640-5230).
ScreenSafe == part = "touch" => TouchesSafe
\* No pointer of a gesture is left down or shared (InputReaderZizhan.cpp 5580-6560).
GesturesSafe == part = "pad" => Pad!GesturesSafe
\* A touch device that was fitted to its display tells where the finger is, whatever the display
\* did since (InputReader.cpp 3581-4330, 5304-5570).
SurfaceSafe == part = "fit" => Fit!SurfaceSafe
\* The reader's configuration, the pointer and the dispatcher's channels follow the service's
\* calls, in whatever order their threads run (com_android_server_input_InputManagerService.cpp
\* 380-1100, 1456-1534; InputReader.cpp 2707-2791).
PolicyKept == (part = "policy" => Policy!PolicySafe) /\ (part = "channel" => Channels!NoChannelLeft)
\* A contact keeps its id as long as it is down, with tracking ids, or without them and at one
\* place, but for frames that come while a first touch waits for a stylus; a tap follows a touch
\* of one finger alone (InputReaderZizhan.cpp 1822-1930, 4655-4679, 5853-5960).
ContactsKept == TrackedIdsKept /\ StillIdsKept /\ Pad!TapIsSingle
=============================================================================

---------------------------- MODULE TouchSurface ----------------------------
(* How a touch device is fitted to its display: TouchInputMapper::configure    *)
(* and cookPointerData of the first reader (InputReader.cpp 3581-4330,         *)
(* 4347-4485, 5304-5570).  The mapper keeps what it derived from a viewport    *)
(* and derives it again when the viewport or its own mode changes.             *)
(*                                                                             *)
(* Positions are exact: a coordinate stands for itself times the raw width (or *)
(* height), and a raw position for the middle of its cell, times two.  The     *)
(* affine transformation is the identity; which orientation it was asked for   *)
(* is kept.                                                                    *)
EXTENDS Integers, FiniteSets

CONSTANTS
  Devices,   \* touch devices: their parameters, axes and calibration
  Viewports, \* per type, the viewports its display may have
  VirtualKeys \* virtual key definitions: [x, y, w, h] in display coordinates

VARIABLES
  device,
  config,    \* mConfig: a viewport or NoViewport per type, the gestures, the touches shown
  mode,      \* mDeviceMode
  viewport,  \* mViewport
  surface,   \* mSurface*, the scales and translations
  affine,    \* the orientation the affine transformation was asked for
  hitBoxes,  \* mVirtualKeys
  holds      \* mPointerController is set

vars == <<device, config, mode, viewport, surface, affine, hitBoxes, holds>>

NoViewport == [orientation |-> -1, width |-> 0, height |-> 0, left |-> 0, top |-> 0,
               right |-> 0, bottom |-> 0, deviceWidth |-> 0, deviceHeight |-> 0]
NoSurface == [orientation |-> 0, width |-> 0, height |-> 0, left |-> 0, top |-> 0]
Types == {"internal", "external"}

RawWidth(d) == d.maxX - d.minX + 1
RawHeight(d) == d.maxY - d.minY + 1
Quotient(a, b) == IF a < 0 THEN -((-a) \div b) ELSE a \div b    \* a / b of C, b > 0

----------------------------------------------------------------------------
\* The device's parameters and calibration.

\* configureParameters: whether the device belongs to a display
HasAssociatedDisplay(d) == d.aware \/ d.type \in {"screen", "pointer"} \/ d.port # "none"

\* parseCalibration and resolveCalibration of the size: what is declared counts if there is an axis.
SizeCalibration(d) ==
  IF {"touchMajor", "toolMajor"} \cap d.axes = {} THEN "none"
  ELSE IF d.size = "default" THEN "geometric" ELSE d.size

\* configureSurface: the axis whose maximum is size 1
ScaleAxis(d) ==
  CASE SizeCalibration(d) = "none"                            -> "none"
    [] "touchMajor" \in d.axes /\ d.maxTouchMajor # 0          -> "touchMajor"
    [] "toolMajor" \in d.axes /\ d.maxToolMajor # 0            -> "toolMajor"
    [] OTHER                                                  -> "none"

\* cookPointerData: the axis the size is read from; "assert" is where the code asserts
SizeAxis(d) ==
  CASE SizeCalibration(d) = "none"  -> "none"
    [] "touchMajor" \in d.axes      -> "touchMajor"
    [] "toolMajor" \in d.axes       -> "toolMajor"
    [] OTHER                        -> "assert"

----------------------------------------------------------------------------
\* The surface.

\* The viewport of a device without a display: setNonDisplayViewport
RawViewport(d) ==
  [orientation |-> 0, width |-> RawWidth(d), height |-> RawHeight(d), left |-> 0, top |-> 0,
   right |-> RawWidth(d), bottom |-> RawHeight(d),
   deviceWidth |-> RawWidth(d), deviceHeight |-> RawHeight(d)]

\* findViewport.  A port is looked up alone; an external display is replaced by the internal one.
FindViewport(d, c) ==
  IF ~HasAssociatedDisplay(d) THEN RawViewport(d)
  ELSE IF d.port # "none" THEN c.viewports[d.port]
  ELSE IF d.type = "screen" /\ d.external /\ c.viewports["external"] # NoViewport
       THEN c.viewports["external"]
  ELSE c.viewports["internal"]

DeviceMode(d, c) ==
  CASE d.type = "pointer" /\ c.gestures             -> "pointer"
    [] d.type = "screen" /\ HasAssociatedDisplay(d)  -> "direct"
    [] d.type = "navigation"                        -> "navigation"
    [] OTHER                                        -> "unscaled"

Turned(v) == v.orientation \in {1, 3}

\* The viewport in the display's natural orientation, as configureSurface turns it back.
Natural(v) ==
  LET physicalWidth == IF Turned(v) THEN v.bottom - v.top ELSE v.right - v.left
      physicalHeight == IF Turned(v) THEN v.right - v.left ELSE v.bottom - v.top
  IN  [logicalWidth |-> IF Turned(v) THEN v.height ELSE v.width,
       logicalHeight |-> IF Turned(v) THEN v.width ELSE v.height,
       width |-> IF physicalWidth = 0 THEN 1 ELSE physicalWidth,
       height |-> IF physicalHeight = 0 THEN 1 ELSE physicalHeight,
       left |-> CASE v.orientation = 0 -> v.left
                  [] v.orientation = 1 -> v.deviceHeight - v.bottom
                  [] v.orientation = 2 -> v.deviceWidth - v.right
                  [] v.orientation = 3 -> v.top,
       top |-> CASE v.orientation = 0 -> v.top
                 [] v.orientation = 1 -> v.left
                 [] v.orientation = 2 -> v.deviceHeight - v.bottom
                 [] v.orientation = 3 -> v.deviceWidth - v.right,
       deviceWidth |-> IF Turned(v) THEN v.deviceHeight ELSE v.deviceWidth,
       deviceHeight |-> IF Turned(v) THEN v.deviceWidth ELSE v.deviceHeight]

SurfaceFor(d, m, v) ==
  LET n == Natural(v) IN
  IF m \in {"direct", "pointer"}
  THEN [orientation |-> IF d.aware THEN v.orientation ELSE 0,
        width |-> Quotient(n.logicalWidth * n.deviceWidth, n.width),
        height |-> Quotient(n.logicalHeight * n.deviceHeight, n.height),
        left |-> Quotient(n.left * n.logicalWidth, n.width),
        top |-> Quotient(n.top * n.logicalHeight, n.height)]
  ELSE [NoSurface EXCEPT !.width = RawWidth(d), !.height = RawHeight(d)]

\* configureVirtualKeys: a key's place on the display as a box of raw positions
HitBox(d, s, key) ==
  LET across(x) == Quotient(x * RawWidth(d), s.width) + d.minX
      down(y) == Quotient(y * RawHeight(d), s.height) + d.minY
  IN  [left |-> across(key.x - Quotient(key.w, 2)), right |-> across(key.x + Quotient(key.w, 2)),
       top |-> down(key.y - Quotient(key.h, 2)), bottom |-> down(key.y + Quotient(key.h, 2))]

\* Mutant: a new viewport of a display of the same size changes nothing.
SameViewport(old, new) == old.width = new.width /\ old.height = new.height

Unchanged(old, new) == old = new

\* configureSurface.  Without a viewport the device is inoperable and keeps what it had.
ConfigureSurface(c) ==
  LET wanted == DeviceMode(device, c)
      new == FindViewport(device, c)
      changed == ~Unchanged(viewport, new)
      fitted == IF changed THEN SurfaceFor(device, wanted, new) ELSE surface
      points == wanted = "pointer" \/ (wanted = "direct" /\ c.showTouches)
  IN  IF new = NoViewport
      THEN mode' = "disabled" /\ UNCHANGED <<viewport, surface, affine, hitBoxes, holds>>
      ELSE /\ mode' = wanted /\ viewport' = new /\ surface' = fitted
           /\ holds' = points
           /\ affine' = IF changed \/ wanted # mode THEN fitted.orientation ELSE affine
           /\ hitBoxes' = IF changed \/ wanted # mode
                          THEN {[key |-> k, box |-> HitBox(device, fitted, k)] : k \in VirtualKeys}
                          ELSE hitBoxes

----------------------------------------------------------------------------
\* cookPointerData: where the middle of the raw cell <<x, y>> is on the display.  With the
\* orientations 180 and 270 the code leaves out the translation of X.

Cooked(d, s, x, y) ==
  LET fromLeft == (2 * (x - d.minX) + 1) * s.width
      fromRight == (2 * (d.maxX - x) + 1) * s.width
      fromTop == (2 * (y - d.minY) + 1) * s.height
      fromBottom == (2 * (d.maxY - y) + 1) * s.height
      left == 2 * s.left * RawWidth(d)
      top == 2 * s.top * RawHeight(d)
  IN  CASE s.orientation = 0 -> [x |-> fromLeft - left, y |-> fromTop - top]
        [] s.orientation = 1 -> [x |-> fromTop - top, y |-> fromRight - left]
        [] s.orientation = 2 -> [x |-> fromRight, y |-> fromBottom - top]
        [] s.orientation = 3 -> [x |-> fromBottom, y |-> fromLeft - left]

\* isHit
IsHit(box, x, y) == box.left <= x /\ x <= box.right /\ box.top <= y /\ y <= box.bottom

----------------------------------------------------------------------------
Configurations ==
  [viewports : [internal : Viewports["internal"] \cup {NoViewport},
                external : Viewports["external"] \cup {NoViewport}],
   gestures : BOOLEAN, showTouches : BOOLEAN]

\* configure for the first time, before any display is known
Init ==
  /\ device \in Devices
  /\ config = [viewports |-> [t \in Types |-> NoViewport], gestures |-> TRUE, showTouches |-> FALSE]
  /\ LET v == FindViewport(device, config)
         m == IF v = NoViewport THEN "disabled" ELSE DeviceMode(device, config)
         s == IF v = NoViewport THEN NoSurface ELSE SurfaceFor(device, m, v)
     IN  /\ mode = m /\ viewport = v /\ surface = s /\ affine = s.orientation
         /\ hitBoxes = IF v = NoViewport THEN {}
                       ELSE {[key |-> k, box |-> HitBox(device, s, k)] : k \in VirtualKeys}
         /\ holds = FALSE

\* CHANGE_DISPLAY_INFO, CHANGE_POINTER_GESTURE_ENABLEMENT or CHANGE_SHOW_TOUCHES
Configure ==
  /\ \E t \in Types, v \in Viewports["internal"] \cup Viewports["external"] \cup {NoViewport} :
       \/ v \in Viewports[t] \cup {NoViewport} /\ config' = [config EXCEPT !.viewports[t] = v]
       \/ config' = [config EXCEPT !.gestures = ~@]
       \/ config' = [config EXCEPT !.showTouches = ~@]
  /\ ConfigureSurface(config')
  /\ UNCHANGED device

Next == Configure
Spec == Init /\ [][Next]_vars

----------------------------------------------------------------------------
\* The reference: a viewport shows its natural rectangle of the panel, turned.

Bars(v) == LET n == Natural(v) IN
  [left |-> n.left, right |-> n.deviceWidth - n.left - n.width,
   top |-> n.top, bottom |-> n.deviceHeight - n.top - n.height]

\* what the code's translations stand for: no bar, or bars alike where a side is measured from
Even(v) ==
  LET b == Bars(v) IN
  CASE v.orientation = 0 -> TRUE
    [] v.orientation = 1 -> b.left = b.right
    [] v.orientation = 2 -> b.right = 0 /\ b.top = b.bottom
    [] v.orientation = 3 -> b.bottom = 0

\* where the middle of a cell is on the display, with the same factors
Shown(d, v, x, y) ==
  LET n == Natural(v)
      across == (2 * (x - d.minX) + 1) * n.deviceWidth - 2 * n.left * RawWidth(d)
      down == (2 * (y - d.minY) + 1) * n.deviceHeight - 2 * n.top * RawHeight(d)
      left == Quotient(across * n.logicalWidth, n.width)
      top == Quotient(down * n.logicalHeight, n.height)
      right == 2 * n.logicalWidth * RawWidth(d) - left
      bottom == 2 * n.logicalHeight * RawHeight(d) - top
  IN  CASE v.orientation = 0 -> [x |-> left, y |-> top]
        [] v.orientation = 1 -> [x |-> top, y |-> right]
        [] v.orientation = 2 -> [x |-> right, y |-> bottom]
        [] v.orientation = 3 -> [x |-> bottom, y |-> left]

Cells == (device.minX .. device.maxX) \X (device.minY .. device.maxY)

\* A finger on a touch screen that turns with its display is told where the display shows it,
\* in every orientation, however often the display was turned, unplugged or replaced before
\* (configureSurface 3845-4269, cookPointerData 5482-5531).
FingerWhereShown ==
  mode = "direct" /\ device.aware /\ Even(viewport) =>
    \A c \in Cells : Cooked(device, surface, c[1], c[2]) = Shown(device, viewport, c[1], c[2])

\* The touch calibration is the one for the orientation the surface has (4198-4199, 4601-4604).
CalibrationFollows == mode # "disabled" => affine = surface.orientation

\* the raw cell whose part of the display a position lies in
InCell(d, s, c, x, y) ==
  LET at == Cooked(d, s, c[1], c[2]) IN
  /\ at.x - s.width <= 2 * x * RawWidth(d) /\ 2 * x * RawWidth(d) < at.x + s.width
  /\ at.y - s.height <= 2 * y * RawHeight(d) /\ 2 * y * RawHeight(d) < at.y + s.height

\* A virtual key is hit by a touch where its middle is shown, on the display it was last fitted
\* to (4310-4328).
KeysAreHit ==
  mode = "direct" /\ viewport.orientation = 0 /\ surface.left = 0 /\ surface.top = 0 =>
    \A h \in hitBoxes, c \in Cells :
      InCell(device, surface, c, h.key.x, h.key.y) => IsHit(h.box, c[1], c[2])

\* The pointer controller is held as long as the mapper uses it: in pointer mode always, for a
\* touch screen while touches are shown (4017-4025).
ControllerHeld ==
  mode # "disabled" => holds = (mode = "pointer" \/ (mode = "direct" /\ config.showTouches))

\* A size is read from the axis it is scaled by, or is always 0; the assertion that a calibrated
\* device has an axis holds (4030-4077, 5327-5402, 4444-4452).
SizeHasAxis ==
  /\ SizeAxis(device) # "assert"
  /\ \/ SizeAxis(device) = ScaleAxis(device)
     \/ SizeAxis(device) = "touchMajor" /\ device.maxTouchMajor = 0
     \/ SizeAxis(device) = "toolMajor" /\ device.maxToolMajor = 0

SurfaceSafe == FingerWhereShown /\ CalibrationFollows /\ KeysAreHit /\ ControllerHeld /\ SizeHasAxis
=============================================================================

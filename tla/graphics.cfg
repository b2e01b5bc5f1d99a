SPECIFICATION GraphicsSpec
CONSTANTS
  Layers = {1, 2}
  Area <- MCArea
  Opaque <- MCOpaque
  Displays = {"internal", "cast"}
  HasId = {"internal"}
  MayHide = FALSE
  Shots = {"shot"}
  MaxFrames = 1
  MaxChanges = 2
INVARIANT PicturesSafe
PROPERTIES CallsReturn ChangesShown WaitersServed
CHECK_DEADLOCK FALSE

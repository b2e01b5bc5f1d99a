SPECIFICATION DevicesSpec
CONSTANTS
  Slots = 2
  Places <- MCPlaces
  Surface <- MCSurface
  KeyAt <- MCKeyAt
  Kinds <- MCKinds
  MaxPending = 3
  MaxChanges = 1
INVARIANTS KeysSafe ScreenSafe GesturesSafe SurfaceSafe PolicyKept
PROPERTY ContactsKept
CHECK_DEADLOCK FALSE

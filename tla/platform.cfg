SPECIFICATION PlatformSpec
CONSTANTS
  Tasks = {"t1", "t2", "t3"}
  Walkers = {"w", "v"}
  Files = {"f1", "f2"}
  Roots = {"r1", "r2"}
  Areas <- TaskAreas
  NoLock = "none"
INVARIANTS KernelSafe LocksSafe DisplayStateSafe CanvasSafe DrawingSafe
PROPERTIES AreasKept TakenAsOne
CHECK_DEADLOCK FALSE

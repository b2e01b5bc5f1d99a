SPECIFICATION Spec
CONSTANTS
    p1 = p1
    p2 = p2
    Producers = {p1, p2}
    NumSlots = 3
    MaxAcquired = 1
    Sizes = {1}
    Calls <- TwoDequeuersModes
    ConsumerCalls = {"acquireBuffer"}
    MaxFrames = 2
    MaxConnections = 1
    MaxDequeues = 2
    MayFail = FALSE
    ControlledByApp = FALSE
    ConsumerIsSurfaceFlinger = FALSE
SYMMETRY ClientSymmetry
INVARIANTS SlotsSafe CallbacksInTurn NoSleepBesideSlot
CHECK_DEADLOCK FALSE

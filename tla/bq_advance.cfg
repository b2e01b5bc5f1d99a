SPECIFICATION Spec
CONSTANTS
    p1 = p1
    p2 = p2
    Producers = {p1, p2}
    NumSlots = 3
    MaxAcquired = 1
    Sizes = {1, 2}
    Calls <- Preallocation
    ConsumerCalls = {"acquireBuffer", "setDefaultBufferSize"}
    MaxFrames = 1
    MaxConnections = 1
    MaxDequeues = 2
    MayFail = TRUE
    ControlledByApp = FALSE
    ConsumerIsSurfaceFlinger = FALSE
INVARIANT HeldSlotsDequeued
CHECK_DEADLOCK FALSE

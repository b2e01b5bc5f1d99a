SPECIFICATION Spec
CONSTANTS
    p1 = p1
    p2 = p2
    Producers = {p1, p2}
    NumSlots = 3
    MaxAcquired = 1
    Sizes = {1}
    Calls <- OneDequeuer
    ConsumerCalls = {"acquireBuffer", "disconnect", "binderDied"}
    MaxFrames = 2
    MaxConnections = 2
    MaxDequeues = 2
    MayFail = FALSE
    ControlledByApp = TRUE
    ConsumerIsSurfaceFlinger = FALSE
INVARIANTS QueueSafe HandsSafe
CHECK_DEADLOCK FALSE

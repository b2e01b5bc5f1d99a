SPECIFICATION SoloSpec
CONSTANTS
    Readers = {r1, r2}
    Callers = {c1, c2}
    Nodes = {n1, n2}
    Pids = {p1}
    Buffers = {b1}
    MaxEvents = 2
    ListHead = ListHead
    Null = Null
    Poison = Poison
    Free = Free
SYMMETRY WindowSymmetry
INVARIANTS EventsInHand RegistrationsKept AloneShown WindowSafe
CHECK_DEADLOCK FALSE

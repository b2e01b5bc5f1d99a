--------------------------- MODULE MCBufferQueue ---------------------------
(* Instances of BufferQueue for TLC: the calls each client thread makes.   *)
EXTENDS BufferQueue, TLC

CONSTANTS p1, p2

Frames == {"dequeueBuffer", "requestBuffer", "queueBuffer", "cancelBuffer"}
Links == {"connect", "disconnect"}

\* Two threads of one client make frames.
TwoDequeuers ==
    [p \in {p1, p2} |->
        Frames \cup {"connect", "attachBuffer", "detachBuffer"}]
ClientSymmetry == Permutations({p1, p2})

\* They also change the modes while the other's buffers are in flight.
TwoDequeuersModes ==
    [p \in {p1, p2} |-> TwoDequeuers[p] \cup
        {"setMaxDequeuedBufferCount", "setAsyncMode", "setDequeueTimeout"}]

\* One thread makes the frames; another disconnects, reconnects and takes
\* free buffers away.
OneDequeuer ==
    p1 :> Frames \cup {"attachBuffer", "detachBuffer"}
    @@ p2 :> Links \cup {"detachNextBuffer"}

\* One thread makes the frames; another allocates in advance, or forbids it.
Preallocation ==
    p1 :> Frames \ {"cancelBuffer"}
    @@ p2 :> {"connect", "allocateBuffers", "allowAllocation"}

\* One thread makes the frames; another shares a slot and decides
\* whether frames may be dropped.
SharedMode ==
    p1 :> Frames \ {"cancelBuffer"}
    @@ p2 :> {"connect", "setSharedBufferMode", "setLegacyBufferDrop"}
=============================================================================

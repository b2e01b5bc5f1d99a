-------------------------- MODULE BufferQueueCore --------------------------
(***************************************************************************)
(* BufferQueueCore, BufferState and the buffer item: the data that         *)
(* BufferQueueProducer.cpp keeps in mCore and mSlots.  Their source is not *)
(* in the tree; each operator is what BufferQueueProducer.cpp relies on at *)
(* its call.                                                               *)
(*                                                                         *)
(* The state guarded by mCore->mMutex is one record c, so that the code of *)
(* a lock scope is a composition of operators on it:                       *)
(*   slots        mSlots: the BufferState counters and the buffer          *)
(*   freeSlots    mFreeSlots, slots without a buffer, lowest first         *)
(*   freeBuffers  mFreeBuffers, slots with a buffer, oldest first          *)
(*   active       mActiveBuffers, dequeued, queued or acquired slots       *)
(*   unused       mUnusedSlots, slots beyond the current buffer count      *)
(*   queue        mQueue                                                   *)
(* and the mode and connection fields, under their names in the code.      *)
(***************************************************************************)
EXTENDS Integers, Sequences, FiniteSets, SequencesExt

CONSTANTS
    NumSlots,       \* NUM_BUFFER_SLOTS, and mMaxBufferCount
    MaxAcquired,    \* mMaxAcquiredBufferCount
    Sizes           \* buffer size/format/usage combinations, 0 is no buffer

ASSUME CoreAssumption ==
    /\ NumSlots \in Nat \ {0}
    /\ MaxAcquired \in Nat \ {0}
    /\ Sizes \subseteq Nat \ {0}
    /\ Sizes # {}

Slots == 0 .. NumSlots - 1
INVALID == -1
NoBuffer == 0

\* A slot after clearBufferSlotLocked: BufferState.reset() and no buffer.
ClearedSlot == [dequeueCount |-> 0, queueCount |-> 0, acquireCount |-> 0,
                shared |-> FALSE, buffer |-> NoBuffer, requested |-> FALSE,
                frame |-> 0]

IsDequeued(c, s) == c.slots[s].dequeueCount > 0
IsAcquired(c, s) == c.slots[s].acquireCount > 0
IsFree(c, s) ==
    /\ c.slots[s].dequeueCount = 0
    /\ c.slots[s].queueCount = 0
    /\ c.slots[s].acquireCount = 0

FirstFreeSlot(c) == CHOOSE s \in c.freeSlots : \A t \in c.freeSlots : s <= t

\* std::list::remove: q without the elements equal to s.
Without(q, s) ==
    LET f[k \in 0 .. Len(q)] ==
            IF k = 0 THEN <<>>
            ELSE IF q[k] = s THEN f[k - 1] ELSE Append(f[k - 1], q[k])
    IN  f[Len(q)]

\* mFreeSlots.insert(s); clearBufferSlotLocked(s)
FreeSlot(c, s) ==
    [c EXCEPT !.freeSlots = @ \cup {s}, !.slots[s] = ClearedSlot]

\* The slot leaves the active set and its buffer can be dequeued again.
MakeBufferFree(c, s) ==
    [c EXCEPT !.active = @ \ {s}, !.freeBuffers = Append(@, s)]

\* Mutant: a free slot stops being shared in shared mode, too.
RecycleUnshares(c, s) ==
    IF IsFree(c, s)
    THEN MakeBufferFree([c EXCEPT !.slots[s].shared = FALSE], s) ELSE c

\* A shared slot stays active; outside shared mode it stops being shared once
\* it is free.
Recycle(c, s) ==
    LET d == IF ~c.sharedMode /\ IsFree(c, s)
             THEN [c EXCEPT !.slots[s].shared = FALSE] ELSE c
    IN  IF d.slots[s].shared THEN d ELSE MakeBufferFree(d, s)

\* Mutant: the queued items are not marked stale.
FreeAllBuffersKeepsItems(c) ==
    [c EXCEPT !.freeSlots = @ \cup ToSet(c.freeBuffers) \cup c.active,
              !.freeBuffers = <<>>,
              !.active = {},
              !.slots = [s \in Slots |-> ClearedSlot]]

\* freeAllBuffersLocked
FreeAllBuffers(c) ==
    LET gone == c.freeSlots \cup ToSet(c.freeBuffers) \cup c.active IN
    [c EXCEPT !.freeSlots = gone,
              !.freeBuffers = <<>>,
              !.active = {},
              !.slots = [s \in Slots |->
                            IF s \in gone THEN ClearedSlot ELSE c.slots[s]],
              !.queue = [i \in DOMAIN c.queue |->
                            [c.queue[i] EXCEPT !.stale = TRUE]]]

\* getMaxBufferCountLocked
ExtraBuffer(async, cannotBlock) == IF async \/ cannotBlock THEN 1 ELSE 0
BufferCountFor(c, async, cannotBlock) ==
    LET n == MaxAcquired + c.maxDequeued + ExtraBuffer(async, cannotBlock)
    IN  IF n < NumSlots THEN n ELSE NumSlots
MaxBufferCount(c) == BufferCountFor(c, c.async, c.cannotBlock)
MinUndequeued(c) == MaxAcquired + ExtraBuffer(c.async, c.cannotBlock)

\* adjustAvailableSlotsLocked: delta slots leave mUnusedSlots, or go there
\* from the free slots first and the free buffers last; false changes nothing.
CanAdjust(c, delta) ==
    /\ delta <= Len(c.unused)
    /\ -delta <= Cardinality(c.freeSlots) + Len(c.freeBuffers)
UnuseOne(c) ==
    LET s == IF c.freeSlots # {} THEN FirstFreeSlot(c) ELSE Last(c.freeBuffers)
    IN  [c EXCEPT !.freeSlots = @ \ {s},
                  !.freeBuffers = IF c.freeSlots # {} THEN @ ELSE Front(@),
                  !.slots[s] = ClearedSlot,
                  !.unused = Append(@, s)]
UseOne(c) ==
    [c EXCEPT !.freeSlots = @ \cup {Last(c.unused)}, !.unused = Front(@)]
Adjusted(c, delta) ==
    LET f[k \in 0 .. NumSlots] ==
            IF k = 0 THEN c
            ELSE IF delta < 0 THEN UnuseOne(f[k - 1]) ELSE UseOne(f[k - 1])
    IN  f[IF delta < 0 THEN -delta ELSE delta]

DequeuedCount(c) == Cardinality({s \in c.active : IsDequeued(c, s)})
AcquiredCount(c) == Cardinality({s \in c.active : IsAcquired(c, s)})

\* VALIDATE_CONSISTENCY: every slot is in exactly one of the four lists, and
\* the lists agree with the state of the slot.
InLists(c, s) ==
    Cardinality({l \in {"freeSlots", "active"} : s \in c[l]})
    + Cardinality({i \in DOMAIN c.freeBuffers : c.freeBuffers[i] = s})
    + Cardinality({i \in DOMAIN c.unused : c.unused[i] = s})
Consistent(c) ==
    \A s \in Slots :
        /\ InLists(c, s) = 1
        /\ ~IsFree(c, s) => s \in c.active
        /\ s \in c.active /\ IsFree(c, s) => c.slots[s].shared
        /\ s \in c.freeSlots => c.slots[s].buffer = NoBuffer
        /\ s \in ToSet(c.freeBuffers) => c.slots[s].buffer # NoBuffer

InitialCore ==
    LET n == MaxAcquired + 1 IN
    [slots |-> [s \in Slots |-> ClearedSlot],
     freeSlots |-> 0 .. (IF n < NumSlots THEN n ELSE NumSlots) - 1,
     freeBuffers |-> <<>>,
     active |-> {},
     unused |-> [i \in 1 .. (IF n < NumSlots THEN NumSlots - n ELSE 0) |->
                    n + i - 1],
     queue |-> <<>>,
     connected |-> 0,
     abandoned |-> FALSE,
     hasBeenQueued |-> FALSE,
     allocating |-> FALSE,
     waitingForAllocation |-> FALSE,
     allowAllocation |-> TRUE,
     async |-> FALSE,
     cannotBlock |-> FALSE,
     canDrop |-> FALSE,
     legacyDrop |-> TRUE,
     maxDequeued |-> 1,
     timeout |-> -1,
     sharedMode |-> FALSE,
     sharedSlot |-> INVALID,
     defaultSize |-> CHOOSE z \in Sizes : \A y \in Sizes : z <= y]
=============================================================================

------------------------- MODULE BufferQueueProofs -------------------------
(***************************************************************************)
(* Two promises of BufferQueue for any number of producer threads, slots   *)
(* and frames.                                                             *)
(*                                                                         *)
(* The consumer's listener hears of every frame once and in order.         *)
(* CallbackOrder is not inductive: a step of Callback appends the frame of *)
(* the thread whose turn it is, which must be the next one.  TicketInv     *)
(* says why it is: the threads in the callback hold pairwise different     *)
(* tickets between mCurrentCallbackTicket and mNextCallbackTicket, and a   *)
(* thread's frame is the one its ticket was drawn with.                    *)
(*                                                                         *)
(* No thread sleeps on mDequeueCondition beside a slot it could have.      *)
(*                                                                         *)
(* The code does not notify in every lock scope, so a proof must show that *)
(* each of the others leaves a sleeper nothing to have.  WaitInv keeps     *)
(*   - with a sleeper, the queue holds too many buffers or both free lists *)
(*     are empty, and the queue is not abandoned;                          *)
(*   - every list, item and hand holds slots, so that the slot found is    *)
(*     never INVALID, also after adjustAvailableSlotsLocked;               *)
(*   - the modes that Waking fixes.                                        *)
(***************************************************************************)
EXTENDS BufferQueue, NaturalLemmas, SequenceTheorems

-----------------------------------------------------------------------------
(* The callbacks.                                                          *)

Pending(p) == pc[p] = "callback"

TicketInv ==
    /\ pc \in [Producers -> PCs]
    /\ frameCounter \in Nat
    /\ nextTicket = frameCounter
    /\ currentTicket \in 0 .. nextTicket
    /\ ticket \in [Producers -> Nat]
    /\ frame \in [Producers -> Nat]
    /\ \A p \in Producers : Pending(p) =>
            /\ currentTicket <= ticket[p]
            /\ ticket[p] < nextTicket
            /\ frame[p] = ticket[p] + 1
    /\ \A p, q \in Producers :
            Pending(p) /\ Pending(q) /\ p # q => ticket[p] # ticket[q]

\* The inductive invariant.
CallbackInv == TicketInv /\ CallbackOrder /\ TurnHasOwner

\* A step that neither draws a ticket nor makes a callback.
Elsewhere ==
    /\ pc' \in [Producers -> PCs]
    /\ \A p \in Producers : Pending(p)' <=> Pending(p)
    /\ UNCHANGED callbacks

\* At first no frame has been queued and no thread is in the producer.
LEMMA InitCallbackInv == Init => CallbackInv
BY DEF Init, CallbackInv, TicketInv, CallbackOrder, TurnHasOwner, Pending, PCs

\* notify_all wakes sleepers and nobody else.
LEMMA WokenPending ==
    ASSUME NEW l \in PCs
    PROVE  Woken(l) \in PCs /\ (Woken(l) = "callback" <=> l = "callback")
BY DEF Woken, PCs

\* No call but queueBuffer takes a thread to the callback.
LEMMA BeginElsewhere ==
    ASSUME pc \in [Producers -> PCs],
           NEW p \in Producers,
           Begin(p), ~QueueBuffer(p)
    PROVE  Elsewhere
<1>1. CASE RequestBuffer(p)
  BY <1>1, WokenPending
  DEF RequestBuffer, Call, Unlock, UnlockNotify, Elsewhere, Pending, PCs, callbacks
<1>2. CASE SetMaxDequeuedBufferCount(p)
  BY <1>2, WokenPending
  DEF SetMaxDequeuedBufferCount, Call, Unlock, UnlockNotify, Elsewhere, Pending, PCs, callbacks
<1>3. CASE SetAsyncMode(p)
  BY <1>3, WokenPending
  DEF SetAsyncMode, SwitchAsyncMode, Call, Unlock, UnlockNotify, Elsewhere, Pending, PCs, callbacks
<1>4. CASE SetDequeueTimeout(p)
  BY <1>4, WokenPending
  DEF SetDequeueTimeout, Call, Unlock, UnlockNotify, Elsewhere, Pending, PCs, callbacks
<1>5. CASE AllowAllocation(p)
  BY <1>5, WokenPending
  DEF AllowAllocation, Call, Unlock, UnlockNotify, Elsewhere, Pending, PCs, callbacks
<1>6. CASE SetLegacyBufferDrop(p)
  BY <1>6, WokenPending
  DEF SetLegacyBufferDrop, Call, Unlock, UnlockNotify, Elsewhere, Pending, PCs, callbacks
<1>7. CASE SetSharedBufferMode(p)
  BY <1>7, WokenPending
  DEF SetSharedBufferMode, Call, Unlock, UnlockNotify, Elsewhere, Pending, PCs, callbacks
<1>8. CASE DequeueBuffer(p)
  BY <1>8, WokenPending
  DEF DequeueBuffer, Call, Unlock, UnlockNotify, Elsewhere, Pending, PCs, callbacks
<1>9. CASE AttachBuffer(p)
  BY <1>9, WokenPending
  DEF AttachBuffer, Call, Unlock, UnlockNotify, Elsewhere, Pending, PCs, callbacks
<1>10. CASE DetachBuffer(p)
  BY <1>10, WokenPending
  DEF DetachBuffer, Call, Unlock, UnlockNotify, Elsewhere, Pending, PCs, callbacks
<1>11. CASE DetachNextBuffer(p)
  BY <1>11, WokenPending
  DEF DetachNextBuffer, Call, Unlock, UnlockNotify, Elsewhere, Pending, PCs, callbacks
<1>12. CASE CancelBuffer(p)
  BY <1>12, WokenPending
  DEF CancelBuffer, Call, Unlock, UnlockNotify, Elsewhere, Pending, PCs, callbacks
<1>13. CASE QueueBufferBadCrop(p)
  BY <1>13, WokenPending
  DEF QueueBufferBadCrop, Call, Unlock, UnlockNotify, Elsewhere, Pending, PCs, callbacks
<1>14. CASE Connect(p)
  BY <1>14, WokenPending
  DEF Connect, Call, Unlock, UnlockNotify, Elsewhere, Pending, PCs, callbacks
<1>15. CASE Disconnect(p)
  BY <1>15, WokenPending
  DEF Disconnect, DisconnectLocked, Call, Unlock, UnlockNotify, Elsewhere, Pending, PCs, callbacks
<1>16. CASE AllocateBuffers(p)
  BY <1>16, WokenPending
  DEF AllocateBuffers, Call, Unlock, UnlockNotify, Elsewhere, Pending, PCs, callbacks
<1> QED
  BY <1>1, <1>2, <1>3, <1>4, <1>5, <1>6, <1>7, <1>8, <1>9, <1>10, <1>11, <1>12, <1>13, <1>14, <1>15, <1>16 DEF Begin

\* Nor does a thread inside another call get there.
LEMMA ContinueElsewhere ==
    ASSUME pc \in [Producers -> PCs],
           NEW p \in Producers,
           Continue(p) \/ WaitTimesOut(p) \/ SpuriousWakeup(p), ~Callback(p)
    PROVE  Elsewhere
<1>1. CASE WaitForAllocation(p)
  BY <1>1, WokenPending
  DEF WaitForAllocation, Call, Unlock, UnlockNotify, Elsewhere, Pending, PCs, callbacks
<1>2. CASE DequeueRefused(p)
  BY <1>2, WokenPending
  DEF DequeueRefused, Looking, Call, Unlock, UnlockNotify, Elsewhere, Pending, PCs, callbacks
<1>3. CASE DequeueBlocked(p)
  BY <1>3, WokenPending
  DEF DequeueBlocked, AfterNoSlot, Looking, Call, Unlock, UnlockNotify, Elsewhere, Pending, PCs, callbacks
<1>4. CASE DequeueSharedMisfit(p)
  BY <1>4, WokenPending
  DEF DequeueSharedMisfit, Looking, Call, Unlock, UnlockNotify, Elsewhere, Pending, PCs, callbacks
<1>5. CASE DequeueFound(p)
  BY <1>5, WokenPending
  DEF DequeueFound, Looking, Call, Unlock, UnlockNotify, Elsewhere, Pending, PCs, callbacks
<1>6. CASE DequeueAllocated(p)
  BY <1>6, WokenPending
  DEF DequeueAllocated, Call, Unlock, UnlockNotify, Elsewhere, Pending, PCs, callbacks
<1>7. CASE DequeueNotAllocated(p)
  BY <1>7, WokenPending
  DEF DequeueNotAllocated, GiveUpAllocation, Call, Unlock, UnlockNotify, Elsewhere, Pending, PCs, callbacks
<1>8. CASE AttachRefused(p)
  BY <1>8, WokenPending
  DEF AttachRefused, Attaching, Call, Unlock, UnlockNotify, Elsewhere, Pending, PCs, callbacks
<1>9. CASE AttachBlocked(p)
  BY <1>9, WokenPending
  DEF AttachBlocked, AfterNoSlot, Attaching, Call, Unlock, UnlockNotify, Elsewhere, Pending, PCs, callbacks
<1>10. CASE AttachFound(p)
  BY <1>10, WokenPending
  DEF AttachFound, Attaching, Call, Unlock, UnlockNotify, Elsewhere, Pending, PCs, callbacks
<1>11. CASE DetachNextFinish(p)
  BY <1>11, WokenPending
  DEF DetachNextFinish, Call, Unlock, UnlockNotify, Elsewhere, Pending, PCs, callbacks
<1>12. CASE AllocateNext(p)
  BY <1>12, WokenPending
  DEF AllocateNext, Call, Unlock, UnlockNotify, Elsewhere, Pending, PCs, callbacks
<1>13. CASE AllocateFails(p)
  BY <1>13, WokenPending
  DEF AllocateFails, Call, Unlock, UnlockNotify, Elsewhere, Pending, PCs, callbacks
<1>14. CASE AllocateRetries(p)
  BY <1>14, WokenPending
  DEF AllocateRetries, Call, Unlock, UnlockNotify, Elsewhere, Pending, PCs, callbacks
<1>15. CASE AllocateDone(p)
  BY <1>15, WokenPending
  DEF AllocateDone, Call, Unlock, UnlockNotify, Elsewhere, Pending, PCs, callbacks
<1>16. CASE YieldToDequeue(p)
  BY <1>16, WokenPending
  DEF YieldToDequeue, Call, Unlock, UnlockNotify, Elsewhere, Pending, PCs, callbacks
<1>17. CASE WaitTimesOut(p)
  BY <1>17, WokenPending
  DEF WaitTimesOut, Call, Unlock, UnlockNotify, Elsewhere, Pending, PCs, callbacks
<1>18. CASE SpuriousWakeup(p)
  BY <1>18, WokenPending
  DEF SpuriousWakeup, Call, Unlock, UnlockNotify, Elsewhere, Pending, PCs, callbacks
<1> QED
  BY <1>1, <1>2, <1>3, <1>4, <1>5, <1>6, <1>7, <1>8, <1>9, <1>10, <1>11, <1>12, <1>13, <1>14, <1>15, <1>16, <1>17, <1>18
  DEF Continue, DequeueStep, AttachStep, AllocateStep

\* The consumer and the binder only wake sleepers.
LEMMA EnvironmentElsewhere ==
    ASSUME pc \in [Producers -> PCs],
           \/ ObituarySent  \/ BinderDied \/ AcquireBuffer
           \/ ReleaseBuffer \/ Abandon    \/ SetDefaultBufferSize
    PROVE  Elsewhere
<1>1. CASE ObituarySent
  BY <1>1, WokenPending
  DEF ObituarySent, ConsumerNotify, Elsewhere, Pending, PCs, callbacks
<1>2. CASE BinderDied
  BY <1>2, WokenPending
  DEF BinderDied, ConsumerNotify, Elsewhere, Pending, PCs, callbacks
<1>3. CASE AcquireBuffer
  BY <1>3, WokenPending
  DEF AcquireBuffer, ConsumerNotify, Elsewhere, Pending, PCs, callbacks
<1>4. CASE ReleaseBuffer
  BY <1>4, WokenPending
  DEF ReleaseBuffer, ConsumerNotify, Elsewhere, Pending, PCs, callbacks
<1>5. CASE Abandon
  BY <1>5, WokenPending
  DEF Abandon, ConsumerNotify, Elsewhere, Pending, PCs, callbacks
<1>6. CASE SetDefaultBufferSize
  BY <1>6, WokenPending
  DEF SetDefaultBufferSize, ConsumerNotify, Elsewhere, Pending, PCs, callbacks
<1> QED
  BY <1>1, <1>2, <1>3, <1>4, <1>5, <1>6

\* Such a step leaves the invariant alone.
LEMMA ElsewhereKeepsInv ==
    ASSUME CallbackInv, Elsewhere
    PROVE  CallbackInv'
BY DEF CallbackInv, TicketInv, CallbackOrder, TurnHasOwner, Elsewhere, Pending,
       callbacks

\* queueBuffer draws the ticket and the frame number in one lock scope.
LEMMA QueueBufferKeepsInv ==
    ASSUME CallbackInv, NEW p \in Producers, QueueBuffer(p)
    PROVE  CallbackInv'
<1>1. pc[p] = "idle"
  BY DEF QueueBuffer, Call
<1>2. pc' = [q \in Producers |-> IF q = p THEN "callback" ELSE Woken(pc[q])]
  BY DEF QueueBuffer, UnlockNotify
<1>3. /\ pc' \in [Producers -> PCs]
      /\ \A q \in Producers : Pending(q)' <=> q = p \/ Pending(q)
  BY <1>2, WokenPending DEF CallbackInv, TicketInv, Pending, PCs
<1>4. /\ frameCounter' = frameCounter + 1
      /\ nextTicket' = nextTicket + 1
      /\ UNCHANGED <<currentTicket, notified>>
      /\ ticket' = [ticket EXCEPT ![p] = nextTicket]
      /\ frame' = [frame EXCEPT ![p] = frameCounter + 1]
  BY DEF QueueBuffer
<1>5. CallbackOrder'
  BY <1>4 DEF CallbackInv, CallbackOrder
<1>6. \A q \in Producers : q # p /\ Pending(q)' =>
          /\ Pending(q)
          /\ ticket'[q] = ticket[q] /\ frame'[q] = frame[q]
          /\ ticket[q] < nextTicket
  BY <1>3, <1>4 DEF CallbackInv, TicketInv
<1>7. ticket'[p] = nextTicket /\ frame'[p] = nextTicket + 1
  BY <1>4 DEF CallbackInv, TicketInv
<1>8. TurnHasOwner'
  <2> SUFFICES ASSUME NEW t \in currentTicket .. nextTicket
               PROVE  \E q \in Producers : Pending(q)' /\ ticket'[q] = t
    BY <1>4 DEF CallbackInv, TicketInv, TurnHasOwner, Pending
  <2>1. CASE t = nextTicket
    BY <1>3, <1>7, <2>1
  <2>2. CASE t # nextTicket
    <3>1. PICK q \in Producers : Pending(q) /\ ticket[q] = t
      BY <2>2 DEF CallbackInv, TicketInv, TurnHasOwner, Pending
    <3>2. q # p
      BY <1>1, <3>1 DEF Pending
    <3> QED
      BY <1>3, <1>6, <3>1, <3>2
  <2> QED
    BY <2>1, <2>2
<1> QED
  BY <1>3, <1>4, <1>5, <1>6, <1>7, <1>8 DEF CallbackInv, TicketInv

\* The callback of the thread whose turn it is announces the next frame.
LEMMA CallbackKeepsInv ==
    ASSUME CallbackInv, NEW p \in Producers, Callback(p)
    PROVE  CallbackInv'
<1>1. /\ Pending(p)
      /\ ticket[p] = currentTicket
      /\ notified' = Append(notified, frame[p])
      /\ currentTicket' = currentTicket + 1
      /\ UNCHANGED <<frameCounter, nextTicket>>
      /\ ticket' = [ticket EXCEPT ![p] = 0]
      /\ frame' = [frame EXCEPT ![p] = 0]
      /\ pc' = [pc EXCEPT ![p] = "idle"]
  BY DEF Callback, Notify, Unlock, Pending
<1>2. frame[p] = currentTicket + 1
  BY <1>1 DEF CallbackInv, TicketInv
<1>3. CallbackOrder'
  <2>1. notified = [i \in 1 .. currentTicket |-> i] /\ currentTicket \in Nat
    BY DEF CallbackInv, TicketInv, CallbackOrder
  <2>2. Len(notified) = currentTicket
    BY <2>1
  <2>3. notified' = [i \in 1 .. currentTicket + 1 |->
                        IF i = currentTicket + 1 THEN currentTicket + 1 ELSE i]
    BY <1>1, <1>2, <2>1, <2>2
  <2> QED
    BY <1>1, <2>1, <2>3 DEF CallbackOrder
<1>4. \A q \in Producers : Pending(q)' => q # p /\ Pending(q)
  BY <1>1 DEF CallbackInv, TicketInv, Pending
<1>5. \A q \in Producers : Pending(q)' =>
          /\ ticket'[q] = ticket[q] /\ frame'[q] = frame[q]
          /\ ticket[q] # currentTicket
  BY <1>1, <1>4 DEF CallbackInv, TicketInv
<1>6. pc' \in [Producers -> PCs]
  BY <1>1 DEF CallbackInv, TicketInv, PCs
<1>7. currentTicket < nextTicket
  BY <1>1 DEF CallbackInv, TicketInv
<1>8. TurnHasOwner'
  <2> SUFFICES ASSUME NEW t \in currentTicket + 1 .. nextTicket - 1
               PROVE  \E q \in Producers : Pending(q)' /\ ticket'[q] = t
    BY <1>1 DEF TurnHasOwner, Pending
  <2>1. PICK q \in Producers : Pending(q) /\ ticket[q] = t
    BY DEF CallbackInv, TicketInv, TurnHasOwner, Pending
  <2>2. q # p
    BY <1>1, <2>1 DEF CallbackInv, TicketInv
  <2> QED
    BY <1>1, <2>1, <2>2 DEF CallbackInv, TicketInv, Pending
<1> QED
  BY <1>1, <1>3, <1>4, <1>5, <1>6, <1>7, <1>8 DEF CallbackInv, TicketInv

\* Every step of any thread, the consumer or the binder.
LEMMA NextKeepsInv == CallbackInv /\ [Next]_vars => CallbackInv'
<1> SUFFICES ASSUME CallbackInv, [Next]_vars
             PROVE  CallbackInv'
  OBVIOUS
<1>1. pc \in [Producers -> PCs]
  BY DEF CallbackInv, TicketInv
<1>2. ASSUME NEW p \in Producers, Begin(p)
      PROVE  CallbackInv'
  BY <1>1, <1>2, BeginElsewhere, ElsewhereKeepsInv, QueueBufferKeepsInv
<1>3. ASSUME NEW p \in Producers,
             Continue(p) \/ WaitTimesOut(p) \/ SpuriousWakeup(p)
      PROVE  CallbackInv'
  BY <1>1, <1>3, ContinueElsewhere, ElsewhereKeepsInv, CallbackKeepsInv
<1>4. CASE \/ ObituarySent  \/ BinderDied \/ AcquireBuffer
           \/ ReleaseBuffer \/ Abandon    \/ SetDefaultBufferSize
  BY <1>1, <1>4, EnvironmentElsewhere, ElsewhereKeepsInv
<1>5. CASE UNCHANGED vars
  BY <1>1, <1>5, ElsewhereKeepsInv DEF vars, Elsewhere, Pending
<1> QED
  BY <1>2, <1>3, <1>4, <1>5 DEF Next

\* The consumer's listener hears of the frames in the order they were queued and of each
\* once, whichever of any number of threads queued it; no ticket between the two counters is
\* lost, so whichever thread has to call the listener next is there to do it
\* (BufferQueueProducer.cpp 1018-1041).
THEOREM CallbacksAlwaysInTurn == Spec => []CallbacksInTurn
<1>1. CallbackInv => CallbacksInTurn
  BY DEF CallbackInv, CallbacksInTurn
<1> QED
  BY InitCallbackInv, NextKeepsInv, <1>1, PTL DEF Spec

-----------------------------------------------------------------------------
(* The sleepers.                                                           *)

(***************************************************************************)
(* Where the promise is made: the consumer is not the application itself,  *)
(* allocations succeed, and nobody calls allowAllocation or                *)
(* setSharedBufferMode, the setters that change what a sleeper could have  *)
(* without waking it (so does a failed allocation).                        *)
(***************************************************************************)
Waking ==
    /\ ~ControlledByApp
    /\ ~MayFail
    /\ \A p \in Producers :
          Calls[p] \cap {"allowAllocation", "setSharedBufferMode"} = {}

Asleep == {"wait_slot", "timed_wait", "attach_wait", "attach_timed_wait"}

Fields ==
    {"slots", "freeSlots", "freeBuffers", "active", "unused", "queue",
     "connected", "abandoned", "hasBeenQueued", "allocating",
     "waitingForAllocation", "allowAllocation", "async", "cannotBlock",
     "canDrop", "legacyDrop", "maxDequeued", "timeout", "sharedMode",
     "sharedSlot", "defaultSize"}
QueueItems == [slot : Slots, frame : Nat, droppable : BOOLEAN, stale : BOOLEAN]

\* Every list holds slots.
ListsOK(c) ==
    /\ DOMAIN c = Fields
    /\ c.freeSlots \subseteq Slots
    /\ c.active \subseteq Slots
    /\ c.freeBuffers \in Seq(Slots)
    /\ c.unused \in Seq(Slots)
    /\ c.queue \in Seq(QueueItems)

\* The modes are those of a queue that waits.
ModesOK(c) ==
    /\ c.allowAllocation
    /\ ~c.sharedMode
    /\ c.sharedSlot = INVALID
    /\ ~c.cannotBlock
    /\ c.async \in BOOLEAN
    /\ c.maxDequeued \in 1 .. NumSlots

\* A waiter cannot have a slot.
Nothing(c) ==
    TooManyBuffers(c) \/ (c.freeBuffers = <<>> /\ c.freeSlots = {})

\* The same modes, and the same queue.
SameModes(c, d) ==
    /\ d.allowAllocation <=> c.allowAllocation
    /\ d.sharedMode <=> c.sharedMode
    /\ d.sharedSlot = c.sharedSlot
    /\ d.cannotBlock <=> c.cannotBlock
    /\ d.async = c.async
    /\ d.maxDequeued = c.maxDequeued
    /\ d.abandoned <=> c.abandoned
Same(c, d) == SameModes(c, d) /\ d.queue = c.queue

HandsOK ==
    /\ pc \in [Producers -> PCs]
    /\ held \in [Producers -> SUBSET Slots]
    /\ found \in [Producers -> Slots \cup {INVALID}]
    /\ \A p \in Producers : pc[p] = "allocate" => found[p] \in Slots
    /\ acquired \subseteq Slots \X Nat
    /\ frameCounter \in Nat

SleepersOK ==
    \A p \in Producers : pc[p] \in Asleep => Nothing(core) /\ ~core.abandoned

WaitInv == ListsOK(core) /\ ModesOK(core) /\ HandsOK /\ SleepersOK

-----------------------------------------------------------------------------
(* The operators on the core.                                              *)

LEMMA InvalidIsNoSlot == INVALID \notin Slots /\ Slots \subseteq Nat
BY CoreAssumption DEF INVALID, Slots

LEMMA FirstFreeSlotIsFree ==
    ASSUME NEW c, c.freeSlots \subseteq Slots, c.freeSlots # {}
    PROVE  FirstFreeSlot(c) \in c.freeSlots
<1>1. \E s \in c.freeSlots : \A t \in c.freeSlots : s <= t
  BY InvalidIsNoSlot, LeastNatural
<1> QED
  BY <1>1 DEF FirstFreeSlot

LEMMA NothingStays ==
    ASSUME NEW c, NEW d, Same(c, d),
           c.freeSlots = {} => d.freeSlots = {},
           c.freeBuffers = <<>> => d.freeBuffers = <<>>
    PROVE  Nothing(c) => Nothing(d)
BY DEF Nothing, TooManyBuffers, MaxBufferCount, BufferCountFor, ExtraBuffer,
       Same, SameModes

LEMMA FreeSlotLists ==
    ASSUME NEW c, ListsOK(c), NEW s \in Slots
    PROVE  ListsOK(FreeSlot(c, s)) /\ Same(c, FreeSlot(c, s))
BY DEF ListsOK, FreeSlot, Same, SameModes, Fields

LEMMA RecycleLists ==
    ASSUME NEW c, ListsOK(c), NEW s \in Slots
    PROVE  ListsOK(Recycle(c, s)) /\ Same(c, Recycle(c, s))
<1> DEFINE d == IF ~c.sharedMode /\ IsFree(c, s)
                THEN [c EXCEPT !.slots[s].shared = FALSE] ELSE c
<1>1. ListsOK(d) /\ Same(c, d)
  BY DEF ListsOK, Same, SameModes, Fields
<1>2. Recycle(c, s) = IF d.slots[s].shared THEN d ELSE MakeBufferFree(d, s)
  BY DEF Recycle
<1> HIDE DEF d
<1>3. ListsOK(MakeBufferFree(d, s)) /\ Same(d, MakeBufferFree(d, s))
  BY <1>1 DEF ListsOK, MakeBufferFree, Same, SameModes, Fields
<1> QED
  BY <1>1, <1>2, <1>3 DEF Same, SameModes

LEMMA FreeAllBuffersLists ==
    ASSUME NEW c, ListsOK(c)
    PROVE  ListsOK(FreeAllBuffers(c)) /\ SameModes(c, FreeAllBuffers(c))
<1> DEFINE gone == c.freeSlots \cup ToSet(c.freeBuffers) \cup c.active
           q == [i \in DOMAIN c.queue |-> [c.queue[i] EXCEPT !.stale = TRUE]]
<1>1. gone \subseteq Slots
  BY DEF ListsOK, ToSet
<1>2. q \in Seq(QueueItems)
  <2>1. c.queue \in Seq(QueueItems) /\ DOMAIN c.queue = 1 .. Len(c.queue)
    BY DEF ListsOK
  <2>2. \A x \in QueueItems : [x EXCEPT !.stale = TRUE] \in QueueItems
    BY DEF QueueItems
  <2>3. \A i \in 1 .. Len(c.queue) : c.queue[i] \in QueueItems
    BY <2>1
  <2> QED
    BY <2>1, <2>2, <2>3
<1>3. FreeAllBuffers(c) =
          [c EXCEPT !.freeSlots = gone, !.freeBuffers = <<>>, !.active = {},
                    !.slots = [s \in Slots |-> IF s \in gone THEN ClearedSlot ELSE c.slots[s]],
                    !.queue = q]
  BY DEF FreeAllBuffers
<1> HIDE DEF gone, q
<1> QED
  BY <1>1, <1>2, <1>3 DEF ListsOK, SameModes, Fields

\* The value of Without is the last one of a sequence of lists, each made from
\* the one before.
LEMMA WithoutSteps ==
    ASSUME NEW S, NEW q \in Seq(S), NEW s
    PROVE  \E f : /\ Without(q, s) = f[Len(q)]
                  /\ f[0] = <<>>
                  /\ \A k \in 1 .. Len(q) :
                        f[k] = IF q[k] = s THEN f[k - 1] ELSE Append(f[k - 1], q[k])
<1> DEFINE Grown(n, g) ==
               [k \in 0 .. n |->
                   IF k = 0 THEN <<>>
                   ELSE IF q[k] = s THEN g[k - 1] ELSE Append(g[k - 1], q[k])]
           Reached == {n \in Nat : \E g : g = Grown(n, g)}
           f == CHOOSE g : g = Grown(Len(q), g)
<1>1. Len(q) \in Nat
  OBVIOUS
<1>2. 0 \in Reached
  <2> DEFINE g == [k \in 0 .. 0 |-> <<>>]
  <2>1. g = Grown(0, g)
    OBVIOUS
  <2> QED
    BY <2>1
<1>3. ASSUME NEW n \in Nat, NEW g, g = Grown(n, g)
      PROVE  \E h : h = Grown(n + 1, h)
  <2> DEFINE last == IF q[n + 1] = s THEN g[n] ELSE Append(g[n], q[n + 1])
             h == [k \in 0 .. n + 1 |-> IF k = n + 1 THEN last ELSE g[k]]
  <2>1. \A k \in 0 .. n : g[k] = IF k = 0 THEN <<>>
                   ELSE IF q[k] = s THEN g[k - 1] ELSE Append(g[k - 1], q[k])
    BY <1>3
  <2>2. \A k \in 0 .. n + 1 : h[k] = IF k = 0 THEN <<>>
                   ELSE IF q[k] = s THEN h[k - 1] ELSE Append(h[k - 1], q[k])
    <3> SUFFICES ASSUME NEW k \in 0 .. n + 1
                 PROVE  h[k] = IF k = 0 THEN <<>>
                   ELSE IF q[k] = s THEN h[k - 1] ELSE Append(h[k - 1], q[k])
      OBVIOUS
    <3>1. CASE k = n + 1
      <4>1. k # 0 /\ k - 1 = n /\ n \in 0 .. n + 1 /\ n # n + 1
        BY <3>1
      <4>2. h[k] = last /\ h[n] = g[n]
        BY <3>1, <4>1
      <4> HIDE DEF h
      <4> QED
        BY <3>1, <4>1, <4>2
    <3>2. CASE k # n + 1
      <4>1. k \in 0 .. n /\ (k = 0 \/ k - 1 \in 0 .. n)
        BY <3>2
      <4>2. h[k] = g[k] /\ (k = 0 \/ h[k - 1] = g[k - 1])
        BY <3>2, <4>1
      <4> HIDE DEF h
      <4> QED
        BY <2>1, <4>1, <4>2
    <3> QED
      BY <3>1, <3>2
  <2>3. h = Grown(n + 1, h)
    <3>1. h = [k \in 0 .. n + 1 |-> h[k]]
      OBVIOUS
    <3> HIDE DEF h
    <3> QED
      BY <2>2, <3>1
  <2> QED
    BY <2>3
<1>4. Len(q) \in Reached
  <2> HIDE DEF Grown
  <2>1. \A n \in Reached : n \in Nat /\ n + 1 \in Reached
    BY <1>3
  <2>2. Reached \in SUBSET Nat
    BY <2>1
  <2> HIDE DEF Reached
  <2> QED
    BY <1>1, <1>2, <2>1, <2>2, SetInduction
<1>5. f = Grown(Len(q), f)
  <2>1. \E g : g = Grown(Len(q), g)
    BY <1>4
  <2> QED
    BY <2>1
<1>6. Without(q, s) = f[Len(q)]
  BY DEF Without
<1> HIDE DEF f
<1>7. \A k \in 0 .. Len(q) : f[k] = IF k = 0 THEN <<>>
                   ELSE IF q[k] = s THEN f[k - 1] ELSE Append(f[k - 1], q[k])
  BY <1>5
<1>8. f[0] = <<>> /\ \A k \in 1 .. Len(q) :
          f[k] = IF q[k] = s THEN f[k - 1] ELSE Append(f[k - 1], q[k])
  BY <1>1, <1>7
<1> QED
  BY <1>6, <1>8

\* Every element of a list occurs in it once.
Once(q) == \A i, j \in 1 .. Len(q) : q[i] = q[j] => i = j

LEMMA AppendOnce ==
    ASSUME NEW S, NEW q \in Seq(S), NEW x \in S
    PROVE  /\ ToSet(Append(q, x)) = ToSet(q) \cup {x}
           /\ Once(q) /\ x \notin ToSet(q) => Once(Append(q, x))
<1> DEFINE r == Append(q, x)
<1>1. /\ r \in Seq(S) /\ Len(r) = Len(q) + 1 /\ Len(q) \in Nat /\ r[Len(q) + 1] = x
      /\ \A i \in 1 .. Len(q) : r[i] = q[i]
      /\ DOMAIN r = 1 .. Len(q) + 1 /\ DOMAIN q = 1 .. Len(q)
  OBVIOUS
<1> HIDE DEF r
<1>2. ToSet(r) = ToSet(q) \cup {x}
  BY <1>1 DEF ToSet
<1>3. ASSUME Once(q), x \notin ToSet(q)
      PROVE  Once(r)
  <2>1. \A i \in 1 .. Len(q) : r[i] # x
    BY <1>1, <1>3 DEF ToSet
  <2> QED
    BY <1>1, <1>3, <2>1 DEF Once
<1> QED
  BY <1>2, <1>3 DEF r

\* std::list::remove: the other elements stay, and stay in the list.
LEMMA WithoutIsSeq ==
    ASSUME NEW S, NEW q \in Seq(S), NEW s
    PROVE  /\ Without(q, s) \in Seq(S)
           /\ ToSet(Without(q, s)) = ToSet(q) \ {s}
           /\ Once(q) => Once(Without(q, s))
<1>1. Len(q) \in Nat /\ DOMAIN q = 1 .. Len(q) /\ \A k \in 1 .. Len(q) : q[k] \in S
  OBVIOUS
<1>2. PICK f : /\ Without(q, s) = f[Len(q)]
               /\ f[0] = <<>>
               /\ \A k \in 1 .. Len(q) :
                     f[k] = IF q[k] = s THEN f[k - 1] ELSE Append(f[k - 1], q[k])
  BY WithoutSteps
<1> DEFINE Upto(n) == {q[k] : k \in 1 .. n}
           Good(g, n) == /\ g \in Seq(S)
                         /\ ToSet(g) = Upto(n) \ {s}
                         /\ Once(q) => Once(g)
           Reached == {n \in Nat : n <= Len(q) => Good(f[n], n)}
<1>3. 0 \in Reached
  <2>1. <<>> \in Seq(S) /\ ToSet(<<>>) = {} /\ Once(<<>>) /\ Upto(0) = {}
    BY DEF ToSet, Once
  <2> QED
    BY <1>2, <2>1
<1>4. ASSUME NEW n \in Nat, n + 1 <= Len(q), Good(f[n], n)
      PROVE  Good(f[n + 1], n + 1)
  <2>1. n + 1 \in 1 .. Len(q) /\ (n + 1) - 1 = n
    BY <1>1, <1>4
  <2>2. f[n + 1] = IF q[n + 1] = s THEN f[n] ELSE Append(f[n], q[n + 1])
    BY <1>2, <2>1
  <2>3. Upto(n + 1) = Upto(n) \cup {q[n + 1]}
    <3>1. 1 .. n + 1 = (1 .. n) \cup {n + 1}
      OBVIOUS
    <3> QED
      BY <3>1
  <2>4. Once(q) => q[n + 1] \notin Upto(n)
    <3>1. \A k \in 1 .. n : k \in 1 .. Len(q) /\ k # n + 1
      BY <1>1, <2>1
    <3> QED
      BY <2>1, <3>1 DEF Once
  <2> HIDE DEF Upto
  <2>5. CASE q[n + 1] = s
    BY <1>4, <2>2, <2>3, <2>5
  <2>6. CASE q[n + 1] # s
    <3>1. q[n + 1] \in S /\ f[n] \in Seq(S)
      BY <1>1, <1>4, <2>1
    <3>2. /\ Append(f[n], q[n + 1]) \in Seq(S)
          /\ ToSet(Append(f[n], q[n + 1])) = ToSet(f[n]) \cup {q[n + 1]}
          /\ Once(f[n]) /\ q[n + 1] \notin ToSet(f[n]) => Once(Append(f[n], q[n + 1]))
      BY <3>1, AppendOnce
    <3> QED
      BY <1>4, <2>2, <2>3, <2>4, <2>6, <3>2
  <2> QED
    BY <2>5, <2>6
<1>5. Len(q) \in Reached
  <2> HIDE DEF Good
  <2>1. \A n \in Reached : n + 1 \in Reached
    <3> SUFFICES ASSUME NEW n \in Reached, n + 1 <= Len(q)
                 PROVE  Good(f[n + 1], n + 1)
      OBVIOUS
    <3>1. n \in Nat /\ n <= Len(q)
      BY <1>1
    <3> QED
      BY <1>4, <3>1
  <2>2. Reached \in SUBSET Nat
    OBVIOUS
  <2> HIDE DEF Reached
  <2> QED
    BY <1>1, <1>3, <2>1, <2>2, SetInduction
<1>6. Good(f[Len(q)], Len(q))
  BY <1>1, <1>5
<1>7. Upto(Len(q)) = ToSet(q)
  BY <1>1 DEF ToSet
<1> QED
  BY <1>2, <1>6, <1>7

FreeCount(c) == Cardinality(c.freeSlots) + Len(c.freeBuffers)

LEMMA FreeCountIsNat ==
    ASSUME NEW c, ListsOK(c)
    PROVE  /\ IsFiniteSet(c.freeSlots) /\ Cardinality(c.freeSlots) \in Nat
           /\ c.freeSlots = {} <=> Cardinality(c.freeSlots) = 0
           /\ Len(c.freeBuffers) \in Nat /\ Len(c.unused) \in Nat
<1>1. IsFiniteSet(Slots)
  BY CoreAssumption, FS_Interval DEF Slots
<1>2. IsFiniteSet(c.freeSlots)
  BY <1>1, FS_Subset DEF ListsOK
<1>3. Cardinality(c.freeSlots) \in Nat /\ (c.freeSlots = {} <=> Cardinality(c.freeSlots) = 0)
  BY <1>2, FS_CardinalityType, FS_EmptySet
<1>4. Len(c.freeBuffers) \in Nat /\ Len(c.unused) \in Nat
  BY DEF ListsOK
<1> QED
  BY <1>2, <1>3, <1>4

\* The last element of a list, and the list without it.
LEMMA LastAndFront ==
    ASSUME NEW S, NEW q \in Seq(S), q # <<>>
    PROVE  /\ Last(q) \in S /\ Front(q) \in Seq(S)
           /\ Len(Front(q)) = Len(q) - 1
<1>1. Len(q) \in Nat /\ Len(q) > 0
  OBVIOUS
<1>2. q[Len(q)] \in S
  BY <1>1
<1>3. PICK n \in Int : n = Len(q) - 1
  BY <1>1
<1> DEFINE t == SubSeq(q, 1, n)
<1>4. Front(q) = t /\ Last(q) = q[Len(q)]
  BY <1>3 DEF Last, Front
<1>5. \A i \in 1 .. n : q[i] \in S
  BY <1>1, <1>3
<1>6. t \in Seq(S) /\ Len(t) = IF 1 <= n THEN n - 1 + 1 ELSE 0
  BY <1>5, SubSeqProperties
<1> HIDE DEF t
<1>7. Len(t) = Len(q) - 1
  BY <1>1, <1>3, <1>6
<1> QED
  BY <1>2, <1>4, <1>6, <1>7

LEMMA UnuseOneLists ==
    ASSUME NEW c, ListsOK(c), FreeCount(c) > 0
    PROVE  /\ ListsOK(UnuseOne(c)) /\ Same(c, UnuseOne(c))
           /\ FreeCount(UnuseOne(c)) = FreeCount(c) - 1
<1>1. CASE c.freeSlots # {}
  <2> DEFINE s == FirstFreeSlot(c)
             d == [c EXCEPT !.freeSlots = @ \ {s}, !.freeBuffers = @,
                            !.slots[s] = ClearedSlot, !.unused = Append(@, s)]
  <2>1. UnuseOne(c) = d
    BY <1>1 DEF UnuseOne
  <2>2. s \in c.freeSlots /\ s \in Slots
    BY <1>1, FirstFreeSlotIsFree DEF ListsOK
  <2> HIDE DEF s
  <2>3. ListsOK(d) /\ Same(c, d) /\ d.freeSlots = c.freeSlots \ {s} /\ d.freeBuffers = c.freeBuffers
    BY <2>2 DEF ListsOK, Same, SameModes, Fields
  <2> HIDE DEF d
  <2>4. Cardinality(d.freeSlots) = Cardinality(c.freeSlots) - 1
    BY <2>2, <2>3, FreeCountIsNat, FS_RemoveElement
  <2> QED
    BY <2>1, <2>3, <2>4, FreeCountIsNat DEF FreeCount
<1>2. CASE c.freeSlots = {}
  <2> DEFINE s == Last(c.freeBuffers)
             d == [c EXCEPT !.freeSlots = @ \ {s}, !.freeBuffers = Front(@),
                            !.slots[s] = ClearedSlot, !.unused = Append(@, s)]
  <2>1. UnuseOne(c) = d
    BY <1>2 DEF UnuseOne
  <2>2. Cardinality(c.freeSlots) = 0 /\ Len(c.freeBuffers) \in Nat /\ Len(c.freeBuffers) > 0
    <3>1. Cardinality(c.freeSlots) = 0 /\ Len(c.freeBuffers) \in Nat
      BY <1>2, FreeCountIsNat
    <3> QED
      BY <3>1 DEF FreeCount
  <2>3. c.freeBuffers \in Seq(Slots) /\ c.freeBuffers # <<>>
    BY <2>2 DEF ListsOK
  <2>4. /\ s \in Slots /\ Front(c.freeBuffers) \in Seq(Slots)
        /\ Len(Front(c.freeBuffers)) = Len(c.freeBuffers) - 1
    BY <2>3, LastAndFront
  <2> HIDE DEF s
  <2>5. ListsOK(d) /\ Same(c, d) /\ d.freeSlots = {} /\ d.freeBuffers = Front(c.freeBuffers)
    BY <1>2, <2>4 DEF ListsOK, Same, SameModes, Fields
  <2> HIDE DEF d
  <2>6. Cardinality(d.freeSlots) = 0
    BY <2>5, FS_EmptySet
  <2> QED
    BY <2>1, <2>2, <2>4, <2>5, <2>6 DEF FreeCount
<1> QED
  BY <1>1, <1>2

LEMMA UseOneLists ==
    ASSUME NEW c, ListsOK(c), Len(c.unused) > 0
    PROVE  /\ ListsOK(UseOne(c)) /\ Same(c, UseOne(c))
           /\ Len(UseOne(c).unused) = Len(c.unused) - 1
<1>1. c.unused \in Seq(Slots) /\ c.unused # <<>>
  BY DEF ListsOK
<1>2. /\ Last(c.unused) \in Slots /\ Front(c.unused) \in Seq(Slots)
      /\ Len(Front(c.unused)) = Len(c.unused) - 1
  BY <1>1, LastAndFront
<1> QED
  BY <1>2 DEF UseOne, ListsOK, Same, SameModes, Fields

\* adjustAvailableSlotsLocked moves one slot after the other.
LEMMA AdjustedSteps ==
    ASSUME NEW c, NEW delta \in -NumSlots .. NumSlots
    PROVE  \E f : /\ Adjusted(c, delta) = f[IF delta < 0 THEN -delta ELSE delta]
                  /\ f[0] = c
                  /\ \A k \in 1 .. NumSlots :
                        f[k] = IF delta < 0 THEN UnuseOne(f[k - 1]) ELSE UseOne(f[k - 1])
<1> DEFINE Grown(n, g) ==
               [k \in 0 .. n |->
                   IF k = 0 THEN c
                   ELSE IF delta < 0 THEN UnuseOne(g[k - 1]) ELSE UseOne(g[k - 1])]
           Reached == {n \in Nat : \E g : g = Grown(n, g)}
           f == CHOOSE g : g = Grown(NumSlots, g)
           size == IF delta < 0 THEN -delta ELSE delta
<1>1. NumSlots \in Nat /\ delta \in Int /\ size \in 0 .. NumSlots
  BY CoreAssumption
<1>2. 0 \in Reached
  <2> DEFINE g == [k \in 0 .. 0 |-> c]
  <2>1. g = Grown(0, g)
    OBVIOUS
  <2> QED
    BY <2>1
<1>3. ASSUME NEW n \in Nat, NEW g, g = Grown(n, g)
      PROVE  \E h : h = Grown(n + 1, h)
  <2> DEFINE last == IF delta < 0 THEN UnuseOne(g[n]) ELSE UseOne(g[n])
             h == [k \in 0 .. n + 1 |-> IF k = n + 1 THEN last ELSE g[k]]
  <2>1. \A k \in 0 .. n : g[k] = IF k = 0 THEN c
                   ELSE IF delta < 0 THEN UnuseOne(g[k - 1]) ELSE UseOne(g[k - 1])
    BY <1>3
  <2>2. \A k \in 0 .. n + 1 : h[k] = IF k = 0 THEN c
                   ELSE IF delta < 0 THEN UnuseOne(h[k - 1]) ELSE UseOne(h[k - 1])
    <3> SUFFICES ASSUME NEW k \in 0 .. n + 1
                 PROVE  h[k] = IF k = 0 THEN c
                   ELSE IF delta < 0 THEN UnuseOne(h[k - 1]) ELSE UseOne(h[k - 1])
      OBVIOUS
    <3>1. CASE k = n + 1
      <4>1. k # 0 /\ k - 1 = n /\ n \in 0 .. n + 1 /\ n # n + 1
        BY <3>1
      <4>2. h[k] = last /\ h[n] = g[n]
        BY <3>1, <4>1
      <4> HIDE DEF h
      <4> QED
        BY <4>1, <4>2
    <3>2. CASE k # n + 1
      <4>1. k \in 0 .. n /\ (k = 0 \/ k - 1 \in 0 .. n)
        BY <3>2
      <4>2. h[k] = g[k] /\ (k = 0 \/ h[k - 1] = g[k - 1])
        BY <3>2, <4>1
      <4> HIDE DEF h
      <4> QED
        BY <2>1, <4>1, <4>2
    <3> QED
      BY <3>1, <3>2
  <2>3. h = Grown(n + 1, h)
    <3>1. h = [k \in 0 .. n + 1 |-> h[k]]
      OBVIOUS
    <3> HIDE DEF h
    <3> QED
      BY <2>2, <3>1
  <2> QED
    BY <2>3
<1>4. NumSlots \in Reached
  <2> HIDE DEF Grown
  <2>1. \A n \in Reached : n \in Nat /\ n + 1 \in Reached
    BY <1>3
  <2>2. Reached \in SUBSET Nat
    BY <2>1
  <2> HIDE DEF Reached
  <2> QED
    BY <1>1, <1>2, <2>1, <2>2, SetInduction
<1>5. f = Grown(NumSlots, f)
  <2>1. \E g : g = Grown(NumSlots, g)
    BY <1>4
  <2> QED
    BY <2>1
<1>6. Adjusted(c, delta) = f[size]
  BY DEF Adjusted
<1> HIDE DEF f, size
<1>7. \A k \in 0 .. NumSlots : f[k] = IF k = 0 THEN c
                   ELSE IF delta < 0 THEN UnuseOne(f[k - 1]) ELSE UseOne(f[k - 1])
  BY <1>5
<1>8. f[0] = c /\ \A k \in 1 .. NumSlots :
          f[k] = IF delta < 0 THEN UnuseOne(f[k - 1]) ELSE UseOne(f[k - 1])
  BY <1>1, <1>7
<1> QED
  BY <1>6, <1>8 DEF size

\* With the slots that CanAdjust asks for, each list holds slots afterwards and
\* nothing else has changed.
LEMMA AdjustedLists ==
    ASSUME NEW c, ListsOK(c), NEW delta \in -NumSlots .. NumSlots, CanAdjust(c, delta)
    PROVE  /\ ListsOK(Adjusted(c, delta)) /\ Same(c, Adjusted(c, delta))
           /\ delta = 0 => Adjusted(c, delta) = c
<1> DEFINE size == IF delta < 0 THEN -delta ELSE delta
<1>1. NumSlots \in Nat /\ delta \in Int /\ size \in 0 .. NumSlots
  BY CoreAssumption
<1>2. PICK f : /\ Adjusted(c, delta) = f[size]
               /\ f[0] = c
               /\ \A k \in 1 .. NumSlots :
                     f[k] = IF delta < 0 THEN UnuseOne(f[k - 1]) ELSE UseOne(f[k - 1])
  BY AdjustedSteps
<1> HIDE DEF size
<1> DEFINE Part(d, k) ==
               /\ ListsOK(d) /\ Same(c, d)
               /\ IF delta < 0 THEN FreeCount(d) = FreeCount(c) - k
                               ELSE Len(d.unused) = Len(c.unused) - k
           Parts == {n \in Nat : n <= size => Part(f[n], n)}
<1>3. Part(c, 0)
  <2>1. Same(c, c)
    BY DEF Same, SameModes
  <2> QED
    BY <2>1, FreeCountIsNat DEF FreeCount
<1>4. ASSUME NEW n \in Nat, n + 1 <= size, Part(f[n], n)
      PROVE  Part(f[n + 1], n + 1)
  <2>1. n + 1 \in 1 .. NumSlots /\ (n + 1) - 1 = n
    BY <1>1, <1>4
  <2>2. f[n + 1] = IF delta < 0 THEN UnuseOne(f[n]) ELSE UseOne(f[n])
    BY <1>2, <2>1
  <2>3. CASE delta < 0
    <3>1. size = -delta /\ size <= FreeCount(c)
      BY <1>1, <2>3 DEF CanAdjust, FreeCount, size
    <3>2. FreeCount(c) \in Nat /\ FreeCount(f[n]) > 0
      BY <1>4, <2>3, <3>1, <1>1, FreeCountIsNat DEF FreeCount
    <3>3. /\ ListsOK(f[n + 1]) /\ Same(f[n], f[n + 1])
          /\ FreeCount(f[n + 1]) = FreeCount(f[n]) - 1
      BY <1>4, <2>2, <2>3, <3>2, UnuseOneLists
    <3> QED
      BY <1>4, <2>3, <3>2, <3>3 DEF Same, SameModes
  <2>4. CASE ~(delta < 0)
    <3>1. size = delta /\ size <= Len(c.unused)
      BY <1>1, <2>4 DEF CanAdjust, size
    <3>2. Len(c.unused) \in Nat /\ Len(f[n].unused) > 0
      BY <1>4, <2>4, <3>1, <1>1, FreeCountIsNat
    <3>3. /\ ListsOK(f[n + 1]) /\ Same(f[n], f[n + 1])
          /\ Len(f[n + 1].unused) = Len(f[n].unused) - 1
      BY <1>4, <2>2, <2>4, <3>2, UseOneLists
    <3> QED
      BY <1>4, <2>4, <3>2, <3>3 DEF Same, SameModes
  <2> QED
    BY <2>3, <2>4
<1>5. size \in Parts
  <2> HIDE DEF Part
  <2>1. 0 \in Parts
    BY <1>2, <1>3
  <2>2. \A n \in Parts : n + 1 \in Parts
    <3> SUFFICES ASSUME NEW n \in Parts, n + 1 <= size
                 PROVE  Part(f[n + 1], n + 1)
      OBVIOUS
    <3>1. n \in Nat /\ n <= size
      BY <1>1
    <3> QED
      BY <1>4, <3>1
  <2>3. Parts \in SUBSET Nat
    OBVIOUS
  <2> HIDE DEF Parts
  <2> QED
    BY <1>1, <2>1, <2>2, <2>3, SetInduction
<1>6. Part(f[size], size)
  BY <1>1, <1>5
<1>7. delta = 0 => size = 0
  BY DEF size
<1> QED
  BY <1>2, <1>3, <1>6, <1>7

-----------------------------------------------------------------------------
(* waitForFreeSlotThenRelock: it finds no slot only when there is none.    *)

\* What the choice of a slot comes to in core c.
FairChoice(c, choice) ==
    \/ choice.slot = INVALID /\ Nothing(c) /\ choice.core = c
    \/ /\ choice.slot \in Slots /\ ~Nothing(c)
       /\ ListsOK(choice.core) /\ Same(c, choice.core)

LEMMA PopSlotIsFair ==
    ASSUME NEW c, ListsOK(c), ~TooManyBuffers(c), c.freeSlots # {}
    PROVE  FairChoice(c, PopSlot(c))
<1> DEFINE s == FirstFreeSlot(c)
           d == [c EXCEPT !.freeSlots = @ \ {s}]
<1>1. s \in Slots
  BY FirstFreeSlotIsFree DEF ListsOK
<1> HIDE DEF s
<1>2. ListsOK(d) /\ Same(c, d)
  BY DEF ListsOK, Same, SameModes, Fields
<1>3. PopSlot(c) = [slot |-> s, core |-> d]
  BY DEF PopSlot, Choice, s
<1> HIDE DEF d
<1> QED
  BY <1>1, <1>2, <1>3 DEF FairChoice, Nothing

LEMMA PopBufferIsFair ==
    ASSUME NEW c, ListsOK(c), ~TooManyBuffers(c), c.freeBuffers # <<>>
    PROVE  FairChoice(c, PopBuffer(c))
<1> DEFINE d == [c EXCEPT !.freeBuffers = Tail(@)]
<1>1. Head(c.freeBuffers) \in Slots /\ Tail(c.freeBuffers) \in Seq(Slots)
  BY DEF ListsOK
<1>2. ListsOK(d) /\ Same(c, d)
  BY <1>1 DEF ListsOK, Same, SameModes, Fields
<1>3. PopBuffer(c) = [slot |-> Head(c.freeBuffers), core |-> d]
  BY DEF PopBuffer, Choice
<1> HIDE DEF d
<1> QED
  BY <1>1, <1>2, <1>3 DEF FairChoice, Nothing

LEMMA NoSlotIsFair ==
    ASSUME NEW c, Nothing(c)
    PROVE  FairChoice(c, NoSlot(c))
BY DEF FairChoice, NoSlot, Choice

LEMMA DequeueChoiceIsFair ==
    ASSUME NEW c, ListsOK(c), ModesOK(c), NEW w
    PROVE  FairChoice(c, DequeueChoice(c, w))
<1>1. ~HasSharedSlot(c) /\ c.allowAllocation
  BY DEF HasSharedSlot, ModesOK
<1>2. CASE TooManyBuffers(c)
  BY <1>2, NoSlotIsFair DEF DequeueChoice, Nothing
<1>3. CASE ~TooManyBuffers(c) /\ c.freeBuffers # <<>>
  BY <1>1, <1>3, PopBufferIsFair DEF DequeueChoice
<1>4. CASE ~TooManyBuffers(c) /\ c.freeBuffers = <<>> /\ c.freeSlots # {}
  BY <1>1, <1>4, PopSlotIsFair DEF DequeueChoice
<1>5. CASE ~TooManyBuffers(c) /\ c.freeBuffers = <<>> /\ c.freeSlots = {}
  BY <1>1, <1>5, NoSlotIsFair DEF DequeueChoice, Nothing
<1> QED
  BY <1>2, <1>3, <1>4, <1>5

LEMMA AttachChoiceIsFair ==
    ASSUME NEW c, ListsOK(c), ModesOK(c)
    PROVE  FairChoice(c, AttachChoice(c))
<1>1. ~HasSharedSlot(c)
  BY DEF HasSharedSlot, ModesOK
<1>2. CASE TooManyBuffers(c)
  BY <1>2, NoSlotIsFair DEF AttachChoice, Nothing
<1>3. CASE ~TooManyBuffers(c) /\ c.freeSlots # {}
  BY <1>1, <1>3, PopSlotIsFair DEF AttachChoice
<1>4. CASE ~TooManyBuffers(c) /\ c.freeSlots = {} /\ c.freeBuffers # <<>>
  BY <1>1, <1>4, PopBufferIsFair DEF AttachChoice
<1>5. CASE ~TooManyBuffers(c) /\ c.freeBuffers = <<>> /\ c.freeSlots = {}
  BY <1>1, <1>5, NoSlotIsFair DEF AttachChoice, Nothing
<1> QED
  BY <1>2, <1>3, <1>4, <1>5

LEMMA SameKeepsModes ==
    ASSUME NEW c, NEW d, ModesOK(c), SameModes(c, d)
    PROVE  ModesOK(d)
BY DEF ModesOK, SameModes

LEMMA TakeSlotLists ==
    ASSUME NEW c, ListsOK(c), ModesOK(c), NEW s \in Slots, NEW w
    PROVE  ListsOK(TakeSlot(c, s, w)) /\ Same(c, TakeSlot(c, s, w))
<1> DEFINE d == [c EXCEPT !.active = IF c.sharedSlot = s THEN @ ELSE @ \cup {s},
                          !.slots[s].dequeueCount = @ + 1]
           e == IF NeedsBuffer(c, s, w)
                THEN [d EXCEPT !.slots[s].buffer = NoBuffer,
                               !.slots[s].requested = FALSE,
                               !.allocating = TRUE]
                ELSE d
<1>1. ListsOK(d) /\ Same(c, d)
  BY DEF ListsOK, Same, SameModes, Fields
<1>2. TakeSlot(c, s, w) = ShareFirst(e, s)
  BY DEF TakeSlot
<1> HIDE DEF d
<1>3. ListsOK(e) /\ Same(d, e)
  BY <1>1 DEF ListsOK, Same, SameModes, Fields
<1> HIDE DEF e
<1>4. Same(c, e) /\ ~e.sharedMode
  BY <1>1, <1>3 DEF Same, SameModes, ModesOK
<1>5. ShareFirst(e, s) = e
  BY <1>4 DEF ShareFirst
<1> QED
  BY <1>2, <1>3, <1>4, <1>5

-----------------------------------------------------------------------------
(* The ways a lock scope ends.                                             *)

\* The part of WaitInv about the core and its sleepers.
CoreStepOK ==
    /\ ListsOK(core') /\ ModesOK(core')
    /\ pc' \in [Producers -> PCs]
    /\ \A p \in Producers : pc'[p] \in Asleep => Nothing(core') /\ ~core'.abandoned

\* The part about the threads' variables.
HandsStepOK ==
    /\ held' \in [Producers -> SUBSET Slots]
    /\ found' \in [Producers -> Slots \cup {INVALID}]
    /\ \A p \in Producers : pc'[p] = "allocate" => found'[p] \in Slots
    /\ acquired' \subseteq Slots \X Nat
    /\ frameCounter' \in Nat

LEMMA StepKeepsWaitInv ==
    ASSUME CoreStepOK, HandsStepOK
    PROVE  WaitInv'
BY DEF CoreStepOK, HandsStepOK, WaitInv, HandsOK, SleepersOK

\* A scope that wakes nobody must leave the sleepers nothing.
LEMMA UnlockQuietly ==
    ASSUME WaitInv, NEW p \in Producers, NEW d, NEW l \in PCs, Unlock(p, d, l),
           ListsOK(d), Same(core, d),
           Nothing(core) /\ ~core.abandoned => Nothing(d),
           l \in Asleep => Nothing(core) /\ ~core.abandoned
    PROVE  CoreStepOK
<1>1. core' = d /\ pc' = [pc EXCEPT ![p] = l] /\ pc \in [Producers -> PCs]
  BY DEF Unlock, WaitInv, HandsOK
<1>2. ModesOK(d) /\ (d.abandoned <=> core.abandoned)
  BY SameKeepsModes DEF WaitInv, Same, SameModes
<1>3. Nothing(core) /\ ~core.abandoned => Nothing(d)
  OBVIOUS
<1>4. ASSUME NEW q \in Producers, pc'[q] \in Asleep
      PROVE  Nothing(core) /\ ~core.abandoned
  BY <1>1, <1>4 DEF WaitInv, SleepersOK
<1> QED
  BY <1>1, <1>2, <1>3, <1>4 DEF CoreStepOK

LEMMA WokenIsAwake ==
    ASSUME NEW l \in PCs
    PROVE  Woken(l) \in PCs \ Asleep /\ (Woken(l) = "allocate" <=> l = "allocate")
BY DEF Woken, PCs, Asleep

LEMMA UnlockWaking ==
    ASSUME WaitInv, NEW p \in Producers, NEW d, NEW l \in PCs \ Asleep,
           UnlockNotify(p, d, l), ListsOK(d), ModesOK(d)
    PROVE  /\ CoreStepOK
           /\ \A q \in Producers : pc'[q] = "allocate" => l = "allocate" \/ pc[q] = "allocate"
<1>1. /\ core' = d /\ pc \in [Producers -> PCs]
      /\ pc' = [q \in Producers |-> IF q = p THEN l ELSE Woken(pc[q])]
  BY DEF UnlockNotify, WaitInv, HandsOK
<1>2. \A q \in Producers : /\ pc'[q] \in PCs \ Asleep
                           /\ pc'[q] = "allocate" => l = "allocate" \/ pc[q] = "allocate"
  BY <1>1, WokenIsAwake
<1> QED
  BY <1>1, <1>2 DEF CoreStepOK

LEMMA NotifyWaking ==
    ASSUME WaitInv, NEW d, ConsumerNotify(d), ListsOK(d), ModesOK(d)
    PROVE  /\ CoreStepOK
           /\ \A q \in Producers : pc'[q] = "allocate" => pc[q] = "allocate"
<1>1. /\ core' = d /\ pc \in [Producers -> PCs]
      /\ pc' = [q \in Producers |-> Woken(pc[q])]
  BY DEF ConsumerNotify, WaitInv, HandsOK
<1>2. \A q \in Producers : /\ pc'[q] \in PCs \ Asleep
                           /\ pc'[q] = "allocate" => pc[q] = "allocate"
  BY <1>1, WokenIsAwake
<1> QED
  BY <1>1, <1>2 DEF CoreStepOK

\* The thread keeps what it holds, and allocates for no new slot.
LEMMA HandsStay ==
    ASSUME WaitInv, NEW p \in Producers, NEW l \in PCs \ {"allocate"},
           pc' = [pc EXCEPT ![p] = l], Forget(p) \/ UNCHANGED found,
           UNCHANGED <<held, acquired, frameCounter>>
    PROVE  HandsStepOK
<1>1. found' = [found EXCEPT ![p] = INVALID] \/ found' = found
  BY DEF Forget
<1> QED
  BY <1>1 DEF HandsStepOK, WaitInv, HandsOK

\* The thread has been given slot s.
LEMMA HandsTake ==
    ASSUME WaitInv, NEW p \in Producers, NEW l \in PCs \ {"allocate"}, NEW s \in Slots,
           pc' = [pc EXCEPT ![p] = l], Forget(p),
           held' = [held EXCEPT ![p] = @ \cup {s}],
           UNCHANGED <<acquired, frameCounter>>
    PROVE  HandsStepOK
<1>1. found' = [found EXCEPT ![p] = INVALID]
  BY DEF Forget
<1>2. held' \in [Producers -> SUBSET Slots]
  BY DEF WaitInv, HandsOK
<1> QED
  BY <1>1, <1>2 DEF HandsStepOK, WaitInv, HandsOK

\* Slots are given back and the sleepers are woken.
LEMMA HandsGive ==
    ASSUME WaitInv, \A q \in Producers : pc'[q] = "allocate" => pc[q] = "allocate",
           \/ UNCHANGED held
           \/ held' = [q \in Producers |-> {}]
           \/ \E p \in Producers, s \in Slots : GiveBack(p, s),
           UNCHANGED found, acquired' \subseteq Slots \X Nat, frameCounter' \in Nat
    PROVE  HandsStepOK
<1>1. held' \in [Producers -> SUBSET Slots]
  BY DEF WaitInv, HandsOK, GiveBack
<1> QED
  BY <1>1 DEF HandsStepOK, WaitInv, HandsOK

-----------------------------------------------------------------------------
(* The calls of the producer.                                              *)

\* A scope that wakes nobody and takes no slot.
LEMMA QuietScope ==
    ASSUME WaitInv, NEW p \in Producers, NEW d, NEW l \in PCs \ {"allocate"},
           Unlock(p, d, l), ListsOK(d), Same(core, d),
           Nothing(core) /\ ~core.abandoned => Nothing(d),
           l \in Asleep => Nothing(core) /\ ~core.abandoned,
           Forget(p) \/ UNCHANGED found, UNCHANGED <<held, acquired, frameCounter>>
    PROVE  WaitInv'
<1>1. CoreStepOK
  BY UnlockQuietly
<1>2. HandsStepOK
  BY HandsStay DEF Unlock
<1> QED
  BY <1>1, <1>2, StepKeepsWaitInv

\* A change of the core that no sleeper waits for.
Plain(d) ==
    /\ ListsOK(d) /\ Same(core, d)
    /\ d.freeSlots = core.freeSlots /\ d.freeBuffers = core.freeBuffers

LEMMA PlainChanges ==
    ASSUME WaitInv
    PROVE  /\ Plain(core)
           /\ \A s \in Slots : Plain([core EXCEPT !.slots[s].requested = TRUE])
           /\ Plain([core EXCEPT !.legacyDrop = ~@])
           /\ Plain([core EXCEPT !.waitingForAllocation = TRUE])
           /\ Plain([core EXCEPT !.waitingForAllocation = FALSE])
           /\ Plain([core EXCEPT !.allocating = TRUE])
           /\ Plain([core EXCEPT !.allocating = FALSE])
           /\ \A w : Plain([core EXCEPT !.defaultSize = w])
<1>1. ListsOK(core)
  BY DEF WaitInv
<1> QED
  BY <1>1 DEF Plain, ListsOK, Same, SameModes, Fields

LEMMA PlainScope ==
    ASSUME WaitInv, NEW p \in Producers, NEW d, NEW l \in PCs \ ({"allocate"} \cup Asleep),
           Unlock(p, d, l), Plain(d),
           Forget(p) \/ UNCHANGED found, UNCHANGED <<held, acquired, frameCounter>>
    PROVE  WaitInv'
<1>1. ListsOK(d) /\ Same(core, d) /\ (Nothing(core) => Nothing(d))
  BY NothingStays DEF Plain
<1> QED
  BY <1>1, QuietScope

\* A scope of one thread that ends with notify_all.
LEMMA WakingScope ==
    ASSUME WaitInv, NEW p \in Producers, NEW d, NEW l \in PCs \ ({"allocate"} \cup Asleep),
           UnlockNotify(p, d, l), ListsOK(d), ModesOK(d),
           \/ UNCHANGED held
           \/ held' = [q \in Producers |-> {}]
           \/ \E s \in Slots : GiveBack(p, s),
           UNCHANGED <<found, acquired>>, frameCounter' \in Nat
    PROVE  WaitInv'
<1>1. CoreStepOK /\ \A q \in Producers : pc'[q] = "allocate" => pc[q] = "allocate"
  BY UnlockWaking
<1>2. acquired' \subseteq Slots \X Nat
  BY DEF WaitInv, HandsOK
<1>3. HandsStepOK
  BY <1>1, <1>2, HandsGive
<1> QED
  BY <1>1, <1>3, StepKeepsWaitInv

-----------------------------------------------------------------------------
(* The calls of the producer.                                              *)

\* The calls that store their arguments, or only begin.
LEMMA SettersKeepWaitInv ==
    ASSUME WaitInv, Waking, NEW p \in Producers,
           \/ RequestBuffer(p)    \/ AllowAllocation(p) \/ SetLegacyBufferDrop(p)
           \/ SetSharedBufferMode(p) \/ DequeueBuffer(p) \/ AttachBuffer(p)
           \/ DetachNextBuffer(p) \/ QueueBufferBadCrop(p) \/ AllocateBuffers(p)
    PROVE  WaitInv'
<1> USE PlainChanges, PlainScope DEF PCs, Asleep
<1>1. ~AllowAllocation(p) /\ ~SetSharedBufferMode(p)
  BY DEF Waking, AllowAllocation, SetSharedBufferMode, Call
<1>2. UNCHANGED <<found, held, acquired, frameCounter>>
  BY <1>1 DEF RequestBuffer, SetLegacyBufferDrop, DequeueBuffer, AttachBuffer,
        DetachNextBuffer, QueueBufferBadCrop, AllocateBuffers, locals, callbacks, consumer
<1>3. CASE RequestBuffer(p)
  <2>1. PICK s \in Slots : Unlock(p, [core EXCEPT !.slots[s].requested = TRUE], "idle")
    BY <1>3 DEF RequestBuffer, WaitInv, HandsOK
  <2> QED
    BY <1>2, <2>1
<1>4. CASE QueueBufferBadCrop(p)
  <2>1. \A s \in Slots : ShareFirst(core, s) = core
    BY DEF ShareFirst, ModesOK, WaitInv
  <2>2. Unlock(p, core, "idle")
    BY <1>4, <2>1 DEF QueueBufferBadCrop
  <2> QED
    BY <1>2, <2>2
<1>5. CASE SetLegacyBufferDrop(p)
  <2>1. Unlock(p, [core EXCEPT !.legacyDrop = ~@], "idle")
    BY <1>5 DEF SetLegacyBufferDrop
  <2> QED
    BY <1>2, <2>1
<1>6. CASE DequeueBuffer(p) \/ AttachBuffer(p) \/ DetachNextBuffer(p) \/ AllocateBuffers(p)
  <2>1. PICK l \in {"dequeue", "attach", "detach_next", "allocate_loop"} : Unlock(p, core, l)
    BY <1>6 DEF DequeueBuffer, AttachBuffer, DetachNextBuffer, AllocateBuffers
  <2> QED
    BY <1>2, <2>1
<1> QED
  BY <1>1, <1>3, <1>4, <1>5, <1>6

LEMMA SetMaxDequeuedKeepsWaitInv ==
    ASSUME WaitInv, NEW p \in Producers, SetMaxDequeuedBufferCount(p)
    PROVE  WaitInv'
<1>1. ListsOK(core) /\ ModesOK(core)
  BY DEF WaitInv
<1>2. PICK n \in 1 .. NumSlots :
          /\ CanAdjust(core, n - core.maxDequeued)
          /\ UnlockNotify(p, [Adjusted(core, n - core.maxDequeued) EXCEPT !.maxDequeued = n], "idle")
  BY DEF SetMaxDequeuedBufferCount
<1>3. n - core.maxDequeued \in -NumSlots .. NumSlots
  BY <1>1, CoreAssumption DEF ModesOK
<1> DEFINE a == Adjusted(core, n - core.maxDequeued)
           d == [a EXCEPT !.maxDequeued = n]
<1>4. ListsOK(a) /\ Same(core, a)
  BY <1>1, <1>2, <1>3, AdjustedLists
<1>5. UnlockNotify(p, d, "idle")
  BY <1>2
<1> HIDE DEF a
<1>6. ListsOK(d) /\ ModesOK(d)
  BY <1>1, <1>4 DEF ListsOK, ModesOK, Same, SameModes, Fields
<1> HIDE DEF d
<1>7. UNCHANGED <<found, held, acquired, frameCounter>>
  BY DEF SetMaxDequeuedBufferCount, locals, callbacks, consumer
<1> QED
  BY <1>5, <1>6, <1>7, WakingScope DEF PCs, Asleep, WaitInv, HandsOK

LEMMA SetAsyncModeKeepsWaitInv ==
    ASSUME WaitInv, NEW p \in Producers, SetAsyncMode(p)
    PROVE  WaitInv'
<1>1. ListsOK(core) /\ ModesOK(core)
  BY DEF WaitInv
<1>2. PICK delta : /\ delta = BufferCountFor(core, ~core.async, core.cannotBlock) - MaxBufferCount(core)
                   /\ CanAdjust(core, delta)
                   /\ UnlockNotify(p, [Adjusted(core, delta) EXCEPT !.async = ~core.async], "idle")
  BY DEF SetAsyncMode, SwitchAsyncMode
<1>3. delta \in -NumSlots .. NumSlots
  <2>1. /\ BufferCountFor(core, ~core.async, core.cannotBlock) \in 1 .. NumSlots
        /\ BufferCountFor(core, core.async, core.cannotBlock) \in 1 .. NumSlots
    BY <1>1, CoreAssumption DEF BufferCountFor, ExtraBuffer, ModesOK
  <2> QED
    BY <1>2, <2>1, CoreAssumption DEF MaxBufferCount
<1> DEFINE a == Adjusted(core, delta)
           d == [a EXCEPT !.async = ~core.async]
<1>4. ListsOK(a) /\ Same(core, a)
  BY <1>1, <1>2, <1>3, AdjustedLists
<1>5. UnlockNotify(p, d, "idle")
  BY <1>2
<1> HIDE DEF a
<1>6. ListsOK(d) /\ ModesOK(d)
  BY <1>1, <1>4 DEF ListsOK, ModesOK, Same, SameModes, Fields
<1> HIDE DEF d
<1>7. UNCHANGED <<found, held, acquired, frameCounter>>
  BY DEF SetAsyncMode, SwitchAsyncMode, locals, callbacks, consumer
<1> QED
  BY <1>5, <1>6, <1>7, WakingScope DEF PCs, Asleep, WaitInv, HandsOK

\* setDequeueTimeout and connect adjust nothing while cannotBlock stays false.
LEMMA NoAdjustment ==
    ASSUME NEW c, ListsOK(c), ModesOK(c), NEW cannotBlock, ~cannotBlock, NEW delta,
           delta = BufferCountFor(c, c.async, cannotBlock) - MaxBufferCount(c),
           CanAdjust(c, delta)
    PROVE  Adjusted(c, delta) = c
<1>1. BufferCountFor(c, c.async, cannotBlock) = MaxBufferCount(c) /\ MaxBufferCount(c) \in Int
  BY CoreAssumption DEF MaxBufferCount, BufferCountFor, ExtraBuffer, ModesOK
<1>2. delta = 0 /\ delta \in -NumSlots .. NumSlots
  BY <1>1, CoreAssumption
<1> QED
  BY <1>2, AdjustedLists

LEMMA SetDequeueTimeoutKeepsWaitInv ==
    ASSUME WaitInv, NEW p \in Producers, SetDequeueTimeout(p)
    PROVE  WaitInv'
<1>1. ListsOK(core) /\ ModesOK(core)
  BY DEF WaitInv
<1>2. PICK timeout, cannotBlock, delta :
          /\ cannotBlock = (timeout < 0 /\ core.cannotBlock)
          /\ delta = BufferCountFor(core, core.async, cannotBlock) - MaxBufferCount(core)
          /\ CanAdjust(core, delta)
          /\ Unlock(p, [Adjusted(core, delta) EXCEPT
                    !.timeout = timeout,
                    !.cannotBlock = cannotBlock,
                    !.canDrop = @ /\ timeout <= 0], "idle")
  BY DEF SetDequeueTimeout
<1>3. ~cannotBlock
  BY <1>1, <1>2 DEF ModesOK
<1>4. Adjusted(core, delta) = core
  BY <1>1, <1>2, <1>3, NoAdjustment
<1> DEFINE d == [core EXCEPT !.timeout = timeout, !.cannotBlock = cannotBlock,
                             !.canDrop = @ /\ timeout <= 0]
<1>5. Unlock(p, d, "idle")
  BY <1>2, <1>4
<1>6. Plain(d)
  BY <1>1, <1>3 DEF Plain, ListsOK, ModesOK, Same, SameModes, Fields
<1> HIDE DEF d
<1>7. UNCHANGED <<found, held, acquired, frameCounter>>
  BY DEF SetDequeueTimeout, locals, callbacks, consumer
<1> QED
  BY <1>5, <1>6, <1>7, PlainScope DEF PCs, Asleep

LEMMA ConnectKeepsWaitInv ==
    ASSUME WaitInv, Waking, NEW p \in Producers, Connect(p)
    PROVE  WaitInv'
<1>1. ListsOK(core) /\ ModesOK(core)
  BY DEF WaitInv
<1>2. PICK api, app, cannotBlock, delta :
          /\ app = FALSE
          /\ cannotBlock = (app /\ core.timeout < 0)
          /\ delta = BufferCountFor(core, core.async, cannotBlock) - MaxBufferCount(core)
          /\ CanAdjust(core, delta)
          /\ Unlock(p, [Adjusted(core, delta) EXCEPT
                    !.connected = api,
                    !.hasBeenQueued = FALSE,
                    !.cannotBlock = cannotBlock,
                    !.canDrop = app /\ core.timeout <= 0,
                    !.legacyDrop = TRUE,
                    !.allowAllocation = TRUE], "idle")
  BY DEF Connect, Waking
<1>3. ~cannotBlock
  BY <1>2
<1>4. Adjusted(core, delta) = core
  BY <1>1, <1>2, <1>3, NoAdjustment
<1> DEFINE d == [core EXCEPT !.connected = api,
                    !.hasBeenQueued = FALSE,
                    !.cannotBlock = cannotBlock,
                    !.canDrop = app /\ core.timeout <= 0,
                    !.legacyDrop = TRUE,
                    !.allowAllocation = TRUE]
<1>5. Unlock(p, d, "idle")
  BY <1>2, <1>4
<1>6. Plain(d)
  BY <1>1, <1>3 DEF Plain, ListsOK, ModesOK, Same, SameModes, Fields
<1> HIDE DEF d
<1>7. UNCHANGED <<found, held, acquired, frameCounter>>
  BY DEF Connect, locals, callbacks, consumer
<1> QED
  BY <1>5, <1>6, <1>7, PlainScope DEF PCs, Asleep

LEMMA GivingBackKeepsWaitInv ==
    ASSUME WaitInv, NEW p \in Producers, DetachBuffer(p) \/ CancelBuffer(p)
    PROVE  WaitInv'
<1>1. ListsOK(core) /\ ModesOK(core) /\ held[p] \subseteq Slots
  BY DEF WaitInv, HandsOK
<1>2. UNCHANGED <<found, acquired, frameCounter>> /\ frameCounter' \in Nat
  BY DEF DetachBuffer, CancelBuffer, callbacks, consumer, WaitInv, HandsOK
<1>3. PICK s, d : /\ s \in Slots /\ GiveBack(p, s) /\ UnlockNotify(p, d, "idle")
                 /\ ListsOK(d) /\ Same(core, d)
  <2>1. ASSUME NEW s \in Slots
        PROVE  /\ ListsOK([core EXCEPT !.active = @ \ {s}])
               /\ Same(core, [core EXCEPT !.active = @ \ {s}])
               /\ ListsOK([core EXCEPT !.slots[s].dequeueCount = @ - 1])
               /\ Same(core, [core EXCEPT !.slots[s].dequeueCount = @ - 1])
    BY <1>1 DEF ListsOK, Same, SameModes, Fields
  <2>2. ASSUME NEW c, ListsOK(c), Same(core, c), NEW s \in Slots
        PROVE  /\ ListsOK(FreeSlot(c, s)) /\ Same(core, FreeSlot(c, s))
               /\ ListsOK(Recycle(c, s)) /\ Same(core, Recycle(c, s))
    BY <2>2, FreeSlotLists, RecycleLists DEF Same, SameModes
  <2>3. ASSUME DetachBuffer(p)
        PROVE  \E s, d : /\ s \in Slots /\ GiveBack(p, s) /\ UnlockNotify(p, d, "idle")
                        /\ ListsOK(d) /\ Same(core, d)
    <3>1. PICK s \in Slots :
              UnlockNotify(p, FreeSlot([core EXCEPT !.active = @ \ {s}], s), "idle") /\ GiveBack(p, s)
      BY <1>1, <2>3 DEF DetachBuffer
    <3> QED
      BY <2>1, <2>2, <3>1
  <2>4. ASSUME CancelBuffer(p)
        PROVE  \E s, d : /\ s \in Slots /\ GiveBack(p, s) /\ UnlockNotify(p, d, "idle")
                        /\ ListsOK(d) /\ Same(core, d)
    <3>1. PICK s \in Slots :
              UnlockNotify(p, Recycle([core EXCEPT !.slots[s].dequeueCount = @ - 1], s), "idle")
              /\ GiveBack(p, s)
      BY <1>1, <2>4 DEF CancelBuffer
    <3> QED
      BY <2>1, <2>2, <3>1
  <2> QED
    BY <2>3, <2>4
<1>4. ModesOK(d)
  BY <1>1, <1>3, SameKeepsModes DEF Same
<1> QED
  BY <1>2, <1>3, <1>4, WakingScope DEF PCs, Asleep

LEMMA DisconnectedLists ==
    ASSUME NEW c, ListsOK(c), ModesOK(c)
    PROVE  ListsOK(Disconnected(c)) /\ ModesOK(Disconnected(c))
<1> DEFINE e == FreeAllBuffers(c)
<1>1. ListsOK(e) /\ ModesOK(e)
  BY FreeAllBuffersLists, SameKeepsModes
<1>2. Disconnected(c) = [e EXCEPT !.sharedSlot = INVALID, !.connected = 0]
  BY DEF Disconnected
<1> HIDE DEF e
<1> QED
  BY <1>1, <1>2 DEF ListsOK, ModesOK, Fields

LEMMA DisconnectKeepsWaitInv ==
    ASSUME WaitInv, NEW p \in Producers, Disconnect(p)
    PROVE  WaitInv'
<1>1. /\ UnlockNotify(p, Disconnected(core), "idle")
      /\ held' = [q \in Producers |-> {}]
      /\ UNCHANGED <<found, acquired, frameCounter>> /\ frameCounter' \in Nat
  BY DEF Disconnect, DisconnectLocked, callbacks, consumer, WaitInv, HandsOK
<1>2. ListsOK(Disconnected(core)) /\ ModesOK(Disconnected(core))
  BY DisconnectedLists DEF WaitInv
<1> QED
  BY <1>1, <1>2, WakingScope DEF PCs, Asleep

\* The queue with the new item holds slots.
LEMMA EnqueuedLists ==
    ASSUME NEW c, ListsOK(c), NEW item \in QueueItems
    PROVE  ListsOK(Enqueued(c, item)) /\ SameModes(c, Enqueued(c, item))
<1>1. CASE c.queue # <<>> /\ Last(c.queue).droppable
  <2> DEFINE last == Last(c.queue)
             e == [c EXCEPT !.slots[last.slot].queueCount = @ - 1]
             d == IF last.stale THEN c ELSE Recycle(e, last.slot)
  <2>1. last \in QueueItems /\ Front(c.queue) \in Seq(QueueItems)
    BY <1>1, LastAndFront DEF ListsOK
  <2>2. last.slot \in Slots
    BY <2>1 DEF QueueItems
  <2>3. Enqueued(c, item) = [d EXCEPT !.queue = Append(Front(@), item)]
    BY <1>1 DEF Enqueued
  <2> HIDE DEF last
  <2>4. ListsOK(e) /\ Same(c, e)
    BY DEF ListsOK, Same, SameModes, Fields
  <2> HIDE DEF e
  <2>5. ListsOK(d) /\ Same(c, d)
    BY <2>2, <2>4, RecycleLists DEF Same, SameModes
  <2> HIDE DEF d
  <2>6. Append(Front(d.queue), item) \in Seq(QueueItems)
    BY <2>1, <2>5 DEF Same
  <2> QED
    BY <2>3, <2>5, <2>6 DEF ListsOK, Same, SameModes, Fields
<1>2. CASE ~(c.queue # <<>> /\ Last(c.queue).droppable)
  <2>1. Enqueued(c, item) = [c EXCEPT !.queue = Append(@, item)]
    BY <1>2 DEF Enqueued
  <2>2. Append(c.queue, item) \in Seq(QueueItems)
    BY DEF ListsOK
  <2> QED
    BY <2>1, <2>2 DEF ListsOK, SameModes, Fields
<1> QED
  BY <1>1, <1>2

LEMMA QueueBufferKeepsWaitInv ==
    ASSUME WaitInv, NEW p \in Producers, QueueBuffer(p)
    PROVE  WaitInv'
<1>1. ListsOK(core) /\ ModesOK(core) /\ frameCounter \in Nat
  BY DEF WaitInv, HandsOK
<1>2. \A s \in Slots : ShareFirst(core, s) = core
  BY <1>1 DEF ShareFirst, ModesOK
<1> DEFINE f == frameCounter + 1
           Item(s) == [slot |-> s, frame |-> f, stale |-> FALSE,
                       droppable |-> Droppable(core, s)]
           Used(s) == [core EXCEPT !.slots[s].dequeueCount = @ - 1,
                           !.slots[s].queueCount = @ + 1,
                           !.slots[s].frame = f]
<1>3. PICK s \in Slots :
          /\ UnlockNotify(p, [Enqueued(Used(s), Item(s)) EXCEPT !.hasBeenQueued = TRUE], "callback")
          /\ GiveBack(p, s)
  BY <1>2 DEF QueueBuffer
<1>4. Item(s) \in QueueItems
  <2>1. Droppable(core, s) \in BOOLEAN
    BY DEF Droppable
  <2> QED
    BY <1>1, <2>1 DEF QueueItems
<1>5. ListsOK(Used(s)) /\ Same(core, Used(s))
  BY <1>1 DEF ListsOK, Same, SameModes, Fields
<1> HIDE DEF Item, Used
<1> DEFINE e == Enqueued(Used(s), Item(s))
           d == [e EXCEPT !.hasBeenQueued = TRUE]
<1>6. ListsOK(e) /\ SameModes(core, e)
  BY <1>4, <1>5, EnqueuedLists DEF Same, SameModes
<1>7. ModesOK(e)
  BY <1>1, <1>6, SameKeepsModes
<1>8. UnlockNotify(p, d, "callback")
  BY <1>3
<1> HIDE DEF e
<1>9. ListsOK(d) /\ ModesOK(d)
  BY <1>6, <1>7 DEF ListsOK, ModesOK, Fields
<1> HIDE DEF d
<1>10. UNCHANGED <<found, acquired>> /\ frameCounter' \in Nat
  BY <1>1 DEF QueueBuffer, consumer
<1> QED
  BY <1>3, <1>8, <1>9, <1>10, WakingScope DEF PCs, Asleep

-----------------------------------------------------------------------------
(* What a thread inside a call does next.                                  *)

LEMMA LookedUpIsPlain ==
    ASSUME WaitInv, NEW p \in Producers
    PROVE  /\ Plain(LookedUp(p)) /\ ModesOK(LookedUp(p))
           /\ Nothing(LookedUp(p)) <=> Nothing(core)
<1>1. Plain(LookedUp(p))
  BY PlainChanges DEF LookedUp
<1>2. Same(LookedUp(p), core)
  BY <1>1 DEF Plain, Same, SameModes
<1>3. Nothing(LookedUp(p)) <=> Nothing(core)
  BY <1>1, <1>2, NothingStays DEF Plain
<1>4. ModesOK(LookedUp(p))
  BY <1>1, SameKeepsModes DEF Plain, Same, WaitInv
<1> QED
  BY <1>1, <1>3, <1>4

\* dequeueBuffer's choice, in terms of the core it started from.
LEMMA DequeueFairly ==
    ASSUME WaitInv, NEW p \in Producers, NEW w
    PROVE  LET choice == DequeueChoice(LookedUp(p), w) IN
           \/ choice.slot = INVALID /\ Nothing(core) /\ choice.core = LookedUp(p)
           \/ /\ choice.slot \in Slots /\ ~Nothing(core)
              /\ ListsOK(choice.core) /\ Same(core, choice.core)
<1> DEFINE choice == DequeueChoice(LookedUp(p), w)
<1>1. FairChoice(LookedUp(p), choice)
  BY LookedUpIsPlain, DequeueChoiceIsFair DEF Plain
<1>2. /\ Same(core, LookedUp(p)) /\ (Nothing(LookedUp(p)) <=> Nothing(core))
  BY LookedUpIsPlain DEF Plain
<1> HIDE DEF choice
<1>3. Same(LookedUp(p), choice.core) => Same(core, choice.core)
  BY <1>2 DEF Same, SameModes
<1>4. \/ choice.slot = INVALID /\ Nothing(core) /\ choice.core = LookedUp(p)
      \/ /\ choice.slot \in Slots /\ ~Nothing(core)
         /\ ListsOK(choice.core) /\ Same(core, choice.core)
  BY <1>1, <1>2, <1>3 DEF FairChoice
<1> QED
  BY <1>4 DEF choice

\* The steps after which the lists are as they were.
LEMMA PlainStepsKeepWaitInv ==
    ASSUME WaitInv, Waking, NEW p \in Producers,
           \/ WaitForAllocation(p) \/ DequeueRefused(p)  \/ AttachRefused(p)
           \/ Callback(p)          \/ AllocateNext(p)    \/ AllocateFails(p)
           \/ AllocateRetries(p)   \/ YieldToDequeue(p)  \/ WaitTimesOut(p)
    PROVE  WaitInv'
<1>1. ~AllocateFails(p)
  BY DEF Waking, AllocateFails
<1>2. UNCHANGED <<held, acquired, frameCounter>> /\ (Forget(p) \/ UNCHANGED found)
  BY <1>1 DEF WaitForAllocation, DequeueRefused, AttachRefused, Callback, Notify,
     AllocateNext, AllocateRetries, YieldToDequeue, WaitTimesOut, locals, callbacks, consumer
<1>3. \E l \in PCs \ ({"allocate"} \cup Asleep) :
          \/ Unlock(p, core, l) \/ Unlock(p, LookedUp(p), l)
          \/ Unlock(p, [core EXCEPT !.waitingForAllocation = TRUE], l)
          \/ Unlock(p, [core EXCEPT !.allocating = TRUE], l)
          \/ Unlock(p, [core EXCEPT !.allocating = FALSE], l)
  BY <1>1 DEF WaitForAllocation, DequeueRefused, AttachRefused, Callback, Notify,
     AllocateNext, AllocateRetries, YieldToDequeue, WaitTimesOut, PCs, Asleep
<1> QED
  BY <1>2, <1>3, PlainScope, PlainChanges, LookedUpIsPlain

LEMMA SpuriousWakeupKeepsWaitInv ==
    ASSUME WaitInv, NEW p \in Producers, SpuriousWakeup(p)
    PROVE  WaitInv'
<1>1. Unlock(p, core, Woken(pc[p])) /\ UNCHANGED <<found, held, acquired, frameCounter>>
  BY DEF SpuriousWakeup, locals, callbacks, consumer
<1>2. Woken(pc[p]) \in PCs \ ({"allocate"} \cup Asleep)
  BY WokenIsAwake DEF SpuriousWakeup, WaitInv, HandsOK
<1> QED
  BY <1>1, <1>2, PlainScope, PlainChanges

LEMMA BlockedKeepsWaitInv ==
    ASSUME WaitInv, NEW p \in Producers, DequeueBlocked(p) \/ AttachBlocked(p)
    PROVE  WaitInv'
<1>1. UNCHANGED <<held, acquired, frameCounter>> /\ (Forget(p) \/ UNCHANGED found)
  BY DEF DequeueBlocked, AttachBlocked, callbacks, consumer
<1>2. ~core.abandoned
  BY DEF DequeueBlocked, AttachBlocked, Refused
<1>3. \A c, wait, timedWait : AfterNoSlot(c, wait, timedWait) \in {"idle", wait, timedWait}
  BY DEF AfterNoSlot
<1>4. CASE DequeueBlocked(p)
  <2>1. PICK l \in {"idle", "wait_slot", "timed_wait"} : Nothing(core) /\ Unlock(p, LookedUp(p), l)
    <3> DEFINE choice == DequeueChoice(LookedUp(p), SizeFor(p))
    <3>1. choice.slot = INVALID /\ Unlock(p, choice.core, AfterNoSlot(choice.core, "wait_slot", "timed_wait"))
      BY <1>4 DEF DequeueBlocked
    <3>2. Nothing(core) /\ choice.core = LookedUp(p)
      BY <3>1, DequeueFairly, InvalidIsNoSlot
    <3> HIDE DEF choice
    <3> QED
      BY <1>3, <3>1, <3>2
  <2>2. ListsOK(LookedUp(p)) /\ Same(core, LookedUp(p)) /\ (Nothing(core) => Nothing(LookedUp(p)))
    BY LookedUpIsPlain DEF Plain
  <2>3. l \in PCs \ {"allocate"}
    BY DEF PCs
  <2> QED
    BY <1>1, <1>2, <2>1, <2>2, <2>3, QuietScope
<1>5. CASE AttachBlocked(p)
  <2>1. PICK l \in {"idle", "attach_wait", "attach_timed_wait"} : Nothing(core) /\ Unlock(p, core, l)
    <3>1. AttachChoice(core).slot = INVALID
          /\ Unlock(p, core, AfterNoSlot(core, "attach_wait", "attach_timed_wait"))
      BY <1>5 DEF AttachBlocked
    <3>2. Nothing(core)
      BY <3>1, AttachChoiceIsFair, InvalidIsNoSlot DEF FairChoice, WaitInv
    <3> QED
      BY <1>3, <3>1, <3>2
  <2>2. ListsOK(core) /\ Same(core, core)
    BY DEF WaitInv, Same, SameModes
  <2>3. l \in PCs \ {"allocate"}
    BY DEF PCs
  <2> QED
    BY <1>1, <1>2, <2>1, <2>2, <2>3, QuietScope
<1> QED
  BY <1>4, <1>5

\* A slot is found: then nobody sleeps beside it.
LEMMA DequeueFoundKeepsWaitInv ==
    ASSUME WaitInv, NEW p \in Producers, DequeueFound(p)
    PROVE  WaitInv'
<1> DEFINE w == SizeFor(p)
           choice == DequeueChoice(LookedUp(p), w)
           s == choice.slot
           d == TakeSlot(choice.core, s, w)
<1>1. /\ s # INVALID
      /\ UNCHANGED <<acquired, frameCounter>>
      /\ \/ /\ Unlock(p, d, "allocate") /\ found' = [found EXCEPT ![p] = s] /\ UNCHANGED held
         \/ /\ Unlock(p, d, "idle") /\ held' = [held EXCEPT ![p] = @ \cup {s}] /\ Forget(p)
  BY DEF DequeueFound, callbacks, consumer
<1>2. s \in Slots /\ ~Nothing(core) /\ ListsOK(choice.core) /\ Same(core, choice.core)
  BY <1>1, DequeueFairly
<1> HIDE DEF choice, w
<1>3. ModesOK(choice.core)
  BY <1>2, SameKeepsModes DEF Same, WaitInv
<1>4. ListsOK(d) /\ Same(core, d)
  BY <1>2, <1>3, TakeSlotLists DEF Same, SameModes
<1> HIDE DEF d, s
<1>5. \A l \in PCs \ Asleep : Unlock(p, d, l) => CoreStepOK
  BY <1>2, <1>4, UnlockQuietly
<1>6. "allocate" \in PCs \ Asleep /\ "idle" \in PCs \ Asleep
  BY DEF PCs, Asleep
<1>7. CoreStepOK
  BY <1>1, <1>5, <1>6
<1>8. HandsStepOK
  <2>1. CASE Unlock(p, d, "allocate") /\ found' = [found EXCEPT ![p] = s] /\ UNCHANGED held
    BY <1>1, <1>2, <2>1 DEF Unlock, HandsStepOK, WaitInv, HandsOK
  <2>2. CASE Unlock(p, d, "idle") /\ held' = [held EXCEPT ![p] = @ \cup {s}] /\ Forget(p)
    BY <1>1, <1>2, <1>6, <2>2, HandsTake DEF Unlock
  <2> QED
    BY <1>1, <2>1, <2>2
<1> QED
  BY <1>7, <1>8, StepKeepsWaitInv

LEMMA AttachFoundKeepsWaitInv ==
    ASSUME WaitInv, NEW p \in Producers, AttachFound(p)
    PROVE  WaitInv'
<1> DEFINE choice == AttachChoice(core)
           s == choice.slot
           c == choice.core
           d == [c EXCEPT !.slots[s].buffer = want[p],
                          !.slots[s].dequeueCount = @ + 1,
                          !.slots[s].requested = TRUE,
                          !.active = @ \cup {s}]
<1>1. /\ s # INVALID
      /\ UNCHANGED <<acquired, frameCounter>>
      /\ Unlock(p, d, "idle") /\ held' = [held EXCEPT ![p] = @ \cup {s}] /\ Forget(p)
  BY DEF AttachFound, callbacks, consumer
<1>2. s \in Slots /\ ~Nothing(core) /\ ListsOK(c) /\ Same(core, c)
  BY <1>1, AttachChoiceIsFair DEF FairChoice, WaitInv
<1> HIDE DEF choice, s, c
<1>3. ListsOK(d) /\ Same(core, d)
  BY <1>2 DEF ListsOK, Same, SameModes, Fields
<1> HIDE DEF d
<1>4. "idle" \in PCs \ Asleep /\ "idle" # "allocate"
  BY DEF PCs, Asleep
<1>5. CoreStepOK
  BY <1>1, <1>2, <1>3, <1>4, UnlockQuietly
<1>6. HandsStepOK
  BY <1>1, <1>2, <1>4, HandsTake DEF Unlock
<1> QED
  BY <1>5, <1>6, StepKeepsWaitInv

LEMMA DequeueAllocatedKeepsWaitInv ==
    ASSUME WaitInv, NEW p \in Producers, DequeueAllocated(p)
    PROVE  WaitInv'
<1> DEFINE s == found[p]
           d == [core EXCEPT !.slots[s].buffer = want[p], !.allocating = FALSE]
<1>1. /\ s \in Slots /\ Unlock(p, d, "idle") /\ Forget(p)
      /\ held' = [held EXCEPT ![p] = @ \cup {s}]
      /\ UNCHANGED <<acquired, frameCounter>>
  BY DEF DequeueAllocated, callbacks, consumer, WaitInv, HandsOK
<1> HIDE DEF s
<1>2. Plain(d)
  BY DEF Plain, WaitInv, ListsOK, Same, SameModes, Fields
<1> HIDE DEF d
<1>3. "idle" \in PCs \ Asleep /\ "idle" # "allocate"
  BY DEF PCs, Asleep
<1>4. CoreStepOK
  BY <1>1, <1>2, <1>3, UnlockQuietly, NothingStays DEF Plain
<1>5. HandsStepOK
  BY <1>1, <1>3, HandsTake DEF Unlock
<1> QED
  BY <1>4, <1>5, StepKeepsWaitInv

\* An abandoned queue has no sleepers.
LEMMA DequeueNotAllocatedKeepsWaitInv ==
    ASSUME WaitInv, Waking, NEW p \in Producers, DequeueNotAllocated(p)
    PROVE  WaitInv'
<1> DEFINE c == FreeSlot(core, found[p])
           d == [c EXCEPT !.allocating = FALSE]
<1>1. /\ found[p] \in Slots /\ core.abandoned /\ Unlock(p, d, "idle") /\ Forget(p)
      /\ UNCHANGED <<held, acquired, frameCounter>>
  BY DEF DequeueNotAllocated, GiveUpAllocation, Waking, callbacks, consumer, WaitInv, HandsOK
<1>2. ListsOK(c) /\ Same(core, c)
  BY <1>1, FreeSlotLists DEF WaitInv
<1> HIDE DEF c
<1>3. ListsOK(d) /\ Same(core, d)
  BY <1>2 DEF ListsOK, Same, SameModes, Fields
<1> HIDE DEF d
<1> QED
  BY <1>1, <1>3, QuietScope DEF PCs, Asleep

\* detachNextBuffer takes a free buffer away: who sleeps beside one sleeps
\* because too many buffers are queued.
LEMMA DetachNextFinishKeepsWaitInv ==
    ASSUME WaitInv, NEW p \in Producers, DetachNextFinish(p)
    PROVE  WaitInv'
<1>1. UNCHANGED <<found, held, acquired, frameCounter>> /\ ListsOK(core)
  BY DEF DetachNextFinish, locals, callbacks, consumer, WaitInv
<1>2. CASE core.freeBuffers = <<>>
  <2>1. Unlock(p, core, "idle")
    BY <1>2 DEF DetachNextFinish
  <2> QED
    BY <1>1, <2>1, PlainScope, PlainChanges DEF PCs, Asleep
<1>3. CASE core.freeBuffers # <<>>
  <2> DEFINE s == Head(core.freeBuffers)
             c == [core EXCEPT !.freeBuffers = Without(@, s)]
             d == FreeSlot(c, s)
  <2>1. Unlock(p, d, "idle")
    BY <1>3 DEF DetachNextFinish
  <2>2. s \in Slots /\ Without(core.freeBuffers, s) \in Seq(Slots)
    <3>1. core.freeBuffers \in Seq(Slots)
      BY <1>1 DEF ListsOK
    <3>2. s \in Slots
      BY <1>3, <3>1
    <3> HIDE DEF s
    <3> QED
      BY <3>1, <3>2, WithoutIsSeq
  <2> HIDE DEF s
  <2>3. ListsOK(c) /\ Same(core, c)
    BY <1>1, <2>2 DEF ListsOK, Same, SameModes, Fields
  <2> HIDE DEF c
  <2>4. ListsOK(d) /\ Same(core, d)
    BY <2>2, <2>3, FreeSlotLists DEF Same, SameModes
  <2> HIDE DEF d
  <2>5. Nothing(core) => Nothing(d)
    BY <1>3, <2>4 DEF Nothing, TooManyBuffers, MaxBufferCount, BufferCountFor,
       ExtraBuffer, Same, SameModes
  <2> QED
    BY <1>1, <2>1, <2>4, <2>5, QuietScope DEF PCs, Asleep
<1> QED
  BY <1>2, <1>3

\* allocateBuffers puts a buffer in a slot that was free already.
LEMMA AllocateDoneKeepsWaitInv ==
    ASSUME WaitInv, NEW p \in Producers, AllocateDone(p)
    PROVE  WaitInv'
<1>1. /\ Unlock(p, Allocated(p), "yield_to_dequeue") /\ ListsOK(core)
      /\ UNCHANGED <<found, held, acquired, frameCounter>>
  BY DEF AllocateDone, locals, callbacks, consumer, WaitInv
<1>2. CASE core.freeSlots = {}
  <2>1. Unlock(p, [core EXCEPT !.allocating = FALSE], "yield_to_dequeue")
    BY <1>1, <1>2 DEF Allocated
  <2> QED
    BY <1>1, <2>1, PlainScope, PlainChanges DEF PCs, Asleep
<1>3. CASE core.freeSlots # {}
  <2> DEFINE s == FirstFreeSlot(core)
             c == [core EXCEPT !.freeSlots = @ \ {s},
                          !.freeBuffers = <<s>> \o @,
                          !.slots[s] = [ClearedSlot EXCEPT !.buffer = want[p]]]
             d == [c EXCEPT !.allocating = FALSE]
  <2>1. Unlock(p, d, "yield_to_dequeue")
    BY <1>1, <1>3 DEF Allocated, PutBuffer
  <2>2. s \in Slots
    BY <1>1, <1>3, FirstFreeSlotIsFree DEF ListsOK
  <2> HIDE DEF s
  <2>3. <<s>> \o core.freeBuffers \in Seq(Slots)
    BY <1>1, <2>2 DEF ListsOK
  <2>4. ListsOK(c) /\ Same(core, c)
    BY <1>1, <2>3 DEF ListsOK, Same, SameModes, Fields
  <2> HIDE DEF c
  <2>5. ListsOK(d) /\ Same(core, d)
    BY <2>4 DEF ListsOK, Same, SameModes, Fields
  <2> HIDE DEF d
  <2>6. Nothing(core) => Nothing(d)
    BY <1>3, <2>5 DEF Nothing, TooManyBuffers, MaxBufferCount, BufferCountFor,
       ExtraBuffer, Same, SameModes
  <2> QED
    BY <1>1, <2>1, <2>5, <2>6, QuietScope DEF PCs, Asleep
<1> QED
  BY <1>2, <1>3

LEMMA ContinueKeepsWaitInv ==
    ASSUME WaitInv, Waking, NEW p \in Producers, Continue(p)
    PROVE  WaitInv'
<1>1. CASE DequeueStep(p)
  <2>1. ~DequeueSharedMisfit(p)
    BY DEF DequeueSharedMisfit, WaitInv, ModesOK
  <2> QED
    BY <1>1, <2>1, PlainStepsKeepWaitInv, BlockedKeepsWaitInv,
       DequeueFoundKeepsWaitInv, DequeueAllocatedKeepsWaitInv,
       DequeueNotAllocatedKeepsWaitInv
    DEF DequeueStep
<1>2. CASE AttachStep(p)
  BY <1>2, PlainStepsKeepWaitInv, BlockedKeepsWaitInv, AttachFoundKeepsWaitInv
  DEF AttachStep
<1>3. CASE AllocateStep(p)
  BY <1>3, PlainStepsKeepWaitInv, AllocateDoneKeepsWaitInv DEF AllocateStep
<1>4. CASE DetachNextFinish(p) \/ Callback(p)
  BY <1>4, DetachNextFinishKeepsWaitInv, PlainStepsKeepWaitInv
<1> QED
  BY <1>1, <1>2, <1>3, <1>4 DEF Continue

LEMMA BeginKeepsWaitInv ==
    ASSUME WaitInv, Waking, NEW p \in Producers, Begin(p)
    PROVE  WaitInv'
BY SettersKeepWaitInv, SetMaxDequeuedKeepsWaitInv, SetAsyncModeKeepsWaitInv,
   SetDequeueTimeoutKeepsWaitInv, ConnectKeepsWaitInv, GivingBackKeepsWaitInv,
   DisconnectKeepsWaitInv, QueueBufferKeepsWaitInv
DEF Begin

-----------------------------------------------------------------------------
(* The consumer and the death of the producer wake everybody.              *)

LEMMA NotifyScope ==
    ASSUME WaitInv, NEW d, ConsumerNotify(d), ListsOK(d), ModesOK(d),
           UNCHANGED held \/ held' = [q \in Producers |-> {}],
           UNCHANGED <<found, frameCounter>>, acquired' \subseteq Slots \X Nat
    PROVE  WaitInv'
<1>1. CoreStepOK /\ \A q \in Producers : pc'[q] = "allocate" => pc[q] = "allocate"
  BY NotifyWaking
<1>2. HandsStepOK
  BY <1>1, HandsGive DEF WaitInv, HandsOK
<1> QED
  BY <1>1, <1>2, StepKeepsWaitInv

LEMMA AsleepAsBefore ==
    ASSUME WaitInv, NEW d, core' = d, Plain(d), UNCHANGED <<pc, found, held, frameCounter, acquired>>
    PROVE  WaitInv'
<1>1. Nothing(core) => Nothing(d)
  BY NothingStays DEF Plain
<1>2. ListsOK(d) /\ ModesOK(d) /\ (d.abandoned <=> core.abandoned)
  BY SameKeepsModes DEF Plain, Same, SameModes, WaitInv
<1> QED
  BY <1>1, <1>2 DEF WaitInv, HandsOK, SleepersOK

LEMMA AcquireBufferKeepsWaitInv ==
    ASSUME WaitInv, AcquireBuffer
    PROVE  WaitInv'
<1> DEFINE item == Head(core.queue)
           c == [core EXCEPT !.queue = Tail(@)]
           d == IF item.stale THEN c
                ELSE [c EXCEPT !.slots[item.slot].queueCount = @ - 1,
                               !.slots[item.slot].acquireCount = @ + 1]
<1>1. /\ core.queue # <<>> /\ ConsumerNotify(d)
      /\ acquired' = acquired \cup {<<item.slot, item.frame>>}
      /\ UNCHANGED <<held, found, frameCounter>>
  BY DEF AcquireBuffer, locals, callbacks
<1>2. ListsOK(core) /\ ModesOK(core) /\ acquired \subseteq Slots \X Nat
  BY DEF WaitInv, HandsOK
<1>3. item \in QueueItems /\ Tail(core.queue) \in Seq(QueueItems)
  BY <1>1, <1>2 DEF ListsOK
<1>4. acquired' \subseteq Slots \X Nat
  BY <1>1, <1>2, <1>3 DEF QueueItems
<1> HIDE DEF item
<1>5. ListsOK(c) /\ ModesOK(c)
  BY <1>2, <1>3 DEF ListsOK, ModesOK, Fields
<1> HIDE DEF c
<1>6. ListsOK(d) /\ ModesOK(d)
  BY <1>5 DEF ListsOK, ModesOK, Fields
<1> HIDE DEF d
<1> QED
  BY <1>1, <1>4, <1>6, NotifyScope

LEMMA ReleaseBufferKeepsWaitInv ==
    ASSUME WaitInv, ReleaseBuffer
    PROVE  WaitInv'
<1>1. ListsOK(core) /\ ModesOK(core) /\ acquired \subseteq Slots \X Nat
  BY DEF WaitInv, HandsOK
<1>2. PICK a \in acquired :
          /\ acquired' = acquired \ {a}
          /\ \/ ConsumerNotify(Recycle([core EXCEPT !.slots[a[1]].acquireCount = @ - 1], a[1]))
             \/ UNCHANGED <<core, pc>>
  BY DEF ReleaseBuffer
<1>3. UNCHANGED <<held, found, frameCounter>>
  BY DEF ReleaseBuffer, locals, callbacks
<1>4. a[1] \in Slots /\ acquired' \subseteq Slots \X Nat
  BY <1>1, <1>2
<1>5. CASE UNCHANGED <<core, pc>>
  BY <1>3, <1>4, <1>5 DEF WaitInv, HandsOK, SleepersOK
<1>6. CASE ConsumerNotify(Recycle([core EXCEPT !.slots[a[1]].acquireCount = @ - 1], a[1]))
  <2> DEFINE c == [core EXCEPT !.slots[a[1]].acquireCount = @ - 1]
  <2>1. ListsOK(c) /\ Same(core, c)
    BY <1>1 DEF ListsOK, Same, SameModes, Fields
  <2>2. ConsumerNotify(Recycle(c, a[1]))
    BY <1>6
  <2> HIDE DEF c
  <2>3. ListsOK(Recycle(c, a[1])) /\ ModesOK(Recycle(c, a[1]))
    BY <1>1, <1>4, <2>1, RecycleLists, SameKeepsModes DEF Same
  <2> QED
    BY <1>3, <1>4, <2>2, <2>3, NotifyScope
<1> QED
  BY <1>2, <1>5, <1>6

LEMMA AbandonKeepsWaitInv ==
    ASSUME WaitInv, Abandon
    PROVE  WaitInv'
<1> DEFINE c == [core EXCEPT !.queue = <<>>]
           e == FreeAllBuffers(c)
           d == [e EXCEPT !.abandoned = TRUE, !.sharedSlot = INVALID]
<1>1. ConsumerNotify(d) /\ acquired' = {} /\ UNCHANGED <<held, found, frameCounter>>
  BY DEF Abandon, locals, callbacks
<1>2. ListsOK(c) /\ ModesOK(c)
  BY DEF WaitInv, ListsOK, ModesOK, Fields
<1> HIDE DEF c
<1>3. ListsOK(e) /\ ModesOK(e)
  BY <1>2, FreeAllBuffersLists, SameKeepsModes
<1> HIDE DEF e
<1>4. ListsOK(d) /\ ModesOK(d)
  BY <1>3 DEF ListsOK, ModesOK, Fields
<1> HIDE DEF d
<1> QED
  BY <1>1, <1>4, NotifyScope

LEMMA OtherStepsKeepWaitInv ==
    ASSUME WaitInv, ObituarySent \/ BinderDied \/ SetDefaultBufferSize \/ UNCHANGED vars
    PROVE  WaitInv'
<1>1. CASE ObituarySent \/ UNCHANGED vars
  <2>1. UNCHANGED <<core, pc, found, held, frameCounter, acquired>>
    BY <1>1 DEF ObituarySent, vars, locals, callbacks, consumer
  <2> QED
    BY <2>1, AsleepAsBefore, PlainChanges
<1>2. CASE SetDefaultBufferSize
  <2>1. PICK w : core' = [core EXCEPT !.defaultSize = w]
    BY <1>2 DEF SetDefaultBufferSize
  <2>2. UNCHANGED <<pc, found, held, frameCounter, acquired>>
    BY <1>2 DEF SetDefaultBufferSize, locals, callbacks, consumer
  <2> QED
    BY <2>1, <2>2, AsleepAsBefore, PlainChanges
<1>3. CASE BinderDied
  <2>1. UNCHANGED <<found, frameCounter, acquired>>
    BY <1>3 DEF BinderDied, callbacks, consumer
  <2>2. CASE Usable
    <3>1. ConsumerNotify(Disconnected(core)) /\ held' = [q \in Producers |-> {}]
      BY <1>3, <2>2 DEF BinderDied, ConsumerNotify
    <3>2. ListsOK(Disconnected(core)) /\ ModesOK(Disconnected(core))
      BY DisconnectedLists DEF WaitInv
    <3>3. acquired' \subseteq Slots \X Nat
      BY <2>1 DEF WaitInv, HandsOK
    <3> QED
      BY <2>1, <3>1, <3>2, <3>3, NotifyScope
  <2>3. CASE ~Usable
    <3>1. UNCHANGED <<core, pc, held>>
      BY <1>3, <2>3 DEF BinderDied
    <3> QED
      BY <2>1, <3>1, AsleepAsBefore, PlainChanges
  <2> QED
    BY <2>2, <2>3
<1> QED
  BY <1>1, <1>2, <1>3

-----------------------------------------------------------------------------

LEMMA InitWaitInv == Init => WaitInv
<1> SUFFICES ASSUME Init
             PROVE  WaitInv
  OBVIOUS
<1>1. core = InitialCore
  BY DEF Init
<1> DEFINE n == MaxAcquired + 1
           free == 0 .. (IF n < NumSlots THEN n ELSE NumSlots) - 1
           m == IF n < NumSlots THEN NumSlots - n ELSE 0
           unused == [i \in 1 .. m |-> n + i - 1]
<1>2. free \subseteq Slots
  BY CoreAssumption DEF Slots
<1>3. unused \in Seq(Slots)
  <2>1. m \in Nat /\ \A i \in 1 .. m : n + i - 1 \in Slots
    BY CoreAssumption DEF Slots
  <2> HIDE DEF m, n
  <2> QED
    BY <2>1
<1>4. ListsOK(core) /\ ModesOK(core)
  <2>1. /\ core.freeSlots = free /\ core.unused = unused /\ core.active = {}
        /\ core.freeBuffers = <<>> /\ core.queue = <<>>
        /\ core.allowAllocation /\ ~core.sharedMode /\ core.sharedSlot = INVALID
        /\ ~core.cannotBlock /\ core.async = FALSE /\ core.maxDequeued = 1
    BY <1>1 DEF InitialCore
  <2>2. DOMAIN core = Fields
    BY <1>1 DEF InitialCore, Fields
  <2>3. <<>> \in Seq(Slots) /\ <<>> \in Seq(QueueItems)
    OBVIOUS
  <2> HIDE DEF free, unused
  <2>4. ListsOK(core)
    BY <1>2, <1>3, <2>1, <2>2, <2>3 DEF ListsOK
  <2>5. core.async \in BOOLEAN /\ core.maxDequeued \in 1 .. NumSlots
    <3>1. 1 \in 1 .. NumSlots
      BY CoreAssumption
    <3>2. core.async \in BOOLEAN
      BY <1>1 DEF InitialCore
    <3> QED
      BY <2>1, <3>1, <3>2
  <2>6. ModesOK(core)
    BY <2>1, <2>5 DEF ModesOK
  <2> QED
    BY <2>4, <2>6
<1>5. HandsOK /\ SleepersOK
  BY DEF Init, HandsOK, SleepersOK, PCs, Asleep
<1> QED
  BY <1>4, <1>5 DEF WaitInv

LEMMA NextKeepsWaitInv ==
    ASSUME Waking, WaitInv, [Next]_vars
    PROVE  WaitInv'
<1>1. ASSUME NEW p \in Producers, Begin(p) \/ Continue(p) \/ WaitTimesOut(p) \/ SpuriousWakeup(p)
      PROVE  WaitInv'
  BY <1>1, BeginKeepsWaitInv, ContinueKeepsWaitInv, PlainStepsKeepWaitInv,
     SpuriousWakeupKeepsWaitInv
<1> QED
  BY <1>1, OtherStepsKeepWaitInv, AcquireBufferKeepsWaitInv,
     ReleaseBufferKeepsWaitInv, AbandonKeepsWaitInv
  DEF Next

\* No thread sleeps in dequeueBuffer or attachBuffer beside a slot it could
\* have: whatever the other threads queue, cancel, detach, attach, switch,
\* connect and disconnect, and whatever the consumer does, the lock scopes
\* that call notify_all are enough (BufferQueueProducer.cpp).
THEOREM NobodySleepsBesideASlot ==
    ASSUME Waking
    PROVE  Spec => []NoSleepBesideSlot
<1>1. Init => WaitInv
  BY InitWaitInv
<1>2. WaitInv /\ [Next]_vars => WaitInv'
  BY NextKeepsWaitInv
<1>3. WaitInv => NoSleepBesideSlot
  <2> SUFFICES ASSUME WaitInv, NEW p \in Producers
               PROVE  /\ pc[p] \in {"wait_slot", "timed_wait"}
                         => DequeueChoice(core, want[p]).slot = INVALID
                      /\ pc[p] \in {"attach_wait", "attach_timed_wait"}
                         => AttachChoice(core).slot = INVALID
    BY DEF NoSleepBesideSlot
  <2>1. FairChoice(core, DequeueChoice(core, want[p])) /\ FairChoice(core, AttachChoice(core))
    BY DequeueChoiceIsFair, AttachChoiceIsFair DEF WaitInv
  <2>2. pc[p] \in Asleep => Nothing(core)
    BY DEF WaitInv, SleepersOK
  <2> QED
    BY <2>1, <2>2 DEF FairChoice, Asleep
<1> QED
  BY <1>1, <1>2, <1>3, PTL DEF Spec
=============================================================================

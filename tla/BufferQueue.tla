---------------------------- MODULE BufferQueue ----------------------------
(***************************************************************************)
(* BufferQueueProducer: the producer's side of a buffer queue, called by   *)
(* the threads of a client (binder threads of the surface's owner), with   *)
(* the consumer's calls as the environment.                                *)
(*                                                                         *)
(* A lock scope of the code is one action.  Where the code drops           *)
(* mCore->mMutex in the middle of a call (the two scopes of dequeueBuffer, *)
(* the buffer allocation, the condition variables, the callback after      *)
(* queueBuffer) the thread's pc keeps its place and others may run.        *)
(***************************************************************************)
EXTENDS BufferQueueCore

CONSTANTS
    Producers,                \* threads that call the producer
    Calls,                    \* Calls[p]: the calls thread p makes
    ConsumerCalls,            \* the calls the consumer makes
    MaxFrames,                \* queueBuffer succeeds at most so often (bound)
    MaxConnections,           \* and connect (bound)
    MaxDequeues,              \* dequeues of the shared slot at a time (bound)
    MayFail,                  \* whether a buffer allocation can fail
    ControlledByApp,          \* mConsumerControlledByApp
    ConsumerIsSurfaceFlinger  \* mConsumerIsSurfaceFlinger

ASSUME ProducerAssumption ==
    /\ MaxFrames \in Nat
    /\ MaxConnections \in Nat
    /\ MaxDequeues \in Nat \ {0}
    /\ {MayFail, ControlledByApp, ConsumerIsSurfaceFlinger} \subseteq BOOLEAN

VARIABLES
    core,           \* everything mCore->mMutex guards, see BufferQueueCore
    pc,             \* where a thread is; "idle" outside the producer
    arg,            \* the size a call asks for, NoBuffer is the default size
    want,           \* that size once the default is known
    found,          \* the slot a dequeue has taken and allocates for
    held,           \* slots a thread has been given and not given back
    frameCounter,   \* mFrameCounter
    nextTicket,     \* mNextCallbackTicket
    currentTicket,  \* mCurrentCallbackTicket
    ticket,         \* queueBuffer's callbackTicket
    frame,          \* queueBuffer's currentFrameNumber
    notified,       \* history: frames the consumer's listener was told of
    acquired,       \* frames the consumer has acquired and not released
    connections,    \* history: how often connect has succeeded
    obituaries,     \* connections whose death notification is under way
    claims          \* history: assertions of the code that have failed

locals == <<arg, want, found, held>>
callbacks == <<frameCounter, nextTicket, currentTicket, ticket, frame, notified>>
consumer == <<acquired>>
links == <<connections, obituaries>>
vars == <<core, pc, locals, callbacks, consumer, links, claims>>

PCs == {"idle", "dequeue", "wait_allocation", "wait_slot", "timed_wait",
        "retry_slot", "allocate", "attach", "attach_wait", "attach_timed_wait",
        "attach_retry", "detach_next", "callback", "allocate_loop",
        "allocate_buffers", "yield_to_dequeue"}

Items == [slot : Slots, frame : 1 .. MaxFrames, droppable : BOOLEAN,
          stale : BOOLEAN]

TypeOK ==
    /\ core.slots \in [Slots -> [dequeueCount : Nat, queueCount : Nat,
                                 acquireCount : Nat, shared : BOOLEAN,
                                 buffer : Sizes \cup {NoBuffer},
                                 requested : BOOLEAN, frame : 0 .. MaxFrames]]
    /\ core.freeSlots \subseteq Slots
    /\ core.active \subseteq Slots
    /\ core.freeBuffers \in Seq(Slots)
    /\ core.unused \in Seq(Slots)
    /\ core.queue \in Seq(Items)
    /\ core.sharedSlot \in Slots \cup {INVALID}
    /\ pc \in [Producers -> PCs]
    /\ arg \in [Producers -> Sizes \cup {NoBuffer}]
    /\ want \in [Producers -> Sizes \cup {NoBuffer}]
    /\ found \in [Producers -> Slots \cup {INVALID}]
    /\ held \in [Producers -> SUBSET Slots]
    /\ acquired \subseteq Slots \X (1 .. MaxFrames)
    /\ obituaries \subseteq 1 .. MaxConnections
    /\ claims \subseteq {"consistency", "buffer_in_slot", "still_connected"}

Init ==
    /\ core = InitialCore
    /\ pc = [p \in Producers |-> "idle"]
    /\ arg = [p \in Producers |-> NoBuffer]
    /\ want = [p \in Producers |-> NoBuffer]
    /\ found = [p \in Producers |-> INVALID]
    /\ held = [p \in Producers |-> {}]
    /\ frameCounter = 0
    /\ nextTicket = 0
    /\ currentTicket = 0
    /\ ticket = [p \in Producers |-> 0]
    /\ frame = [p \in Producers |-> 0]
    /\ notified = <<>>
    /\ acquired = {}
    /\ connections = 0
    /\ obituaries = {}
    /\ claims = {}

\* A dereferenced null buffer ends the process.
Running == "buffer_in_slot" \notin claims

Call(p, name) == Running /\ pc[p] = "idle" /\ name \in Calls[p]

\* The first checks of almost every call.
Usable == ~core.abandoned /\ core.connected # 0

\* The lock scope ends with core = d and thread p at l; in UnlockNotify,
\* mDequeueCondition.notify_all() has been called in it.
Unlock(p, d, l) == core' = d /\ pc' = [pc EXCEPT ![p] = l]
Woken(l) ==
    CASE l \in {"wait_slot", "timed_wait"} -> "retry_slot"
      [] l \in {"attach_wait", "attach_timed_wait"} -> "attach_retry"
      [] OTHER -> l

\* Mutant: the scope ends without notify_all().
UnlockSilent(p, d, l) == Unlock(p, d, l)

UnlockNotify(p, d, l) ==
    /\ core' = d
    /\ pc' = [q \in Producers |-> IF q = p THEN l ELSE Woken(pc[q])]
\* The call's local variables go out of scope.
Forget(p) ==
    /\ arg' = [arg EXCEPT ![p] = NoBuffer]
    /\ want' = [want EXCEPT ![p] = NoBuffer]
    /\ found' = [found EXCEPT ![p] = INVALID]

Validate(d) ==
    claims' = IF Consistent(d) THEN claims ELSE claims \cup {"consistency"}

-----------------------------------------------------------------------------
(* Mode and buffer count.                                                  *)

\* requestBuffer hands the client the buffer of a slot it has dequeued.
RequestBuffer(p) ==
    /\ Call(p, "requestBuffer")
    /\ Usable
    /\ \E s \in held[p] :
        /\ IsDequeued(core, s)
        /\ Unlock(p, [core EXCEPT !.slots[s].requested = TRUE], "idle")
    /\ UNCHANGED <<locals, callbacks, consumer, links, claims>>

SetMaxDequeuedBufferCount(p) ==
    /\ Call(p, "setMaxDequeuedBufferCount")
    /\ ~core.allocating
    /\ ~core.abandoned
    /\ \E n \in 1 .. NumSlots \ {core.maxDequeued} :
        LET delta == n - core.maxDequeued
            d == [Adjusted(core, delta) EXCEPT !.maxDequeued = n]
        IN  /\ DequeuedCount(core) <= n
            /\ MinUndequeued(core) + n <= NumSlots
            /\ CanAdjust(core, delta)
            /\ UnlockNotify(p, d, "idle")
            /\ Validate(d)
    /\ UNCHANGED <<locals, callbacks, consumer, links>>

SwitchAsyncMode(p) ==
    LET async == ~core.async
        delta == BufferCountFor(core, async, core.cannotBlock)
                    - MaxBufferCount(core)
        d == [Adjusted(core, delta) EXCEPT !.async = async]
    IN  /\ Call(p, "setAsyncMode")
        /\ ~core.allocating
        /\ ~core.abandoned
        /\ CanAdjust(core, delta)
        /\ UnlockNotify(p, d, "idle")
        /\ Validate(d)
        /\ UNCHANGED <<locals, callbacks, consumer, links>>

SetAsyncMode(p) ==
    /\ MaxAcquired + core.maxDequeued + ExtraBuffer(~core.async, core.cannotBlock)
          <= NumSlots
    /\ SwitchAsyncMode(p)

\* setDequeueTimeout wakes nobody.
SetDequeueTimeout(p) ==
    /\ Call(p, "setDequeueTimeout")
    /\ \E timeout \in {-1, 0, 1} \ {core.timeout} :
        LET cannotBlock == timeout < 0 /\ core.cannotBlock
            delta == BufferCountFor(core, core.async, cannotBlock)
                        - MaxBufferCount(core)
            d == [Adjusted(core, delta) EXCEPT
                    !.timeout = timeout,
                    !.cannotBlock = cannotBlock,
                    !.canDrop = @ /\ timeout <= 0]
        IN  /\ CanAdjust(core, delta)
            /\ Unlock(p, d, "idle")
            /\ Validate(d)
    /\ UNCHANGED <<locals, callbacks, consumer, links>>

\* The setters that only store their argument, and wake nobody.
AllowAllocation(p) ==
    /\ Call(p, "allowAllocation")
    /\ Unlock(p, [core EXCEPT !.allowAllocation = ~@], "idle")
    /\ UNCHANGED <<locals, callbacks, consumer, links, claims>>

SetLegacyBufferDrop(p) ==
    /\ Call(p, "setLegacyBufferDrop")
    /\ Unlock(p, [core EXCEPT !.legacyDrop = ~@], "idle")
    /\ UNCHANGED <<locals, callbacks, consumer, links, claims>>

\* Leaving shared mode forgets the slot, whose buffer stays marked as shared.
SetSharedBufferMode(p) ==
    /\ Call(p, "setSharedBufferMode")
    /\ Unlock(p, [core EXCEPT !.sharedMode = ~@,
                             !.sharedSlot = IF core.sharedMode THEN INVALID ELSE @],
              "idle")
    /\ UNCHANGED <<locals, callbacks, consumer, links, claims>>

-----------------------------------------------------------------------------
(* waitForFreeSlotThenRelock, dequeueBuffer and attachBuffer.              *)

Choice(s, c) == [slot |-> s, core |-> c]
NoSlot(c) == Choice(INVALID, c)

\* Mutant: the buffer stays in mFreeBuffers.
PeekBuffer(c) == Choice(Head(c.freeBuffers), c)

PopBuffer(c) ==
    Choice(Head(c.freeBuffers), [c EXCEPT !.freeBuffers = Tail(@)])
PopSlot(c) ==
    Choice(FirstFreeSlot(c), [c EXCEPT !.freeSlots = @ \ {FirstFreeSlot(c)}])

TooManyBuffers(c) == Len(c.queue) > MaxBufferCount(c)
HasSharedSlot(c) == c.sharedMode /\ c.sharedSlot # INVALID

\* Without leave to allocate, dequeueBuffer gives up the buffers that do not
\* fit, up to the first that does.
DropMisfits(c, w) ==
    LET fit == SelectInSeq(c.freeBuffers, LAMBDA s : c.slots[s].buffer = w)
        n == IF fit = 0 THEN Len(c.freeBuffers) ELSE fit - 1
        gone == {c.freeBuffers[i] : i \in 1 .. n}
    IN  [c EXCEPT !.freeBuffers = SubSeq(@, n + 1, Len(@)),
                  !.freeSlots = @ \cup gone,
                  !.slots = [s \in Slots |->
                                IF s \in gone THEN ClearedSlot ELSE c.slots[s]]]

DequeueChoice(c, w) ==
    IF TooManyBuffers(c) THEN NoSlot(c)
    ELSE IF HasSharedSlot(c) THEN Choice(c.sharedSlot, c)
    ELSE LET d == IF c.allowAllocation THEN c ELSE DropMisfits(c, w)
         IN  IF d.freeBuffers # <<>> THEN PopBuffer(d)
             ELSE IF d.allowAllocation /\ d.freeSlots # {} THEN PopSlot(d)
             ELSE NoSlot(d)

AttachChoice(c) ==
    IF TooManyBuffers(c) THEN NoSlot(c)
    ELSE IF HasSharedSlot(c) THEN Choice(c.sharedSlot, c)
    ELSE IF c.freeSlots # {} THEN PopSlot(c)
    ELSE IF c.freeBuffers # <<>> THEN PopBuffer(c)
    ELSE NoSlot(c)

\* Producers may not exceed the dequeue limit once a buffer has been queued.
Refused(c) ==
    \/ c.abandoned
    \/ c.hasBeenQueued /\ DequeuedCount(c) >= c.maxDequeued

\* No slot: the call fails in non-blocking mode and else waits.
AfterNoSlot(c, wait, timedWait) ==
    IF (c.cannotBlock \/ c.async) /\ AcquiredCount(c) <= MaxAcquired THEN "idle"
    ELSE IF c.timeout >= 0 THEN timedWait
    ELSE wait

\* In shared mode the first slot dequeued or queued becomes the shared one.
ShareFirst(c, s) ==
    IF c.sharedMode /\ c.sharedSlot = INVALID
    THEN [c EXCEPT !.sharedSlot = s, !.slots[s].shared = TRUE] ELSE c

\* The slot is dequeued; without a fitting buffer it loses the one it has.
NeedsBuffer(c, s, w) == c.slots[s].buffer # w
TakeSlot(c, s, w) ==
    LET d == [c EXCEPT !.active = IF c.sharedSlot = s THEN @ ELSE @ \cup {s},
                       !.slots[s].dequeueCount = @ + 1]
        e == IF NeedsBuffer(c, s, w)
             THEN [d EXCEPT !.slots[s].buffer = NoBuffer,
                            !.slots[s].requested = FALSE,
                            !.allocating = TRUE]
             ELSE d
    IN  ShareFirst(e, s)

\* dequeueBuffer, first lock scope.
DequeueBuffer(p) ==
    /\ Call(p, "dequeueBuffer")
    /\ Usable
    /\ HasSharedSlot(core) =>
          core.slots[core.sharedSlot].dequeueCount < MaxDequeues
    /\ \E w \in Sizes \cup {NoBuffer} : arg' = [arg EXCEPT ![p] = w]
    /\ Unlock(p, core, "dequeue")
    /\ UNCHANGED <<want, found, held, callbacks, consumer, links, claims>>

\* Second lock scope: wait for an allocation under way if no buffer is free.
WaitForAllocation(p) ==
    /\ Running
    /\ pc[p] = "dequeue"
    /\ core.freeBuffers = <<>>
    /\ core.allocating
    /\ Unlock(p, [core EXCEPT !.waitingForAllocation = TRUE], "wait_allocation")
    /\ UNCHANGED <<locals, callbacks, consumer, links, claims>>

\* The thread has the lock and looks for a slot, at first or once woken.
Looking(p) ==
    /\ Running
    /\ \/ pc[p] = "dequeue" /\ (core.freeBuffers # <<>> \/ ~core.allocating)
       \/ pc[p] = "wait_allocation" /\ ~core.allocating
       \/ pc[p] = "retry_slot"

\* Mutant: mDequeueWaitingForAllocation is not cleared.
LookedUpKeepsWaiting(p) == core

LookedUp(p) ==
    IF pc[p] = "wait_allocation"
    THEN [core EXCEPT !.waitingForAllocation = FALSE] ELSE core
SizeFor(p) ==
    IF pc[p] = "retry_slot" THEN want[p]
    ELSE IF arg[p] = NoBuffer THEN core.defaultSize ELSE arg[p]

DequeueRefused(p) ==
    /\ Looking(p)
    /\ Refused(core)
    /\ Unlock(p, LookedUp(p), "idle")
    /\ Forget(p)
    /\ UNCHANGED <<held, callbacks, consumer, links, claims>>

DequeueBlocked(p) ==
    LET choice == DequeueChoice(LookedUp(p), SizeFor(p)) IN
    /\ Looking(p)
    /\ ~Refused(core)
    /\ choice.slot = INVALID
    /\ LET l == AfterNoSlot(choice.core, "wait_slot", "timed_wait") IN
        /\ Unlock(p, choice.core, l)
        /\ IF l = "idle"
           THEN Forget(p)
           ELSE want' = [want EXCEPT ![p] = SizeFor(p)] /\ UNCHANGED <<arg, found>>
    /\ UNCHANGED <<held, callbacks, consumer, links, claims>>

\* A shared slot cannot be reallocated; one without a buffer is dereferenced.
DequeueSharedMisfit(p) ==
    LET choice == DequeueChoice(LookedUp(p), SizeFor(p)) IN
    /\ Looking(p)
    /\ ~Refused(core)
    /\ choice.slot # INVALID
    /\ choice.slot = core.sharedSlot
    /\ NeedsBuffer(choice.core, choice.slot, SizeFor(p))
    /\ Unlock(p, choice.core, "idle")
    /\ claims' = IF core.slots[choice.slot].buffer = NoBuffer
                 THEN claims \cup {"buffer_in_slot"} ELSE claims
    /\ Forget(p)
    /\ UNCHANGED <<held, callbacks, consumer, links>>

DequeueFound(p) ==
    LET w == SizeFor(p)
        choice == DequeueChoice(LookedUp(p), w)
        s == choice.slot
    IN  /\ Looking(p)
        /\ ~Refused(core)
        /\ s # INVALID
        /\ s = core.sharedSlot => ~NeedsBuffer(choice.core, s, w)
        /\ IF NeedsBuffer(choice.core, s, w)
           THEN /\ Unlock(p, TakeSlot(choice.core, s, w), "allocate")
                /\ want' = [want EXCEPT ![p] = w]
                /\ found' = [found EXCEPT ![p] = s]
                /\ UNCHANGED <<arg, held>>
           ELSE /\ Unlock(p, TakeSlot(choice.core, s, w), "idle")
                /\ held' = [held EXCEPT ![p] = @ \cup {s}]
                /\ Forget(p)
        /\ UNCHANGED <<callbacks, consumer, links, claims>>

\* The new buffer is put in the slot, unless the queue was abandoned.
DequeueAllocated(p) ==
    LET s == found[p]
        d == [core EXCEPT !.slots[s].buffer = want[p], !.allocating = FALSE]
    IN  /\ Running
        /\ pc[p] = "allocate"
        /\ ~core.abandoned
        /\ Unlock(p, d, "idle")
        /\ Validate(d)
        /\ held' = [held EXCEPT ![p] = @ \cup {s}]
        /\ Forget(p)
        /\ UNCHANGED <<callbacks, consumer, links>>

GiveUpAllocation(p, allocating) ==
    /\ Running
    /\ pc[p] = "allocate"
    /\ MayFail \/ core.abandoned
    /\ Unlock(p, [FreeSlot(core, found[p]) EXCEPT !.allocating = allocating],
              "idle")
    /\ Forget(p)
    /\ UNCHANGED <<held, callbacks, consumer, links, claims>>

\* On failure and on abandonment the slot becomes free; it is not erased from
\* mActiveBuffers and nobody waiting for a slot is woken.
DequeueNotAllocated(p) == GiveUpAllocation(p, FALSE)

\* attachBuffer: the checks precede the wait for an allocation.
AttachBuffer(p) ==
    /\ Call(p, "attachBuffer")
    /\ Usable
    /\ ~core.sharedMode
    /\ \E w \in Sizes : want' = [want EXCEPT ![p] = w]
    /\ Unlock(p, core, "attach")
    /\ UNCHANGED <<arg, found, held, callbacks, consumer, links, claims>>

Attaching(p) ==
    /\ Running
    /\ \/ pc[p] = "attach" /\ ~core.allocating
       \/ pc[p] = "attach_retry"

AttachRefused(p) ==
    /\ Attaching(p)
    /\ Refused(core)
    /\ Unlock(p, core, "idle")
    /\ Forget(p)
    /\ UNCHANGED <<held, callbacks, consumer, links, claims>>

AttachBlocked(p) ==
    /\ Attaching(p)
    /\ ~Refused(core)
    /\ AttachChoice(core).slot = INVALID
    /\ LET l == AfterNoSlot(core, "attach_wait", "attach_timed_wait") IN
        /\ Unlock(p, core, l)
        /\ IF l = "idle" THEN Forget(p) ELSE UNCHANGED <<arg, want, found>>
    /\ UNCHANGED <<held, callbacks, consumer, links, claims>>

AttachFound(p) ==
    LET choice == AttachChoice(core)
        s == choice.slot
        d == [choice.core EXCEPT !.slots[s].buffer = want[p],
                                 !.slots[s].dequeueCount = @ + 1,
                                 !.slots[s].requested = TRUE,
                                 !.active = @ \cup {s}]
    IN  /\ Attaching(p)
        /\ ~Refused(core)
        /\ s # INVALID
        /\ Unlock(p, d, "idle")
        /\ Validate(d)
        /\ held' = [held EXCEPT ![p] = @ \cup {s}]
        /\ Forget(p)
        /\ UNCHANGED <<callbacks, consumer, links>>

\* wait_for times out, and either wait may end without a notification.
WaitTimesOut(p) ==
    /\ Running
    /\ pc[p] \in {"timed_wait", "attach_timed_wait"}
    /\ Unlock(p, core, "idle")
    /\ Forget(p)
    /\ UNCHANGED <<held, callbacks, consumer, links, claims>>

SpuriousWakeup(p) ==
    /\ Running
    /\ Woken(pc[p]) # pc[p]
    /\ Unlock(p, core, Woken(pc[p]))
    /\ UNCHANGED <<locals, callbacks, consumer, links, claims>>

-----------------------------------------------------------------------------
(* Giving slots back.                                                      *)

GiveBack(p, s) == held' = [held EXCEPT ![p] = @ \ {s}]

DetachBuffer(p) ==
    /\ Call(p, "detachBuffer")
    /\ Usable
    /\ \E s \in held[p] :
        LET d == FreeSlot([core EXCEPT !.active = @ \ {s}], s) IN
        /\ ~core.sharedMode /\ core.sharedSlot # s
        /\ IsDequeued(core, s) /\ core.slots[s].requested
        /\ UnlockNotify(p, d, "idle")
        /\ Validate(d)
        /\ GiveBack(p, s)
    /\ UNCHANGED <<arg, want, found, callbacks, consumer, links>>

\* detachNextBuffer checks first and then waits for an allocation.
DetachNextBuffer(p) ==
    /\ Call(p, "detachNextBuffer")
    /\ Usable
    /\ ~core.sharedMode
    /\ Unlock(p, core, "detach_next")
    /\ UNCHANGED <<locals, callbacks, consumer, links, claims>>

DetachNextFinish(p) ==
    LET s == Head(core.freeBuffers)
        d == FreeSlot([core EXCEPT !.freeBuffers = Without(@, s)], s)
    IN  /\ Running
        /\ pc[p] = "detach_next"
        /\ ~core.allocating
        /\ IF core.freeBuffers = <<>>
           THEN Unlock(p, core, "idle") /\ UNCHANGED claims
           ELSE Unlock(p, d, "idle") /\ Validate(d)
        /\ UNCHANGED <<locals, callbacks, consumer, links>>

CancelBuffer(p) ==
    /\ Call(p, "cancelBuffer")
    /\ Usable
    /\ ~core.sharedMode
    /\ \E s \in held[p] :
        LET d == Recycle([core EXCEPT !.slots[s].dequeueCount = @ - 1], s) IN
        /\ IsDequeued(core, s)
        /\ UnlockNotify(p, d, "idle")
        /\ Validate(d)
        /\ GiveBack(p, s)
    /\ UNCHANGED <<arg, want, found, callbacks, consumer, links>>

-----------------------------------------------------------------------------
(* queueBuffer and its callback.                                           *)

Droppable(c, s) ==
    \/ c.async
    \/ (ConsumerIsSurfaceFlinger \/ c.legacyDrop) /\ c.canDrop
    \/ c.sharedMode /\ c.sharedSlot = s

\* The new item replaces a droppable last one, whose slot is given up unless
\* the item is stale, or joins the queue behind the last one.
Enqueued(c, item) ==
    LET last == Last(c.queue)
        d == IF last.stale THEN c
             ELSE Recycle([c EXCEPT !.slots[last.slot].queueCount = @ - 1],
                          last.slot)
    IN  IF c.queue # <<>> /\ last.droppable
        THEN [d EXCEPT !.queue = Append(Front(@), item)]
        ELSE [c EXCEPT !.queue = Append(@, item)]

QueueableSlot(p, s) ==
    /\ s \in held[p]
    /\ IsDequeued(core, s)
    /\ core.slots[s].requested

\* queueBuffer under mMutex, up to the callback ticket.
QueueBuffer(p) ==
    /\ Call(p, "queueBuffer")
    /\ Usable
    /\ frameCounter < MaxFrames
    /\ \E s \in Slots :
        LET f == frameCounter + 1
            c == ShareFirst(core, s)
            d == [c EXCEPT !.slots[s].dequeueCount = @ - 1,
                           !.slots[s].queueCount = @ + 1,
                           !.slots[s].frame = f]
            e == [Enqueued(d, [slot |-> s, frame |-> f, stale |-> FALSE,
                               droppable |-> Droppable(c, s)])
                    EXCEPT !.hasBeenQueued = TRUE]
        IN  /\ QueueableSlot(p, s)
            /\ UnlockNotify(p, e, "callback")
            /\ Validate(e)
            /\ GiveBack(p, s)
            /\ frame' = [frame EXCEPT ![p] = f]
    /\ frameCounter' = frameCounter + 1
    /\ ticket' = [ticket EXCEPT ![p] = nextTicket]
    /\ nextTicket' = nextTicket + 1
    /\ UNCHANGED <<arg, want, found, currentTicket, notified, consumer, links>>

\* A crop outside the buffer is refused after the shared slot has been set.
QueueBufferBadCrop(p) ==
    /\ Call(p, "queueBuffer")
    /\ Usable
    /\ \E s \in Slots :
        /\ QueueableSlot(p, s)
        /\ Unlock(p, ShareFirst(core, s), "idle")
    /\ UNCHANGED <<locals, callbacks, consumer, links, claims>>

\* onFrameAvailable or onFrameReplaced under mCallbackMutex, in ticket order.
Notify(p) ==
    /\ pc[p] = "callback"
    /\ notified' = Append(notified, frame[p])
    /\ currentTicket' = currentTicket + 1
    /\ frame' = [frame EXCEPT ![p] = 0]
    /\ ticket' = [ticket EXCEPT ![p] = 0]
    /\ Unlock(p, core, "idle")
    /\ UNCHANGED <<locals, frameCounter, nextTicket, consumer, links,
                   claims>>

\* Mutant: the callback does not wait for its turn.
CallbackUnordered(p) == Running /\ Notify(p)

Callback(p) == Running /\ ticket[p] = currentTicket /\ Notify(p)

-----------------------------------------------------------------------------
(* Connecting, disconnecting, and the death of the producer's process.     *)

\* An unknown api is refused at the end, with the modes already reset.
Connect(p) ==
    /\ Call(p, "connect")
    /\ ~core.abandoned
    /\ core.connected = 0
    /\ connections < MaxConnections
    /\ \E known, byApp \in BOOLEAN :
        LET app == ControlledByApp /\ byApp
            cannotBlock == app /\ core.timeout < 0
            delta == BufferCountFor(core, core.async, cannotBlock)
                        - MaxBufferCount(core)
            d == [Adjusted(core, delta) EXCEPT
                    !.connected = IF known THEN connections + 1 ELSE 0,
                    !.hasBeenQueued = FALSE,
                    !.cannotBlock = cannotBlock,
                    !.canDrop = app /\ core.timeout <= 0,
                    !.legacyDrop = TRUE,
                    !.allowAllocation = TRUE]
        IN  /\ CanAdjust(core, delta)
            /\ Unlock(p, d, "idle")
            /\ Validate(d)
            /\ connections' = IF known THEN connections + 1 ELSE connections
    /\ UNCHANGED <<locals, callbacks, consumer, obituaries>>

Disconnected(c) ==
    [FreeAllBuffers(c) EXCEPT !.sharedSlot = INVALID, !.connected = 0]

DisconnectLocked(p) ==
    /\ Call(p, "disconnect")
    /\ Usable
    /\ UnlockNotify(p, Disconnected(core), "idle")
    /\ held' = [q \in Producers |-> {}]
    /\ UNCHANGED <<arg, want, found, callbacks, consumer, links, claims>>

\* Mutant: an allocation under way is not waited for.
DisconnectAtOnce(p) == DisconnectLocked(p)

\* disconnect waits for an allocation; the client forgets all its slots.
Disconnect(p) == ~core.allocating /\ DisconnectLocked(p)

\* The producer's process dies: the notification is on its way, and stays so
\* even when a disconnect unlinks it.
ObituarySent ==
    /\ Running
    /\ "binderDied" \in ConsumerCalls
    /\ core.connected \notin obituaries \cup {0}
    /\ obituaries' = obituaries \cup {core.connected}
    /\ UNCHANGED <<core, pc, locals, callbacks, consumer, connections, claims>>

\* binderDied reads mConnectedApi without the lock and disconnects that api.
BinderDied ==
    /\ Running
    /\ ~core.allocating
    /\ \E k \in obituaries :
        /\ obituaries' = obituaries \ {k}
        /\ claims' = IF core.connected = k THEN claims
                     ELSE claims \cup {"still_connected"}
    /\ IF Usable
       THEN /\ core' = Disconnected(core)
            /\ pc' = [q \in Producers |-> Woken(pc[q])]
            /\ held' = [q \in Producers |-> {}]
       ELSE UNCHANGED <<core, pc, held>>
    /\ UNCHANGED <<arg, want, found, callbacks, consumer, connections>>

-----------------------------------------------------------------------------
(* allocateBuffers: one buffer per iteration until no slot is empty.       *)

AllocateBuffers(p) ==
    /\ Call(p, "allocateBuffers")
    /\ \E w \in Sizes \cup {NoBuffer} : arg' = [arg EXCEPT ![p] = w]
    /\ Unlock(p, core, "allocate_loop")
    /\ UNCHANGED <<want, found, held, callbacks, consumer, links, claims>>

RequestedSize(p) == IF arg[p] = NoBuffer THEN core.defaultSize ELSE arg[p]

AllocateNext(p) ==
    /\ Running
    /\ pc[p] = "allocate_loop"
    /\ ~core.allocating
    /\ IF core.allowAllocation /\ core.freeSlots # {}
       THEN /\ Unlock(p, [core EXCEPT !.allocating = TRUE], "allocate_buffers")
            /\ want' = [want EXCEPT ![p] = RequestedSize(p)]
            /\ UNCHANGED <<arg, found>>
       ELSE Unlock(p, core, "idle") /\ Forget(p)
    /\ UNCHANGED <<held, callbacks, consumer, links, claims>>

AllocateFails(p) ==
    /\ Running
    /\ pc[p] = "allocate_buffers"
    /\ MayFail
    /\ Unlock(p, [core EXCEPT !.allocating = FALSE], "idle")
    /\ Forget(p)
    /\ UNCHANGED <<held, callbacks, consumer, links, claims>>

\* The default size changed during the allocation: start over.
AllocateRetries(p) ==
    /\ Running
    /\ pc[p] = "allocate_buffers"
    /\ RequestedSize(p) # want[p]
    /\ Unlock(p, [core EXCEPT !.allocating = FALSE], "allocate_loop")
    /\ UNCHANGED <<locals, callbacks, consumer, links, claims>>

\* The buffer is put in slot s, which becomes the next to be dequeued.
PutBuffer(p, s) ==
    LET d == [core EXCEPT !.freeSlots = @ \ {s},
                          !.freeBuffers = <<s>> \o @,
                          !.slots[s] = [ClearedSlot EXCEPT !.buffer = want[p]]]
    IN  [d EXCEPT !.allocating = FALSE]

\* Mutant: the slot is chosen without a look at mFreeSlots.
AllocatedInFirst(p) == PutBuffer(p, 0)

\* An empty slot gets the buffer, if there is still one.
Allocated(p) ==
    IF core.freeSlots = {} THEN [core EXCEPT !.allocating = FALSE]
    ELSE PutBuffer(p, FirstFreeSlot(core))

AllocateDone(p) ==
    /\ Running
    /\ pc[p] = "allocate_buffers"
    /\ RequestedSize(p) = want[p]
    /\ Unlock(p, Allocated(p), "yield_to_dequeue")
    /\ Validate(Allocated(p))
    /\ UNCHANGED <<locals, callbacks, consumer, links>>

\* A dequeueBuffer that waits for the allocation goes first.
YieldToDequeue(p) ==
    /\ Running
    /\ pc[p] = "yield_to_dequeue"
    /\ ~core.waitingForAllocation
    /\ Unlock(p, core, "allocate_loop")
    /\ UNCHANGED <<locals, callbacks, consumer, links, claims>>

-----------------------------------------------------------------------------
(* The consumer, external to the source.                                   *)

Consumer(name) == Running /\ name \in ConsumerCalls
ConsumerNotify(d) ==
    core' = d /\ pc' = [q \in Producers |-> Woken(pc[q])]

\* acquireBuffer takes the oldest item; a stale one no longer has its slot.
AcquireBuffer ==
    LET item == Head(core.queue)
        d == [core EXCEPT !.queue = Tail(@)]
    IN  /\ Consumer("acquireBuffer")
        /\ core.queue # <<>>
        /\ AcquiredCount(core) <= MaxAcquired
        /\ ConsumerNotify(
              IF item.stale THEN d
              ELSE [d EXCEPT !.slots[item.slot].queueCount = @ - 1,
                             !.slots[item.slot].acquireCount = @ + 1])
        /\ acquired' = acquired \cup {<<item.slot, item.frame>>}
        /\ UNCHANGED <<locals, callbacks, links, claims>>

\* releaseBuffer ignores a frame whose slot has been freed or reused.
ReleaseBuffer ==
    /\ Running
    /\ \E a \in acquired :
        LET s == a[1] IN
        /\ acquired' = acquired \ {a}
        /\ IF IsAcquired(core, s)
              /\ (core.slots[s].frame = a[2] \/ core.slots[s].shared)
           THEN ConsumerNotify(
                    Recycle([core EXCEPT !.slots[s].acquireCount = @ - 1], s))
           ELSE UNCHANGED <<core, pc>>
    /\ UNCHANGED <<locals, callbacks, links, claims>>

\* consumerDisconnect abandons the queue, without waiting for an allocation.
Abandon ==
    /\ Consumer("disconnect")
    /\ ~core.abandoned
    /\ ConsumerNotify([FreeAllBuffers([core EXCEPT !.queue = <<>>])
                         EXCEPT !.abandoned = TRUE, !.sharedSlot = INVALID])
    /\ acquired' = {}
    /\ UNCHANGED <<locals, callbacks, links, claims>>

SetDefaultBufferSize ==
    /\ Consumer("setDefaultBufferSize")
    /\ \E w \in Sizes \ {core.defaultSize} :
        core' = [core EXCEPT !.defaultSize = w]
    /\ UNCHANGED <<pc, locals, callbacks, consumer, links, claims>>

-----------------------------------------------------------------------------
DequeueStep(p) ==
    \/ WaitForAllocation(p)   \/ DequeueRefused(p)   \/ DequeueBlocked(p)
    \/ DequeueSharedMisfit(p) \/ DequeueFound(p)     \/ DequeueAllocated(p)
    \/ DequeueNotAllocated(p)
AttachStep(p) == AttachRefused(p) \/ AttachBlocked(p) \/ AttachFound(p)
AllocateStep(p) ==
    \/ AllocateNext(p) \/ AllocateFails(p) \/ AllocateRetries(p)
    \/ AllocateDone(p) \/ YieldToDequeue(p)

\* What a thread inside a call does next; a call that has begun goes on.
Continue(p) ==
    \/ DequeueStep(p) \/ AttachStep(p) \/ DetachNextFinish(p)
    \/ Callback(p)    \/ AllocateStep(p)

Begin(p) ==
    \/ RequestBuffer(p)    \/ SetMaxDequeuedBufferCount(p)
    \/ SetAsyncMode(p)     \/ SetDequeueTimeout(p)
    \/ AllowAllocation(p)  \/ SetLegacyBufferDrop(p)
    \/ SetSharedBufferMode(p)
    \/ DequeueBuffer(p)    \/ AttachBuffer(p)
    \/ DetachBuffer(p)     \/ DetachNextBuffer(p)
    \/ CancelBuffer(p)     \/ QueueBuffer(p)
    \/ QueueBufferBadCrop(p)
    \/ Connect(p)          \/ Disconnect(p)
    \/ AllocateBuffers(p)

Next ==
    \/ \E p \in Producers : Begin(p) \/ Continue(p)
                              \/ WaitTimesOut(p) \/ SpuriousWakeup(p)
    \/ ObituarySent \/ BinderDied
    \/ AcquireBuffer \/ ReleaseBuffer \/ Abandon \/ SetDefaultBufferSize

Spec == Init /\ [][Next]_vars

\* Threads inside a call run, and the consumer takes and returns buffers.
Fairness ==
    /\ \A p \in Producers : WF_vars(Continue(p))
    /\ WF_vars(AcquireBuffer)
    /\ WF_vars(ReleaseBuffer)
FairSpec == Spec /\ Fairness

-----------------------------------------------------------------------------
(* Properties.                                                             *)

\* A slot has one owner: it is dequeued, queued or acquired, never two of
\* these, unless it is or was the shared slot.
OneOwner ==
    \A s \in Slots : core.slots[s].shared
        \/ core.slots[s].dequeueCount + core.slots[s].queueCount
              + core.slots[s].acquireCount <= 1

\* Whenever the code runs VALIDATE_CONSISTENCY, every slot is in exactly one
\* of mFreeSlots, mFreeBuffers, mActiveBuffers and mUnusedSlots.
ValidatedConsistency == "consistency" \notin claims

\* The number of slots in use follows the mode: acquired, dequeued and the
\* extra buffer of the non-blocking modes, whatever the order of the setters,
\* connections and disconnections.
SlotAccounting == NumSlots - Len(core.unused) = MaxBufferCount(core)

\* No slot is in the hands of two threads, outside shared mode.
OneHolder ==
    \A p, q \in Producers : \A s \in held[p] \cap held[q] :
        p = q \/ core.slots[s].shared

\* Every slot is in one list, in one thread's hands, and counted by its mode.
SlotsSafe == ValidatedConsistency /\ OneHolder /\ SlotAccounting

ItemsOf(s) ==
    {i \in DOMAIN core.queue : core.queue[i].slot = s /\ ~core.queue[i].stale}

\* A slot is in state QUEUED as often as items of the queue name it, and such
\* an item finds its buffer and its frame in the slot: the consumer acquires
\* what the producer queued, and no queued slot is forgotten.
QueuedItemsValid ==
    \A s \in Slots :
        /\ core.slots[s].queueCount = Cardinality(ItemsOf(s))
        /\ \A i \in ItemsOf(s) :
            /\ core.slots[s].buffer # NoBuffer
            /\ core.slots[s].shared \/ core.slots[s].frame = core.queue[i].frame

\* Frames wait in the order they were queued, across replacement, disconnect
\* and reconnect.
QueueInOrder ==
    \A i, j \in DOMAIN core.queue :
        i < j => core.queue[i].frame < core.queue[j].frame

\* What is queued is what the slots say, in the order it was queued.
QueueSafe == TypeOK /\ QueuedItemsValid /\ QueueInOrder

\* The same in shared mode, where a slot may be queued while it is dequeued.
SharedSafe == OneOwner /\ QueuedItemsValid

\* A slot a dequeue or attach has returned to the client stays dequeued with
\* its buffer until the client gives it back or the queue is disconnected.
HeldSlotsDequeued ==
    ~core.abandoned =>
        \A p \in Producers : \A s \in held[p] :
            IsDequeued(core, s) /\ core.slots[s].buffer # NoBuffer

\* mIsAllocating says whether a thread is allocating.
AllocatingFlag ==
    core.allocating
        <=> \E p \in Producers : pc[p] \in {"allocate", "allocate_buffers"}

\* Neither a disconnect nor an allocation in parallel takes a slot out of the
\* hands that have it, nor leaves the flag behind.
HandsSafe == HeldSlotsDequeued /\ AllocatingFlag

\* A dequeueBuffer that has no free buffer does not begin to allocate while
\* another thread is allocating.
NoParallelAllocation ==
    [][\A p \in Producers :
          pc[p] # "allocate" /\ pc'[p] = "allocate" /\ core.freeBuffers = <<>>
            => ~core.allocating]_vars

\* No thread sleeps on mDequeueCondition beside a slot it could have.
NoSleepBesideSlot ==
    \A p \in Producers :
        /\ pc[p] \in {"wait_slot", "timed_wait"}
           => DequeueChoice(core, want[p]).slot = INVALID
        /\ pc[p] \in {"attach_wait", "attach_timed_wait"}
           => AttachChoice(core).slot = INVALID

\* The consumer's listener hears of the frames in the order they were queued,
\* each of them once, though the callbacks run without mMutex.
CallbackOrder == notified = [i \in 1 .. currentTicket |-> i]

\* Every ticket between the two counters is held by a thread on its way to its
\* callback: the turn never stops at a ticket that nobody will use.
TurnHasOwner ==
    \A t \in currentTicket .. nextTicket - 1 :
        \E p \in Producers : pc[p] = "callback" /\ ticket[p] = t

\* The callbacks take turns: in order, and never stopped.
CallbacksInTurn == CallbackOrder /\ TurnHasOwner

\* The second owner of a callback ticket waits for the first: nobody waits
\* for a ticket that will not come up.
CallbackReturns(p) == pc[p] = "callback" ~> pc[p] = "idle"

\* A thread waiting for a slot leaves the wait once the consumer has something
\* to give back, or another thread has taken the slot that was given back.
WaiterServed(p) ==
    pc[p] = "wait_slot" /\ (core.queue # <<>> \/ acquired # {})
        ~> \/ pc[p] \notin {"wait_slot", "retry_slot"}
           \/ \E q \in Producers \ {p} : held[q] # {}

\* allocateBuffers and a dequeueBuffer that waits for it do not wait for each
\* other forever.
AllocationWaitEnds(p) ==
    pc[p] \in {"wait_allocation", "yield_to_dequeue"}
        ~> pc[p] \notin {"wait_allocation", "yield_to_dequeue"}

\* A thread that waits in the queue for a turn, for a slot or for an allocation
\* is served.
Served(p) == CallbackReturns(p) /\ WaiterServed(p) /\ AllocationWaitEnds(p)

-----------------------------------------------------------------------------
(* Two more promises the code does not keep (see the README); no run        *)
(* checks these.                                                            *)

\* dequeueBuffer never looks at the buffer of a slot that has none.
BufferInSlot == "buffer_in_slot" \notin claims

\* Without leave to allocate, the slot that waitForFreeSlotThenRelock returns
\* to dequeueBuffer contains a buffer.
ReturnedSlotHasBuffer == BufferInSlot \/ core.allowAllocation

\* The binder's promise in binderDied: the dead producer is the connected one.
StillConnected == "still_connected" \notin claims
=============================================================================

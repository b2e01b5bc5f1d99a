---------------------------- MODULE SlotsProofs ----------------------------
(***************************************************************************)
(* Proofs about BufferQueue outside shared mode: where every slot is, what *)
(* the queue's items find in their slots, whose hands a slot is in, what   *)
(* mIsAllocating says, and how many slots are in use.                      *)
(*                                                                         *)
(* The inductive invariant SlotsInv is the conjunction of                  *)
(*   VarsInv    the types of the threads' and the environment's variables  *)
(*   CoreInv    what mMutex guards: a slot is in one place and one state   *)
(*              (PlacesOK), the queue agrees with the slots (QueueOK), and *)
(*              the slots handed out are dequeued, each by one thread      *)
(*              (HandsInv)                                                 *)
(*   FlagInv    with one allocating thread, mIsAllocating is its place     *)
(*   ClaimsInv  no VALIDATE_CONSISTENCY has failed                         *)
(*   CountInv   the slots in use are as many as the modes ask for          *)
(* HandedOutSlotsStay, HandsAlwaysSafe, QueueAlwaysSafe and                *)
(* SlotsAlwaysSafe, at the end, draw the properties of BufferQueue from it.*)
(*                                                                         *)
(* Every operator that BufferQueue composes a lock scope of has a lemma on *)
(* records c, "...Placed" or "...Kept"; every action has one, "...Keeps",  *)
(* that applies them to core.                                              *)
(***************************************************************************)
EXTENDS BufferQueueProofs

\* Thread p may come to allocate a buffer.
Allocates(p) == Calls[p] \cap {"dequeueBuffer", "allocateBuffers"} # {}
OneAllocator == \A p, q \in Producers : Allocates(p) /\ Allocates(q) => p = q

\* Nobody takes a slot out of the hands that have it.
NoTakeover ==
    /\ ConsumerCalls \cap {"disconnect", "binderDied"} = {}
    /\ \A p \in Producers : "disconnect" \notin Calls[p]

\* The assumption of the theorems.  A shared slot is in several states at
\* once.  A disconnect waits for mIsAllocating, which one of two threads that
\* allocate clears while the other still allocates, and a slot whose
\* allocation failed stays in mActiveBuffers while it is free.
Separate ==
    /\ \A p \in Producers : "setSharedBufferMode" \notin Calls[p]
    /\ NoTakeover \/ (OneAllocator /\ ~MayFail)

-----------------------------------------------------------------------------
(* The inductive invariant.                                                *)

SlotStates == [dequeueCount : Nat, queueCount : Nat, acquireCount : Nat,
               shared : {FALSE}, buffer : Sizes \cup {NoBuffer},
               requested : BOOLEAN, frame : 0 .. MaxFrames]

Typed(c) ==
    /\ ListsOK(c)
    /\ c.slots \in [Slots -> SlotStates]
    /\ ~c.sharedMode
    /\ c.sharedSlot = INVALID
    /\ c.defaultSize \in Sizes
    /\ c.connected \in 0 .. MaxConnections

\* A free slot is in one of mFreeSlots, mFreeBuffers and mUnusedSlots, and has
\* a buffer in the second only; a slot in use is active, and in one state.
PlaceOK(c, s) ==
    /\ s \in c.freeSlots =>
          /\ s \notin ToSet(c.freeBuffers) /\ s \notin ToSet(c.unused)
          /\ IsFree(c, s) /\ c.slots[s].buffer = NoBuffer
    /\ s \in ToSet(c.freeBuffers) =>
          /\ s \notin ToSet(c.unused)
          /\ IsFree(c, s) /\ c.slots[s].buffer # NoBuffer
    /\ s \in ToSet(c.unused) =>
          IsFree(c, s) /\ c.slots[s].buffer = NoBuffer
    /\ IsFree(c, s) =>
          s \in c.freeSlots \cup ToSet(c.freeBuffers) \cup ToSet(c.unused)
    /\ ~IsFree(c, s) =>
          /\ s \in c.active
          /\ c.slots[s].dequeueCount + c.slots[s].queueCount
                + c.slots[s].acquireCount = 1
          /\ c.slots[s].dequeueCount = 0 => c.slots[s].buffer # NoBuffer
    /\ ~MayFail /\ s \in c.active => ~IsFree(c, s)

PlacesOK(c) ==
    /\ Once(c.freeBuffers)
    /\ Once(c.unused)
    /\ \A s \in Slots : PlaceOK(c, s)

\* The items of queue q have frames up to n in ascending order; one that is
\* not stale names a queued slot with its frame, and every queued slot has one.
QueueFits(q, slots, n) ==
    /\ \A i \in 1 .. Len(q) : q[i].frame \in 1 .. n
    /\ \A i, j \in 1 .. Len(q) : i < j => q[i].frame < q[j].frame
    /\ \A i \in 1 .. Len(q) : ~q[i].stale =>
          slots[q[i].slot].queueCount = 1 /\ slots[q[i].slot].frame = q[i].frame
    /\ \A s \in Slots : slots[s].queueCount # 0 =>
          \E i \in 1 .. Len(q) : ~q[i].stale /\ q[i].slot = s

\* An abandoned queue has given up everything.
QueueOK(c, n) ==
    /\ QueueFits(c.queue, c.slots, n)
    /\ c.abandoned => c.queue = <<>> /\ \A s \in Slots : IsFree(c, s)

\* The slots that are thread p's: handed out to it, or found for it and still
\* without the buffer it allocates.
Taken(p) == held[p] \cup {s \in {found[p]} : pc[p] = "allocate"}
HandsInv ==
    ~core.abandoned =>
    \A p \in Producers :
        /\ pc[p] = "allocate" => found[p] \in Slots \ held[p]
        /\ \A s \in Taken(p) : core.slots[s].dequeueCount = 1
        /\ \A s \in held[p] : core.slots[s].buffer # NoBuffer
        /\ \A q \in Producers \ {p} : Taken(p) \cap Taken(q) = {}

CoreInv ==
    /\ Typed(core)
    /\ ~core.abandoned => PlacesOK(core)
    /\ QueueOK(core, frameCounter)
    /\ HandsInv

\* Where a thread knows the size it wants, and where it is in a call that may
\* allocate.
Sized == {"wait_slot", "timed_wait", "retry_slot", "allocate", "attach",
          "attach_wait", "attach_timed_wait", "attach_retry", "allocate_buffers"}
ForAllocation == {"dequeue", "wait_allocation", "wait_slot", "timed_wait",
                  "retry_slot", "allocate", "allocate_loop", "allocate_buffers",
                  "yield_to_dequeue"}

LocalsOK ==
    /\ pc \in [Producers -> PCs]
    /\ arg \in [Producers -> Sizes \cup {NoBuffer}]
    /\ want \in [Producers -> Sizes \cup {NoBuffer}]
    /\ found \in [Producers -> Slots \cup {INVALID}]
    /\ \A p \in Producers :
          /\ pc[p] \in Sized => want[p] \in Sizes
          /\ pc[p] = "allocate" => found[p] \in Slots
          /\ pc[p] \in ForAllocation => Allocates(p)

VarsInv ==
    /\ LocalsOK
    /\ held \in [Producers -> SUBSET Slots]
    /\ acquired \subseteq Slots \X (1 .. MaxFrames)
    /\ frameCounter \in 0 .. MaxFrames
    /\ connections \in 0 .. MaxConnections
    /\ obituaries \subseteq 1 .. MaxConnections
    /\ obituaries # {} => "binderDied" \in ConsumerCalls
    /\ claims \subseteq {"consistency", "buffer_in_slot", "still_connected"}
    /\ core.maxDequeued \in 1 .. NumSlots
    /\ core.abandoned => "disconnect" \in ConsumerCalls

FlagInv == OneAllocator /\ ~MayFail => AllocatingFlag

ClaimsInv ==
    ~MayFail /\ "disconnect" \notin ConsumerCalls => ValidatedConsistency

\* The slots that the modes ask for exist; a queue of fewer slots still has
\* its first modes, as every setter checks.
Fits(c) ==
    MaxAcquired + c.maxDequeued + ExtraBuffer(c.async, c.cannotBlock) <= NumSlots
CountInv ==
    ~ControlledByApp =>
       /\ core.async \in BOOLEAN
       /\ ~core.cannotBlock
       /\ Fits(core) \/ (core.maxDequeued = 1 /\ ~core.async)
       /\ SlotAccounting

SlotsInv == VarsInv /\ CoreInv /\ FlagInv /\ ClaimsInv /\ CountInv

-----------------------------------------------------------------------------
(* What an operator leaves as it was.                                      *)

SameState(c, d, t) ==
    /\ d.slots[t].dequeueCount = c.slots[t].dequeueCount
    /\ d.slots[t].queueCount = c.slots[t].queueCount
    /\ d.slots[t].acquireCount = c.slots[t].acquireCount
    /\ d.slots[t].buffer = c.slots[t].buffer
    /\ d.slots[t].frame = c.slots[t].frame

\* Slot t has not moved.
AsBefore(c, d, t) ==
    /\ SameState(c, d, t)
    /\ t \in d.freeSlots <=> t \in c.freeSlots
    /\ t \in ToSet(d.freeBuffers) <=> t \in ToSet(c.freeBuffers)
    /\ t \in ToSet(d.unused) <=> t \in ToSet(c.unused)
    /\ t \in d.active <=> t \in c.active

\* Slots other than those of S are free if they were, or as they were.
Others(c, d, S) ==
    \A t \in Slots \ S :
        IF IsFree(c, t) THEN IsFree(d, t) ELSE SameState(c, d, t)

\* Every slot but s is in one place.
PlacesBut(c, s) ==
    /\ Once(c.freeBuffers)
    /\ Once(c.unused)
    /\ \A t \in Slots \ {s} : PlaceOK(c, t)

\* Slot s is in none of the lists of free slots.
Out(c, s) ==
    s \notin c.freeSlots \cup ToSet(c.freeBuffers) \cup ToSet(c.unused)

\* An operator that changes free slots only.
Kept(c, d) ==
    /\ Typed(d)
    /\ d.queue = c.queue
    /\ d.abandoned <=> c.abandoned
    /\ PlacesOK(c) => PlacesOK(d) /\ Others(c, d, {})
    /\ (\A t \in Slots : IsFree(c, t)) => \A t \in Slots : IsFree(d, t)

\* Nothing is adjusted and no flag changes.
Rest(c, d) == Same(c, d) /\ d.unused = c.unused /\ d.allocating = c.allocating

-----------------------------------------------------------------------------
(* Lists whose elements occur once.                                        *)

\* An element put in front of a list that has it not.
LEMMA ConsOnce ==
    ASSUME NEW S, NEW q \in Seq(S), NEW x \in S
    PROVE  /\ <<x>> \o q \in Seq(S)
           /\ ToSet(<<x>> \o q) = ToSet(q) \cup {x}
           /\ Once(q) /\ x \notin ToSet(q) => Once(<<x>> \o q)
<1> DEFINE r == <<x>> \o q
<1>1. /\ r \in Seq(S) /\ Len(r) = Len(q) + 1 /\ Len(q) \in Nat /\ r[1] = x
      /\ \A i \in 2 .. Len(q) + 1 : r[i] = q[i - 1]
      /\ DOMAIN r = 1 .. Len(q) + 1 /\ DOMAIN q = 1 .. Len(q)
  OBVIOUS
<1> HIDE DEF r
<1>2. \A i \in 1 .. Len(q) : i + 1 \in 2 .. Len(q) + 1 /\ r[i + 1] = q[i]
  BY <1>1
<1>3. ToSet(r) = ToSet(q) \cup {x}
  <2>1. \A i \in 1 .. Len(q) + 1 : i = 1 \/ (i - 1 \in 1 .. Len(q) /\ r[i] = q[i - 1])
    <3> SUFFICES ASSUME NEW i \in 1 .. Len(q) + 1, i # 1
                 PROVE  i - 1 \in 1 .. Len(q) /\ r[i] = q[i - 1]
      OBVIOUS
    <3>1. i \in 2 .. Len(q) + 1 /\ i - 1 \in 1 .. Len(q)
      BY <1>1
    <3> QED
      BY <1>1, <3>1
  <2>2. 1 \in 1 .. Len(q) + 1 /\ \A i \in 1 .. Len(q) : i + 1 \in 1 .. Len(q) + 1
    BY <1>1
  <2>3. ToSet(r) \subseteq ToSet(q) \cup {x}
    BY <1>1, <2>1 DEF ToSet
  <2>4. x \in ToSet(r) /\ ToSet(q) \subseteq ToSet(r)
    <3>1. ToSet(r) = {r[i] : i \in 1 .. Len(q) + 1} /\ ToSet(q) = {q[i] : i \in 1 .. Len(q)}
      BY <1>1 DEF ToSet
    <3> QED
      BY <1>1, <1>2, <2>2, <3>1
  <2> QED
    BY <2>3, <2>4
<1>4. ASSUME Once(q), x \notin ToSet(q), NEW i \in 1 .. Len(r), NEW j \in 1 .. Len(r), r[i] = r[j]
      PROVE  i = j
  <2>1. \A k \in 2 .. Len(q) + 1 : r[k] # x
    BY <1>1, <1>4 DEF ToSet
  <2>2. CASE i = 1 \/ j = 1
    BY <1>1, <1>4, <2>1, <2>2
  <2>3. CASE i # 1 /\ j # 1
    <3>1. i - 1 \in 1 .. Len(q) /\ j - 1 \in 1 .. Len(q) /\ q[i - 1] = q[j - 1]
      BY <1>1, <1>4, <2>3
    <3> QED
      BY <1>4, <3>1 DEF Once
  <2> QED
    BY <2>2, <2>3
<1> QED
  BY <1>1, <1>3, <1>4 DEF r, Once

\* A list cut after its n-th element.
LEMMA CutOnce ==
    ASSUME NEW S, NEW q \in Seq(S), NEW n \in 0 .. Len(q)
    PROVE  LET t == SubSeq(q, n + 1, Len(q))
               h == SubSeq(q, 1, n)
           IN  /\ t \in Seq(S) /\ h \in Seq(S)
               /\ Len(t) = Len(q) - n /\ Len(h) = n
               /\ \A i \in 1 .. Len(t) : t[i] = q[n + i]
               /\ \A i \in 1 .. n : h[i] = q[i]
               /\ ToSet(q) = ToSet(h) \cup ToSet(t)
               /\ ToSet(h) = {q[i] : i \in 1 .. n}
               /\ Once(q) => Once(h) /\ Once(t) /\ ToSet(h) \cap ToSet(t) = {}
<1> DEFINE t == SubSeq(q, n + 1, Len(q))
           h == SubSeq(q, 1, n)
<1>1. Len(q) \in Nat /\ DOMAIN q = 1 .. Len(q) /\ \A i \in 1 .. Len(q) : q[i] \in S
  OBVIOUS
<1>2. PICK m \in Int : m = n + 1
  BY <1>1
<1>3. /\ t \in Seq(S) /\ DOMAIN t = 1 .. Len(t)
      /\ Len(t) = Len(q) - n
      /\ \A i \in 1 .. Len(t) : t[i] = q[n + i]
  <2>1. t = SubSeq(q, m, Len(q)) /\ \A i \in m .. Len(q) : q[i] \in S
    BY <1>1, <1>2
  <2>2. /\ SubSeq(q, m, Len(q)) \in Seq(S)
        /\ Len(SubSeq(q, m, Len(q))) = IF m <= Len(q) THEN Len(q) - m + 1 ELSE 0
        /\ \A i \in 1 .. Len(q) - m + 1 : SubSeq(q, m, Len(q))[i] = q[m + i - 1]
    BY <1>1, <2>1, SubSeqProperties
  <2> HIDE DEF t
  <2>3. t \in Seq(S) /\ Len(t) = Len(q) - n
    <3>1. n \in Int /\ 0 <= n /\ n <= Len(q)
      BY <1>1
    <3>2. \A k \in Int : n <= k => (IF n + 1 <= k THEN k - (n + 1) + 1 ELSE 0) = k - n
      BY <3>1
    <3>3. PICK k \in Nat : k = Len(q)
      BY <1>1
    <3>4. (IF m <= k THEN k - m + 1 ELSE 0) = k - n
      BY <1>2, <3>1, <3>2, <3>3
    <3> QED
      BY <2>1, <2>2, <3>3, <3>4
  <2>4. \A i \in 1 .. Len(t) : t[i] = q[n + i]
    <3> SUFFICES ASSUME NEW i \in 1 .. Len(t)
                 PROVE  t[i] = q[n + i]
      OBVIOUS
    <3>1. i \in 1 .. Len(q) - m + 1 /\ m + i - 1 = n + i
      BY <1>1, <1>2, <2>3
    <3> QED
      BY <2>1, <2>2, <3>1
  <2> QED
    BY <2>3, <2>4
<1>4. /\ h \in Seq(S) /\ Len(h) = n /\ DOMAIN h = 1 .. n
      /\ \A i \in 1 .. n : h[i] = q[i]
  <2>1. n \in Int /\ \A i \in 1 .. n : q[i] \in S
    BY <1>1
  <2>2. /\ h \in Seq(S)
        /\ Len(h) = IF 1 <= n THEN n - 1 + 1 ELSE 0
        /\ \A i \in 1 .. n - 1 + 1 : h[i] = q[1 + i - 1]
    BY <2>1, SubSeqProperties
  <2> HIDE DEF h
  <2> QED
    BY <1>1, <2>1, <2>2
<1> HIDE DEF t, h
<1>5. /\ \A i \in 1 .. n : i \in 1 .. Len(q)
      /\ \A i \in 1 .. Len(t) : n + i \in 1 .. Len(q) /\ n + i > n
      /\ \A k \in 1 .. Len(q) : k \in 1 .. n \/ (k - n \in 1 .. Len(t) /\ k = n + (k - n))
  BY <1>1, <1>3
<1>6. ToSet(h) = {q[i] : i \in 1 .. n} /\ ToSet(t) = {q[n + i] : i \in 1 .. Len(t)}
  <2>1. ToSet(h) = {h[i] : i \in 1 .. n} /\ ToSet(t) = {t[i] : i \in 1 .. Len(t)}
    BY <1>3, <1>4 DEF ToSet
  <2> QED
    BY <1>3, <1>4, <2>1
<1>7. ToSet(q) = ToSet(h) \cup ToSet(t)
  <2>1. ToSet(q) = {q[k] : k \in 1 .. Len(q)}
    BY <1>1 DEF ToSet
  <2> QED
    BY <1>5, <1>6, <2>1
<1>8. ASSUME Once(q)
      PROVE  Once(h) /\ Once(t) /\ ToSet(h) \cap ToSet(t) = {}
  <2>1. Once(h)
    BY <1>4, <1>5, <1>8 DEF Once
  <2>2. \A i, j \in 1 .. Len(t) : t[i] = t[j] => n + i = n + j
    BY <1>3, <1>5, <1>8 DEF Once
  <2>3. Once(t)
    BY <1>1, <2>2, <1>3 DEF Once
  <2>4. \A i \in 1 .. n, j \in 1 .. Len(t) : q[i] # q[n + j]
    BY <1>5, <1>8 DEF Once
  <2> QED
    BY <1>6, <2>1, <2>3, <2>4
<1> QED
  BY <1>3, <1>4, <1>6, <1>7, <1>8 DEF t, h

\* A list without its first element.
LEMMA TailOnce ==
    ASSUME NEW S, NEW q \in Seq(S), q # <<>>
    PROVE  /\ Head(q) \in S /\ Tail(q) \in Seq(S)
           /\ ToSet(q) = ToSet(Tail(q)) \cup {Head(q)}
           /\ Once(q) => Once(Tail(q)) /\ Head(q) \notin ToSet(Tail(q))
<1>1. /\ Head(q) \in S /\ Tail(q) \in Seq(S) /\ q = <<Head(q)>> \o Tail(q)
  OBVIOUS
<1>2. PICK x \in S, r \in Seq(S) : x = Head(q) /\ r = Tail(q) /\ q = <<x>> \o r
  BY <1>1
<1>3. ToSet(q) = ToSet(r) \cup {x}
  <2>1. ToSet(<<x>> \o r) = ToSet(r) \cup {x}
    BY ConsOnce
  <2> QED
    BY <1>2, <2>1
<1>4. /\ Len(r) \in Nat /\ Len(q) = Len(r) + 1 /\ q[1] = x /\ DOMAIN r = 1 .. Len(r)
      /\ \A i \in 1 .. Len(r) : i + 1 \in 2 .. Len(q) /\ q[i + 1] = r[i]
  BY <1>2
<1>5. ASSUME Once(q)
      PROVE  Once(r) /\ x \notin ToSet(r)
  <2>1. \A i, j \in 1 .. Len(r) : r[i] = r[j] => i + 1 = j + 1
    BY <1>4, <1>5 DEF Once
  <2>2. \A i \in 1 .. Len(r) : r[i] # x
    BY <1>4, <1>5 DEF Once
  <2> QED
    BY <1>4, <2>1, <2>2 DEF Once, ToSet
<1> QED
  BY <1>1, <1>2, <1>3, <1>5

\* A list without its last element.
LEMMA FrontOnce ==
    ASSUME NEW S, NEW q \in Seq(S), q # <<>>
    PROVE  /\ Last(q) \in S /\ Front(q) \in Seq(S) /\ Len(Front(q)) = Len(q) - 1
           /\ Last(q) = q[Len(q)] /\ \A i \in 1 .. Len(q) - 1 : Front(q)[i] = q[i]
           /\ ToSet(q) = ToSet(Front(q)) \cup {Last(q)}
           /\ Once(q) => Once(Front(q)) /\ Last(q) \notin ToSet(Front(q))
<1>1. Len(q) \in Nat /\ Len(q) > 0
  OBVIOUS
<1>2. PICK n \in 0 .. Len(q) : n = Len(q) - 1
  <2>1. Len(q) - 1 \in 0 .. Len(q)
    BY <1>1
  <2> QED
    BY <2>1
<1> DEFINE t == SubSeq(q, n + 1, Len(q))
           h == SubSeq(q, 1, n)
<1>3. Front(q) = h /\ Last(q) = q[Len(q)]
  BY <1>2 DEF Last, Front
<1>4. /\ t \in Seq(S) /\ h \in Seq(S)
      /\ Len(t) = Len(q) - n /\ Len(h) = n
      /\ \A i \in 1 .. Len(t) : t[i] = q[n + i]
      /\ \A i \in 1 .. n : h[i] = q[i]
      /\ ToSet(q) = ToSet(h) \cup ToSet(t)
      /\ Once(q) => Once(h) /\ Once(t) /\ ToSet(h) \cap ToSet(t) = {}
  BY CutOnce
<1> HIDE DEF t, h
<1>5. Len(t) = 1 /\ DOMAIN t = 1 .. 1 /\ n + 1 = Len(q) /\ t[1] = q[n + 1]
  BY <1>1, <1>2, <1>4
<1>6. ToSet(t) = {Last(q)} /\ Last(q) \in S
  BY <1>3, <1>4, <1>5 DEF ToSet
<1> QED
  BY <1>2, <1>3, <1>4, <1>6

-----------------------------------------------------------------------------
(* The operators on the core: no slot is lost or doubled.                  *)

\* Of slots, sizes and the state of a cleared slot.
LEMMA SlotFacts ==
    /\ INVALID \notin Slots /\ Slots \subseteq Nat /\ IsFiniteSet(Slots)
    /\ NoBuffer \notin Sizes
    /\ ClearedSlot \in SlotStates
BY CoreAssumption, ProducerAssumption, FS_Interval
   DEF INVALID, Slots, NoBuffer, ClearedSlot, SlotStates

\* A slot that has not moved is in one place if it was.
LEMMA AsBeforePlace ==
    ASSUME NEW c, NEW d, NEW t, PlaceOK(c, t), AsBefore(c, d, t)
    PROVE  PlaceOK(d, t)
BY DEF PlaceOK, AsBefore, SameState, IsFree

\* All slots are in place once the remaining one is.
LEMMA PlacesButOne ==
    ASSUME NEW c, NEW s \in Slots, PlacesBut(c, s), PlaceOK(c, s)
    PROVE  PlacesOK(c)
BY DEF PlacesBut, PlacesOK

\* Slots in the same state are as they were.
LEMMA SameStateKept ==
    ASSUME NEW c, NEW d, \A t \in Slots : SameState(c, d, t)
    PROVE  Others(c, d, {}) /\ \A t \in Slots : IsFree(c, t) <=> IsFree(d, t)
BY DEF Others, SameState, IsFree

\* A change of the modes, or of the mark that a buffer has been requested.
Alike(c, d) ==
    /\ DOMAIN d = Fields
    /\ d.slots \in [Slots -> SlotStates]
    /\ \A t \in Slots : SameState(c, d, t)
    /\ d.freeSlots = c.freeSlots
    /\ d.freeBuffers = c.freeBuffers
    /\ d.active = c.active
    /\ d.unused = c.unused
    /\ d.queue = c.queue
    /\ d.abandoned <=> c.abandoned
    /\ d.sharedMode <=> c.sharedMode
    /\ d.sharedSlot = c.sharedSlot
    /\ d.defaultSize \in Sizes
    /\ d.connected \in 0 .. MaxConnections

\* A record alike in all that the places depend on.
LEMMA MarksKept ==
    ASSUME NEW c, Typed(c), NEW d, Alike(c, d)
    PROVE  Kept(c, d)
<1>1. Typed(d)
  BY DEF Typed, ListsOK, Alike
<1>2. ASSUME PlacesOK(c)
      PROVE  PlacesOK(d)
  <2>1. \A t \in Slots : AsBefore(c, d, t)
    BY DEF AsBefore, Alike
  <2> QED
    BY <1>2, <2>1, AsBeforePlace DEF PlacesOK, Alike
<1>3. (\A t \in Slots : SameState(c, d, t)) /\ d.queue = c.queue /\ (d.abandoned <=> c.abandoned)
  BY DEF Alike
<1> QED
  BY <1>1, <1>2, <1>3, SameStateKept DEF Kept

\* Two operators after each other that change free slots only.
LEMMA KeptTwice ==
    ASSUME NEW c, NEW d, NEW e, Kept(c, d), Kept(d, e)
    PROVE  Kept(c, e)
<1>1. ASSUME Others(c, d, {}), Others(d, e, {})
      PROVE  Others(c, e, {})
  BY <1>1 DEF Others, SameState, IsFree
<1> QED
  BY <1>1 DEF Kept

\* A slot that is in no list and has no buffer becomes a free one.
LEMMA FreeSlotPlaced ==
    ASSUME NEW c, Typed(c), NEW s \in Slots
    PROVE  LET d == FreeSlot(c, s) IN
           /\ Typed(d) /\ Rest(c, d) /\ Others(c, d, {s}) /\ d.slots[s] = ClearedSlot
           /\ \A t \in Slots \ {s} : SameState(c, d, t)
           /\ PlacesBut(c, s) /\ s \notin ToSet(c.freeBuffers) \cup ToSet(c.unused)
              /\ (~MayFail => s \notin c.active) => PlacesOK(d)
<1> DEFINE d == FreeSlot(c, s)
<1>1. /\ ListsOK(d) /\ Same(c, d)
  BY FreeSlotLists DEF Typed
<1>2. /\ d.slots = [c.slots EXCEPT ![s] = ClearedSlot]
      /\ d.freeSlots = c.freeSlots \cup {s}
      /\ d.freeBuffers = c.freeBuffers /\ d.active = c.active /\ d.unused = c.unused
      /\ d.allocating = c.allocating
      /\ d.defaultSize = c.defaultSize /\ d.connected = c.connected
  BY DEF FreeSlot, Typed, ListsOK, Fields
<1> HIDE DEF d
<1>3. /\ d.slots \in [Slots -> SlotStates] /\ d.slots[s] = ClearedSlot
      /\ \A t \in Slots \ {s} : d.slots[t] = c.slots[t]
  BY <1>2, SlotFacts DEF Typed
<1>4. Typed(d) /\ Rest(c, d)
  BY <1>1, <1>2, <1>3 DEF Typed, Rest, Same, SameModes
<1>5. /\ \A t \in Slots \ {s} : SameState(c, d, t) /\ AsBefore(c, d, t)
      /\ Others(c, d, {s})
  BY <1>2, <1>3 DEF SameState, AsBefore, Others, IsFree
<1>6. ASSUME PlacesBut(c, s), s \notin ToSet(c.freeBuffers) \cup ToSet(c.unused),
             ~MayFail => s \notin c.active
      PROVE  PlacesOK(d)
  <2>1. PlacesBut(d, s)
    BY <1>2, <1>5, <1>6, AsBeforePlace DEF PlacesBut
  <2>2. PlaceOK(d, s)
    BY <1>2, <1>3, <1>6 DEF PlaceOK, IsFree, ClearedSlot
  <2> QED
    BY <2>1, <2>2, PlacesButOne
<1> QED
  BY <1>3, <1>4, <1>5, <1>6 DEF d

\* A slot that is in no list and has a buffer becomes a free buffer.
LEMMA RecyclePlaced ==
    ASSUME NEW c, Typed(c), NEW s \in Slots, IsFree(c, s)
    PROVE  LET d == Recycle(c, s) IN
           /\ Typed(d) /\ Rest(c, d) /\ \A t \in Slots : SameState(c, d, t)
           /\ PlacesBut(c, s) /\ Out(c, s) /\ c.slots[s].buffer # NoBuffer => PlacesOK(d)
<1> DEFINE e == [c EXCEPT !.slots[s].shared = FALSE]
<1>1. /\ e.slots = c.slots /\ e.freeSlots = c.freeSlots /\ e.freeBuffers = c.freeBuffers
      /\ e.active = c.active /\ e.unused = c.unused /\ e.allocating = c.allocating
      /\ e.defaultSize = c.defaultSize /\ e.connected = c.connected
      /\ DOMAIN e = Fields
  <2>1. c.slots[s] \in SlotStates
    BY DEF Typed
  <2>2. [c.slots[s] EXCEPT !.shared = FALSE] = c.slots[s]
    BY <2>1 DEF SlotStates
  <2>3. [c.slots EXCEPT ![s] = [c.slots[s] EXCEPT !.shared = FALSE]] = c.slots
    BY <2>2 DEF Typed
  <2> QED
    BY <2>3 DEF Typed, ListsOK, Fields
<1>2. Recycle(c, s) = MakeBufferFree(e, s)
  <2>1. ~e.slots[s].shared /\ ~c.sharedMode
    BY <1>1 DEF Typed, SlotStates
  <2> QED
    BY <2>1 DEF Recycle
<1> HIDE DEF e
<1>3. /\ ListsOK(Recycle(c, s)) /\ Same(c, Recycle(c, s))
  BY RecycleLists DEF Typed
<1> DEFINE r == Recycle(c, s)
<1>4. /\ r.slots = c.slots /\ r.freeSlots = c.freeSlots
      /\ r.freeBuffers = Append(c.freeBuffers, s) /\ r.active = c.active \ {s}
      /\ r.unused = c.unused /\ r.allocating = c.allocating
      /\ r.defaultSize = c.defaultSize /\ r.connected = c.connected
  BY <1>1, <1>2 DEF MakeBufferFree, Fields
<1> HIDE DEF r
<1>5. Typed(r) /\ Rest(c, r) /\ \A t \in Slots : SameState(c, r, t)
  BY <1>3, <1>4 DEF Typed, Rest, Same, SameModes, SameState, r
<1>6. ASSUME PlacesBut(c, s), Out(c, s), c.slots[s].buffer # NoBuffer
      PROVE  PlacesOK(r)
  <2>1. /\ ToSet(r.freeBuffers) = ToSet(c.freeBuffers) \cup {s}
        /\ Once(r.freeBuffers)
    BY <1>4, <1>6, AppendOnce DEF Typed, ListsOK, PlacesBut, Out
  <2>2. \A t \in Slots \ {s} : AsBefore(c, r, t)
    BY <1>4, <1>5, <2>1 DEF AsBefore
  <2>3. PlacesBut(r, s)
    BY <1>4, <1>6, <2>1, <2>2, AsBeforePlace DEF PlacesBut
  <2>4. PlaceOK(r, s)
    BY <1>4, <1>6, <2>1 DEF PlaceOK, IsFree, Out
  <2> QED
    BY <2>3, <2>4, PlacesButOne
<1> QED
  BY <1>5, <1>6 DEF r

-----------------------------------------------------------------------------
(* adjustAvailableSlotsLocked.                                             *)

\* One slot goes to mUnusedSlots: a free one, or the last free buffer.
LEMMA UnuseOnePlaced ==
    ASSUME NEW c, Typed(c), FreeCount(c) > 0
    PROVE  LET d == UnuseOne(c) IN
           /\ Kept(c, d) /\ Same(c, d) /\ d.allocating = c.allocating
           /\ Len(d.unused) = Len(c.unused) + 1
<1> DEFINE d == UnuseOne(c)
           s == IF c.freeSlots # {} THEN FirstFreeSlot(c) ELSE Last(c.freeBuffers)
<1>1. /\ ListsOK(c) /\ c.freeSlots \subseteq Slots /\ c.freeBuffers \in Seq(Slots)
      /\ c.unused \in Seq(Slots) /\ c.slots \in [Slots -> SlotStates]
  BY DEF Typed, ListsOK
<1>2. c.freeSlots = {} => c.freeBuffers # <<>>
  <2> SUFFICES ASSUME c.freeSlots = {}, c.freeBuffers = <<>>
               PROVE  FALSE
    OBVIOUS
  <2>1. Cardinality(c.freeSlots) = 0 /\ Len(c.freeBuffers) = 0
    BY FS_EmptySet
  <2> QED
    BY <2>1 DEF FreeCount
<1>3. s \in Slots
  BY <1>1, <1>2, FirstFreeSlotIsFree, FrontOnce
<1>4. ListsOK(d) /\ Same(c, d)
  BY <1>1, UnuseOneLists
<1>5. /\ d.slots = [c.slots EXCEPT ![s] = ClearedSlot]
      /\ d.freeSlots = c.freeSlots \ {s}
      /\ d.freeBuffers = IF c.freeSlots # {} THEN c.freeBuffers ELSE Front(c.freeBuffers)
      /\ d.unused = Append(c.unused, s)
      /\ d.active = c.active /\ d.allocating = c.allocating
      /\ d.defaultSize = c.defaultSize /\ d.connected = c.connected
  BY DEF UnuseOne, Typed, ListsOK, Fields
<1>6. c.freeSlots # {} => s \in c.freeSlots
  BY <1>1, FirstFreeSlotIsFree
<1>7. c.freeSlots = {} =>
          /\ ToSet(c.freeBuffers) = ToSet(Front(c.freeBuffers)) \cup {s}
          /\ Once(c.freeBuffers) => Once(Front(c.freeBuffers)) /\ s \notin ToSet(Front(c.freeBuffers))
  BY <1>1, <1>2, FrontOnce
<1> HIDE DEF d, s
<1>8. /\ d.slots \in [Slots -> SlotStates] /\ d.slots[s] = ClearedSlot
      /\ \A t \in Slots \ {s} : d.slots[t] = c.slots[t]
  BY <1>1, <1>3, <1>5, SlotFacts
<1>9. Typed(d)
  BY <1>4, <1>5, <1>8 DEF Typed, Same, SameModes
<1>10. IsFree(d, s)
  BY <1>8 DEF IsFree, ClearedSlot
<1>11. ASSUME PlacesOK(c)
       PROVE  PlacesOK(d) /\ Others(c, d, {})
  <2>1. /\ IsFree(c, s) /\ s \notin ToSet(c.unused)
        /\ s \notin d.freeSlots /\ s \notin ToSet(d.freeBuffers)
        /\ ~MayFail => s \notin c.active
    BY <1>3, <1>5, <1>6, <1>7, <1>11 DEF PlacesOK, PlaceOK
  <2>2. /\ ToSet(d.unused) = ToSet(c.unused) \cup {s} /\ Once(d.unused)
        /\ Once(d.freeBuffers)
    BY <1>1, <1>3, <1>5, <1>7, <1>11, <2>1, AppendOnce DEF PlacesOK
  <2>3. \A t \in Slots \ {s} : AsBefore(c, d, t)
    BY <1>5, <1>7, <1>8, <2>2 DEF AsBefore, SameState
  <2>4. PlacesBut(d, s)
    BY <1>11, <2>2, <2>3, AsBeforePlace DEF PlacesBut, PlacesOK
  <2>5. PlaceOK(d, s)
    BY <1>5, <1>8, <1>10, <2>1, <2>2 DEF PlaceOK, ClearedSlot
  <2>6. Others(c, d, {})
    BY <1>3, <1>10, <2>1, <2>3 DEF Others, AsBefore, SameState, IsFree
  <2> QED
    BY <1>3, <2>4, <2>5, <2>6, PlacesButOne
<1>12. (\A t \in Slots : IsFree(c, t)) => \A t \in Slots : IsFree(d, t)
  BY <1>8, <1>10 DEF IsFree
<1>13. Len(d.unused) = Len(c.unused) + 1
  BY <1>1, <1>3, <1>5
<1> QED
  BY <1>4, <1>5, <1>9, <1>11, <1>12, <1>13 DEF Kept, Same, SameModes, d

\* The last unused slot is free again.
LEMMA UseOnePlaced ==
    ASSUME NEW c, Typed(c), Len(c.unused) > 0
    PROVE  LET d == UseOne(c) IN
           /\ Kept(c, d) /\ Same(c, d) /\ d.allocating = c.allocating
           /\ Len(d.unused) = Len(c.unused) - 1
<1> DEFINE d == UseOne(c)
           s == Last(c.unused)
<1>1. /\ ListsOK(c) /\ c.unused \in Seq(Slots) /\ c.unused # <<>>
      /\ c.freeSlots \subseteq Slots
  BY DEF Typed, ListsOK
<1>2. ListsOK(d) /\ Same(c, d) /\ Len(d.unused) = Len(c.unused) - 1
  BY <1>1, UseOneLists
<1>3. /\ d.slots = c.slots /\ d.freeBuffers = c.freeBuffers
      /\ d.freeSlots = c.freeSlots \cup {s}
      /\ d.unused = Front(c.unused)
      /\ d.active = c.active /\ d.allocating = c.allocating
      /\ d.defaultSize = c.defaultSize /\ d.connected = c.connected
  BY DEF UseOne, Typed, ListsOK, Fields
<1>4. /\ s \in Slots
      /\ ToSet(c.unused) = ToSet(Front(c.unused)) \cup {s}
      /\ Once(c.unused) => Once(Front(c.unused)) /\ s \notin ToSet(Front(c.unused))
  BY <1>1, FrontOnce
<1> HIDE DEF d, s
<1>5. Typed(d) /\ \A t \in Slots : SameState(c, d, t)
  BY <1>2, <1>3 DEF Typed, Same, SameModes, SameState
<1>6. ASSUME PlacesOK(c)
      PROVE  PlacesOK(d)
  <2>1. \A t \in Slots \ {s} : AsBefore(c, d, t)
    BY <1>3, <1>4, <1>5 DEF AsBefore
  <2>2. PlacesBut(d, s)
    BY <1>3, <1>4, <1>6, <2>1, AsBeforePlace DEF PlacesBut, PlacesOK
  <2>3. PlaceOK(d, s)
    BY <1>3, <1>4, <1>6 DEF PlacesOK, PlaceOK, IsFree
  <2> QED
    BY <1>4, <2>2, <2>3, PlacesButOne
<1> QED
  BY <1>2, <1>3, <1>5, <1>6, SameStateKept DEF Kept, Same, SameModes, d

\* adjustAvailableSlotsLocked moves free slots only, and delta of them.
LEMMA AdjustedPlaced ==
    ASSUME NEW c, Typed(c), NEW delta \in -NumSlots .. NumSlots, CanAdjust(c, delta)
    PROVE  LET d == Adjusted(c, delta) IN
           /\ Kept(c, d) /\ Same(c, d) /\ d.allocating = c.allocating
           /\ Len(d.unused) = Len(c.unused) - delta
<1> DEFINE size == IF delta < 0 THEN -delta ELSE delta
<1>1. NumSlots \in Nat /\ delta \in Int /\ size \in 0 .. NumSlots
  BY CoreAssumption
<1>2. PICK f : /\ Adjusted(c, delta) = f[size]
               /\ f[0] = c
               /\ \A k \in 1 .. NumSlots :
                     f[k] = IF delta < 0 THEN UnuseOne(f[k - 1]) ELSE UseOne(f[k - 1])
  BY AdjustedSteps
<1> HIDE DEF size
<1> DEFINE Part(d, k) ==
               /\ Kept(c, d) /\ Same(c, d) /\ d.allocating = c.allocating
               /\ IF delta < 0 THEN Len(d.unused) = Len(c.unused) + k
                               ELSE Len(d.unused) = Len(c.unused) - k
               /\ delta < 0 => FreeCount(d) = FreeCount(c) - k
           Parts == {n \in Nat : n <= size => Part(f[n], n)}
<1>3. Len(c.unused) \in Nat /\ FreeCount(c) \in Nat
  BY FreeCountIsNat DEF Typed, FreeCount
<1>4. Part(c, 0)
  <2>1. Same(c, c) /\ Kept(c, c)
    BY DEF Same, SameModes, Kept, Others, SameState
  <2> QED
    BY <1>3, <2>1
<1>5. ASSUME NEW n \in Nat, n + 1 <= size, Part(f[n], n)
      PROVE  Part(f[n + 1], n + 1)
  <2>1. n + 1 \in 1 .. NumSlots /\ (n + 1) - 1 = n
    BY <1>1, <1>5
  <2>2. f[n + 1] = IF delta < 0 THEN UnuseOne(f[n]) ELSE UseOne(f[n])
    BY <1>2, <2>1
  <2>3. Typed(f[n])
    BY <1>5 DEF Kept
  <2>4. CASE delta < 0
    <3>1. size = -delta /\ size <= FreeCount(c)
      BY <1>1, <2>4 DEF CanAdjust, FreeCount, size
    <3>2. FreeCount(f[n]) > 0 /\ ListsOK(f[n])
      BY <1>3, <1>5, <2>3, <2>4, <3>1, <1>1 DEF Typed
    <3>3. /\ Kept(f[n], f[n + 1])
          /\ Same(f[n], f[n + 1]) /\ f[n + 1].allocating = f[n].allocating
          /\ Len(f[n + 1].unused) = Len(f[n].unused) + 1
          /\ FreeCount(f[n + 1]) = FreeCount(f[n]) - 1
      BY <2>2, <2>3, <2>4, <3>2, UnuseOnePlaced, UnuseOneLists
    <3>4. Kept(c, f[n + 1]) /\ Same(c, f[n + 1])
      BY <1>5, <3>3, KeptTwice DEF Same, SameModes
    <3>5. Len(f[n + 1].unused) = Len(c.unused) + (n + 1)
      <4>1. Len(f[n].unused) = Len(c.unused) + n
        BY <1>5, <2>4
      <4>2. \A k, m \in Nat : (k + m) + 1 = k + (m + 1)
        OBVIOUS
      <4>3. (Len(c.unused) + n) + 1 = Len(c.unused) + (n + 1)
        BY <1>3, <4>2
      <4> QED
        BY <3>3, <4>1, <4>3
    <3>6. FreeCount(f[n + 1]) = FreeCount(c) - (n + 1)
      BY <1>3, <1>5, <2>4, <3>3
    <3> QED
      BY <1>5, <2>4, <3>3, <3>4, <3>5, <3>6
  <2>5. CASE ~(delta < 0)
    <3>1. size = delta /\ size <= Len(c.unused)
      BY <1>1, <2>5 DEF CanAdjust, size
    <3>2. Len(f[n].unused) > 0
      BY <1>1, <1>3, <1>5, <2>5, <3>1
    <3>3. /\ Kept(f[n], f[n + 1])
          /\ Same(f[n], f[n + 1]) /\ f[n + 1].allocating = f[n].allocating
          /\ Len(f[n + 1].unused) = Len(f[n].unused) - 1
      BY <2>2, <2>3, <2>5, <3>2, UseOnePlaced
    <3>4. Kept(c, f[n + 1]) /\ Same(c, f[n + 1])
      BY <1>5, <3>3, KeptTwice DEF Same, SameModes
    <3>5. Len(f[n + 1].unused) = Len(c.unused) - (n + 1)
      BY <1>3, <1>5, <2>5, <3>3
    <3> QED
      BY <1>5, <2>5, <3>3, <3>4, <3>5
  <2> QED
    BY <2>4, <2>5
<1>6. size \in Parts
  <2> HIDE DEF Part
  <2>1. 0 \in Parts
    BY <1>2, <1>4
  <2>2. \A n \in Parts : n + 1 \in Parts
    <3> SUFFICES ASSUME NEW n \in Parts, n + 1 <= size
                 PROVE  Part(f[n + 1], n + 1)
      OBVIOUS
    <3>1. n \in Nat /\ n <= size
      BY <1>1
    <3> QED
      BY <1>5, <3>1
  <2>3. Parts \in SUBSET Nat
    OBVIOUS
  <2> HIDE DEF Parts
  <2> QED
    BY <1>1, <2>1, <2>2, <2>3, SetInduction
<1>7. Part(f[size], size)
  BY <1>1, <1>6
<1>8. IF delta < 0 THEN size = -delta ELSE size = delta
  BY DEF size
<1>9. Len(f[size].unused) = Len(c.unused) - delta
  BY <1>1, <1>3, <1>7, <1>8
<1> QED
  BY <1>2, <1>7, <1>9

-----------------------------------------------------------------------------
(* Freeing all buffers.                                                    *)

\* Every slot is free afterwards, and none is in two places.
LEMMA FreeAllPlaced ==
    ASSUME NEW c, Typed(c), PlacesOK(c), ~MayFail
    PROVE  LET d == FreeAllBuffers(c) IN
           /\ Typed(d) /\ PlacesOK(d) /\ SameModes(c, d)
           /\ \A s \in Slots : IsFree(d, s)
           /\ d.unused = c.unused /\ d.allocating = c.allocating
           /\ Len(d.queue) = Len(c.queue)
           /\ \A i \in 1 .. Len(c.queue) :
                 d.queue[i].stale /\ d.queue[i].frame = c.queue[i].frame
<1> DEFINE d == FreeAllBuffers(c)
           gone == c.freeSlots \cup ToSet(c.freeBuffers) \cup c.active
<1>1. /\ ListsOK(c) /\ c.slots \in [Slots -> SlotStates] /\ c.queue \in Seq(QueueItems)
      /\ gone \subseteq Slots
  BY DEF Typed, ListsOK, ToSet
<1>2. ListsOK(d) /\ SameModes(c, d)
  BY <1>1, FreeAllBuffersLists
<1>3. /\ d.slots = [s \in Slots |-> IF s \in gone THEN ClearedSlot ELSE c.slots[s]]
      /\ d.freeSlots = gone /\ d.freeBuffers = <<>> /\ d.active = {}
      /\ d.queue = [i \in DOMAIN c.queue |-> [c.queue[i] EXCEPT !.stale = TRUE]]
      /\ d.unused = c.unused /\ d.allocating = c.allocating
      /\ d.defaultSize = c.defaultSize /\ d.connected = c.connected
  BY <1>1 DEF FreeAllBuffers, ListsOK, Fields
<1> HIDE DEF d, gone
<1>4. d.slots \in [Slots -> SlotStates]
  BY <1>1, <1>3, SlotFacts
<1>5. Typed(d)
  BY <1>2, <1>3, <1>4 DEF Typed, SameModes
<1>6. ASSUME NEW s \in Slots
      PROVE  IsFree(d, s) /\ PlaceOK(d, s)
  <2>1. PlaceOK(c, s)
    BY DEF PlacesOK
  <2>2. s \notin ToSet(d.freeBuffers)
    BY <1>3 DEF ToSet
  <2>3. CASE s \in gone
    <3>1. d.slots[s] = ClearedSlot /\ s \notin ToSet(c.unused)
      BY <1>3, <2>1, <2>3 DEF PlaceOK, gone
    <3> QED
      BY <1>3, <2>2, <2>3, <3>1 DEF PlaceOK, IsFree, ClearedSlot
  <2>4. CASE s \notin gone
    <3>1. IsFree(c, s) /\ s \in ToSet(c.unused) /\ c.slots[s].buffer = NoBuffer
      BY <2>1, <2>4 DEF PlaceOK, gone
    <3> QED
      BY <1>3, <2>2, <2>4, <3>1 DEF PlaceOK, IsFree
  <2> QED
    BY <2>3, <2>4
<1>7. PlacesOK(d)
  <2>1. Once(d.freeBuffers) /\ Once(d.unused)
    BY <1>3 DEF PlacesOK, Once
  <2> QED
    BY <1>6, <2>1 DEF PlacesOK
<1>8. /\ Len(d.queue) = Len(c.queue)
      /\ \A i \in 1 .. Len(c.queue) :
            d.queue[i].stale /\ d.queue[i].frame = c.queue[i].frame
  <2>1. DOMAIN c.queue = 1 .. Len(c.queue) /\ Len(c.queue) \in Nat
    BY <1>1
  <2>2. \A i \in 1 .. Len(c.queue) : c.queue[i] \in QueueItems
    BY <1>1
  <2>3. DOMAIN d.queue = 1 .. Len(c.queue) /\ d.queue \in Seq(QueueItems)
    BY <1>2, <1>3, <2>1 DEF ListsOK
  <2>4. Len(d.queue) = Len(c.queue)
    BY <2>1, <2>3
  <2>5. \A i \in 1 .. Len(c.queue) : d.queue[i] = [c.queue[i] EXCEPT !.stale = TRUE]
    BY <1>3, <2>1
  <2> QED
    BY <2>2, <2>4, <2>5 DEF QueueItems
<1> QED
  BY <1>2, <1>3, <1>5, <1>6, <1>7, <1>8 DEF d

-----------------------------------------------------------------------------
(* Finding a slot, and taking it.                                          *)

\* The buffers that dequeueBuffer gives up become free slots.
LEMMA DropMisfitsKept ==
    ASSUME NEW c, Typed(c), NEW w
    PROVE  Kept(c, DropMisfits(c, w)) /\ Rest(c, DropMisfits(c, w))
<1> DEFINE fit == SelectInSeq(c.freeBuffers, LAMBDA s : c.slots[s].buffer = w)
           m == IF fit = 0 THEN Len(c.freeBuffers) ELSE fit - 1
<1>1. /\ ListsOK(c) /\ c.slots \in [Slots -> SlotStates] /\ c.freeBuffers \in Seq(Slots)
      /\ Len(c.freeBuffers) \in Nat
  BY DEF Typed, ListsOK
<1>2. fit \in 0 .. Len(c.freeBuffers)
  <2> DEFINE I == {i \in 1 .. Len(c.freeBuffers) : c.slots[c.freeBuffers[i]].buffer = w}
  <2>1. fit = IF I # {} THEN Min(I) ELSE 0
    BY DEF SelectInSeq
  <2> HIDE DEF fit
  <2>2. I \subseteq 1 .. Len(c.freeBuffers) /\ I \subseteq Nat
    OBVIOUS
  <2> HIDE DEF I
  <2>3. I # {} => \E i \in I : \A j \in I : i <= j
    BY <2>2, LeastNatural
  <2>4. I # {} => Min(I) \in I
    BY <2>3 DEF Min
  <2>5. 0 \in 0 .. Len(c.freeBuffers) /\ 1 .. Len(c.freeBuffers) \subseteq 0 .. Len(c.freeBuffers)
    BY <1>1
  <2>6. CASE I = {}
    BY <2>1, <2>5, <2>6
  <2>7. CASE I # {}
    BY <2>1, <2>2, <2>4, <2>5, <2>7
  <2> QED
    BY <2>6, <2>7
<1>3. PICK n \in 0 .. Len(c.freeBuffers) : n = m
  <2> HIDE DEF fit
  <2> QED
    BY <1>1, <1>2
<1> DEFINE gone == {c.freeBuffers[i] : i \in 1 .. n}
           t == SubSeq(c.freeBuffers, n + 1, Len(c.freeBuffers))
           d == DropMisfits(c, w)
<1>4. /\ d.slots = [s \in Slots |-> IF s \in gone THEN ClearedSlot ELSE c.slots[s]]
      /\ d.freeSlots = c.freeSlots \cup gone /\ d.freeBuffers = t
  BY <1>1, <1>3 DEF DropMisfits, ListsOK, Fields
<1>5. /\ Same(c, d) /\ d.unused = c.unused
      /\ d.active = c.active /\ d.allocating = c.allocating
      /\ d.defaultSize = c.defaultSize /\ d.connected = c.connected /\ DOMAIN d = Fields
  BY <1>1 DEF DropMisfits, ListsOK, Fields, Same, SameModes
<1>6. /\ t \in Seq(Slots) /\ gone \subseteq Slots
      /\ ToSet(c.freeBuffers) = gone \cup ToSet(t)
      /\ Once(c.freeBuffers) => Once(t) /\ gone \cap ToSet(t) = {}
  <2>1. ToSet(c.freeBuffers) \subseteq Slots
    BY <1>1 DEF ToSet
  <2> DEFINE h == SubSeq(c.freeBuffers, 1, n)
  <2>2. /\ t \in Seq(Slots)
        /\ ToSet(c.freeBuffers) = ToSet(h) \cup ToSet(t)
        /\ ToSet(h) = gone
        /\ Once(c.freeBuffers) => Once(t) /\ ToSet(h) \cap ToSet(t) = {}
    BY <1>1, CutOnce
  <2> QED
    BY <2>1, <2>2
<1> HIDE DEF d, t, gone, m, fit
<1>7. d.slots \in [Slots -> SlotStates]
  BY <1>1, <1>4, SlotFacts
<1>8. Typed(d)
  BY <1>1, <1>4, <1>5, <1>6, <1>7 DEF Typed, ListsOK, Same, SameModes
<1>9. \A s \in Slots : IF s \in gone THEN IsFree(d, s) ELSE d.slots[s] = c.slots[s]
  BY <1>4 DEF IsFree, ClearedSlot
<1>10. ASSUME PlacesOK(c)
       PROVE  PlacesOK(d) /\ Others(c, d, {})
  <2>1. ASSUME NEW s \in Slots
        PROVE  PlaceOK(d, s) /\ IF IsFree(c, s) THEN IsFree(d, s) ELSE SameState(c, d, s)
    <3>1. PlaceOK(c, s)
      BY <1>10 DEF PlacesOK
    <3>2. CASE s \in gone
      <4>1. s \in ToSet(c.freeBuffers) /\ s \notin ToSet(t)
        BY <1>6, <1>10, <3>2 DEF PlacesOK
      <4>2. IsFree(c, s) /\ s \notin ToSet(c.unused) /\ (~MayFail => s \notin c.active)
        BY <3>1, <4>1 DEF PlaceOK
      <4>3. d.slots[s] = ClearedSlot
        BY <1>4, <3>2
      <4> QED
        BY <1>4, <1>5, <3>2, <4>1, <4>2, <4>3 DEF PlaceOK, IsFree, ClearedSlot
    <3>3. CASE s \notin gone
      <4>1. AsBefore(c, d, s)
        BY <1>4, <1>5, <1>6, <3>3 DEF AsBefore, SameState
      <4> QED
        BY <3>1, <4>1, AsBeforePlace DEF AsBefore, SameState, IsFree
    <3> QED
      BY <3>2, <3>3
  <2> QED
    BY <1>4, <1>5, <1>6, <1>10, <2>1 DEF PlacesOK, Others
<1>11. (\A s \in Slots : IsFree(c, s)) => \A s \in Slots : IsFree(d, s)
  BY <1>9 DEF IsFree
<1> QED
  BY <1>5, <1>8, <1>10, <1>11 DEF Kept, Rest, Same, SameModes, d

\* What waitForFreeSlotThenRelock finds in c: nothing, or a slot that was free
\* and is now in no list.
Found(c, choice) ==
    /\ Typed(choice.core) /\ Rest(c, choice.core) /\ Others(c, choice.core, {})
    /\ IF choice.slot = INVALID
       THEN PlacesOK(choice.core)
       ELSE /\ choice.slot \in Slots
            /\ IsFree(c, choice.slot) /\ IsFree(choice.core, choice.slot)
            /\ PlacesBut(choice.core, choice.slot) /\ Out(choice.core, choice.slot)
            /\ ~MayFail => choice.slot \notin choice.core.active

\* The lowest slot of mFreeSlots.
LEMMA PopSlotFinds ==
    ASSUME NEW c, Typed(c), PlacesOK(c), c.freeSlots # {}
    PROVE  Found(c, PopSlot(c))
<1> DEFINE s == FirstFreeSlot(c)
           d == [c EXCEPT !.freeSlots = @ \ {s}]
<1>1. ListsOK(c) /\ c.freeSlots \subseteq Slots
  BY DEF Typed, ListsOK
<1>2. s \in c.freeSlots /\ s \in Slots
  BY <1>1, FirstFreeSlotIsFree
<1>3. PopSlot(c) = [slot |-> s, core |-> d]
  BY DEF PopSlot, Choice
<1> HIDE DEF s
<1>4. /\ d.slots = c.slots
      /\ d.freeSlots = c.freeSlots \ {s} /\ d.freeBuffers = c.freeBuffers
      /\ d.active = c.active
      /\ Rest(c, d) /\ DOMAIN d = Fields
      /\ d.defaultSize = c.defaultSize /\ d.connected = c.connected
  BY <1>1 DEF ListsOK, Fields, Rest, Same, SameModes
<1> HIDE DEF d
<1>5. Typed(d) /\ \A t \in Slots : SameState(c, d, t)
  BY <1>4 DEF Typed, ListsOK, Rest, Same, SameModes, SameState
<1>6. /\ IsFree(c, s) /\ Out(d, s) /\ (~MayFail => s \notin d.active)
  BY <1>2, <1>4 DEF PlacesOK, PlaceOK, Out, Rest
<1>7. PlacesBut(d, s)
  <2>1. \A t \in Slots \ {s} : AsBefore(c, d, t)
    BY <1>4, <1>5 DEF AsBefore, Rest
  <2> QED
    BY <1>4, <2>1, AsBeforePlace DEF PlacesBut, PlacesOK, Rest
<1>8. Others(c, d, {}) /\ IsFree(d, s)
  BY <1>2, <1>5, <1>6, SameStateKept
<1> QED
  BY <1>2, <1>3, <1>4, <1>5, <1>6, <1>7, <1>8, SlotFacts DEF Found

\* The oldest slot of mFreeBuffers.
LEMMA PopBufferFinds ==
    ASSUME NEW c, Typed(c), PlacesOK(c), c.freeBuffers # <<>>
    PROVE  Found(c, PopBuffer(c))
<1> DEFINE s == Head(c.freeBuffers)
           d == [c EXCEPT !.freeBuffers = Tail(@)]
<1>1. ListsOK(c) /\ c.freeBuffers \in Seq(Slots)
  BY DEF Typed, ListsOK
<1>2. /\ s \in Slots /\ Tail(c.freeBuffers) \in Seq(Slots)
      /\ ToSet(c.freeBuffers) = ToSet(Tail(c.freeBuffers)) \cup {s}
      /\ Once(c.freeBuffers) => Once(Tail(c.freeBuffers)) /\ s \notin ToSet(Tail(c.freeBuffers))
  BY <1>1, TailOnce
<1>3. PopBuffer(c) = [slot |-> s, core |-> d]
  BY DEF PopBuffer, Choice
<1> HIDE DEF s
<1>4. /\ d.slots = c.slots
      /\ d.freeSlots = c.freeSlots /\ d.freeBuffers = Tail(c.freeBuffers)
      /\ d.active = c.active
      /\ Rest(c, d) /\ DOMAIN d = Fields
      /\ d.defaultSize = c.defaultSize /\ d.connected = c.connected
  BY <1>1 DEF ListsOK, Fields, Rest, Same, SameModes
<1> HIDE DEF d
<1>5. Typed(d) /\ \A t \in Slots : SameState(c, d, t)
  BY <1>2, <1>4 DEF Typed, ListsOK, Rest, Same, SameModes, SameState
<1>6. /\ IsFree(c, s) /\ Out(d, s) /\ (~MayFail => s \notin d.active)
  BY <1>2, <1>4 DEF PlacesOK, PlaceOK, Out, Rest
<1>7. PlacesBut(d, s)
  <2>1. \A t \in Slots \ {s} : AsBefore(c, d, t)
    BY <1>2, <1>4, <1>5 DEF AsBefore, Rest
  <2> QED
    BY <1>2, <1>4, <2>1, AsBeforePlace DEF PlacesBut, PlacesOK, Rest
<1>8. Others(c, d, {}) /\ IsFree(d, s)
  BY <1>2, <1>5, <1>6, SameStateKept
<1> QED
  BY <1>2, <1>3, <1>4, <1>5, <1>6, <1>7, <1>8, SlotFacts DEF Found

\* Nothing was found.
LEMMA NoSlotFinds ==
    ASSUME NEW c, NEW d, Kept(c, d), Rest(c, d), PlacesOK(c)
    PROVE  Found(c, NoSlot(d))
BY DEF Found, NoSlot, Choice, Kept

\* What is found after free slots have changed places.
LEMMA FoundAfter ==
    ASSUME NEW c, NEW d, Kept(c, d), Rest(c, d), PlacesOK(c), NEW choice, Found(d, choice)
    PROVE  Found(c, choice)
<1>1. Others(c, d, {}) /\ Others(d, choice.core, {})
  BY DEF Kept, Found
<1>2. Others(c, choice.core, {}) /\ \A s \in Slots : IsFree(d, s) => IsFree(c, s)
  BY <1>1 DEF Others, SameState, IsFree
<1>3. Rest(c, choice.core)
  BY DEF Found, Rest, Same, SameModes
<1> QED
  BY <1>2, <1>3 DEF Found

\* Nothing has changed.
LEMMA KeptAsItIs ==
    ASSUME NEW c, Typed(c)
    PROVE  Kept(c, c) /\ Rest(c, c)
BY DEF Kept, Rest, Same, SameModes, Others, SameState

\* What dequeueBuffer finds, whether it may allocate or not.
LEMMA DequeueFinds ==
    ASSUME NEW c, Typed(c), PlacesOK(c), NEW w
    PROVE  Found(c, DequeueChoice(c, w))
<1>1. ~HasSharedSlot(c)
  BY DEF Typed, HasSharedSlot
<1> DEFINE d == IF c.allowAllocation THEN c ELSE DropMisfits(c, w)
<1>2. Kept(c, d) /\ Rest(c, d)
  BY KeptAsItIs, DropMisfitsKept
<1>3. DequeueChoice(c, w) =
         IF TooManyBuffers(c) THEN NoSlot(c)
         ELSE IF d.freeBuffers # <<>> THEN PopBuffer(d)
              ELSE IF d.allowAllocation /\ d.freeSlots # {} THEN PopSlot(d)
              ELSE NoSlot(d)
  BY <1>1 DEF DequeueChoice
<1> HIDE DEF d
<1>4. Typed(d) /\ PlacesOK(d)
  BY <1>2 DEF Kept
<1>5. Found(c, NoSlot(c)) /\ Found(c, NoSlot(d))
  BY <1>2, KeptAsItIs, NoSlotFinds
<1>6. d.freeBuffers # <<>> => Found(c, PopBuffer(d))
  BY <1>2, <1>4, PopBufferFinds, FoundAfter
<1>7. d.freeSlots # {} => Found(c, PopSlot(d))
  BY <1>2, <1>4, PopSlotFinds, FoundAfter
<1> QED
  BY <1>3, <1>5, <1>6, <1>7

\* What attachBuffer finds.
LEMMA AttachFinds ==
    ASSUME NEW c, Typed(c), PlacesOK(c)
    PROVE  Found(c, AttachChoice(c))
<1>1. ~HasSharedSlot(c)
  BY DEF Typed, HasSharedSlot
<1>2. Found(c, NoSlot(c))
  BY KeptAsItIs, NoSlotFinds
<1> QED
  BY <1>1, <1>2, PopSlotFinds, PopBufferFinds DEF AttachChoice

\* Slot s is dequeued in d, and was free in c.
Dequeued(c, d, s) ==
    /\ Typed(d) /\ PlacesOK(d) /\ Same(c, d) /\ d.unused = c.unused
    /\ Others(c, d, {s}) /\ IsFree(c, s)
    /\ d.slots[s].dequeueCount = 1 /\ d.slots[s].queueCount = 0

\* A slot in no list is put among the active ones.
LEMMA TakenPlaced ==
    ASSUME NEW c, NEW choice, Found(c, choice), choice.slot # INVALID,
           NEW d, NEW b \in SlotStates, ListsOK(d), Same(choice.core, d),
           d.slots = [choice.core.slots EXCEPT ![choice.slot] = b],
           b.dequeueCount = 1, b.queueCount = 0, b.acquireCount = 0,
           d.freeSlots = choice.core.freeSlots, d.freeBuffers = choice.core.freeBuffers,
           d.unused = choice.core.unused, d.active = choice.core.active \cup {choice.slot},
           d.defaultSize = choice.core.defaultSize, d.connected = choice.core.connected
    PROVE  Dequeued(c, d, choice.slot)
<1>1. PICK s \in Slots : s = choice.slot
  BY DEF Found
<1>2. PICK e : e = choice.core
  OBVIOUS
<1>3. /\ Typed(e) /\ Rest(c, e) /\ Others(c, e, {})
      /\ IsFree(c, s) /\ PlacesBut(e, s) /\ Out(e, s)
  BY <1>1, <1>2 DEF Found
<1>4. /\ d.slots = [e.slots EXCEPT ![s] = b]
      /\ d.freeSlots = e.freeSlots /\ d.freeBuffers = e.freeBuffers
      /\ d.unused = e.unused /\ d.active = e.active \cup {s}
      /\ d.defaultSize = e.defaultSize /\ d.connected = e.connected /\ Same(e, d)
  BY <1>1, <1>2
<1>5. /\ d.slots \in [Slots -> SlotStates] /\ d.slots[s] = b
      /\ \A t \in Slots \ {s} : d.slots[t] = e.slots[t]
  BY <1>3, <1>4 DEF Typed
<1>6. Typed(d)
  BY <1>3, <1>4, <1>5 DEF Typed, Same, SameModes
<1>7. \A t \in Slots \ {s} : AsBefore(e, d, t)
  BY <1>4, <1>5 DEF AsBefore, SameState
<1>8. PlacesBut(d, s)
  BY <1>3, <1>4, <1>7, AsBeforePlace DEF PlacesBut
<1>9. PlaceOK(d, s)
  BY <1>3, <1>4, <1>5 DEF PlaceOK, IsFree, Out
<1>10. Others(c, d, {s})
  BY <1>3, <1>7 DEF Others, AsBefore, SameState, IsFree
<1>11. Same(c, d) /\ d.unused = c.unused
  BY <1>3, <1>4 DEF Rest, Same, SameModes
<1> QED
  BY <1>1, <1>3, <1>5, <1>6, <1>8, <1>9, <1>10, <1>11, PlacesButOne DEF Dequeued

\* dequeueBuffer: without a buffer of the size, the slot has none yet.
LEMMA TakeSlotPlaced ==
    ASSUME NEW c, NEW choice, Found(c, choice), choice.slot # INVALID, NEW w \in Sizes
    PROVE  LET s == choice.slot
               d == TakeSlot(choice.core, s, w)
           IN  /\ Dequeued(c, d, s)
               /\ ~NeedsBuffer(choice.core, s, w) => d.slots[s].buffer = w
               /\ NeedsBuffer(choice.core, s, w) => d.allocating
               /\ ~NeedsBuffer(choice.core, s, w) => d.allocating = c.allocating
<1>1. PICK s \in Slots : s = choice.slot
  BY DEF Found
<1>2. PICK e : e = choice.core
  OBVIOUS
<1> DEFINE misfit == NeedsBuffer(e, s, w)
           x == e.slots[s]
           b == IF misfit
                THEN [x EXCEPT !.dequeueCount = @ + 1, !.buffer = NoBuffer, !.requested = FALSE]
                ELSE [x EXCEPT !.dequeueCount = @ + 1]
           d == TakeSlot(e, s, w)
<1>3. Typed(e) /\ Rest(c, e) /\ IsFree(e, s)
  BY <1>1, <1>2 DEF Found
<1>4. x \in SlotStates /\ x.dequeueCount = 0 /\ x.queueCount = 0 /\ x.acquireCount = 0
  BY <1>3 DEF Typed, IsFree
<1>5. /\ b \in SlotStates /\ b.dequeueCount = 1
      /\ b.queueCount = 0 /\ b.acquireCount = 0
      /\ ~misfit => b.buffer = w
  <2>1. ~misfit => x.buffer = w
    BY DEF NeedsBuffer
  <2>2. x.dequeueCount + 1 = 1
    BY <1>4
  <2> HIDE DEF x, misfit
  <2>3. PICK one \in Nat : one = x.dequeueCount + 1 /\ one = 1
    BY <2>2
  <2>4. b = IF misfit THEN [x EXCEPT !.dequeueCount = one, !.buffer = NoBuffer, !.requested = FALSE]
            ELSE [x EXCEPT !.dequeueCount = one]
    BY <2>3
  <2>5. [x EXCEPT !.dequeueCount = one] \in SlotStates
    BY <1>4 DEF SlotStates
  <2>6. [x EXCEPT !.dequeueCount = one, !.buffer = NoBuffer, !.requested = FALSE] \in SlotStates
    <3>1. NoBuffer \in Sizes \cup {NoBuffer} /\ FALSE \in BOOLEAN
      OBVIOUS
    <3> QED
      BY <1>4, <3>1 DEF SlotStates
  <2> HIDE DEF b
  <2>7. CASE misfit
    BY <1>4, <2>3, <2>4, <2>6, <2>7 DEF SlotStates
  <2>8. CASE ~misfit
    BY <1>4, <2>1, <2>3, <2>4, <2>5, <2>8 DEF SlotStates
  <2> QED
    BY <2>7, <2>8
<1>6. /\ ListsOK(d) /\ Same(e, d)
      /\ d.slots = [e.slots EXCEPT ![s] = b]
      /\ d.active = e.active \cup {s}
      /\ d.freeSlots = e.freeSlots
      /\ d.freeBuffers = e.freeBuffers /\ d.unused = e.unused
      /\ d.defaultSize = e.defaultSize /\ d.connected = e.connected
      /\ d.allocating = IF misfit THEN TRUE ELSE e.allocating
  <2> DEFINE y == [e EXCEPT !.active = IF e.sharedSlot = s THEN @ ELSE @ \cup {s},
                            !.slots[s].dequeueCount = @ + 1]
             z == IF misfit
                  THEN [y EXCEPT !.slots[s].buffer = NoBuffer,
                                 !.slots[s].requested = FALSE,
                                 !.allocating = TRUE]
                  ELSE y
  <2>1. /\ DOMAIN e = Fields /\ ~e.sharedMode /\ e.sharedSlot # s /\ ListsOK(e)
        /\ DOMAIN e.slots = Slots
    BY <1>3, SlotFacts DEF Typed, ListsOK
  <2>2. /\ ListsOK(y) /\ Same(e, y)
        /\ y.slots = [e.slots EXCEPT ![s] = [x EXCEPT !.dequeueCount = @ + 1]]
        /\ y.active = e.active \cup {s}
        /\ y.freeSlots = e.freeSlots
        /\ y.freeBuffers = e.freeBuffers /\ y.unused = e.unused
        /\ y.defaultSize = e.defaultSize /\ y.connected = e.connected
        /\ y.allocating = e.allocating
    BY <2>1 DEF ListsOK, Same, SameModes, Fields
  <2>3. d = ShareFirst(z, s)
    BY DEF TakeSlot
  <2> HIDE DEF x, y, misfit
  <2>4. /\ ListsOK(z) /\ Same(y, z)
        /\ z.slots = [e.slots EXCEPT ![s] = b]
        /\ z.active = y.active
        /\ z.freeSlots = y.freeSlots
        /\ z.freeBuffers = y.freeBuffers /\ z.unused = y.unused
        /\ z.defaultSize = y.defaultSize /\ z.connected = y.connected
        /\ z.allocating = IF misfit THEN TRUE ELSE y.allocating
    BY <2>1, <2>2 DEF ListsOK, Same, SameModes, Fields
  <2> HIDE DEF z
  <2>5. ~z.sharedMode
    BY <2>1, <2>2, <2>4 DEF Same, SameModes
  <2>6. d = z
    BY <2>3, <2>5 DEF ShareFirst
  <2> HIDE DEF d
  <2> QED
    BY <2>2, <2>4, <2>6 DEF Same, SameModes
<1> HIDE DEF d, b, x
<1>7. Dequeued(c, d, s) /\ d.slots[s] = b
  <2>1. d.slots[s] = b
    BY <1>3, <1>6 DEF Typed
  <2> QED
    BY <1>1, <1>2, <1>5, <1>6, <2>1, TakenPlaced
<1> QED
  BY <1>1, <1>2, <1>3, <1>5, <1>6, <1>7 DEF d, Rest

\* attachBuffer: the slot gets the client's buffer.
Attached(c, s, w) ==
    [c EXCEPT !.slots[s].buffer = w, !.slots[s].dequeueCount = @ + 1,
              !.slots[s].requested = TRUE, !.active = @ \cup {s}]

\* The slot in which attachBuffer puts the client's buffer.
LEMMA AttachedPlaced ==
    ASSUME NEW c, NEW choice, Found(c, choice), choice.slot # INVALID, NEW w \in Sizes
    PROVE  LET s == choice.slot
               d == Attached(choice.core, s, w)
           IN  Dequeued(c, d, s) /\ d.slots[s].buffer = w /\ d.allocating = c.allocating
<1>1. PICK s \in Slots : s = choice.slot
  BY DEF Found
<1>2. PICK e : e = choice.core
  OBVIOUS
<1> DEFINE x == e.slots[s]
           b == [x EXCEPT !.buffer = w, !.dequeueCount = @ + 1, !.requested = TRUE]
           d == Attached(e, s, w)
<1>3. Typed(e) /\ Rest(c, e) /\ IsFree(e, s)
  BY <1>1, <1>2 DEF Found
<1>4. x \in SlotStates /\ x.dequeueCount = 0 /\ x.queueCount = 0 /\ x.acquireCount = 0
  BY <1>3 DEF Typed, IsFree
<1>5. /\ b \in SlotStates /\ b.dequeueCount = 1
      /\ b.queueCount = 0 /\ b.acquireCount = 0
      /\ b.buffer = w
  <2>1. x.dequeueCount + 1 = 1
    BY <1>4
  <2> HIDE DEF x
  <2>2. PICK one \in Nat : one = x.dequeueCount + 1 /\ one = 1
    BY <2>1
  <2>3. b = [x EXCEPT !.buffer = w, !.dequeueCount = one, !.requested = TRUE]
    BY <2>2
  <2>4. [x EXCEPT !.buffer = w, !.dequeueCount = one, !.requested = TRUE] \in SlotStates
    BY <1>4 DEF SlotStates
  <2> HIDE DEF b
  <2> QED
    BY <1>4, <2>2, <2>3, <2>4 DEF SlotStates
<1>6. /\ ListsOK(d) /\ Same(e, d)
      /\ d.slots = [e.slots EXCEPT ![s] = b]
      /\ d.active = e.active \cup {s}
      /\ d.freeSlots = e.freeSlots
      /\ d.freeBuffers = e.freeBuffers /\ d.unused = e.unused
      /\ d.defaultSize = e.defaultSize /\ d.connected = e.connected
      /\ d.allocating = e.allocating
  <2>1. DOMAIN e = Fields /\ ListsOK(e) /\ DOMAIN e.slots = Slots
    BY <1>3 DEF Typed, ListsOK
  <2> QED
    BY <2>1 DEF Attached, ListsOK, Same, SameModes, Fields
<1> HIDE DEF d, b, x
<1>7. Dequeued(c, d, s) /\ d.slots[s] = b
  <2>1. d.slots[s] = b
    BY <1>3, <1>6 DEF Typed
  <2> QED
    BY <1>1, <1>2, <1>5, <1>6, <2>1, TakenPlaced
<1> QED
  BY <1>1, <1>2, <1>3, <1>5, <1>6, <1>7 DEF d, Rest

-----------------------------------------------------------------------------
(* allocateBuffers and detachNextBuffer: free slots and free buffers.      *)

\* The new buffer is put in a free slot, and the slot at the head of the free
\* buffers.
LEMMA PutBufferPlaced ==
    ASSUME Typed(core), NEW p \in Producers, want[p] \in Sizes, core.freeSlots # {}
    PROVE  LET d == PutBuffer(p, FirstFreeSlot(core)) IN
           Kept(core, d) /\ Same(core, d) /\ d.unused = core.unused /\ ~d.allocating
<1> DEFINE s == FirstFreeSlot(core)
           b == [ClearedSlot EXCEPT !.buffer = want[p]]
           d == PutBuffer(p, s)
<1>1. /\ ListsOK(core)
      /\ core.freeSlots \subseteq Slots /\ core.freeBuffers \in Seq(Slots)
      /\ core.slots \in [Slots -> SlotStates]
  BY DEF Typed, ListsOK
<1>2. s \in core.freeSlots /\ s \in Slots
  BY <1>1, FirstFreeSlotIsFree
<1> HIDE DEF s
<1>3. b \in SlotStates /\ b.dequeueCount = 0 /\ b.queueCount = 0 /\ b.acquireCount = 0
      /\ b.buffer = want[p]
  <2>1. want[p] \in Sizes \cup {NoBuffer} /\ ClearedSlot \in SlotStates
    BY SlotFacts
  <2>2. b \in SlotStates
    BY <2>1 DEF SlotStates, ClearedSlot
  <2> QED
    BY <2>2 DEF ClearedSlot
<1> HIDE DEF b
<1>4. /\ DOMAIN d = Fields /\ Same(core, d)
      /\ d.slots = [core.slots EXCEPT ![s] = b]
      /\ d.freeSlots = core.freeSlots \ {s} /\ d.freeBuffers = <<s>> \o core.freeBuffers
      /\ d.unused = core.unused /\ d.active = core.active /\ d.allocating = FALSE
      /\ d.defaultSize = core.defaultSize /\ d.connected = core.connected
  BY <1>1 DEF PutBuffer, ListsOK, Fields, Same, SameModes, b
<1> HIDE DEF d
<1>5. /\ <<s>> \o core.freeBuffers \in Seq(Slots)
      /\ ToSet(<<s>> \o core.freeBuffers) = ToSet(core.freeBuffers) \cup {s}
      /\ Once(core.freeBuffers) /\ s \notin ToSet(core.freeBuffers)
            => Once(<<s>> \o core.freeBuffers)
  BY <1>1, <1>2, ConsOnce
<1>6. /\ d.slots \in [Slots -> SlotStates] /\ d.slots[s] = b
      /\ \A t \in Slots \ {s} : d.slots[t] = core.slots[t]
  BY <1>1, <1>2, <1>3, <1>4
<1>7. ListsOK(d) /\ Typed(d)
  BY <1>1, <1>4, <1>5, <1>6 DEF Typed, ListsOK, Same, SameModes
<1>8. ASSUME PlacesOK(core)
      PROVE  PlacesOK(d) /\ Others(core, d, {})
  <2>1. /\ IsFree(core, s)
        /\ s \notin ToSet(core.unused) /\ s \notin ToSet(core.freeBuffers)
        /\ ~MayFail => s \notin core.active
    BY <1>2, <1>8 DEF PlacesOK, PlaceOK
  <2>2. \A t \in Slots \ {s} : AsBefore(core, d, t)
    BY <1>4, <1>5, <1>6 DEF AsBefore, SameState
  <2>3. PlacesBut(d, s)
    BY <1>4, <1>5, <1>8, <2>1, <2>2, AsBeforePlace DEF PlacesBut, PlacesOK
  <2>4. PlaceOK(d, s)
    BY <1>3, <1>4, <1>5, <1>6, <2>1, SlotFacts DEF PlaceOK, IsFree
  <2>5. Others(core, d, {})
    BY <1>3, <1>6, <2>1, <2>2 DEF Others, AsBefore, SameState, IsFree
  <2> QED
    BY <1>2, <2>3, <2>4, <2>5, PlacesButOne
<1>9. (\A t \in Slots : IsFree(core, t)) => \A t \in Slots : IsFree(d, t)
  BY <1>3, <1>6 DEF IsFree
<1> QED
  BY <1>4, <1>7, <1>8, <1>9 DEF Kept, Same, SameModes, d, s

\* The oldest free buffer is given away, and its slot is free.
LEMMA DetachNextPlaced ==
    ASSUME NEW c, Typed(c), c.freeBuffers # <<>>
    PROVE  LET s == Head(c.freeBuffers)
               d == FreeSlot([c EXCEPT !.freeBuffers = Without(@, s)], s)
           IN  Kept(c, d) /\ Rest(c, d)
<1> DEFINE s == Head(c.freeBuffers)
           e == [c EXCEPT !.freeBuffers = Without(@, s)]
           d == FreeSlot(e, s)
<1>1. /\ ListsOK(c) /\ c.freeBuffers \in Seq(Slots) /\ c.slots \in [Slots -> SlotStates]
  BY DEF Typed, ListsOK
<1>2. s \in Slots /\ s \in ToSet(c.freeBuffers)
  BY <1>1, TailOnce
<1> HIDE DEF s
<1>3. /\ Without(c.freeBuffers, s) \in Seq(Slots)
      /\ ToSet(Without(c.freeBuffers, s)) = ToSet(c.freeBuffers) \ {s}
      /\ Once(c.freeBuffers) => Once(Without(c.freeBuffers, s))
  BY <1>1, WithoutIsSeq
<1>4. /\ e.slots = c.slots /\ e.freeSlots = c.freeSlots
      /\ e.freeBuffers = Without(c.freeBuffers, s) /\ e.active = c.active
      /\ Rest(c, e) /\ DOMAIN e = Fields
      /\ e.defaultSize = c.defaultSize /\ e.connected = c.connected
  BY <1>1 DEF ListsOK, Fields, Rest, Same, SameModes
<1> HIDE DEF e
<1>5. Typed(e) /\ \A t \in Slots : SameState(c, e, t)
  BY <1>3, <1>4 DEF Typed, ListsOK, Rest, Same, SameModes, SameState
<1>6. /\ Typed(d) /\ Rest(e, d) /\ d.slots[s] = ClearedSlot
      /\ \A t \in Slots \ {s} : SameState(e, d, t)
      /\ PlacesBut(e, s) /\ s \notin ToSet(e.freeBuffers) \cup ToSet(e.unused)
         /\ (~MayFail => s \notin e.active) => PlacesOK(d)
  BY <1>2, <1>5, FreeSlotPlaced
<1> HIDE DEF d
<1>7. Rest(c, d)
  BY <1>4, <1>6 DEF Rest, Same, SameModes
<1>8. IsFree(d, s) /\ \A t \in Slots \ {s} : SameState(c, d, t)
  BY <1>5, <1>6 DEF SameState, IsFree, ClearedSlot
<1>9. ASSUME PlacesOK(c)
      PROVE  PlacesOK(d) /\ Others(c, d, {})
  <2>1. /\ IsFree(c, s) /\ s \notin ToSet(c.unused)
        /\ ~MayFail => s \notin c.active
    BY <1>2, <1>9 DEF PlacesOK, PlaceOK
  <2>2. \A t \in Slots \ {s} : AsBefore(c, e, t)
    BY <1>3, <1>4, <1>5 DEF AsBefore, Rest
  <2>3. PlacesBut(e, s)
    BY <1>3, <1>4, <1>9, <2>2, AsBeforePlace DEF PlacesBut, PlacesOK, Rest
  <2>4. PlacesOK(d)
    BY <1>3, <1>4, <1>6, <2>1, <2>3 DEF Rest
  <2>5. Others(c, d, {})
    BY <1>8, <2>1 DEF Others, SameState, IsFree
  <2> QED
    BY <2>4, <2>5
<1>10. (\A t \in Slots : IsFree(c, t)) => \A t \in Slots : IsFree(d, t)
  BY <1>8 DEF SameState, IsFree
<1> QED
  BY <1>6, <1>7, <1>9, <1>10 DEF Kept, Rest, Same, SameModes, d, e, s

-----------------------------------------------------------------------------
(* The queue and the threads' hands after a change of the core.            *)

\* The queue stays right when no queued slot changes.
LEMMA QueueKept ==
    ASSUME NEW c, Typed(c), NEW n \in Nat, QueueOK(c, n), ~c.abandoned,
           NEW d, d.queue = c.queue, ~d.abandoned, NEW m \in Nat, n <= m,
           NEW S, Others(c, d, S),
           \A s \in S : c.slots[s].queueCount = 0 /\ d.slots[s].queueCount = 0
    PROVE  QueueOK(d, m)
<1>1. \A i \in 1 .. Len(c.queue) : c.queue[i].frame \in 1 .. m
  BY DEF QueueOK, QueueFits
<1>2. \A t \in Slots : c.slots[t].queueCount # 0 => ~IsFree(c, t) /\ t \notin S
  BY DEF IsFree
<1>3. \A t \in Slots : c.slots[t].queueCount # 0 => SameState(c, d, t)
  BY <1>2 DEF Others
<1>4. \A t \in Slots : d.slots[t].queueCount # 0 => c.slots[t].queueCount # 0
  <2> SUFFICES ASSUME NEW t \in Slots, c.slots[t].queueCount = 0
               PROVE  d.slots[t].queueCount = 0
    OBVIOUS
  <2> QED
    BY DEF Others, IsFree, SameState
<1>5. \A i \in 1 .. Len(c.queue) : c.queue[i].slot \in Slots
  <2>1. \A i \in 1 .. Len(c.queue) : c.queue[i] \in QueueItems
    BY DEF Typed, ListsOK
  <2> QED
    BY <2>1 DEF QueueItems
<1>6. ASSUME NEW i \in 1 .. Len(c.queue), ~c.queue[i].stale
      PROVE  /\ d.slots[c.queue[i].slot].queueCount = 1
             /\ d.slots[c.queue[i].slot].frame = c.queue[i].frame
  <2>1. /\ c.slots[c.queue[i].slot].queueCount = 1
        /\ c.slots[c.queue[i].slot].frame = c.queue[i].frame
    BY <1>6 DEF QueueOK, QueueFits
  <2> QED
    BY <1>3, <1>5, <2>1 DEF SameState
<1> QED
  BY <1>1, <1>4, <1>6 DEF QueueOK, QueueFits

\* An empty queue of free slots is right.
LEMMA QueueEmpty ==
    ASSUME NEW d, d.queue = <<>>, \A s \in Slots : IsFree(d, s), NEW n
    PROVE  QueueOK(d, n)
BY DEF QueueOK, QueueFits, IsFree

\* Slots handed out stay right when only others change.
LEMMA HandsKept ==
    ASSUME HandsInv, NEW d, core' = d, core.abandoned => d.abandoned,
           NEW S, ~core.abandoned => Others(core, d, S),
           held \in [Producers -> SUBSET Slots],
           \A q \in Producers : held'[q] \subseteq held[q] \ S,
           \A q \in Producers : pc'[q] = "allocate" =>
              pc[q] = "allocate" /\ found'[q] = found[q] /\ found[q] \notin S
    PROVE  HandsInv'
<1> SUFFICES ASSUME ~d.abandoned, NEW p \in Producers
             PROVE  /\ pc'[p] = "allocate" => found'[p] \in Slots \ held'[p]
                    /\ \A s \in Taken(p)' : d.slots[s].dequeueCount = 1
                    /\ \A s \in held'[p] : d.slots[s].buffer # NoBuffer
                    /\ \A q \in Producers \ {p} : Taken(p)' \cap Taken(q)' = {}
  BY DEF HandsInv
<1>1. ~core.abandoned /\ Others(core, d, S)
  OBVIOUS
<1>2. \A q \in Producers : Taken(q)' \subseteq Taken(q) \ S
  BY DEF Taken
<1>3. \A q \in Producers : /\ pc[q] = "allocate" => found[q] \in Slots \ held[q]
                           /\ \A s \in Taken(q) : core.slots[s].dequeueCount = 1
                           /\ \A s \in held[q] : core.slots[s].buffer # NoBuffer
  BY <1>1 DEF HandsInv
<1>4. \A q \in Producers : Taken(q) \subseteq Slots
  BY <1>3 DEF Taken
<1>5. \A s \in Taken(p) \ S : SameState(core, d, s)
  BY <1>1, <1>3, <1>4 DEF Others, IsFree
<1>6. \A s \in Taken(p)' : d.slots[s].dequeueCount = 1
  BY <1>2, <1>3, <1>5 DEF SameState
<1>7. \A s \in held'[p] : d.slots[s].buffer # NoBuffer
  BY <1>3, <1>5 DEF SameState, Taken
<1>8. \A q \in Producers \ {p} : Taken(p)' \cap Taken(q)' = {}
  BY <1>1, <1>2 DEF HandsInv
<1> QED
  BY <1>3, <1>6, <1>7, <1>8

\* A thread is given a slot that was free.
LEMMA HandsGiven ==
    ASSUME VarsInv, HandsInv, ~core.abandoned, NEW p \in Producers, NEW s \in Slots,
           NEW d, core' = d, Dequeued(core, d, s), pc[p] # "allocate",
           \A q \in Producers \ {p} : pc'[q] = "allocate" =>
              pc[q] = "allocate" /\ found'[q] = found[q],
           \/ /\ held' = [held EXCEPT ![p] = @ \cup {s}]
              /\ pc'[p] # "allocate"
              /\ d.slots[s].buffer # NoBuffer
           \/ held' = held /\ found'[p] = s
    PROVE  HandsInv'
<1>1. Others(core, d, {s}) /\ IsFree(core, s) /\ d.slots[s].dequeueCount = 1
  BY DEF Dequeued
<1>2. /\ held \in [Producers -> SUBSET Slots]
      /\ held'[p] \subseteq held[p] \cup {s}
      /\ s \in held'[p] => d.slots[s].buffer # NoBuffer \/ s \in held[p]
      /\ \A q \in Producers \ {p} : held'[q] = held[q]
      /\ pc'[p] = "allocate" => held' = held /\ found'[p] = s
  BY DEF VarsInv, LocalsOK
<1>3. \A q \in Producers : /\ pc[q] = "allocate" => found[q] \in Slots \ held[q]
                           /\ \A t \in Taken(q) : core.slots[t].dequeueCount = 1
                           /\ \A t \in held[q] : core.slots[t].buffer # NoBuffer
                           /\ \A r \in Producers \ {q} : Taken(q) \cap Taken(r) = {}
  BY DEF HandsInv
<1>4. \A q \in Producers : Taken(q) \subseteq Slots /\ s \notin Taken(q) /\ held[q] \subseteq Taken(q)
  BY <1>1, <1>3, <1>2 DEF Taken, IsFree
<1>5. Taken(p)' \subseteq Taken(p) \cup {s} /\ \A q \in Producers \ {p} : Taken(q)' \subseteq Taken(q)
  BY <1>2 DEF Taken
<1>6. \A q \in Producers : \A t \in Taken(q) : SameState(core, d, t)
  BY <1>1, <1>3, <1>4 DEF Others, IsFree
<1> SUFFICES ASSUME NEW q \in Producers
             PROVE  /\ pc'[q] = "allocate" => found'[q] \in Slots \ held'[q]
                    /\ \A t \in Taken(q)' : d.slots[t].dequeueCount = 1
                    /\ \A t \in held'[q] : d.slots[t].buffer # NoBuffer
                    /\ \A r \in Producers \ {q} : Taken(q)' \cap Taken(r)' = {}
  BY DEF HandsInv
<1>7. pc'[q] = "allocate" => found'[q] \in Slots \ held'[q]
  BY <1>2, <1>3, <1>4
<1>8. \A t \in Taken(q)' : d.slots[t].dequeueCount = 1
  BY <1>1, <1>3, <1>5, <1>6 DEF SameState
<1>9. \A t \in held'[q] : d.slots[t].buffer # NoBuffer
  <2>1. \A t \in held[q] : d.slots[t].buffer # NoBuffer
    BY <1>3, <1>4, <1>6 DEF SameState
  <2>2. s \notin held[q]
    BY <1>4
  <2> QED
    BY <1>2, <2>1, <2>2
<1>10. \A r \in Producers \ {q} : Taken(q)' \cap Taken(r)' = {}
  <2> SUFFICES ASSUME NEW r \in Producers \ {q}
               PROVE  Taken(q)' \cap Taken(r)' = {}
    OBVIOUS
  <2>1. Taken(q) \cap Taken(r) = {}
    BY <1>3
  <2>2. CASE q = p
    BY <1>4, <1>5, <2>1, <2>2
  <2>3. CASE q # p
    BY <1>4, <1>5, <2>1, <2>3
  <2> QED
    BY <2>2, <2>3
<1> QED
  BY <1>7, <1>8, <1>9, <1>10

-----------------------------------------------------------------------------
(* Giving slots back.                                                      *)

\* Slot s is no longer dequeued or acquired in d; the queue is as it was.
Returned(c, d, s) ==
    /\ Typed(d) /\ PlacesOK(d) /\ Rest(c, d)
    /\ Others(c, d, {s}) /\ d.slots[s].queueCount = 0

\* A slot in use is active, in no list, and in one of the three states.
LEMMA BusySlot ==
    ASSUME NEW c, Typed(c), PlacesOK(c), NEW s \in Slots, ~IsFree(c, s)
    PROVE  /\ Out(c, s) /\ s \in c.active /\ c.slots[s] \in SlotStates
           /\ c.slots[s].dequeueCount = 0 => c.slots[s].buffer # NoBuffer
           /\ c.slots[s].dequeueCount > 0 =>
                 /\ c.slots[s].dequeueCount = 1 /\ c.slots[s].queueCount = 0
                 /\ c.slots[s].acquireCount = 0
           /\ c.slots[s].queueCount > 0 =>
                 /\ c.slots[s].queueCount = 1 /\ c.slots[s].dequeueCount = 0
                 /\ c.slots[s].acquireCount = 0
           /\ c.slots[s].acquireCount > 0 =>
                 /\ c.slots[s].acquireCount = 1 /\ c.slots[s].dequeueCount = 0
                 /\ c.slots[s].queueCount = 0
<1>1. PlaceOK(c, s) /\ c.slots[s] \in SlotStates
  BY DEF Typed, PlacesOK
<1>2. PICK i, j, k \in Nat : /\ i = c.slots[s].dequeueCount /\ j = c.slots[s].queueCount
                             /\ k = c.slots[s].acquireCount
  BY <1>1 DEF SlotStates
<1>3. i + j + k = 1
  BY <1>1, <1>2 DEF PlaceOK
<1>4. /\ i > 0 => i = 1 /\ j = 0 /\ k = 0
      /\ j > 0 => j = 1 /\ i = 0 /\ k = 0
      /\ k > 0 => k = 1 /\ i = 0 /\ j = 0
  BY <1>3
<1>5. Out(c, s) /\ s \in c.active /\ (c.slots[s].dequeueCount = 0 => c.slots[s].buffer # NoBuffer)
  BY <1>1 DEF PlaceOK, Out
<1> QED
  BY <1>1, <1>2, <1>4, <1>5

\* A slot with a buffer, no longer used, goes to the free buffers.
LEMMA RecycledPlaced ==
    ASSUME NEW c, Typed(c), PlacesOK(c), NEW s \in Slots, ~IsFree(c, s),
           NEW b \in SlotStates, b.dequeueCount = 0, b.queueCount = 0, b.acquireCount = 0,
           b.buffer # NoBuffer,
           NEW e, ListsOK(e), Rest(c, e), e.slots = [c.slots EXCEPT ![s] = b],
           e.freeSlots = c.freeSlots, e.freeBuffers = c.freeBuffers, e.active = c.active,
           e.defaultSize = c.defaultSize, e.connected = c.connected
    PROVE  LET d == Recycle(e, s) IN
           /\ Returned(c, d, s) /\ IsFree(d, s)
           /\ \A t \in Slots \ {s} : SameState(c, d, t)
<1> DEFINE d == Recycle(e, s)
<1>1. /\ e.slots \in [Slots -> SlotStates] /\ e.slots[s] = b
      /\ \A t \in Slots \ {s} : e.slots[t] = c.slots[t]
  BY DEF Typed
<1>2. Typed(e) /\ IsFree(e, s)
  BY <1>1 DEF Typed, IsFree, Rest, Same, SameModes
<1>3. /\ Typed(d) /\ Rest(e, d) /\ \A t \in Slots : SameState(e, d, t)
      /\ PlacesBut(e, s) /\ Out(e, s) /\ e.slots[s].buffer # NoBuffer => PlacesOK(d)
  BY <1>2, RecyclePlaced
<1> HIDE DEF d
<1>4. PlacesBut(e, s)
  <2>1. \A t \in Slots \ {s} : AsBefore(c, e, t)
    BY <1>1 DEF AsBefore, SameState, Rest
  <2> QED
    BY <2>1, AsBeforePlace DEF PlacesBut, PlacesOK, Rest
<1>5. Out(e, s)
  BY BusySlot DEF Out, Rest
<1>6. PlacesOK(d)
  BY <1>1, <1>3, <1>4, <1>5
<1>7. \A t \in Slots \ {s} : SameState(c, d, t)
  BY <1>1, <1>3 DEF SameState
<1>8. Others(c, d, {s}) /\ d.slots[s].queueCount = 0 /\ IsFree(d, s)
  BY <1>1, <1>3, <1>7 DEF Others, SameState, IsFree
<1>9. Rest(c, d)
  BY <1>3 DEF Rest, Same, SameModes
<1> QED
  BY <1>3, <1>6, <1>7, <1>8, <1>9 DEF Returned, d

\* cancelBuffer
LEMMA CancelledPlaced ==
    ASSUME NEW c, Typed(c), PlacesOK(c), NEW s \in Slots,
           c.slots[s].dequeueCount = 1, c.slots[s].buffer # NoBuffer
    PROVE  Returned(c, Recycle([c EXCEPT !.slots[s].dequeueCount = @ - 1], s), s)
<1> DEFINE x == c.slots[s]
           b == [x EXCEPT !.dequeueCount = @ - 1]
           e == [c EXCEPT !.slots[s].dequeueCount = @ - 1]
<1>1. /\ ~IsFree(c, s) /\ x \in SlotStates /\ x.queueCount = 0 /\ x.acquireCount = 0
      /\ x.dequeueCount = 1 /\ x.buffer # NoBuffer
  <2>1. ~IsFree(c, s)
    BY DEF IsFree
  <2> QED
    BY <2>1, BusySlot
<1>2. /\ b \in SlotStates /\ b.dequeueCount = 0
      /\ b.queueCount = 0 /\ b.acquireCount = 0
      /\ b.buffer # NoBuffer
  <2> HIDE DEF x
  <2>1. b = [x EXCEPT !.dequeueCount = 0]
    BY <1>1
  <2>2. [x EXCEPT !.dequeueCount = 0] \in SlotStates
    BY <1>1 DEF SlotStates
  <2> HIDE DEF b
  <2> QED
    BY <1>1, <2>1, <2>2 DEF SlotStates
<1>3. /\ ListsOK(e) /\ Rest(c, e) /\ e.slots = [c.slots EXCEPT ![s] = b]
      /\ e.freeSlots = c.freeSlots
      /\ e.freeBuffers = c.freeBuffers /\ e.active = c.active
      /\ e.defaultSize = c.defaultSize /\ e.connected = c.connected
  <2>1. DOMAIN c = Fields /\ ListsOK(c) /\ DOMAIN c.slots = Slots
    BY DEF Typed, ListsOK
  <2> QED
    BY <2>1 DEF ListsOK, Rest, Same, SameModes, Fields
<1> HIDE DEF b
<1>4. Returned(c, Recycle(e, s), s)
  <2> HIDE DEF e, x
  <2> QED
    BY <1>1, <1>2, <1>3, RecycledPlaced
<1> QED
  BY <1>4

\* releaseBuffer
LEMMA ReleasedPlaced ==
    ASSUME NEW c, Typed(c), PlacesOK(c), NEW s \in Slots, IsAcquired(c, s)
    PROVE  Returned(c, Recycle([c EXCEPT !.slots[s].acquireCount = @ - 1], s), s)
<1> DEFINE x == c.slots[s]
           b == [x EXCEPT !.acquireCount = @ - 1]
           e == [c EXCEPT !.slots[s].acquireCount = @ - 1]
<1>1. /\ ~IsFree(c, s) /\ x \in SlotStates /\ x.queueCount = 0 /\ x.acquireCount = 1
      /\ x.dequeueCount = 0 /\ x.buffer # NoBuffer
  <2>1. ~IsFree(c, s) /\ c.slots[s].acquireCount > 0
    BY DEF IsFree, IsAcquired
  <2> QED
    BY <2>1, BusySlot
<1>2. /\ b \in SlotStates /\ b.dequeueCount = 0
      /\ b.queueCount = 0 /\ b.acquireCount = 0
      /\ b.buffer # NoBuffer
  <2> HIDE DEF x
  <2>1. b = [x EXCEPT !.acquireCount = 0]
    BY <1>1
  <2>2. [x EXCEPT !.acquireCount = 0] \in SlotStates
    BY <1>1 DEF SlotStates
  <2> HIDE DEF b
  <2> QED
    BY <1>1, <2>1, <2>2 DEF SlotStates
<1>3. /\ ListsOK(e) /\ Rest(c, e) /\ e.slots = [c.slots EXCEPT ![s] = b]
      /\ e.freeSlots = c.freeSlots
      /\ e.freeBuffers = c.freeBuffers /\ e.active = c.active
      /\ e.defaultSize = c.defaultSize /\ e.connected = c.connected
  <2>1. DOMAIN c = Fields /\ ListsOK(c) /\ DOMAIN c.slots = Slots
    BY DEF Typed, ListsOK
  <2> QED
    BY <2>1 DEF ListsOK, Rest, Same, SameModes, Fields
<1> HIDE DEF b
<1>4. Returned(c, Recycle(e, s), s)
  <2> HIDE DEF e, x
  <2> QED
    BY <1>1, <1>2, <1>3, RecycledPlaced
<1> QED
  BY <1>4

\* detachBuffer
LEMMA DetachedPlaced ==
    ASSUME NEW c, Typed(c), PlacesOK(c), NEW s \in Slots, c.slots[s].dequeueCount = 1
    PROVE  Returned(c, FreeSlot([c EXCEPT !.active = @ \ {s}], s), s)
<1> DEFINE e == [c EXCEPT !.active = @ \ {s}]
           d == FreeSlot(e, s)
<1>1. Out(c, s)
  BY BusySlot DEF IsFree
<1>2. /\ e.slots = c.slots /\ e.freeSlots = c.freeSlots /\ e.freeBuffers = c.freeBuffers
      /\ e.active = c.active \ {s} /\ Rest(c, e) /\ DOMAIN e = Fields
      /\ e.defaultSize = c.defaultSize /\ e.connected = c.connected
  BY DEF Typed, ListsOK, Fields, Rest, Same, SameModes
<1> HIDE DEF e
<1>3. Typed(e) /\ \A t \in Slots : SameState(c, e, t)
  BY <1>2 DEF Typed, ListsOK, Rest, Same, SameModes, SameState
<1>4. PlacesBut(e, s)
  <2>1. \A t \in Slots \ {s} : AsBefore(c, e, t)
    BY <1>2, <1>3 DEF AsBefore, Rest
  <2> QED
    BY <1>2, <2>1, AsBeforePlace DEF PlacesBut, PlacesOK, Rest
<1>5. /\ Typed(d) /\ Rest(e, d) /\ d.slots[s] = ClearedSlot
      /\ \A t \in Slots \ {s} : SameState(e, d, t)
      /\ PlacesOK(d)
  BY <1>1, <1>2, <1>3, <1>4, FreeSlotPlaced DEF Out, Rest
<1> HIDE DEF d
<1>6. Rest(c, d) /\ Others(c, d, {s}) /\ d.slots[s].queueCount = 0
  BY <1>2, <1>3, <1>5 DEF Rest, Same, SameModes, Others, SameState, IsFree, ClearedSlot
<1> QED
  BY <1>5, <1>6 DEF Returned, d, e

-----------------------------------------------------------------------------
(* The queue: its first item is acquired, its last one replaced, a new one *)
(* added.                                                                  *)

\* Item r leaves the queue, and its slot is no longer queued.
LEMMA ItemLeaves ==
    ASSUME NEW q \in Seq(QueueItems), NEW r \in 1 .. Len(q),
           NEW o \in Seq(QueueItems), NEW k \in {0, 1},
           \A i \in 1 .. Len(o) : i + k \in (1 .. Len(q)) \ {r} /\ o[i] = q[i + k],
           \A j \in (1 .. Len(q)) \ {r} : j - k \in 1 .. Len(o),
           NEW slots, NEW n \in Nat, QueueFits(q, slots, n), NEW new,
           \A s \in Slots :
              IF ~q[r].stale /\ s = q[r].slot THEN new[s].queueCount = 0
              ELSE new[s].queueCount = slots[s].queueCount /\ new[s].frame = slots[s].frame
    PROVE  QueueFits(o, new, n)
<1>1. /\ Len(q) \in Nat /\ Len(o) \in Nat
      /\ \A i \in 1 .. Len(q) : q[i] \in QueueItems
  OBVIOUS
<1>2. \A i \in 1 .. Len(q) : q[i].slot \in Slots /\ q[i].frame \in Nat
  BY <1>1 DEF QueueItems
<1>3. \A i \in 1 .. Len(o) : o[i].frame \in 1 .. n
  BY DEF QueueFits
<1>4. \A i, j \in 1 .. Len(o) : i < j => o[i].frame < o[j].frame
  <2> SUFFICES ASSUME NEW i \in 1 .. Len(o), NEW j \in 1 .. Len(o), i < j
               PROVE  o[i].frame < o[j].frame
    OBVIOUS
  <2>1. i + k \in 1 .. Len(q) /\ j + k \in 1 .. Len(q) /\ i + k < j + k
    BY <1>1
  <2> QED
    BY <2>1 DEF QueueFits
<1>5. \A i, j \in 1 .. Len(q) :
         ~q[i].stale /\ ~q[j].stale /\ q[i].slot = q[j].slot => i = j
  <2> SUFFICES ASSUME NEW i \in 1 .. Len(q), NEW j \in 1 .. Len(q), i # j,
                      ~q[i].stale, ~q[j].stale, q[i].slot = q[j].slot
               PROVE  FALSE
    OBVIOUS
  <2>1. q[i].frame = q[j].frame /\ q[i].frame \in Nat
    BY <1>2 DEF QueueFits
  <2>2. i < j \/ j < i
    BY <1>1
  <2>3. q[i].frame < q[j].frame \/ q[j].frame < q[i].frame
    BY <2>2 DEF QueueFits
  <2> QED
    BY <2>1, <2>3
<1>6. ASSUME NEW i \in 1 .. Len(o), ~o[i].stale
      PROVE  new[o[i].slot].queueCount = 1 /\ new[o[i].slot].frame = o[i].frame
  <2>1. i + k \in 1 .. Len(q) /\ i + k # r /\ o[i] = q[i + k]
    OBVIOUS
  <2>2. /\ o[i].slot \in Slots /\ slots[o[i].slot].queueCount = 1
        /\ slots[o[i].slot].frame = o[i].frame
    BY <1>2, <1>6, <2>1 DEF QueueFits
  <2>3. ~(~q[r].stale /\ o[i].slot = q[r].slot)
    BY <1>5, <1>6, <2>1
  <2> QED
    BY <2>2, <2>3
<1>7. ASSUME NEW s \in Slots, new[s].queueCount # 0
      PROVE  \E i \in 1 .. Len(o) : ~o[i].stale /\ o[i].slot = s
  <2>1. slots[s].queueCount # 0 /\ ~(~q[r].stale /\ s = q[r].slot)
    BY <1>7
  <2>2. PICK j \in 1 .. Len(q) : ~q[j].stale /\ q[j].slot = s
    BY <2>1 DEF QueueFits
  <2>3. j # r
    BY <2>1, <2>2
  <2>4. PICK i \in 1 .. Len(o) : i = j - k
    BY <2>3
  <2>5. i + k = j
    BY <1>1, <2>4
  <2>6. o[i] = q[j]
    BY <2>5
  <2> QED
    BY <2>2, <2>6
<1> QED
  BY <1>3, <1>4, <1>6, <1>7 DEF QueueFits

\* A newer item joins the queue, and its slot is queued.
LEMMA ItemJoins ==
    ASSUME NEW q \in Seq(QueueItems), NEW item \in QueueItems, ~item.stale,
           NEW slots, NEW n \in Nat, QueueFits(q, slots, n),
           item.frame = n + 1, slots[item.slot].queueCount = 0, NEW new,
           \A s \in Slots :
              IF s = item.slot THEN new[s].queueCount = 1 /\ new[s].frame = n + 1
              ELSE new[s].queueCount = slots[s].queueCount /\ new[s].frame = slots[s].frame
    PROVE  QueueFits(Append(q, item), new, n + 1)
<1> DEFINE o == Append(q, item)
<1>1. /\ Len(q) \in Nat /\ Len(o) = Len(q) + 1 /\ o[Len(q) + 1] = item
      /\ \A i \in 1 .. Len(q) : o[i] = q[i] /\ q[i] \in QueueItems
  OBVIOUS
<1> HIDE DEF o
<1>2. \A i \in 1 .. Len(q) : q[i].slot \in Slots /\ q[i].frame \in Nat
  BY <1>1 DEF QueueItems
<1>3. \A i \in 1 .. Len(o) : i \in 1 .. Len(q) \/ (i = Len(q) + 1 /\ o[i] = item)
  BY <1>1
<1>4. item.slot \in Slots
  BY DEF QueueItems
<1>5. \A i \in 1 .. Len(o) : o[i].frame \in 1 .. n + 1
  <2>1. \A i \in 1 .. Len(q) : q[i].frame \in 1 .. n
    BY DEF QueueFits
  <2>2. 1 .. n \subseteq 1 .. n + 1 /\ n + 1 \in 1 .. n + 1
    OBVIOUS
  <2> QED
    BY <1>1, <1>3, <2>1, <2>2
<1>6. \A i, j \in 1 .. Len(o) : i < j => o[i].frame < o[j].frame
  <2> SUFFICES ASSUME NEW i \in 1 .. Len(o), NEW j \in 1 .. Len(o), i < j
               PROVE  o[i].frame < o[j].frame
    OBVIOUS
  <2>1. i \in 1 .. Len(q)
    BY <1>1, <1>3
  <2>2. CASE j \in 1 .. Len(q)
    BY <1>1, <2>1, <2>2 DEF QueueFits
  <2>3. CASE o[j] = item
    <3>1. q[i].frame \in 1 .. n
      BY <2>1 DEF QueueFits
    <3>2. o[i].frame = q[i].frame /\ o[j].frame = n + 1
      BY <1>1, <2>1, <2>3
    <3> QED
      BY <3>1, <3>2
  <2> QED
    BY <1>3, <2>2, <2>3
<1>7. ASSUME NEW i \in 1 .. Len(o), ~o[i].stale
      PROVE  new[o[i].slot].queueCount = 1 /\ new[o[i].slot].frame = o[i].frame
  <2>1. CASE i \in 1 .. Len(q)
    <3>1. /\ slots[q[i].slot].queueCount = 1 /\ slots[q[i].slot].frame = q[i].frame
          /\ q[i].slot \in Slots /\ o[i] = q[i]
      BY <1>1, <1>2, <1>7, <2>1 DEF QueueFits
    <3>2. q[i].slot # item.slot
      BY <3>1
    <3> QED
      BY <3>1, <3>2
  <2>2. CASE o[i] = item
    BY <1>4, <2>2
  <2> QED
    BY <1>3, <2>1, <2>2
<1>8. ASSUME NEW s \in Slots, new[s].queueCount # 0
      PROVE  \E i \in 1 .. Len(o) : ~o[i].stale /\ o[i].slot = s
  <2>1. CASE s = item.slot
    <3>1. Len(q) + 1 \in 1 .. Len(o)
      BY <1>1
    <3> QED
      BY <1>1, <2>1, <3>1
  <2>2. CASE s # item.slot
    <3>1. slots[s].queueCount # 0
      BY <1>8, <2>2
    <3>2. PICK i \in 1 .. Len(q) : ~q[i].stale /\ q[i].slot = s
      BY <3>1 DEF QueueFits
    <3>3. i \in 1 .. Len(o) /\ o[i] = q[i]
      BY <1>1
    <3> QED
      BY <3>2, <3>3
  <2> QED
    BY <2>1, <2>2
<1> QED
  BY <1>5, <1>6, <1>7, <1>8 DEF QueueFits, o

\* Slots that are not dequeued.
Undequeued(c) == {s \in Slots : c.slots[s].dequeueCount = 0}

\* acquireBuffer
LEMMA AcquiredPlaced ==
    ASSUME NEW c, Typed(c), PlacesOK(c), NEW n \in Nat, QueueOK(c, n), ~c.abandoned,
           c.queue # <<>>
    PROVE  LET item == Head(c.queue)
               e == [c EXCEPT !.queue = Tail(@)]
               d == IF item.stale THEN e
                    ELSE [e EXCEPT !.slots[item.slot].queueCount = @ - 1,
                                   !.slots[item.slot].acquireCount = @ + 1]
           IN  /\ item.slot \in Slots /\ item.frame \in 1 .. n
               /\ Typed(d) /\ PlacesOK(d) /\ QueueOK(d, n) /\ SameModes(c, d)
               /\ d.unused = c.unused /\ d.allocating = c.allocating
               /\ Others(c, d, Undequeued(c))
<1> DEFINE item == Head(c.queue)
           s == item.slot
           x == c.slots[s]
           b == [x EXCEPT !.queueCount = @ - 1, !.acquireCount = @ + 1]
           e == [c EXCEPT !.queue = Tail(@)]
           d == IF item.stale THEN e
                ELSE [e EXCEPT !.slots[s].queueCount = @ - 1,
                               !.slots[s].acquireCount = @ + 1]
           o == Tail(c.queue)
<1>1. /\ ListsOK(c) /\ c.queue \in Seq(QueueItems) /\ c.slots \in [Slots -> SlotStates]
      /\ DOMAIN c = Fields /\ Len(c.queue) \in Nat
  BY DEF Typed, ListsOK
<1>2. /\ o \in Seq(QueueItems) /\ Len(o) = Len(c.queue) - 1 /\ item = c.queue[1]
      /\ Len(c.queue) >= 1
      /\ \A i \in 1 .. Len(o) : o[i] = c.queue[i + 1]
  BY <1>1
<1>3. /\ item \in QueueItems /\ s \in Slots /\ 1 \in 1 .. Len(c.queue)
      /\ item.frame \in 1 .. n
  <2>1. 1 \in 1 .. Len(c.queue) /\ c.queue[1] \in QueueItems
    BY <1>1, <1>2
  <2>2. c.queue[1].frame \in 1 .. n /\ c.queue[1].slot \in Slots
    BY <2>1 DEF QueueOK, QueueFits, QueueItems
  <2> QED
    BY <1>2, <2>1, <2>2
<1>4. ~item.stale => /\ x.queueCount = 1 /\ x.dequeueCount = 0 /\ x.acquireCount = 0
                     /\ x.buffer # NoBuffer /\ x \in SlotStates
                     /\ Out(c, s) /\ s \in c.active
  <2> SUFFICES ASSUME ~item.stale
               PROVE  /\ x.queueCount = 1 /\ x.dequeueCount = 0 /\ x.acquireCount = 0
                      /\ x.buffer # NoBuffer /\ x \in SlotStates
                      /\ Out(c, s) /\ s \in c.active
    OBVIOUS
  <2>1. x.queueCount = 1 /\ ~IsFree(c, s)
    BY <1>2, <1>3 DEF QueueOK, QueueFits, IsFree
  <2> QED
    BY <1>3, <2>1, BusySlot
<1>5. ~item.stale => /\ b \in SlotStates /\ b.queueCount = 0 /\ b.dequeueCount = 0
                     /\ b.acquireCount = 1 /\ b.buffer = x.buffer /\ b.frame = x.frame
  <2> SUFFICES ASSUME ~item.stale
               PROVE  /\ b \in SlotStates /\ b.queueCount = 0 /\ b.dequeueCount = 0
                      /\ b.acquireCount = 1 /\ b.buffer = x.buffer /\ b.frame = x.frame
    OBVIOUS
  <2> HIDE DEF x, item
  <2>1. x.queueCount - 1 = 0 /\ x.acquireCount + 1 = 1
    BY <1>4
  <2>2. b = [x EXCEPT !.queueCount = 0, !.acquireCount = 1]
    BY <2>1
  <2>3. [x EXCEPT !.queueCount = 0, !.acquireCount = 1] \in SlotStates
    BY <1>4 DEF SlotStates
  <2> HIDE DEF b
  <2> QED
    BY <1>4, <2>2, <2>3 DEF SlotStates
<1> HIDE DEF x, item, o
<1>6. /\ DOMAIN d = Fields /\ SameModes(c, d) /\ d.queue = o
      /\ d.slots = IF item.stale THEN c.slots ELSE [c.slots EXCEPT ![s] = b]
      /\ d.freeSlots = c.freeSlots /\ d.freeBuffers = c.freeBuffers
      /\ d.unused = c.unused /\ d.active = c.active /\ d.allocating = c.allocating
      /\ d.defaultSize = c.defaultSize /\ d.connected = c.connected
  BY <1>1 DEF Fields, SameModes, o, x
<1> HIDE DEF d, b, s, e
<1>7. /\ d.slots \in [Slots -> SlotStates]
      /\ ~item.stale => d.slots[s] = b
      /\ \A t \in Slots : item.stale \/ t # s => d.slots[t] = c.slots[t]
  BY <1>1, <1>3, <1>5, <1>6
<1>8. Typed(d)
  BY <1>1, <1>2, <1>6, <1>7 DEF Typed, ListsOK, SameModes
<1>9. PlacesOK(d)
  <2>1. \A t \in Slots : item.stale \/ t # s => AsBefore(c, d, t)
    BY <1>6, <1>7 DEF AsBefore, SameState
  <2>2. \A t \in Slots : item.stale \/ t # s => PlaceOK(d, t)
    BY <2>1, AsBeforePlace DEF PlacesOK
  <2>3. ~item.stale => PlaceOK(d, s)
    BY <1>4, <1>5, <1>6, <1>7 DEF PlaceOK, IsFree, Out
  <2> QED
    BY <1>6, <2>2, <2>3 DEF PlacesOK
<1>10. Others(c, d, Undequeued(c))
  BY <1>4, <1>7 DEF Others, Undequeued, SameState, IsFree, x
<1>11. QueueFits(o, d.slots, n)
  <2> DEFINE q == c.queue
             new == d.slots
             old == c.slots
  <2>1. /\ 1 \in 1 .. Len(q) /\ q \in Seq(QueueItems) /\ 1 \in {0, 1}
        /\ QueueFits(q, old, n)
        /\ q[1].stale <=> item.stale
        /\ q[1].slot = s
    BY <1>1, <1>2, <1>3 DEF QueueOK, s
  <2>2. \A i \in 1 .. Len(o) : i + 1 \in (1 .. Len(q)) \ {1} /\ o[i] = q[i + 1]
    BY <1>1, <1>2
  <2>3. \A j \in (1 .. Len(q)) \ {1} : j - 1 \in 1 .. Len(o)
    BY <1>1, <1>2
  <2>4. \A t \in Slots :
           IF ~q[1].stale /\ t = q[1].slot THEN new[t].queueCount = 0
           ELSE new[t].queueCount = old[t].queueCount /\ new[t].frame = old[t].frame
    BY <1>5, <1>7, <2>1
  <2>5. o \in Seq(QueueItems)
    BY <1>2
  <2> HIDE DEF q, new, old
  <2>6. QueueFits(o, new, n)
    BY <2>1, <2>2, <2>3, <2>4, <2>5, ItemLeaves
  <2> QED
    BY <2>6 DEF new
<1>12. QueueOK(d, n)
  BY <1>6, <1>11 DEF QueueOK, SameModes
<1> QED
  BY <1>3, <1>6, <1>8, <1>9, <1>10, <1>12 DEF d, e, s, item

\* queueBuffer: the slot is queued instead of dequeued.
Used(c, s, f) ==
    [c EXCEPT !.slots[s].dequeueCount = @ - 1, !.slots[s].queueCount = @ + 1,
              !.slots[s].frame = f]

\* A dequeued slot becomes a queued one.
LEMMA UsedPlaced ==
    ASSUME NEW c, Typed(c), PlacesOK(c), NEW s \in Slots, NEW f \in 0 .. MaxFrames,
           c.slots[s].dequeueCount = 1, c.slots[s].buffer # NoBuffer
    PROVE  LET u == Used(c, s, f)
           IN  /\ Typed(u) /\ PlacesOK(u) /\ Rest(c, u)
               /\ \A t \in Slots \ {s} : SameState(c, u, t)
               /\ u.slots[s].queueCount = 1 /\ u.slots[s].frame = f
               /\ c.slots[s].queueCount = 0
<1> DEFINE x == c.slots[s]
           b == [x EXCEPT !.dequeueCount = @ - 1, !.queueCount = @ + 1, !.frame = f]
           u == Used(c, s, f)
<1>1. /\ ~IsFree(c, s) /\ x \in SlotStates /\ x.queueCount = 0 /\ x.acquireCount = 0
      /\ x.dequeueCount = 1 /\ x.buffer # NoBuffer /\ Out(c, s) /\ s \in c.active
  <2>1. ~IsFree(c, s)
    BY DEF IsFree
  <2> QED
    BY <2>1, BusySlot
<1>2. /\ b \in SlotStates /\ b.dequeueCount = 0
      /\ b.queueCount = 1 /\ b.acquireCount = 0
      /\ b.buffer # NoBuffer /\ b.frame = f
  <2> HIDE DEF x
  <2>1. x.dequeueCount - 1 = 0 /\ x.queueCount + 1 = 1
    BY <1>1
  <2>2. b = [x EXCEPT !.dequeueCount = 0, !.queueCount = 1, !.frame = f]
    BY <2>1
  <2>3. [x EXCEPT !.dequeueCount = 0, !.queueCount = 1, !.frame = f] \in SlotStates
    BY <1>1 DEF SlotStates
  <2> HIDE DEF b
  <2> QED
    BY <1>1, <2>2, <2>3 DEF SlotStates
<1>3. /\ DOMAIN u = Fields /\ Rest(c, u) /\ u.slots = [c.slots EXCEPT ![s] = b]
      /\ u.freeSlots = c.freeSlots
      /\ u.freeBuffers = c.freeBuffers /\ u.active = c.active
      /\ u.defaultSize = c.defaultSize /\ u.connected = c.connected
  <2>1. DOMAIN c = Fields /\ DOMAIN c.slots = Slots
    BY DEF Typed, ListsOK
  <2> QED
    BY <2>1 DEF Used, Rest, Same, SameModes, Fields
<1> HIDE DEF b, x, u
<1>4. /\ u.slots \in [Slots -> SlotStates] /\ u.slots[s] = b
      /\ \A t \in Slots \ {s} : u.slots[t] = c.slots[t]
  BY <1>2, <1>3 DEF Typed
<1>5. Typed(u)
  BY <1>3, <1>4 DEF Typed, ListsOK, Rest, Same, SameModes
<1>6. \A t \in Slots \ {s} : AsBefore(c, u, t) /\ SameState(c, u, t)
  BY <1>3, <1>4 DEF AsBefore, SameState, Rest
<1>7. PlacesBut(u, s)
  BY <1>3, <1>6, AsBeforePlace DEF PlacesBut, PlacesOK, Rest
<1>8. PlaceOK(u, s)
  BY <1>1, <1>2, <1>3, <1>4 DEF PlaceOK, IsFree, Out, Rest
<1>9. PlacesOK(u)
  BY <1>7, <1>8, PlacesButOne
<1> QED
  BY <1>1, <1>2, <1>3, <1>4, <1>5, <1>6, <1>9 DEF u, x

\* The slot of the item that is replaced is no longer queued.
LEMMA ReplacedPlaced ==
    ASSUME NEW c, Typed(c), PlacesOK(c), NEW s \in Slots, c.slots[s].queueCount = 1
    PROVE  LET d == Recycle([c EXCEPT !.slots[s].queueCount = @ - 1], s) IN
           /\ Returned(c, d, s) /\ IsFree(d, s)
           /\ \A t \in Slots \ {s} : SameState(c, d, t)
<1> DEFINE x == c.slots[s]
           b == [x EXCEPT !.queueCount = @ - 1]
           e == [c EXCEPT !.slots[s].queueCount = @ - 1]
<1>1. /\ ~IsFree(c, s) /\ x \in SlotStates /\ x.queueCount = 1 /\ x.acquireCount = 0
      /\ x.dequeueCount = 0 /\ x.buffer # NoBuffer
  <2>1. ~IsFree(c, s)
    BY DEF IsFree
  <2> QED
    BY <2>1, BusySlot
<1>2. /\ b \in SlotStates /\ b.dequeueCount = 0
      /\ b.queueCount = 0 /\ b.acquireCount = 0
      /\ b.buffer # NoBuffer
  <2> HIDE DEF x
  <2>1. b = [x EXCEPT !.queueCount = 0]
    BY <1>1
  <2>2. [x EXCEPT !.queueCount = 0] \in SlotStates
    BY <1>1 DEF SlotStates
  <2> HIDE DEF b
  <2> QED
    BY <1>1, <2>1, <2>2 DEF SlotStates
<1>3. /\ ListsOK(e) /\ Rest(c, e) /\ e.slots = [c.slots EXCEPT ![s] = b]
      /\ e.freeSlots = c.freeSlots
      /\ e.freeBuffers = c.freeBuffers /\ e.active = c.active
      /\ e.defaultSize = c.defaultSize /\ e.connected = c.connected
  <2>1. DOMAIN c = Fields /\ ListsOK(c) /\ DOMAIN c.slots = Slots
    BY DEF Typed, ListsOK
  <2> QED
    BY <2>1 DEF ListsOK, Rest, Same, SameModes, Fields
<1> HIDE DEF b
<1> DEFINE d == Recycle(e, s)
<1>4. Returned(c, d, s) /\ IsFree(d, s) /\ \A t \in Slots \ {s} : SameState(c, d, t)
  <2> HIDE DEF e, x
  <2> QED
    BY <1>1, <1>2, <1>3, RecycledPlaced
<1> QED
  BY <1>4

\* The core changes in its queue, and nothing else that matters here.
LEMMA RequeuedPlaced ==
    ASSUME NEW v, Typed(v), PlacesOK(v), NEW q \in Seq(QueueItems)
    PROVE  LET d == [[v EXCEPT !.queue = q] EXCEPT !.hasBeenQueued = TRUE] IN
           /\ Typed(d) /\ PlacesOK(d) /\ SameModes(v, d)
           /\ d.queue = q /\ d.slots = v.slots /\ d.unused = v.unused
           /\ d.allocating = v.allocating
<1> DEFINE d == [[v EXCEPT !.queue = q] EXCEPT !.hasBeenQueued = TRUE]
<1>1. /\ DOMAIN d = Fields /\ SameModes(v, d) /\ d.queue = q /\ d.slots = v.slots
      /\ d.freeSlots = v.freeSlots /\ d.freeBuffers = v.freeBuffers
      /\ d.unused = v.unused /\ d.active = v.active /\ d.allocating = v.allocating
      /\ d.defaultSize = v.defaultSize /\ d.connected = v.connected
  BY DEF Typed, ListsOK, Fields, SameModes
<1> HIDE DEF d
<1>2. Typed(d)
  BY <1>1 DEF Typed, ListsOK, SameModes
<1>3. \A t \in Slots : AsBefore(v, d, t)
  BY <1>1 DEF AsBefore, SameState
<1>4. PlacesOK(d)
  BY <1>1, <1>3, AsBeforePlace DEF PlacesOK
<1> QED
  BY <1>1, <1>2, <1>4 DEF d

\* queueBuffer: the new item replaces a droppable last one or joins the queue.
Queued(c, s, f, droppable) ==
    LET item == [slot |-> s, frame |-> f, stale |-> FALSE, droppable |-> droppable]
    IN  [Enqueued(Used(c, s, f), item) EXCEPT !.hasBeenQueued = TRUE]

\* queueBuffer puts the slot in the queue, at the end or in place of the last.
LEMMA QueuedPlaced ==
    ASSUME NEW c, Typed(c), PlacesOK(c), NEW n \in Nat, QueueOK(c, n), ~c.abandoned,
           n < MaxFrames, NEW s \in Slots, c.slots[s].dequeueCount = 1,
           c.slots[s].buffer # NoBuffer, NEW droppable \in BOOLEAN
    PROVE  LET f == n + 1
               d == Queued(c, s, f, droppable)
           IN  /\ Typed(d) /\ PlacesOK(d) /\ QueueOK(d, f) /\ SameModes(c, d)
               /\ d.unused = c.unused /\ d.allocating = c.allocating
               /\ Others(c, d, Undequeued(c) \cup {s})
<1> DEFINE f == n + 1
           u == Used(c, s, f)
           item == [slot |-> s, frame |-> f, stale |-> FALSE, droppable |-> droppable]
           q == c.queue
           last == Last(q)
           t == last.slot
           replaces == q # <<>> /\ last.droppable
           r == Recycle([u EXCEPT !.slots[t].queueCount = @ - 1], t)
           v == IF replaces /\ ~last.stale THEN r ELSE u
           o == IF replaces THEN Front(q) ELSE q
           d == [Enqueued(u, item) EXCEPT !.hasBeenQueued = TRUE]
<1>1. f \in 0 .. MaxFrames /\ f \in Nat
  BY ProducerAssumption
<1>2. /\ item \in QueueItems /\ q \in Seq(QueueItems)
      /\ item.frame = f /\ ~item.stale /\ item.slot = s
  BY <1>1 DEF QueueItems, Typed, ListsOK
<1> HIDE DEF f
<1>3. /\ Typed(u) /\ PlacesOK(u) /\ Rest(c, u)
      /\ \A z \in Slots \ {s} : SameState(c, u, z)
      /\ u.slots[s].queueCount = 1 /\ u.slots[s].frame = f
      /\ c.slots[s].queueCount = 0
  BY <1>1, UsedPlaced
<1> HIDE DEF u, item
<1>4. q # <<>> => /\ o \in Seq(QueueItems) /\ last \in QueueItems /\ t \in Slots
                  /\ Len(Front(q)) = Len(q) - 1 /\ Front(q) \in Seq(QueueItems)
                  /\ last = q[Len(q)] /\ \A i \in 1 .. Len(q) - 1 : Front(q)[i] = q[i]
                  /\ Len(q) \in Nat /\ Len(q) \in 1 .. Len(q)
  <2> SUFFICES ASSUME q # <<>>
               PROVE  /\ o \in Seq(QueueItems) /\ last \in QueueItems /\ t \in Slots
                      /\ Len(Front(q)) = Len(q) - 1 /\ Front(q) \in Seq(QueueItems)
                      /\ last = q[Len(q)] /\ \A i \in 1 .. Len(q) - 1 : Front(q)[i] = q[i]
                      /\ Len(q) \in Nat /\ Len(q) \in 1 .. Len(q)
    OBVIOUS
  <2>1. Len(q) \in Nat /\ Len(q) \in 1 .. Len(q)
    BY <1>2
  <2>2. /\ last \in QueueItems
        /\ Len(Front(q)) = Len(q) - 1 /\ Front(q) \in Seq(QueueItems)
        /\ last = q[Len(q)] /\ \A i \in 1 .. Len(q) - 1 : Front(q)[i] = q[i]
    <3>1. q \in Seq(QueueItems) /\ q # <<>>
      BY <1>2
    <3> HIDE DEF q, o, r, v, d, t
    <3> QED
      BY <3>1, FrontOnce
  <2> QED
    BY <1>2, <2>1, <2>2 DEF QueueItems
<1>5. o \in Seq(QueueItems)
  BY <1>2, <1>4
<1>6. QueueFits(q, c.slots, n)
  BY DEF QueueOK
<1>7. replaces /\ ~last.stale =>
         c.slots[t].queueCount = 1 /\ c.slots[t].dequeueCount = 0 /\ t # s /\ t \in Slots
  <2> SUFFICES ASSUME replaces, ~last.stale
               PROVE  c.slots[t].queueCount = 1 /\ c.slots[t].dequeueCount = 0 /\ t # s /\ t \in Slots
    OBVIOUS
  <2>1. c.slots[t].queueCount = 1 /\ t \in Slots
    BY <1>4, <1>6 DEF QueueFits
  <2>2. ~IsFree(c, t) /\ t # s
    BY <1>3, <2>1 DEF IsFree
  <2> QED
    BY <2>1, <2>2, BusySlot
<1> HIDE DEF t, last
<1>8. replaces /\ ~last.stale => /\ Returned(u, r, t) /\ IsFree(r, t)
                                 /\ \A z \in Slots \ {t} : SameState(u, r, z)
  <2> SUFFICES ASSUME replaces, ~last.stale
               PROVE  /\ Returned(u, r, t) /\ IsFree(r, t)
                      /\ \A z \in Slots \ {t} : SameState(u, r, z)
    OBVIOUS
  <2>1. u.slots[t].queueCount = 1
    BY <1>3, <1>7 DEF SameState
  <2> QED
    BY <1>3, <1>7, <2>1, ReplacedPlaced
<1>9. /\ Typed(v) /\ PlacesOK(v) /\ Rest(u, v)
      /\ replaces /\ ~last.stale => IsFree(v, t)
      /\ \A z \in Slots : ~(replaces /\ ~last.stale /\ z = t) => SameState(u, v, z)
  BY <1>3, <1>8 DEF Returned, Rest, Same, SameModes, SameState
<1>10. d = [[v EXCEPT !.queue = Append(o, item)] EXCEPT !.hasBeenQueued = TRUE]
  <2>1. u.queue = q /\ v.queue = q
    BY <1>3, <1>9 DEF Rest, Same
  <2>2. Enqueued(u, item) = [v EXCEPT !.queue = Append(o, item)]
    BY <2>1 DEF Enqueued, last, t
  <2> QED
    BY <2>2
<1> HIDE DEF r, v
<1>11. /\ Typed(d) /\ PlacesOK(d) /\ SameModes(v, d)
       /\ d.queue = Append(o, item) /\ d.slots = v.slots /\ d.unused = v.unused
       /\ d.allocating = v.allocating
  <2>1. Append(o, item) \in Seq(QueueItems)
    BY <1>2, <1>5
  <2> HIDE DEF d, o
  <2> QED
    BY <1>9, <1>10, <2>1, RequeuedPlaced
<1> HIDE DEF d, replaces
<1> DEFINE old == [v.slots EXCEPT ![s] = c.slots[s]]
<1>12. /\ old[s] = c.slots[s] /\ \A z \in Slots \ {s} : old[z] = v.slots[z]
  BY <1>9 DEF Typed
<1> HIDE DEF old
<1>13. QueueFits(o, old, n)
  <2>1. CASE ~replaces
    <3>1. \A z \in Slots : old[z].queueCount = c.slots[z].queueCount /\ old[z].frame = c.slots[z].frame
      BY <1>3, <1>9, <1>12, <2>1 DEF SameState
    <3>2. o = q
      BY <2>1
    <3>3. \A i \in 1 .. Len(q) : q[i].slot \in Slots
      <4>1. \A i \in 1 .. Len(q) : q[i] \in QueueItems
        BY <1>2
      <4> QED
        BY <4>1 DEF QueueItems
    <3> QED
      BY <1>6, <3>1, <3>2, <3>3 DEF QueueFits
  <2>2. CASE replaces
    <3> DEFINE m == Len(q)
    <3>1. q # <<>> /\ o = Front(q)
      BY <2>2 DEF replaces
    <3>2. /\ m \in 1 .. Len(q) /\ 0 \in {0, 1}
          /\ o \in Seq(QueueItems) /\ q \in Seq(QueueItems)
          /\ m \in Nat /\ Len(o) = m - 1 /\ Len(o) \in Nat
      BY <1>2, <1>4, <1>5, <3>1
    <3>3. \A i \in 1 .. Len(o) : i + 0 \in (1 .. Len(q)) \ {m} /\ o[i] = q[i + 0]
      <4> SUFFICES ASSUME NEW i \in 1 .. Len(o)
                   PROVE  i + 0 \in (1 .. Len(q)) \ {m} /\ o[i] = q[i + 0]
        OBVIOUS
      <4>1. i + 0 = i /\ i \in 1 .. m - 1 /\ i \in (1 .. Len(q)) \ {m}
        BY <3>2
      <4> QED
        BY <1>4, <3>1, <4>1
    <3>4. \A j \in (1 .. Len(q)) \ {m} : j - 0 \in 1 .. Len(o)
      BY <3>2
    <3>5. q[m].stale = last.stale /\ q[m].slot = t
      BY <1>4, <3>1 DEF t
    <3> DEFINE slots == c.slots
    <3>6. \A z \in Slots :
             IF ~q[m].stale /\ z = q[m].slot THEN old[z].queueCount = 0
             ELSE old[z].queueCount = slots[z].queueCount /\ old[z].frame = slots[z].frame
      BY <1>3, <1>7, <1>9, <1>12, <2>2, <3>5 DEF SameState, IsFree
    <3>7. QueueFits(q, slots, n)
      BY <1>6
    <3> HIDE DEF m, slots, q, o
    <3> QED
      BY <3>2, <3>3, <3>4, <3>6, <3>7, ItemLeaves
  <2> QED
    BY <2>1, <2>2
<1>14. QueueFits(Append(o, item), v.slots, f)
  <2>1. /\ old[item.slot].queueCount = 0 /\ item.frame = n + 1
        /\ item \in QueueItems /\ ~item.stale
    BY <1>2, <1>3, <1>12 DEF f
  <2>2. v.slots[s].queueCount = 1 /\ v.slots[s].frame = n + 1
    BY <1>3, <1>7, <1>9 DEF SameState, f
  <2> DEFINE new == v.slots
  <2>3. \A z \in Slots :
           IF z = item.slot THEN new[z].queueCount = 1 /\ new[z].frame = n + 1
           ELSE new[z].queueCount = old[z].queueCount /\ new[z].frame = old[z].frame
    BY <1>2, <1>12, <2>2
  <2> HIDE DEF new, o
  <2>4. QueueFits(Append(o, item), new, n + 1)
    BY <1>5, <1>13, <2>1, <2>3, ItemJoins
  <2> QED
    BY <2>4 DEF new, f
<1>15. SameModes(c, d) /\ d.unused = c.unused /\ d.allocating = c.allocating
  BY <1>3, <1>9, <1>11 DEF Rest, Same, SameModes
<1>16. QueueOK(d, f)
  BY <1>11, <1>14, <1>15 DEF QueueOK, SameModes
<1>17. Others(c, d, Undequeued(c) \cup {s})
  <2> SUFFICES ASSUME NEW z \in Slots \ (Undequeued(c) \cup {s})
               PROVE  ~IsFree(c, z) /\ SameState(c, d, z)
    BY DEF Others
  <2>1. c.slots[z].dequeueCount # 0 /\ z # s
    BY DEF Undequeued
  <2>2. ~(replaces /\ ~last.stale /\ z = t)
    BY <1>7, <2>1
  <2> QED
    BY <1>3, <1>9, <1>11, <2>1, <2>2 DEF SameState, IsFree
<1> QED
  BY <1>11, <1>15, <1>16, <1>17 DEF d, u, item, f, Queued

-----------------------------------------------------------------------------
(* What a lock scope makes of the core, the queue and the hands.           *)

\* No thread gets a slot, and those of S are in nobody's hands.
Steady(S) ==
    \A q \in Producers :
       /\ held'[q] \subseteq held[q] \ S
       /\ pc'[q] = "allocate" =>
             pc[q] = "allocate" /\ found'[q] = found[q] /\ found[q] \notin S

\* The modes that the number of slots in use follows.
CountSame(c, d) ==
    /\ d.maxDequeued = c.maxDequeued
    /\ d.async = c.async
    /\ d.cannotBlock <=> c.cannotBlock
    /\ d.unused = c.unused
    /\ d.abandoned => c.abandoned \/ "disconnect" \in ConsumerCalls

\* A step that changes free slots only.
LEMMA KeptStep ==
    ASSUME VarsInv, CoreInv, NEW d, core' = d, Kept(core, d), Steady({}),
           UNCHANGED frameCounter
    PROVE  CoreInv'
<1>1. frameCounter \in Nat /\ held \in [Producers -> SUBSET Slots]
  BY DEF VarsInv, LocalsOK
<1>2. Typed(d) /\ d.queue = core.queue /\ (d.abandoned <=> core.abandoned)
  BY DEF Kept
<1>3. ~d.abandoned => PlacesOK(d) /\ Others(core, d, {})
  BY <1>2 DEF CoreInv, Kept
<1>4. QueueOK(d, frameCounter)
  <2>1. CASE d.abandoned
    <3>1. d.queue = <<>> /\ \A s \in Slots : IsFree(d, s)
      BY <1>2, <2>1 DEF CoreInv, QueueOK, Kept
    <3> QED
      BY <3>1, QueueEmpty
  <2>2. CASE ~d.abandoned
    <3> DEFINE n == frameCounter
               c == core
    <3>1. n <= n /\ n \in Nat
      BY <1>1
    <3>2. /\ Typed(c) /\ QueueOK(c, n)
          /\ ~c.abandoned /\ d.queue = c.queue /\ Others(c, d, {})
      BY <1>2, <1>3, <2>2 DEF CoreInv
    <3> HIDE DEF c, n
    <3>3. QueueOK(d, n)
      BY <2>2, <3>1, <3>2, QueueKept
    <3> QED
      BY <3>3 DEF n
  <2> QED
    BY <2>1, <2>2
<1>5. HandsInv'
  <2>1. \A q \in Producers : held'[q] \subseteq held[q] \ {}
    BY DEF Steady
  <2>2. \A q \in Producers : pc'[q] = "allocate" =>
              pc[q] = "allocate" /\ found'[q] = found[q] /\ found[q] \notin {}
    BY DEF Steady
  <2> QED
    BY <1>1, <1>2, <1>3, <2>1, <2>2, HandsKept DEF CoreInv
<1> QED
  BY <1>2, <1>3, <1>4, <1>5 DEF CoreInv

\* A step after which places and queue are right, and which takes no slot from
\* the hands that have it.
LEMMA ChangedStep ==
    ASSUME VarsInv, CoreInv, NEW d, core' = d, ~core.abandoned,
           Typed(d), PlacesOK(d), QueueOK(d, frameCounter'),
           NEW S, Others(core, d, S), Steady(S)
    PROVE  CoreInv'
<1>1. held \in [Producers -> SUBSET Slots] /\ HandsInv
  BY DEF VarsInv, LocalsOK, CoreInv
<1>2. \A q \in Producers : held'[q] \subseteq held[q] \ S
  BY DEF Steady
<1>3. \A q \in Producers : pc'[q] = "allocate" =>
            pc[q] = "allocate" /\ found'[q] = found[q] /\ found[q] \notin S
  BY DEF Steady
<1>4. HandsInv'
  BY <1>1, <1>2, <1>3, HandsKept
<1> QED
  BY <1>4 DEF CoreInv

\* The queue stays as it is, and slots that are not queued change.
LEMMA SameQueue ==
    ASSUME VarsInv, CoreInv, NEW d, ~core.abandoned, ~d.abandoned, d.queue = core.queue,
           NEW S, Others(core, d, S),
           \A s \in S : core.slots[s].queueCount = 0 /\ d.slots[s].queueCount = 0
    PROVE  QueueOK(d, frameCounter)
<1> DEFINE n == frameCounter
           c == core
<1>1. n <= n /\ n \in Nat
  BY DEF VarsInv, LocalsOK
<1>2. /\ Typed(c) /\ QueueOK(c, n)
      /\ ~c.abandoned /\ d.queue = c.queue /\ Others(c, d, S)
      /\ \A s \in S : c.slots[s].queueCount = 0 /\ d.slots[s].queueCount = 0
  BY DEF CoreInv
<1> HIDE DEF c, n
<1>3. QueueOK(d, n)
  BY <1>1, <1>2, QueueKept
<1> QED
  BY <1>3 DEF n

\* A step that hands out a slot that was free.
LEMMA GivenStep ==
    ASSUME VarsInv, CoreInv, NEW d, core' = d, ~core.abandoned,
           NEW p \in Producers, NEW s \in Slots, Dequeued(core, d, s),
           pc[p] # "allocate", UNCHANGED frameCounter,
           \A q \in Producers \ {p} : pc'[q] = "allocate" =>
              pc[q] = "allocate" /\ found'[q] = found[q],
           \/ /\ held' = [held EXCEPT ![p] = @ \cup {s}]
              /\ pc'[p] # "allocate"
              /\ d.slots[s].buffer # NoBuffer
           \/ held' = held /\ found'[p] = s
    PROVE  CoreInv' /\ CountSame(core, d)
<1>1. /\ Typed(d) /\ PlacesOK(d) /\ Same(core, d) /\ d.unused = core.unused
      /\ Others(core, d, {s}) /\ IsFree(core, s) /\ d.slots[s].queueCount = 0
  BY DEF Dequeued
<1>2. QueueOK(d, frameCounter)
  <2>1. /\ ~d.abandoned /\ d.queue = core.queue
        /\ \A t \in {s} : core.slots[t].queueCount = 0 /\ d.slots[t].queueCount = 0
    BY <1>1 DEF Same, SameModes, IsFree
  <2> QED
    BY <1>1, <2>1, SameQueue
<1>3. HandsInv'
  BY HandsGiven DEF CoreInv
<1> QED
  BY <1>1, <1>2, <1>3 DEF CoreInv, CountSame, Same, SameModes

\* A step that gives a dequeued slot back.
LEMMA ReturnedStep ==
    ASSUME VarsInv, CoreInv, NEW d, core' = d, ~core.abandoned,
           NEW s \in Slots, core.slots[s].queueCount = 0, Returned(core, d, s),
           UNCHANGED frameCounter, Steady({s})
    PROVE  CoreInv' /\ CountSame(core, d) /\ d.allocating = core.allocating
<1>1. /\ Typed(d) /\ PlacesOK(d) /\ Rest(core, d)
      /\ Others(core, d, {s}) /\ d.slots[s].queueCount = 0
  BY DEF Returned
<1>2. QueueOK(d, frameCounter)
  <2>1. /\ ~d.abandoned /\ d.queue = core.queue
        /\ \A t \in {s} : core.slots[t].queueCount = 0 /\ d.slots[t].queueCount = 0
    BY <1>1 DEF Rest, Same, SameModes
  <2> QED
    BY <1>1, <2>1, SameQueue
<1> QED
  BY <1>1, <1>2, ChangedStep DEF CountSame, Rest, Same, SameModes

-----------------------------------------------------------------------------
(* The ways a lock scope ends.                                             *)

\* A thread's scope that neither hands out a slot nor begins to allocate.
LEMMA ScopeSteady ==
    ASSUME VarsInv, NEW p \in Producers, NEW d, NEW l \in PCs \ {"allocate"},
           Unlock(p, d, l) \/ UnlockNotify(p, d, l),
           UNCHANGED held, Forget(p) \/ UNCHANGED found
    PROVE  Steady({})
<1>1. pc \in [Producers -> PCs] /\ found \in [Producers -> Slots \cup {INVALID}]
  BY DEF VarsInv, LocalsOK
<1>2. \A q \in Producers : pc'[q] = "allocate" => q # p /\ pc[q] = "allocate"
  BY <1>1, WokenIsAwake DEF Unlock, UnlockNotify
<1>3. \A q \in Producers : q # p => found'[q] = found[q]
  BY <1>1 DEF Forget
<1> QED
  BY <1>2, <1>3 DEF Steady

\* A notification wakes threads and hands out nothing.
LEMMA NotifySteady ==
    ASSUME VarsInv, NEW d, ConsumerNotify(d) \/ UNCHANGED <<core, pc>>,
           UNCHANGED <<held, found>>
    PROVE  Steady({})
<1>1. pc \in [Producers -> PCs]
  BY DEF VarsInv, LocalsOK
<1>2. \A q \in Producers : pc'[q] = "allocate" => pc[q] = "allocate"
  BY <1>1, WokenIsAwake DEF ConsumerNotify
<1> QED
  BY <1>2 DEF Steady

\* Slots that nobody has, as they are not dequeued.
LEMMA SteadyBeyond ==
    ASSUME VarsInv, HandsInv, ~core.abandoned, Steady({}), NEW S,
           \A s \in S : core.slots[s].dequeueCount = 0
    PROVE  Steady(S)
<1>1. \A q \in Producers : \A s \in Taken(q) : core.slots[s].dequeueCount = 1
  BY DEF HandsInv
<1> QED
  BY <1>1 DEF Steady, Taken

\* A slot given back is in nobody's hands.
LEMMA SteadyBack ==
    ASSUME VarsInv, HandsInv, ~core.abandoned, NEW p \in Producers, NEW s \in held[p],
           NEW d, NEW l \in PCs \ {"allocate"}, Unlock(p, d, l) \/ UnlockNotify(p, d, l),
           GiveBack(p, s), UNCHANGED found
    PROVE  Steady({s})
<1>1. /\ pc \in [Producers -> PCs] /\ held \in [Producers -> SUBSET Slots]
      /\ held' = [held EXCEPT ![p] = @ \ {s}]
  BY DEF VarsInv, LocalsOK, GiveBack
<1>2. \A q \in Producers : pc'[q] = "allocate" => q # p /\ pc[q] = "allocate"
  BY <1>1, WokenIsAwake DEF Unlock, UnlockNotify
<1>3. \A q \in Producers \ {p} : s \notin Taken(q)
  BY DEF HandsInv, Taken
<1> QED
  BY <1>1, <1>2, <1>3 DEF Steady, Taken

-----------------------------------------------------------------------------
(* The calls of the producer.                                              *)

\* A change of a mode or a mark, with which no slot moves.
Marked(c, d) == Kept(c, d) /\ CountSame(c, d)

\* The fields of the code that the places do not depend on.
LEMMA Marks ==
    ASSUME NEW c, Typed(c)
    PROVE  /\ Marked(c, c)
           /\ \A s \in Slots : Marked(c, [c EXCEPT !.slots[s].requested = TRUE])
           /\ Marked(c, [c EXCEPT !.legacyDrop = ~@])
           /\ Marked(c, [c EXCEPT !.allowAllocation = ~@])
           /\ Marked(c, [c EXCEPT !.waitingForAllocation = TRUE])
           /\ Marked(c, [c EXCEPT !.waitingForAllocation = FALSE])
           /\ \A b : Marked(c, [c EXCEPT !.allocating = b])
           /\ \A w \in Sizes : Marked(c, [c EXCEPT !.defaultSize = w])
<1>1. /\ DOMAIN c = Fields /\ c.slots \in [Slots -> SlotStates]
      /\ \A t \in Slots : SameState(c, c, t)
  BY DEF Typed, ListsOK, SameState
<1> DEFINE Like(d) == Alike(c, d) /\ CountSame(c, d)
<1>2. ASSUME NEW d, Like(d)
      PROVE  Marked(c, d)
  BY <1>2, MarksKept DEF Marked
<1>3. Like(c)
  BY <1>1 DEF Typed, Alike, CountSame
<1>4. ASSUME NEW s \in Slots
      PROVE  Like([c EXCEPT !.slots[s].requested = TRUE])
  <2> DEFINE x == c.slots[s]
             b == [x EXCEPT !.requested = TRUE]
             d == [c EXCEPT !.slots[s].requested = TRUE]
  <2>1. x \in SlotStates
    BY <1>1
  <2>2. /\ b \in SlotStates
        /\ b.dequeueCount = x.dequeueCount /\ b.queueCount = x.queueCount
        /\ b.acquireCount = x.acquireCount /\ b.buffer = x.buffer /\ b.frame = x.frame
    <3> HIDE DEF x
    <3> QED
      BY <2>1 DEF SlotStates
  <2>3. /\ d.slots = [c.slots EXCEPT ![s] = b] /\ DOMAIN d = Fields
        /\ d.freeSlots = c.freeSlots /\ d.freeBuffers = c.freeBuffers
        /\ d.active = c.active /\ d.unused = c.unused /\ d.queue = c.queue
        /\ d.abandoned <=> c.abandoned
        /\ d.sharedMode <=> c.sharedMode
        /\ d.sharedSlot = c.sharedSlot
        /\ d.defaultSize = c.defaultSize /\ d.connected = c.connected
        /\ CountSame(c, d)
    BY <1>1 DEF Fields, CountSame
  <2> HIDE DEF b, d
  <2>4. /\ d.slots \in [Slots -> SlotStates]
        /\ d.slots[s] = b /\ \A t \in Slots \ {s} : d.slots[t] = c.slots[t]
    BY <1>1, <2>2, <2>3
  <2>5. \A t \in Slots : SameState(c, d, t)
    BY <2>2, <2>4 DEF SameState
  <2>6. Like(d)
    <3>1. c.defaultSize \in Sizes /\ c.connected \in 0 .. MaxConnections
      BY DEF Typed
    <3>2. d.defaultSize \in Sizes /\ d.connected \in 0 .. MaxConnections
      BY <2>3, <3>1
    <3>3. Alike(c, d)
      BY <2>3, <2>4, <2>5, <3>2 DEF Alike
    <3> QED
      BY <2>3, <3>3
  <2> QED
    BY <2>6 DEF d
<1>5. /\ Like([c EXCEPT !.legacyDrop = ~@])
      /\ Like([c EXCEPT !.allowAllocation = ~@])
      /\ Like([c EXCEPT !.waitingForAllocation = TRUE])
      /\ Like([c EXCEPT !.waitingForAllocation = FALSE])
  BY <1>1 DEF Typed, Alike, CountSame, Fields, SameState
<1>6. \A b : Like([c EXCEPT !.allocating = b])
  BY <1>1 DEF Typed, Alike, CountSame, Fields, SameState
<1>7. \A w \in Sizes : Like([c EXCEPT !.defaultSize = w])
  BY <1>1 DEF Typed, Alike, CountSame, Fields, SameState
<1> HIDE DEF Like
<1> QED
  BY <1>2, <1>3, <1>4, <1>5, <1>6, <1>7

\* A thread's scope that sets such a field.
LEMMA MarkedScope ==
    ASSUME VarsInv, CoreInv, NEW p \in Producers, NEW d, NEW l \in PCs \ {"allocate"},
           Unlock(p, d, l), Marked(core, d),
           UNCHANGED <<held, frameCounter>>, Forget(p) \/ UNCHANGED found
    PROVE  CoreInv' /\ CountSame(core, core')
<1>1. Steady({}) /\ core' = d
  BY ScopeSteady DEF Unlock
<1> QED
  BY <1>1, KeptStep DEF Marked

\* The calls and steps that only store their arguments, begin or refuse.
LEMMA MarkingSteps ==
    ASSUME Separate, VarsInv, CoreInv, NEW p \in Producers,
           \/ RequestBuffer(p)    \/ AllowAllocation(p) \/ SetLegacyBufferDrop(p)
           \/ SetSharedBufferMode(p) \/ DequeueBuffer(p) \/ AttachBuffer(p)
           \/ DetachNextBuffer(p) \/ QueueBufferBadCrop(p) \/ AllocateBuffers(p)
           \/ WaitForAllocation(p) \/ DequeueRefused(p)  \/ AttachRefused(p)
           \/ Callback(p)          \/ AllocateNext(p)    \/ AllocateFails(p)
           \/ AllocateRetries(p)   \/ YieldToDequeue(p)  \/ WaitTimesOut(p)
           \/ SpuriousWakeup(p)
    PROVE  CoreInv' /\ CountSame(core, core')
<1>1. /\ Typed(core) /\ ~core.sharedMode
      /\ pc \in [Producers -> PCs] /\ held \in [Producers -> SUBSET Slots]
  BY DEF CoreInv, Typed, VarsInv, LocalsOK
<1>2. ~SetSharedBufferMode(p)
  BY DEF Separate, SetSharedBufferMode, Call
<1>3. UNCHANGED <<held, frameCounter>> /\ (Forget(p) \/ UNCHANGED found)
  BY <1>2 DEF RequestBuffer, AllowAllocation, SetLegacyBufferDrop, DequeueBuffer,
     AttachBuffer, DetachNextBuffer, QueueBufferBadCrop, AllocateBuffers,
     WaitForAllocation, DequeueRefused, AttachRefused, Callback, Notify,
     AllocateNext, AllocateFails, AllocateRetries, YieldToDequeue, WaitTimesOut,
     SpuriousWakeup, locals, callbacks, consumer
<1>4. \A s \in Slots : ShareFirst(core, s) = core
  BY <1>1 DEF ShareFirst
<1>5. LookedUp(p) = core \/ LookedUp(p) = [core EXCEPT !.waitingForAllocation = FALSE]
  BY DEF LookedUp
<1>6. SpuriousWakeup(p) => Woken(pc[p]) \in PCs \ {"allocate"}
  BY <1>1, WokenIsAwake DEF SpuriousWakeup, Asleep, Woken
<1>7. \E l \in PCs \ {"allocate"} :
          \/ Unlock(p, core, l)
          \/ \E s \in Slots : Unlock(p, [core EXCEPT !.slots[s].requested = TRUE], l)
          \/ Unlock(p, [core EXCEPT !.legacyDrop = ~@], l)
          \/ Unlock(p, [core EXCEPT !.allowAllocation = ~@], l)
          \/ Unlock(p, [core EXCEPT !.waitingForAllocation = TRUE], l)
          \/ Unlock(p, [core EXCEPT !.waitingForAllocation = FALSE], l)
          \/ \E b : Unlock(p, [core EXCEPT !.allocating = b], l)
  <2>1. CASE RequestBuffer(p)
    <3>1. PICK s \in Slots : Unlock(p, [core EXCEPT !.slots[s].requested = TRUE], "idle")
      BY <1>1, <2>1 DEF RequestBuffer
    <3> QED
      BY <3>1 DEF PCs
  <2>2. CASE AllowAllocation(p)
    BY <2>2 DEF AllowAllocation, PCs
  <2>3. CASE SetLegacyBufferDrop(p)
    BY <2>3 DEF SetLegacyBufferDrop, PCs
  <2>4. CASE QueueBufferBadCrop(p)
    BY <1>4, <2>4 DEF QueueBufferBadCrop, PCs
  <2>5. CASE DequeueBuffer(p) \/ AttachBuffer(p) \/ DetachNextBuffer(p) \/ AllocateBuffers(p)
    <3>1. PICK l \in {"dequeue", "attach", "detach_next", "allocate_loop"} : Unlock(p, core, l)
      BY <2>5 DEF DequeueBuffer, AttachBuffer, DetachNextBuffer, AllocateBuffers
    <3> QED
      BY <3>1 DEF PCs
  <2>6. CASE WaitForAllocation(p)
    BY <2>6 DEF WaitForAllocation, PCs
  <2>7. CASE DequeueRefused(p)
    BY <1>5, <2>7 DEF DequeueRefused, PCs
  <2>8. CASE AttachRefused(p) \/ Callback(p) \/ WaitTimesOut(p)
    BY <2>8 DEF AttachRefused, Callback, Notify, WaitTimesOut, PCs
  <2>9. CASE SpuriousWakeup(p)
    BY <1>6, <2>9 DEF SpuriousWakeup
  <2>10. CASE AllocateNext(p)
    <3>1. Unlock(p, [core EXCEPT !.allocating = TRUE], "allocate_buffers") \/ Unlock(p, core, "idle")
      BY <2>10 DEF AllocateNext
    <3> QED
      BY <3>1 DEF PCs
  <2>11. CASE AllocateFails(p) \/ AllocateRetries(p) \/ YieldToDequeue(p)
    <3>1. PICK l \in {"idle", "allocate_loop"} :
             Unlock(p, core, l) \/ Unlock(p, [core EXCEPT !.allocating = FALSE], l)
      BY <2>11 DEF AllocateFails, AllocateRetries, YieldToDequeue
    <3> QED
      BY <3>1 DEF PCs
  <2> QED
    BY <1>2, <2>1, <2>2, <2>3, <2>4, <2>5, <2>6, <2>7, <2>8, <2>9, <2>10, <2>11
<1>8. \E l \in PCs \ {"allocate"} : \E d : Unlock(p, d, l) /\ Marked(core, d)
  BY <1>1, <1>7, Marks
<1> QED
  BY <1>3, <1>8, MarkedScope
-----------------------------------------------------------------------------
(* The calls that change the number of slots in use.                       *)

\* The number of slots in use lies between one and all of them.
LEMMA BufferCountRange ==
    ASSUME NEW c, c.maxDequeued \in 1 .. NumSlots, NEW async, NEW cannotBlock
    PROVE  /\ BufferCountFor(c, async, cannotBlock) \in 1 .. NumSlots
           /\ BufferCountFor(c, async, cannotBlock) - MaxBufferCount(c)
                 \in -NumSlots .. NumSlots
<1>1. BufferCountFor(c, async, cannotBlock) \in 1 .. NumSlots
  BY CoreAssumption DEF BufferCountFor, ExtraBuffer
<1>2. MaxBufferCount(c) \in 1 .. NumSlots
  BY CoreAssumption DEF MaxBufferCount, BufferCountFor, ExtraBuffer
<1> QED
  BY <1>1, <1>2, CoreAssumption

\* The slots are adjusted, and then a mode is set.
LEMMA AdjustedStep ==
    ASSUME VarsInv, CoreInv, NEW p \in Producers,
           NEW delta \in -NumSlots .. NumSlots, CanAdjust(core, delta),
           NEW d, Unlock(p, d, "idle") \/ UnlockNotify(p, d, "idle"),
           Typed(Adjusted(core, delta)) => Alike(Adjusted(core, delta), d),
           Typed(Adjusted(core, delta)) => d.allocating = Adjusted(core, delta).allocating,
           UNCHANGED <<held, found, frameCounter>>
    PROVE  /\ CoreInv' /\ core'.allocating = core.allocating
           /\ core'.abandoned <=> core.abandoned
           /\ Len(core'.unused) = Len(core.unused) - delta
<1> DEFINE c == core
<1>1. Typed(c) /\ CanAdjust(c, delta)
  BY DEF CoreInv
<1>2. PICK a : a = Adjusted(c, delta)
  OBVIOUS
<1> HIDE DEF c
<1>3. /\ Kept(c, a) /\ Typed(a)
      /\ a.allocating = c.allocating /\ Len(a.unused) = Len(c.unused) - delta
  BY <1>1, <1>2, AdjustedPlaced DEF Kept
<1>4. Alike(a, d) /\ d.allocating = a.allocating
  BY <1>2, <1>3 DEF c
<1>5. Kept(c, d) /\ d.unused = a.unused
  BY <1>3, <1>4, MarksKept, KeptTwice DEF Alike
<1>6. /\ Kept(core, d) /\ Len(d.unused) = Len(core.unused) - delta
      /\ d.allocating = core.allocating
      /\ d.abandoned <=> core.abandoned
  BY <1>3, <1>4, <1>5 DEF c, Kept
<1>7. core' = d /\ Steady({})
  BY ScopeSteady DEF Unlock, UnlockNotify, PCs
<1> QED
  BY <1>6, <1>7, KeptStep

\* The number of slots in use follows the new mode.
LEMMA CountFollows ==
    ASSUME CountInv, Len(core.unused) \in Nat, NEW d, core' = d, NEW delta \in Int,
           Len(d.unused) = Len(core.unused) - delta,
           ~ControlledByApp =>
              /\ delta = MaxBufferCount(d) - MaxBufferCount(core)
              /\ d.async \in BOOLEAN
              /\ ~d.cannotBlock
              /\ Fits(d) \/ (d.maxDequeued = 1 /\ ~d.async),
           core.maxDequeued \in 1 .. NumSlots, d.maxDequeued \in 1 .. NumSlots
    PROVE  CountInv'
<1> SUFFICES ASSUME ~ControlledByApp PROVE SlotAccounting'
  BY DEF CountInv, Fits
<1>1. NumSlots - Len(core.unused) = MaxBufferCount(core)
  BY DEF CountInv, SlotAccounting
<1>2. PICK m \in 1 .. NumSlots : m = MaxBufferCount(core)
  BY BufferCountRange DEF MaxBufferCount
<1>3. PICK n \in 1 .. NumSlots : n = MaxBufferCount(d)
  BY BufferCountRange DEF MaxBufferCount
<1>4. delta = n - m
  BY <1>2, <1>3
<1>5. NumSlots - Len(d.unused) = n
  <2>1. PICK k \in Nat : k = Len(core.unused)
    OBVIOUS
  <2>2. NumSlots \in Int /\ m \in Int /\ n \in Int
    BY CoreAssumption
  <2>3. NumSlots - k = m /\ Len(d.unused) = k - delta
    BY <1>1, <1>2, <2>1
  <2>4. NumSlots - (k - delta) = n
    BY <1>4, <2>2, <2>3
  <2> QED
    BY <2>3, <2>4
<1> QED
  BY <1>3, <1>5 DEF SlotAccounting, MaxBufferCount

\* setMaxDequeuedBufferCount, within the limit it checks.
LEMMA SetMaxDequeuedKeeps ==
    ASSUME VarsInv, CoreInv, CountInv, NEW p \in Producers, SetMaxDequeuedBufferCount(p)
    PROVE  /\ CoreInv' /\ CountInv' /\ core'.maxDequeued \in 1 .. NumSlots
           /\ core'.allocating = core.allocating
           /\ core'.abandoned <=> core.abandoned
<1>1. PICK n \in 1 .. NumSlots \ {core.maxDequeued} :
          /\ MinUndequeued(core) + n <= NumSlots
          /\ CanAdjust(core, n - core.maxDequeued)
          /\ UnlockNotify(p, [Adjusted(core, n - core.maxDequeued) EXCEPT !.maxDequeued = n], "idle")
  BY DEF SetMaxDequeuedBufferCount
<1>2. PICK delta \in -NumSlots .. NumSlots : delta = n - core.maxDequeued
  BY CoreAssumption DEF VarsInv, LocalsOK
<1>3. PICK a : a = Adjusted(core, delta)
  OBVIOUS
<1>4. PICK d : d = [a EXCEPT !.maxDequeued = n]
  OBVIOUS
<1>5. UnlockNotify(p, d, "idle") /\ core' = d /\ CanAdjust(core, delta)
  BY <1>1, <1>2, <1>3, <1>4 DEF UnlockNotify
<1>6. UNCHANGED <<held, found, frameCounter>>
  BY DEF SetMaxDequeuedBufferCount, locals, callbacks
<1>7. Typed(a) => Alike(a, d) /\ d.maxDequeued = n /\ d.allocating = a.allocating
  BY <1>4 DEF Typed, ListsOK, Alike, SameState, Fields
<1>8. /\ CoreInv' /\ core'.allocating = core.allocating
      /\ core'.abandoned <=> core.abandoned
      /\ Len(core'.unused) = Len(core.unused) - delta
  BY <1>3, <1>5, <1>6, <1>7, AdjustedStep
<1>9. Typed(a) /\ Same(core, a)
  <2> DEFINE c == core
  <2>1. Typed(c) /\ CanAdjust(c, delta) /\ a = Adjusted(c, delta)
    BY <1>3, <1>5 DEF CoreInv
  <2> HIDE DEF c
  <2>2. Typed(a) /\ Same(c, a)
    BY <2>1, AdjustedPlaced DEF Kept
  <2> QED
    BY <2>2 DEF c
<1>10. d.async = core.async /\ (d.cannotBlock <=> core.cannotBlock) /\ d.maxDequeued = n
  BY <1>4, <1>9 DEF Typed, ListsOK, Fields, Same, SameModes
<1>11. ASSUME ~ControlledByApp
       PROVE  /\ delta = MaxBufferCount(d) - MaxBufferCount(core)
              /\ d.async \in BOOLEAN /\ ~d.cannotBlock /\ Fits(d)
  <2>1. /\ core.async \in BOOLEAN /\ ~core.cannotBlock
        /\ Fits(core) \/ (core.maxDequeued = 1 /\ ~core.async)
    BY <1>11 DEF CountInv
  <2>2. PICK m \in 1 .. NumSlots : m = core.maxDequeued
    BY DEF VarsInv, LocalsOK
  <2>3. PICK k \in {0, 1} : k = ExtraBuffer(core.async, core.cannotBlock)
    BY DEF ExtraBuffer
  <2>4. k = ExtraBuffer(d.async, d.cannotBlock)
    BY <1>10, <2>3 DEF ExtraBuffer
  <2>5. MaxAcquired + k + n <= NumSlots
    BY <1>1, <2>3 DEF MinUndequeued
  <2>6. MaxAcquired + m + k <= NumSlots
    <3>1. CASE Fits(core)
      BY <2>2, <2>3, <3>1 DEF Fits
    <3>2. CASE core.maxDequeued = 1 /\ ~core.async
      BY <1>1, <2>2, <2>5, <3>2, CoreAssumption
    <3> QED
      BY <2>1, <3>1, <3>2
  <2>7. MaxBufferCount(core) = MaxAcquired + m + k
    BY <2>2, <2>3, <2>6, CoreAssumption DEF MaxBufferCount, BufferCountFor
  <2>8. MaxBufferCount(d) = MaxAcquired + n + k
    BY <1>10, <2>4, <2>5, CoreAssumption DEF MaxBufferCount, BufferCountFor
  <2>9. Fits(d)
    BY <1>10, <2>4, <2>5, CoreAssumption DEF Fits
  <2>10. delta = MaxBufferCount(d) - MaxBufferCount(core)
    BY <1>2, <2>2, <2>7, <2>8, CoreAssumption
  <2> QED
    BY <1>10, <2>1, <2>9, <2>10
<1>12. Len(core.unused) \in Nat /\ delta \in Int
  BY CoreAssumption DEF CoreInv, Typed, ListsOK
<1>13. Len(d.unused) = Len(core.unused) - delta /\ d.maxDequeued \in 1 .. NumSlots
  BY <1>5, <1>8, <1>10
<1>14. core.maxDequeued \in 1 .. NumSlots
  BY DEF VarsInv, LocalsOK
<1>15. CountInv'
  BY <1>5, <1>11, <1>12, <1>13, <1>14, CountFollows
<1> QED
  BY <1>5, <1>8, <1>13, <1>15

\* A mode is set, and delta is the difference of the two counts.
LEMMA SwitchedKeeps ==
    ASSUME VarsInv, CoreInv, CountInv, NEW p \in Producers, NEW async, NEW cannotBlock,
           NEW delta,
           delta = BufferCountFor(core, async, cannotBlock) - MaxBufferCount(core),
           CanAdjust(core, delta),
           NEW d, Unlock(p, d, "idle") \/ UnlockNotify(p, d, "idle"),
           Typed(Adjusted(core, delta)) /\ Same(core, Adjusted(core, delta)) =>
              /\ Alike(Adjusted(core, delta), d)
              /\ d.maxDequeued = core.maxDequeued
              /\ d.async = async
              /\ d.cannotBlock <=> cannotBlock
              /\ d.allocating = Adjusted(core, delta).allocating,
           ~ControlledByApp =>
              /\ async \in BOOLEAN /\ ~cannotBlock
              /\ \/ async = core.async
                 \/ MaxAcquired + core.maxDequeued + ExtraBuffer(async, cannotBlock)
                       <= NumSlots,
           UNCHANGED <<held, found, frameCounter>>
    PROVE  /\ CoreInv' /\ CountInv' /\ core'.maxDequeued = core.maxDequeued
           /\ core'.allocating = core.allocating
           /\ core'.abandoned <=> core.abandoned
<1>1. core.maxDequeued \in 1 .. NumSlots
  BY DEF VarsInv, LocalsOK
<1>2. delta \in -NumSlots .. NumSlots
  BY <1>1, BufferCountRange
<1>3. PICK a : a = Adjusted(core, delta)
  OBVIOUS
<1>4. Typed(a) /\ Same(core, a)
  <2> DEFINE c == core
  <2>1. Typed(c) /\ CanAdjust(c, delta) /\ a = Adjusted(c, delta)
    BY <1>3 DEF CoreInv
  <2> HIDE DEF c
  <2>2. Typed(a) /\ Same(c, a)
    BY <1>2, <2>1, AdjustedPlaced DEF Kept
  <2> QED
    BY <2>2 DEF c
<1>5. /\ Alike(a, d) /\ d.allocating = a.allocating
      /\ d.maxDequeued = core.maxDequeued
      /\ d.async = async
      /\ d.cannotBlock <=> cannotBlock
  BY <1>3, <1>4
<1>6. core' = d
  BY DEF Unlock, UnlockNotify
<1>7. /\ CoreInv' /\ core'.allocating = core.allocating
      /\ core'.abandoned <=> core.abandoned
      /\ Len(core'.unused) = Len(core.unused) - delta
  BY <1>2, <1>3, <1>5, AdjustedStep
<1>8. MaxBufferCount(d) = BufferCountFor(core, async, cannotBlock)
  BY <1>5 DEF MaxBufferCount, BufferCountFor, ExtraBuffer
<1>9. ASSUME ~ControlledByApp
      PROVE  Fits(d) \/ (d.maxDequeued = 1 /\ ~d.async)
  <2>1. ExtraBuffer(d.async, d.cannotBlock) = ExtraBuffer(async, cannotBlock)
    BY <1>5 DEF ExtraBuffer
  <2>2. CASE async = core.async
    <3>1. /\ ~core.cannotBlock /\ ~cannotBlock
          /\ Fits(core) \/ (core.maxDequeued = 1 /\ ~core.async)
      BY <1>9 DEF CountInv
    <3>2. ExtraBuffer(async, cannotBlock) = ExtraBuffer(core.async, core.cannotBlock)
      BY <2>2, <3>1 DEF ExtraBuffer
    <3> QED
      BY <1>5, <2>1, <2>2, <3>1, <3>2 DEF Fits
  <2>3. CASE MaxAcquired + core.maxDequeued + ExtraBuffer(async, cannotBlock) <= NumSlots
    BY <1>5, <2>1, <2>3 DEF Fits
  <2> QED
    BY <1>9, <2>2, <2>3
<1>10. Len(core.unused) \in Nat /\ delta \in Int
  BY <1>2, CoreAssumption DEF CoreInv, Typed, ListsOK
<1>11. ~ControlledByApp => d.async \in BOOLEAN /\ ~d.cannotBlock
  BY <1>5
<1>12. Len(d.unused) = Len(core.unused) - delta /\ d.maxDequeued \in 1 .. NumSlots
  BY <1>1, <1>5, <1>6, <1>7
<1>13. delta = MaxBufferCount(d) - MaxBufferCount(core)
  BY <1>8
<1>14. CountInv'
  BY <1>1, <1>6, <1>9, <1>10, <1>11, <1>12, <1>13, CountFollows
<1> QED
  BY <1>5, <1>6, <1>7, <1>14

\* setAsyncMode, within the limit it checks.
LEMMA SetAsyncKeeps ==
    ASSUME VarsInv, CoreInv, CountInv, NEW p \in Producers, SetAsyncMode(p)
    PROVE  /\ CoreInv' /\ CountInv' /\ core'.maxDequeued = core.maxDequeued
           /\ core'.allocating = core.allocating
           /\ core'.abandoned <=> core.abandoned
<1>1. PICK async : async = ~core.async
  OBVIOUS
<1>2. PICK cannotBlock : cannotBlock = core.cannotBlock
  OBVIOUS
<1>3. PICK delta : delta = BufferCountFor(core, async, cannotBlock) - MaxBufferCount(core)
  OBVIOUS
<1>4. PICK a : a = Adjusted(core, delta)
  OBVIOUS
<1>5. PICK d : d = [a EXCEPT !.async = async]
  OBVIOUS
<1>6. CanAdjust(core, delta) /\ UnlockNotify(p, d, "idle")
  BY <1>1, <1>2, <1>3, <1>4, <1>5 DEF SetAsyncMode, SwitchAsyncMode
<1>7. MaxAcquired + core.maxDequeued + ExtraBuffer(async, cannotBlock) <= NumSlots
  BY <1>1, <1>2 DEF SetAsyncMode
<1>8. Typed(a) /\ Same(core, a) =>
         /\ Alike(a, d) /\ d.maxDequeued = core.maxDequeued
         /\ d.async = async
         /\ d.cannotBlock <=> cannotBlock
         /\ d.allocating = a.allocating
  BY <1>2, <1>5 DEF Typed, ListsOK, Alike, SameState, Fields, Same, SameModes
<1>9. ~ControlledByApp => async \in BOOLEAN /\ ~cannotBlock
  BY <1>1, <1>2 DEF CountInv
<1>10. UNCHANGED <<held, found, frameCounter>>
  BY DEF SetAsyncMode, SwitchAsyncMode, locals, callbacks
<1> QED
  BY <1>3, <1>4, <1>6, <1>7, <1>8, <1>9, <1>10, SwitchedKeeps

\* setDequeueTimeout, which may end the non-blocking mode.
LEMMA SetTimeoutKeeps ==
    ASSUME VarsInv, CoreInv, CountInv, NEW p \in Producers, SetDequeueTimeout(p)
    PROVE  /\ CoreInv' /\ CountInv' /\ core'.maxDequeued = core.maxDequeued
           /\ core'.allocating = core.allocating
           /\ core'.abandoned <=> core.abandoned
<1>1. PICK timeout, cannotBlock, delta, a, d :
         /\ cannotBlock = (timeout < 0 /\ core.cannotBlock)
         /\ delta = BufferCountFor(core, core.async, cannotBlock) - MaxBufferCount(core)
         /\ CanAdjust(core, delta)
         /\ a = Adjusted(core, delta)
         /\ d = [a EXCEPT !.timeout = timeout, !.cannotBlock = cannotBlock,
                          !.canDrop = @ /\ timeout <= 0]
         /\ Unlock(p, d, "idle")
  BY DEF SetDequeueTimeout
<1>2. PICK async : async = core.async
  OBVIOUS
<1>3. Typed(a) /\ Same(core, a) =>
         /\ Alike(a, d) /\ d.maxDequeued = core.maxDequeued
         /\ d.async = async
         /\ d.cannotBlock <=> cannotBlock
         /\ d.allocating = a.allocating
  BY <1>1, <1>2 DEF Typed, ListsOK, Alike, SameState, Fields, Same, SameModes
<1>4. ~ControlledByApp => async \in BOOLEAN /\ ~cannotBlock
  BY <1>1, <1>2 DEF CountInv
<1>5. UNCHANGED <<held, found, frameCounter>>
  BY DEF SetDequeueTimeout, locals, callbacks
<1>6. /\ delta = BufferCountFor(core, async, cannotBlock) - MaxBufferCount(core)
      /\ CanAdjust(core, delta) /\ a = Adjusted(core, delta) /\ Unlock(p, d, "idle")
  BY <1>1, <1>2
<1> QED
  BY <1>2, <1>3, <1>4, <1>5, <1>6, SwitchedKeeps

\* connect, with a known api and with an unknown one.
LEMMA ConnectKeeps ==
    ASSUME VarsInv, CoreInv, CountInv, NEW p \in Producers, Connect(p)
    PROVE  /\ CoreInv' /\ CountInv' /\ core'.maxDequeued = core.maxDequeued
           /\ core'.allocating = core.allocating
           /\ core'.abandoned <=> core.abandoned
<1>1. PICK known \in BOOLEAN, byApp \in BOOLEAN :
        LET app == ControlledByApp /\ byApp
            cannotBlock == app /\ core.timeout < 0
            delta == BufferCountFor(core, core.async, cannotBlock)
                        - MaxBufferCount(core)
            d == [Adjusted(core, delta) EXCEPT
                    !.connected = IF known THEN connections + 1 ELSE 0,
                    !.hasBeenQueued = FALSE,
                    !.cannotBlock = cannotBlock,
                    !.canDrop = app /\ core.timeout <= 0,
                    !.legacyDrop = TRUE,
                    !.allowAllocation = TRUE]
        IN  CanAdjust(core, delta) /\ Unlock(p, d, "idle")
  BY DEF Connect
<1>2. PICK api : api = IF known THEN connections + 1 ELSE 0
  OBVIOUS
<1>3. PICK app : app = (ControlledByApp /\ byApp)
  OBVIOUS
<1>4. PICK cannotBlock : cannotBlock = (app /\ core.timeout < 0)
  OBVIOUS
<1>5. PICK delta : delta = BufferCountFor(core, core.async, cannotBlock) - MaxBufferCount(core)
  OBVIOUS
<1>6. PICK a : a = Adjusted(core, delta)
  OBVIOUS
<1>7. PICK d : d = [a EXCEPT !.connected = api,
                             !.hasBeenQueued = FALSE,
                             !.cannotBlock = cannotBlock,
                             !.canDrop = app /\ core.timeout <= 0,
                             !.legacyDrop = TRUE,
                             !.allowAllocation = TRUE]
  OBVIOUS
<1>8. CanAdjust(core, delta) /\ Unlock(p, d, "idle")
  BY <1>1, <1>2, <1>3, <1>4, <1>5, <1>6, <1>7
<1>9. api \in {0, connections + 1} /\ (app => ControlledByApp)
  BY <1>2, <1>3
<1>10. PICK async : async = core.async
  OBVIOUS
<1>11. Typed(a) /\ Same(core, a) =>
         /\ Alike(a, d) /\ d.maxDequeued = core.maxDequeued
         /\ d.async = async
         /\ d.cannotBlock <=> cannotBlock
         /\ d.allocating = a.allocating
  <2>1. api \in 0 .. MaxConnections
    BY <1>9, ProducerAssumption DEF Connect, VarsInv, LocalsOK
  <2> QED
    BY <1>7, <1>10, <2>1 DEF Typed, ListsOK, Alike, SameState, Fields, Same, SameModes
<1>12. ~ControlledByApp => async \in BOOLEAN /\ ~cannotBlock
  BY <1>4, <1>9, <1>10 DEF CountInv
<1>13. UNCHANGED <<held, found, frameCounter>>
  BY DEF Connect, locals, callbacks
<1> QED
  BY <1>5, <1>6, <1>8, <1>10, <1>11, <1>12, <1>13, SwitchedKeeps

-----------------------------------------------------------------------------
(* The steps of dequeueBuffer and attachBuffer.                            *)

\* What a dequeueBuffer that holds the lock finds.
LEMMA LookingFinds ==
    ASSUME VarsInv, CoreInv, ~core.abandoned, NEW p \in Producers, NEW w,
           NEW choice, choice = DequeueChoice(LookedUp(p), w)
    PROVE  Found(core, choice)
<1>1. PICK c : c = core
  OBVIOUS
<1>2. PICK l : l = LookedUp(p)
  OBVIOUS
<1>3. Typed(c) /\ PlacesOK(c)
  BY <1>1 DEF CoreInv
<1>4. l = c \/ l = [c EXCEPT !.waitingForAllocation = FALSE]
  BY <1>1, <1>2 DEF LookedUp
<1>5. Kept(c, l)
  <2>1. Marked(c, c) /\ Marked(c, [c EXCEPT !.waitingForAllocation = FALSE])
    BY <1>3, Marks
  <2> QED
    BY <1>4, <2>1 DEF Marked
<1>6. Rest(c, l)
  BY <1>3, <1>4 DEF Typed, ListsOK, Fields, Rest, Same, SameModes
<1>7. Found(l, choice)
  <2>1. Typed(l) /\ PlacesOK(l)
    BY <1>3, <1>5 DEF Kept
  <2> QED
    BY <1>2, <2>1, DequeueFinds
<1> QED
  BY <1>1, <1>3, <1>5, <1>6, <1>7, FoundAfter

\* It knows the size it looks for, and has no slot yet.
LEMMA LookingSize ==
    ASSUME VarsInv, CoreInv, NEW p \in Producers, Looking(p)
    PROVE  SizeFor(p) \in Sizes /\ pc[p] # "allocate"
BY DEF VarsInv, LocalsOK, CoreInv, Typed, Looking, SizeFor, Sized

\* A scope that found no slot.
LEMMA BlockedScope ==
    ASSUME VarsInv, CoreInv, ~core.abandoned, NEW p \in Producers,
           NEW choice, Found(core, choice), choice.slot = INVALID,
           NEW l \in PCs \ {"allocate"}, Unlock(p, choice.core, l),
           UNCHANGED <<held, frameCounter>>, Forget(p) \/ UNCHANGED found
    PROVE  /\ CoreInv' /\ CountSame(core, core')
           /\ core'.allocating = core.allocating
<1>1. PICK d : d = choice.core
  OBVIOUS
<1>2. Typed(d) /\ Rest(core, d) /\ Others(core, d, {}) /\ PlacesOK(d)
  BY <1>1 DEF Found
<1>3. core' = d /\ Steady({})
  BY <1>1, ScopeSteady DEF Unlock
<1>4. QueueOK(d, frameCounter)
  BY <1>2, SameQueue DEF Rest, Same, SameModes
<1>5. CoreInv'
  BY <1>2, <1>3, <1>4, ChangedStep
<1> QED
  BY <1>2, <1>3, <1>5 DEF CountSame, Rest, Same, SameModes

\* dequeueBuffer found no slot, and waits or fails.
LEMMA DequeueBlockedKeeps ==
    ASSUME VarsInv, CoreInv, NEW p \in Producers, DequeueBlocked(p)
    PROVE  /\ CoreInv' /\ CountSame(core, core')
           /\ core'.allocating = core.allocating
<1>1. PICK choice : choice = DequeueChoice(LookedUp(p), SizeFor(p))
  OBVIOUS
<1>2. ~core.abandoned /\ choice.slot = INVALID
  BY <1>1 DEF DequeueBlocked, Refused
<1>3. PICK l : /\ l = AfterNoSlot(choice.core, "wait_slot", "timed_wait")
               /\ Unlock(p, choice.core, l) /\ (Forget(p) \/ UNCHANGED found)
  BY <1>1 DEF DequeueBlocked
<1>4. l \in PCs \ {"allocate"}
  BY <1>3 DEF AfterNoSlot, PCs
<1>5. UNCHANGED <<held, frameCounter>>
  BY DEF DequeueBlocked, callbacks
<1>6. Found(core, choice)
  BY <1>1, <1>2, LookingFinds
<1> QED
  BY <1>2, <1>3, <1>4, <1>5, <1>6, BlockedScope

\* attachBuffer found no slot, and waits or fails.
LEMMA AttachBlockedKeeps ==
    ASSUME VarsInv, CoreInv, NEW p \in Producers, AttachBlocked(p)
    PROVE  /\ CoreInv' /\ CountSame(core, core')
           /\ core'.allocating = core.allocating
<1>1. ~core.abandoned /\ Typed(core)
  BY DEF AttachBlocked, Refused, CoreInv
<1>2. PICK l : l = AfterNoSlot(core, "attach_wait", "attach_timed_wait")
               /\ Unlock(p, core, l) /\ (Forget(p) \/ UNCHANGED found)
  BY DEF AttachBlocked
<1>3. l \in PCs \ {"allocate"}
  BY <1>2 DEF AfterNoSlot, PCs
<1>4. UNCHANGED <<held, frameCounter>>
  BY DEF AttachBlocked, callbacks
<1>5. Marked(core, core)
  BY <1>1, Marks
<1> QED
  BY <1>2, <1>3, <1>4, <1>5, MarkedScope DEF Unlock

\* dequeueBuffer takes the slot, and allocates for it or returns it.
LEMMA DequeueFoundKeeps ==
    ASSUME VarsInv, CoreInv, NEW p \in Producers, DequeueFound(p)
    PROVE  /\ CoreInv' /\ CountSame(core, core')
           /\ \E s \in Slots, w \in Sizes : \E d :
                 \/ /\ Unlock(p, d, "allocate") /\ d.allocating
                    /\ want' = [want EXCEPT ![p] = w]
                    /\ found' = [found EXCEPT ![p] = s]
                    /\ UNCHANGED <<arg, held>>
                 \/ /\ Unlock(p, d, "idle") /\ d.allocating = core.allocating
                    /\ held' = [held EXCEPT ![p] = @ \cup {s}]
                    /\ Forget(p)
<1>1. PICK w : w = SizeFor(p)
  OBVIOUS
<1>2. PICK choice : choice = DequeueChoice(LookedUp(p), w)
  OBVIOUS
<1>3. PICK s : s = choice.slot
  OBVIOUS
<1>4. PICK d : d = TakeSlot(choice.core, s, w)
  OBVIOUS
<1>5. /\ Looking(p) /\ ~core.abandoned /\ s # INVALID
      /\ IF NeedsBuffer(choice.core, s, w)
         THEN /\ Unlock(p, d, "allocate")
              /\ want' = [want EXCEPT ![p] = w]
              /\ found' = [found EXCEPT ![p] = s]
              /\ UNCHANGED <<arg, held>>
         ELSE /\ Unlock(p, d, "idle")
              /\ held' = [held EXCEPT ![p] = @ \cup {s}]
              /\ Forget(p)
      /\ UNCHANGED frameCounter
  BY <1>1, <1>2, <1>3, <1>4 DEF DequeueFound, Refused, callbacks
<1>6. w \in Sizes /\ pc[p] # "allocate" /\ w # NoBuffer
  <2>1. w \in Sizes /\ pc[p] # "allocate"
    BY <1>1, <1>5, LookingSize
  <2> QED
    BY <2>1, CoreAssumption DEF NoBuffer
<1>7. Found(core, choice)
  BY <1>2, <1>5, LookingFinds
<1>8. s \in Slots
  BY <1>3, <1>5, <1>7 DEF Found
<1>9. /\ Dequeued(core, d, s)
      /\ ~NeedsBuffer(choice.core, s, w) => d.slots[s].buffer = w
      /\ NeedsBuffer(choice.core, s, w) => d.allocating
      /\ ~NeedsBuffer(choice.core, s, w) => d.allocating = core.allocating
  <2>1. PICK c : c = core
    OBVIOUS
  <2>2. Found(c, choice)
    BY <1>7, <2>1
  <2>3. /\ Dequeued(c, d, s)
        /\ ~NeedsBuffer(choice.core, s, w) => d.slots[s].buffer = w
        /\ NeedsBuffer(choice.core, s, w) => d.allocating
        /\ ~NeedsBuffer(choice.core, s, w) => d.allocating = c.allocating
    BY <1>3, <1>4, <1>5, <1>6, <2>2, TakeSlotPlaced
  <2> QED
    BY <2>1, <2>3
<1>10. core' = d
  BY <1>5 DEF Unlock
<1>11. /\ pc \in [Producers -> PCs] /\ found \in [Producers -> Slots \cup {INVALID}]
       /\ held \in [Producers -> SUBSET Slots]
  BY DEF VarsInv, LocalsOK
<1>12. \A q \in Producers \ {p} : pc'[q] = "allocate" =>
              pc[q] = "allocate" /\ found'[q] = found[q]
  BY <1>5, <1>11 DEF Unlock, Forget
<1>13. \/ /\ held' = [held EXCEPT ![p] = @ \cup {s}]
          /\ pc'[p] # "allocate"
          /\ d.slots[s].buffer # NoBuffer
       \/ held' = held /\ found'[p] = s
  BY <1>5, <1>6, <1>9, <1>11 DEF Unlock
<1>14. CoreInv' /\ CountSame(core, core')
  BY <1>5, <1>6, <1>8, <1>9, <1>10, <1>12, <1>13, GivenStep
<1> QED
  BY <1>5, <1>6, <1>8, <1>9, <1>14

\* attachBuffer takes the slot and returns it.
LEMMA AttachFoundKeeps ==
    ASSUME VarsInv, CoreInv, NEW p \in Producers, AttachFound(p)
    PROVE  /\ CoreInv' /\ CountSame(core, core')
           /\ core'.allocating = core.allocating
           /\ \E s \in Slots : held' = [held EXCEPT ![p] = @ \cup {s}]
<1>1. PICK w : w = want[p]
  OBVIOUS
<1>2. PICK choice : choice = AttachChoice(core)
  OBVIOUS
<1>3. PICK s : s = choice.slot
  OBVIOUS
<1>4. PICK d : d = Attached(choice.core, s, w)
  OBVIOUS
<1>5. /\ Attaching(p) /\ ~core.abandoned /\ s # INVALID
      /\ Unlock(p, d, "idle")
      /\ held' = [held EXCEPT ![p] = @ \cup {s}]
      /\ Forget(p)
      /\ UNCHANGED frameCounter
  BY <1>1, <1>2, <1>3, <1>4 DEF AttachFound, Attached, Refused, callbacks
<1>6. w \in Sizes /\ pc[p] # "allocate" /\ w # NoBuffer
  <2>1. pc[p] \in {"attach", "attach_retry"}
    BY <1>5 DEF Attaching
  <2>2. w \in Sizes
    BY <1>1, <2>1 DEF VarsInv, LocalsOK, Sized
  <2> QED
    BY <2>1, <2>2, CoreAssumption DEF NoBuffer
<1>7. Found(core, choice)
  <2> DEFINE c == core
  <2>1. Typed(c) /\ PlacesOK(c) /\ choice = AttachChoice(c)
    BY <1>2, <1>5 DEF CoreInv
  <2> HIDE DEF c
  <2>2. Found(c, choice)
    BY <2>1, AttachFinds
  <2> QED
    BY <2>2 DEF c
<1>8. s \in Slots
  BY <1>3, <1>5, <1>7 DEF Found
<1>9. Dequeued(core, d, s) /\ d.slots[s].buffer = w /\ d.allocating = core.allocating
  BY <1>3, <1>4, <1>5, <1>6, <1>7, AttachedPlaced
<1>10. core' = d
  BY <1>5 DEF Unlock
<1>11. /\ pc \in [Producers -> PCs] /\ found \in [Producers -> Slots \cup {INVALID}]
       /\ held \in [Producers -> SUBSET Slots]
  BY DEF VarsInv, LocalsOK
<1>12. \A q \in Producers \ {p} : pc'[q] = "allocate" =>
              pc[q] = "allocate" /\ found'[q] = found[q]
  BY <1>5, <1>11 DEF Unlock, Forget
<1>13. /\ held' = [held EXCEPT ![p] = @ \cup {s}]
       /\ pc'[p] # "allocate"
       /\ d.slots[s].buffer # NoBuffer
  BY <1>5, <1>6, <1>9, <1>11 DEF Unlock
<1> QED
  BY <1>5, <1>6, <1>8, <1>9, <1>10, <1>12, <1>13, GivenStep

\* The slot in which the buffer has been allocated goes to the client.
LEMMA DequeueAllocatedKeeps ==
    ASSUME VarsInv, CoreInv, NEW p \in Producers, DequeueAllocated(p)
    PROVE  CoreInv' /\ CountSame(core, core')
<1>1. /\ pc[p] = "allocate" /\ ~core.abandoned /\ HandsInv
      /\ held \in [Producers -> SUBSET Slots] /\ pc \in [Producers -> PCs]
      /\ found \in [Producers -> Slots \cup {INVALID}]
  BY DEF DequeueAllocated, CoreInv, VarsInv, LocalsOK
<1>2. PICK s \in Slots : s = found[p]
  BY <1>1 DEF VarsInv, LocalsOK
<1>3. PICK w \in Sizes : w = want[p] /\ w # NoBuffer
  BY <1>1, CoreAssumption DEF VarsInv, LocalsOK, Sized, NoBuffer
<1>4. PICK c : c = core
  OBVIOUS
<1>5. s \in Taken(p) /\ s \notin held[p] /\ c.slots[s].dequeueCount = 1
  BY <1>1, <1>2, <1>4 DEF HandsInv, Taken
<1>6. Typed(c) /\ PlacesOK(c) /\ ~IsFree(c, s)
  BY <1>1, <1>4, <1>5 DEF CoreInv, IsFree
<1>7. /\ Out(c, s) /\ s \in c.active /\ c.slots[s] \in SlotStates
      /\ c.slots[s].queueCount = 0 /\ c.slots[s].acquireCount = 0
  <2>1. c.slots[s].dequeueCount > 0
    BY <1>5
  <2> QED
    BY <1>6, <2>1, BusySlot
<1> DEFINE x == c.slots[s]
           b == [x EXCEPT !.buffer = w]
           d == [c EXCEPT !.slots[s].buffer = w, !.allocating = FALSE]
<1>8. /\ b \in SlotStates /\ b.buffer = w /\ b.dequeueCount = 1
      /\ b.queueCount = 0 /\ b.acquireCount = 0
  <2>1. x \in SlotStates /\ x.dequeueCount = 1 /\ x.queueCount = 0 /\ x.acquireCount = 0
    BY <1>5, <1>7
  <2> HIDE DEF x
  <2> QED
    BY <2>1 DEF SlotStates
<1>9. /\ ListsOK(d) /\ Same(c, d) /\ CountSame(c, d)
      /\ d.slots = [c.slots EXCEPT ![s] = b]
      /\ d.freeSlots = c.freeSlots /\ d.freeBuffers = c.freeBuffers
      /\ d.unused = c.unused /\ d.active = c.active
      /\ d.defaultSize = c.defaultSize /\ d.connected = c.connected
  BY <1>6 DEF Typed, ListsOK, Same, SameModes, CountSame, Fields
<1>10. Unlock(p, d, "idle") /\ held' = [held EXCEPT ![p] = @ \cup {s}]
       /\ Forget(p) /\ UNCHANGED frameCounter
  BY <1>2, <1>3, <1>4 DEF DequeueAllocated, callbacks
<1> HIDE DEF x, b, d
<1>11. /\ d.slots[s] = b /\ d.slots \in [Slots -> SlotStates]
       /\ \A t \in Slots \ {s} : d.slots[t] = c.slots[t]
  BY <1>6, <1>8, <1>9 DEF Typed
<1>12. Typed(d)
  BY <1>6, <1>9, <1>11 DEF Typed, Same, SameModes
<1>13. Others(c, d, {s}) /\ \A t \in Slots \ {s} : SameState(c, d, t)
  BY <1>11 DEF Others, SameState, IsFree
<1>14. PlacesOK(d)
  <2>1. \A t \in Slots \ {s} : AsBefore(c, d, t)
    BY <1>9, <1>13 DEF AsBefore
  <2>2. \A t \in Slots \ {s} : PlaceOK(d, t)
    BY <1>6, <2>1, AsBeforePlace DEF PlacesOK
  <2>3. PlaceOK(d, s)
    BY <1>3, <1>7, <1>8, <1>9, <1>11 DEF PlaceOK, Out, IsFree
  <2> QED
    BY <1>6, <1>9, <2>2, <2>3 DEF PlacesOK
<1>15. core' = d
  BY <1>10 DEF Unlock
<1>16. QueueOK(d, frameCounter)
  <2>1. \A t \in {s} : core.slots[t].queueCount = 0 /\ d.slots[t].queueCount = 0
    BY <1>4, <1>7, <1>8, <1>11
  <2>2. ~core.abandoned /\ ~d.abandoned /\ d.queue = core.queue /\ Others(core, d, {s})
    BY <1>1, <1>4, <1>9, <1>13 DEF Same, SameModes
  <2> QED
    BY <2>1, <2>2, SameQueue
<1>17. HandsInv'
  <2>1. /\ held'[p] = held[p] \cup {s} /\ pc'[p] = "idle"
        /\ \A q \in Producers \ {p} :
              held'[q] = held[q] /\ pc'[q] = pc[q] /\ found'[q] = found[q]
    BY <1>1, <1>10 DEF Unlock, Forget
  <2>2. \A q \in Producers : (Taken(q))' = Taken(q)
    BY <1>1, <1>2, <2>1 DEF Taken
  <2>3. \A q \in Producers : \A t \in Taken(q) : d.slots[t].dequeueCount = 1
    <3>1. \A q \in Producers : Taken(q) \subseteq Slots
      BY <1>1 DEF Taken, HandsInv
    <3>2. \A q \in Producers : \A t \in Taken(q) : c.slots[t].dequeueCount = 1
      BY <1>1, <1>4 DEF HandsInv
    <3> QED
      BY <1>8, <1>11, <3>1, <3>2
  <2>4. \A q \in Producers : \A t \in held'[q] : d.slots[t].buffer # NoBuffer
    <3>1. \A q \in Producers : \A t \in held[q] :
             t \in Slots /\ c.slots[t].buffer # NoBuffer
      BY <1>1, <1>4 DEF HandsInv
    <3>2. \A q \in Producers : \A t \in held[q] : d.slots[t].buffer # NoBuffer
      BY <1>3, <1>8, <1>11, <3>1
    <3> QED
      BY <1>3, <1>8, <1>11, <2>1, <3>2
  <2>5. \A q \in Producers : pc'[q] = "allocate" => found'[q] \in Slots \ held'[q]
    BY <1>1, <2>1 DEF HandsInv
  <2>6. \A q, r \in Producers : r # q => (Taken(q))' \cap (Taken(r))' = {}
    BY <1>1, <2>2 DEF HandsInv
  <2> QED
    BY <1>15, <2>2, <2>3, <2>4, <2>5, <2>6 DEF HandsInv
<1>18. CountSame(core, core')
  BY <1>4, <1>9, <1>15
<1> QED
  BY <1>12, <1>14, <1>15, <1>16, <1>17, <1>18, <1>10 DEF CoreInv

\* Free slots change after others have.
LEMMA OthersAfter ==
    ASSUME NEW c, NEW d, NEW e, NEW S, Others(c, d, S), Others(d, e, {})
    PROVE  Others(c, e, S)
BY DEF Others, SameState, IsFree

\* The slot becomes free; the flag is cleared.
LEMMA DequeueNotAllocatedKeeps ==
    ASSUME VarsInv, CoreInv, NEW p \in Producers, DequeueNotAllocated(p)
    PROVE  CoreInv' /\ CountSame(core, core')
<1>1. /\ pc[p] = "allocate"
      /\ MayFail \/ core.abandoned
      /\ held \in [Producers -> SUBSET Slots] /\ pc \in [Producers -> PCs]
      /\ found \in [Producers -> Slots \cup {INVALID}]
  BY DEF DequeueNotAllocated, GiveUpAllocation, VarsInv, LocalsOK
<1>2. PICK s \in Slots : s = found[p]
  BY <1>1 DEF VarsInv, LocalsOK, DequeueNotAllocated, GiveUpAllocation
<1>3. PICK c : c = core
  OBVIOUS
<1>4. PICK e : e = FreeSlot(c, s)
  OBVIOUS
<1>5. PICK d : d = [e EXCEPT !.allocating = FALSE]
  OBVIOUS
<1>6. Unlock(p, d, "idle") /\ Forget(p) /\ UNCHANGED <<held, frameCounter>>
  BY <1>2, <1>3, <1>4, <1>5 DEF DequeueNotAllocated, GiveUpAllocation, callbacks
<1>7. Typed(c)
  BY <1>3 DEF CoreInv
<1>8. /\ Typed(e) /\ Rest(c, e) /\ Others(c, e, {s}) /\ e.slots[s] = ClearedSlot
      /\ \A t \in Slots \ {s} : SameState(c, e, t)
      /\ PlacesBut(c, s) /\ s \notin ToSet(c.freeBuffers) \cup ToSet(c.unused)
              /\ (~MayFail => s \notin c.active) => PlacesOK(e)
  BY <1>4, <1>7, FreeSlotPlaced
<1>9. Marked(e, d)
  BY <1>5, <1>8, Marks
<1>10. /\ Typed(d) /\ d.queue = c.queue /\ (d.abandoned <=> c.abandoned)
       /\ CountSame(c, d) /\ IsFree(e, s)
  BY <1>8, <1>9 DEF Marked, Kept, Rest, Same, SameModes, CountSame, IsFree, ClearedSlot
<1>11. core' = d
  BY <1>6 DEF Unlock
<1>12. CASE core.abandoned
  <2>1. c.queue = <<>> /\ \A t \in Slots : IsFree(c, t)
    BY <1>3, <1>12 DEF CoreInv, QueueOK
  <2>2. \A t \in Slots : IsFree(e, t)
    BY <1>8, <1>10, <2>1 DEF SameState, IsFree
  <2>3. \A t \in Slots : IsFree(d, t)
    BY <1>9, <2>2 DEF Marked, Kept
  <2>4. QueueOK(d, frameCounter)
    BY <1>10, <2>1, <2>3, QueueEmpty
  <2>5. d.abandoned
    BY <1>3, <1>10, <1>12
  <2> QED
    BY <1>3, <1>6, <1>10, <1>11, <2>4, <2>5 DEF CoreInv, HandsInv
<1>13. CASE ~core.abandoned
  <2>1. HandsInv /\ MayFail /\ PlacesOK(c) /\ pc[p] = "allocate"
    BY <1>3, <1>13 DEF CoreInv, DequeueNotAllocated, GiveUpAllocation
  <2>2. s \in Taken(p) /\ s \notin held[p] /\ c.slots[s].dequeueCount = 1
    BY <1>2, <1>3, <1>13, <2>1 DEF HandsInv, Taken
  <2>3. Out(c, s) /\ c.slots[s].queueCount = 0
    <3>1. c.slots[s].dequeueCount > 0 /\ ~IsFree(c, s)
      BY <2>2 DEF IsFree
    <3> QED
      BY <1>7, <2>1, <3>1, BusySlot
  <2>4. PlacesOK(e)
    <3>1. PlacesBut(c, s)
      BY <2>1 DEF PlacesOK, PlacesBut
    <3> QED
      BY <1>8, <2>1, <2>3, <3>1 DEF Out
  <2>5. PlacesOK(d) /\ Others(e, d, {})
    BY <1>9, <2>4 DEF Marked, Kept
  <2>6. Others(c, d, {s}) /\ IsFree(d, s)
    BY <1>8, <1>10, <2>5, OthersAfter DEF Others
  <2>7. QueueOK(d, frameCounter)
    <3>1. \A t \in {s} : core.slots[t].queueCount = 0 /\ d.slots[t].queueCount = 0
      BY <1>3, <2>3, <2>6 DEF IsFree
    <3>2. /\ ~core.abandoned /\ ~d.abandoned
          /\ d.queue = core.queue /\ Others(core, d, {s})
      BY <1>3, <1>10, <1>13, <2>6
    <3> QED
      BY <3>1, <3>2, SameQueue
  <2>8. Steady({s})
    <3>1. /\ \A q \in Producers : held'[q] = held[q]
          /\ pc'[p] = "idle"
          /\ \A q \in Producers \ {p} : pc'[q] = pc[q] /\ found'[q] = found[q]
      BY <1>1, <1>6 DEF Unlock, Forget
    <3>2. \A q \in Producers \ {p} : s \notin Taken(q)
      BY <1>13, <2>1, <2>2 DEF HandsInv
    <3> QED
      BY <2>2, <3>1, <3>2 DEF Steady, Taken
  <2>9. Others(core, d, {s}) /\ QueueOK(d, frameCounter')
    BY <1>3, <1>6, <2>6, <2>7
  <2>10. CoreInv'
    BY <1>10, <1>11, <1>13, <2>5, <2>8, <2>9, ChangedStep
  <2> QED
    BY <1>3, <1>10, <1>11, <2>10
<1> QED
  BY <1>12, <1>13

\* allocateBuffers puts its buffer in a free slot, if there is one left.
LEMMA AllocateDoneKeeps ==
    ASSUME VarsInv, CoreInv, NEW p \in Producers, AllocateDone(p)
    PROVE  CoreInv' /\ CountSame(core, core')
<1>1. Typed(core) /\ want[p] \in Sizes
  BY DEF CoreInv, VarsInv, LocalsOK, AllocateDone, Sized
<1>2. PICK d : d = Allocated(p)
  OBVIOUS
<1>3. Marked(core, d)
  <2>1. CASE core.freeSlots = {}
    <3>1. d = [core EXCEPT !.allocating = FALSE]
      BY <1>2, <2>1 DEF Allocated
    <3>2. PICK c : c = core
      OBVIOUS
    <3>3. Marked(c, [c EXCEPT !.allocating = FALSE])
      BY <1>1, <3>2, Marks
    <3> QED
      BY <3>1, <3>2, <3>3
  <2>2. CASE core.freeSlots # {}
    <3>1. d = PutBuffer(p, FirstFreeSlot(core))
      BY <1>2, <2>2 DEF Allocated
    <3>2. Kept(core, d) /\ Same(core, d) /\ d.unused = core.unused
      BY <1>1, <2>2, <3>1, PutBufferPlaced
    <3> QED
      BY <3>2 DEF Marked, CountSame, Same, SameModes
  <2> QED
    BY <2>1, <2>2
<1>4. Unlock(p, d, "yield_to_dequeue") /\ UNCHANGED <<held, found, frameCounter>>
  BY <1>2 DEF AllocateDone, locals, callbacks
<1>5. "yield_to_dequeue" \in PCs \ {"allocate"}
  BY DEF PCs
<1> QED
  BY <1>3, <1>4, <1>5, MarkedScope

\* detachNextBuffer takes the buffer of the oldest free slot.
LEMMA DetachNextKeeps ==
    ASSUME VarsInv, CoreInv, NEW p \in Producers, DetachNextFinish(p)
    PROVE  /\ CoreInv' /\ CountSame(core, core')
           /\ core'.allocating = core.allocating
<1>1. PICK c : c = core
  OBVIOUS
<1>2. Typed(c)
  BY <1>1 DEF CoreInv
<1>3. \E d : Unlock(p, d, "idle") /\ Marked(c, d) /\ d.allocating = c.allocating
  <2>1. CASE c.freeBuffers = <<>>
    <3>1. Unlock(p, c, "idle")
      BY <1>1, <2>1 DEF DetachNextFinish
    <3> QED
      BY <1>2, <3>1, Marks
  <2>2. CASE c.freeBuffers # <<>>
    <3>1. PICK s : s = Head(c.freeBuffers)
      OBVIOUS
    <3>2. PICK d : d = FreeSlot([c EXCEPT !.freeBuffers = Without(@, s)], s)
      OBVIOUS
    <3>3. Unlock(p, d, "idle")
      BY <1>1, <2>2, <3>1, <3>2 DEF DetachNextFinish
    <3>4. Kept(c, d) /\ Rest(c, d)
      BY <1>2, <2>2, <3>1, <3>2, DetachNextPlaced
    <3>5. Marked(c, d) /\ d.allocating = c.allocating
      BY <3>4 DEF Marked, CountSame, Rest, Same, SameModes
    <3> QED
      BY <3>3, <3>5
  <2> QED
    BY <2>1, <2>2
<1>4. UNCHANGED <<held, found, frameCounter>>
  BY DEF DetachNextFinish, locals, callbacks
<1>5. "idle" \in PCs \ {"allocate"}
  BY DEF PCs
<1> QED
  BY <1>1, <1>3, <1>4, <1>5, MarkedScope DEF Unlock

-----------------------------------------------------------------------------
(* Slots that go back to the queue.                                        *)

\* A slot in a thread's hands.
LEMMA HeldSlot ==
    ASSUME VarsInv, CoreInv, ~core.abandoned, NEW p \in Producers, NEW s \in held[p],
           NEW c, c = core
    PROVE  /\ s \in Slots /\ c.slots[s].dequeueCount = 1
           /\ c.slots[s].buffer # NoBuffer /\ c.slots[s].queueCount = 0
           /\ Typed(c) /\ PlacesOK(c)
<1>1. s \in Slots
  BY DEF VarsInv, LocalsOK
<1>2. c.slots[s].dequeueCount = 1 /\ c.slots[s].buffer # NoBuffer
  BY DEF CoreInv, HandsInv, Taken
<1>3. Typed(c) /\ PlacesOK(c)
  BY DEF CoreInv
<1>4. c.slots[s].dequeueCount > 0 /\ ~IsFree(c, s)
  BY <1>2 DEF IsFree
<1>5. c.slots[s].queueCount = 0
  BY <1>1, <1>3, <1>4, BusySlot
<1> QED
  BY <1>1, <1>2, <1>3, <1>5

\* detachBuffer frees a slot of the caller's.
LEMMA DetachBufferKeeps ==
    ASSUME VarsInv, CoreInv, NEW p \in Producers, DetachBuffer(p)
    PROVE  /\ CoreInv' /\ CountSame(core, core')
           /\ core'.allocating = core.allocating
<1>1. ~core.abandoned /\ UNCHANGED <<found, frameCounter>>
  BY DEF DetachBuffer, Usable, callbacks
<1>2. PICK c : c = core
  OBVIOUS
<1>3. PICK s \in held[p] :
         /\ UnlockNotify(p, FreeSlot([c EXCEPT !.active = @ \ {s}], s), "idle")
         /\ GiveBack(p, s)
  BY <1>2 DEF DetachBuffer
<1>4. PICK d : d = FreeSlot([c EXCEPT !.active = @ \ {s}], s)
  OBVIOUS
<1>5. /\ s \in Slots /\ c.slots[s].dequeueCount = 1 /\ c.slots[s].queueCount = 0
      /\ Typed(c) /\ PlacesOK(c)
  BY <1>1, <1>2, HeldSlot
<1>6. Returned(c, d, s)
  BY <1>4, <1>5, DetachedPlaced
<1>7. core' = d /\ Steady({s})
  <2>1. HandsInv /\ "idle" \in PCs \ {"allocate"} /\ UnlockNotify(p, d, "idle")
    BY <1>3, <1>4 DEF CoreInv, PCs
  <2> QED
    BY <1>1, <1>3, <2>1, SteadyBack DEF UnlockNotify
<1>8. CoreInv' /\ CountSame(core, d) /\ d.allocating = core.allocating
  BY <1>1, <1>2, <1>5, <1>6, <1>7, ReturnedStep
<1> QED
  BY <1>7, <1>8

\* cancelBuffer returns the slot with its buffer.
LEMMA CancelBufferKeeps ==
    ASSUME VarsInv, CoreInv, NEW p \in Producers, CancelBuffer(p)
    PROVE  /\ CoreInv' /\ CountSame(core, core')
           /\ core'.allocating = core.allocating
<1>1. ~core.abandoned /\ UNCHANGED <<found, frameCounter>>
  BY DEF CancelBuffer, Usable, callbacks
<1>2. PICK c : c = core
  OBVIOUS
<1>3. PICK s \in held[p] :
         /\ UnlockNotify(p, Recycle([c EXCEPT !.slots[s].dequeueCount = @ - 1], s), "idle")
         /\ GiveBack(p, s)
  BY <1>2 DEF CancelBuffer
<1>4. PICK d : d = Recycle([c EXCEPT !.slots[s].dequeueCount = @ - 1], s)
  OBVIOUS
<1>5. /\ s \in Slots /\ c.slots[s].dequeueCount = 1 /\ c.slots[s].queueCount = 0
      /\ c.slots[s].buffer # NoBuffer /\ Typed(c) /\ PlacesOK(c)
  BY <1>1, <1>2, HeldSlot
<1>6. Returned(c, d, s)
  BY <1>4, <1>5, CancelledPlaced
<1>7. core' = d /\ Steady({s})
  <2>1. HandsInv /\ "idle" \in PCs \ {"allocate"} /\ UnlockNotify(p, d, "idle")
    BY <1>3, <1>4 DEF CoreInv, PCs
  <2> QED
    BY <1>1, <1>3, <2>1, SteadyBack DEF UnlockNotify
<1>8. CoreInv' /\ CountSame(core, d) /\ d.allocating = core.allocating
  BY <1>1, <1>2, <1>5, <1>6, <1>7, ReturnedStep
<1> QED
  BY <1>7, <1>8

\* queueBuffer, up to the end of its lock scope.
LEMMA QueueBufferKeeps ==
    ASSUME VarsInv, CoreInv, NEW p \in Producers, QueueBuffer(p)
    PROVE  /\ CoreInv' /\ CountSame(core, core')
           /\ core'.allocating = core.allocating
<1>1. /\ ~core.abandoned /\ UNCHANGED found
      /\ frameCounter < MaxFrames /\ frameCounter' = frameCounter + 1
  BY DEF QueueBuffer, Usable
<1>2. PICK n \in Nat : n = frameCounter
  BY DEF VarsInv, LocalsOK
<1>3. PICK c : c = core
  OBVIOUS
<1>4. \A s \in Slots : ShareFirst(core, s) = c
  BY <1>3 DEF ShareFirst, CoreInv, Typed
<1>5. PICK s \in Slots :
        /\ s \in held[p]
        /\ UnlockNotify(p, Queued(c, s, n + 1, Droppable(c, s)), "callback")
        /\ GiveBack(p, s)
  BY <1>2, <1>4 DEF QueueBuffer, QueueableSlot, Queued, Used
<1>6. PICK droppable \in BOOLEAN : droppable = Droppable(c, s)
  BY DEF Droppable
<1>7. PICK d : d = Queued(c, s, n + 1, droppable)
  OBVIOUS
<1>8. s \in held[p] /\ UnlockNotify(p, d, "callback") /\ GiveBack(p, s)
  BY <1>5, <1>6, <1>7
<1>9. /\ c.slots[s].dequeueCount = 1 /\ c.slots[s].buffer # NoBuffer
       /\ Typed(c) /\ PlacesOK(c)
  BY <1>1, <1>3, <1>8, HeldSlot
<1>10. QueueOK(c, n) /\ ~c.abandoned /\ n < MaxFrames
  BY <1>1, <1>2, <1>3 DEF CoreInv
<1>11. /\ Typed(d) /\ PlacesOK(d) /\ QueueOK(d, n + 1) /\ SameModes(c, d)
       /\ d.unused = c.unused /\ d.allocating = c.allocating
       /\ Others(c, d, Undequeued(c) \cup {s})
  BY <1>7, <1>9, <1>10, QueuedPlaced
<1>12. core' = d /\ Steady(Undequeued(c) \cup {s})
  <2>1. HandsInv /\ "callback" \in PCs \ {"allocate"}
    BY DEF CoreInv, PCs
  <2>2. Steady({s})
    BY <1>1, <1>8, <2>1, SteadyBack
  <2>3. Steady({})
    BY <2>2 DEF Steady
  <2>4. Steady(Undequeued(c))
    BY <1>1, <1>3, <2>1, <2>3, SteadyBeyond DEF Undequeued
  <2> QED
    BY <1>8, <2>2, <2>4 DEF Steady, UnlockNotify
<1>13. QueueOK(d, frameCounter')
  BY <1>1, <1>2, <1>11
<1>14. CoreInv'
  BY <1>1, <1>3, <1>11, <1>12, <1>13, ChangedStep
<1> QED
  BY <1>3, <1>11, <1>12, <1>14 DEF CountSame, SameModes

\* The consumer acquires the oldest item, stale or not.
LEMMA AcquireBufferKeeps ==
    ASSUME VarsInv, CoreInv, AcquireBuffer
    PROVE  /\ CoreInv' /\ CountSame(core, core')
           /\ core'.allocating = core.allocating
           /\ acquired' \subseteq Slots \X (1 .. MaxFrames)
<1>1. PICK n \in Nat : n = frameCounter /\ n <= MaxFrames
  BY ProducerAssumption DEF VarsInv, LocalsOK
<1>2. PICK c : c = core
  OBVIOUS
<1>3. PICK item : item = Head(c.queue)
  OBVIOUS
<1>4. PICK e : e = [c EXCEPT !.queue = Tail(@)]
  OBVIOUS
<1>5. PICK d : d = IF item.stale THEN e
                   ELSE [e EXCEPT !.slots[item.slot].queueCount = @ - 1,
                                  !.slots[item.slot].acquireCount = @ + 1]
  OBVIOUS
<1>6. /\ c.queue # <<>> /\ ConsumerNotify(d)
      /\ acquired' = acquired \cup {<<item.slot, item.frame>>}
      /\ UNCHANGED <<held, found, frameCounter>>
  BY <1>2, <1>3, <1>4, <1>5 DEF AcquireBuffer, locals, callbacks
<1>7. Typed(c) /\ PlacesOK(c) /\ QueueOK(c, n) /\ ~c.abandoned
  BY <1>1, <1>2, <1>6 DEF CoreInv, QueueOK
<1>8. /\ item.slot \in Slots /\ item.frame \in 1 .. n
      /\ Typed(d) /\ PlacesOK(d) /\ QueueOK(d, n) /\ SameModes(c, d)
      /\ d.unused = c.unused /\ d.allocating = c.allocating
      /\ Others(c, d, Undequeued(c))
  BY <1>3, <1>4, <1>5, <1>6, <1>7, AcquiredPlaced
<1>9. core' = d /\ Steady(Undequeued(c))
  <2>1. HandsInv /\ ~core.abandoned
    BY <1>2, <1>7 DEF CoreInv
  <2>2. Steady({})
    BY <1>6, NotifySteady
  <2>3. \A s \in Undequeued(c) : core.slots[s].dequeueCount = 0
    BY <1>2 DEF Undequeued
  <2> QED
    BY <1>6, <2>1, <2>2, <2>3, SteadyBeyond DEF ConsumerNotify
<1>10. QueueOK(d, frameCounter') /\ ~core.abandoned
  BY <1>1, <1>2, <1>6, <1>7, <1>8
<1>11. CoreInv'
  BY <1>2, <1>8, <1>9, <1>10, ChangedStep
<1>12. acquired' \subseteq Slots \X (1 .. MaxFrames)
  <2>1. item.frame \in 1 .. MaxFrames
    BY <1>1, <1>8, ProducerAssumption
  <2> QED
    BY <1>6, <1>8, <2>1 DEF VarsInv, LocalsOK
<1> QED
  BY <1>2, <1>8, <1>9, <1>11, <1>12 DEF CountSame, SameModes

\* The consumer returns a frame, and a late one changes nothing.
LEMMA ReleaseBufferKeeps ==
    ASSUME VarsInv, CoreInv, ReleaseBuffer
    PROVE  /\ CoreInv' /\ CountSame(core, core')
           /\ core'.allocating = core.allocating
<1>1. PICK c : c = core
  OBVIOUS
<1>2. PICK a \in acquired :
         IF IsAcquired(c, a[1]) /\ (c.slots[a[1]].frame = a[2] \/ c.slots[a[1]].shared)
         THEN ConsumerNotify(Recycle([c EXCEPT !.slots[a[1]].acquireCount = @ - 1], a[1]))
         ELSE UNCHANGED <<core, pc>>
  BY <1>1 DEF ReleaseBuffer
<1>3. PICK s \in Slots : s = a[1]
  BY DEF VarsInv, LocalsOK
<1>4. UNCHANGED <<held, found, frameCounter>>
  BY DEF ReleaseBuffer, locals, callbacks
<1>5. Typed(c)
  BY <1>1 DEF CoreInv
<1>6. CASE UNCHANGED <<core, pc>>
  <2>1. Steady({})
    BY <1>4, <1>6, NotifySteady
  <2>2. Kept(c, c) /\ core' = c
    BY <1>1, <1>5, <1>6, KeptAsItIs
  <2> QED
    BY <1>1, <1>4, <2>1, <2>2, KeptStep DEF CountSame
<1>7. CASE /\ IsAcquired(c, s)
           /\ ConsumerNotify(Recycle([c EXCEPT !.slots[s].acquireCount = @ - 1], s))
  <2>1. PICK d : d = Recycle([c EXCEPT !.slots[s].acquireCount = @ - 1], s)
    OBVIOUS
  <2>2. ~IsFree(c, s) /\ c.slots[s].acquireCount > 0
    <3>1. c.slots[s].acquireCount \in Nat
      BY <1>5 DEF Typed, SlotStates
    <3> QED
      BY <1>7, <3>1 DEF IsAcquired, IsFree
  <2>3. ~core.abandoned
    BY <1>1, <2>2 DEF CoreInv, QueueOK
  <2>4. PlacesOK(c) /\ HandsInv
    BY <1>1, <2>3 DEF CoreInv
  <2>5. c.slots[s].queueCount = 0 /\ c.slots[s].dequeueCount = 0
    BY <1>5, <2>2, <2>4, BusySlot
  <2>6. Returned(c, d, s)
    BY <1>5, <1>7, <2>1, <2>4, ReleasedPlaced
  <2>7. core' = d /\ Steady({s})
    <3>1. Steady({}) /\ core' = d
      BY <1>4, <1>7, <2>1, NotifySteady DEF ConsumerNotify
    <3> QED
      BY <1>1, <2>3, <2>4, <2>5, <3>1, SteadyBeyond
  <2>8. CoreInv' /\ CountSame(core, d) /\ d.allocating = core.allocating
    BY <1>1, <1>4, <2>3, <2>5, <2>6, <2>7, ReturnedStep
  <2> QED
    BY <2>7, <2>8
<1> QED
  BY <1>2, <1>3, <1>6, <1>7

-----------------------------------------------------------------------------
(* The producer or the consumer goes away.                                 *)

\* Who may take the buffers away does so when nobody allocates.
LEMMA NobodyAllocates ==
    ASSUME Separate, ~NoTakeover, FlagInv
    PROVE  /\ ~MayFail
           /\ ~core.allocating => \A q \in Producers : pc[q] # "allocate"
BY DEF Separate, FlagInv, AllocatingFlag

\* With no allocation under way a disconnect frees every slot not in mUnusedSlots.
LEMMA DisconnectedPlaced ==
    ASSUME NEW c, Typed(c), PlacesOK(c), ~MayFail, NEW n \in Nat, QueueOK(c, n),
           ~c.abandoned
    PROVE  LET d == Disconnected(c) IN
           Typed(d) /\ PlacesOK(d) /\ QueueOK(d, n) /\ CountSame(c, d)
           /\ ~d.abandoned /\ (d.allocating = c.allocating)
<1>1. PICK e : e = FreeAllBuffers(c)
  OBVIOUS
<1>2. PICK d : d = [e EXCEPT !.sharedSlot = INVALID, !.connected = 0]
  OBVIOUS
<1>3. /\ Typed(e) /\ PlacesOK(e) /\ SameModes(c, e)
      /\ \A s \in Slots : IsFree(e, s)
      /\ e.unused = c.unused /\ e.allocating = c.allocating
      /\ Len(e.queue) = Len(c.queue)
      /\ \A i \in 1 .. Len(c.queue) :
            e.queue[i].stale /\ e.queue[i].frame = c.queue[i].frame
  BY <1>1, FreeAllPlaced
<1>4. Alike(e, d) /\ CountSame(e, d) /\ d.allocating = e.allocating
  <2>1. 0 \in 0 .. MaxConnections
    BY ProducerAssumption
  <2> QED
    BY <1>2, <1>3, <2>1 DEF Typed, ListsOK, Alike, SameState, CountSame, Fields
<1>5. /\ Typed(d) /\ PlacesOK(d) /\ d.queue = e.queue /\ (d.abandoned <=> e.abandoned)
      /\ \A s \in Slots : IsFree(d, s)
  BY <1>3, <1>4, MarksKept DEF Kept
<1>6. QueueOK(d, n)
  <2>1. \A s \in Slots : d.slots[s].queueCount = 0
    BY <1>5 DEF IsFree
  <2>2. QueueFits(c.queue, c.slots, n)
    BY DEF QueueOK
  <2>3. QueueFits(d.queue, d.slots, n)
    BY <1>3, <1>5, <2>1, <2>2 DEF QueueFits
  <2> QED
    BY <1>3, <1>5, <2>3 DEF QueueOK, SameModes
<1>7. d = Disconnected(c)
  BY <1>1, <1>2 DEF Disconnected
<1> QED
  BY <1>3, <1>4, <1>5, <1>6, <1>7 DEF CountSame, SameModes

\* Nobody has a slot any more.
LEMMA TakenOver ==
    ASSUME Separate, ~NoTakeover, FlagInv, VarsInv, CoreInv, ~core.abandoned,
           ~core.allocating, NEW d, d = Disconnected(core), core' = d,
           \A q \in Producers : pc'[q] = "allocate" => pc[q] = "allocate",
           held' = [q \in Producers |-> {}], UNCHANGED frameCounter
    PROVE  /\ CoreInv' /\ CountSame(core, core')
           /\ core'.allocating = core.allocating
<1>1. ~MayFail /\ \A q \in Producers : pc'[q] # "allocate"
  BY NobodyAllocates
<1>2. PICK n \in Nat : n = frameCounter
  BY DEF VarsInv, LocalsOK
<1>3. PICK c : c = core
  OBVIOUS
<1>4. Typed(c) /\ PlacesOK(c) /\ QueueOK(c, n) /\ ~c.abandoned
  BY <1>2, <1>3 DEF CoreInv
<1>5. /\ Typed(d) /\ PlacesOK(d) /\ QueueOK(d, n) /\ CountSame(c, d)
      /\ d.allocating = c.allocating
  BY <1>1, <1>3, <1>4, DisconnectedPlaced
<1>6. \A q \in Producers : (Taken(q))' = {}
  BY <1>1 DEF Taken
<1>7. HandsInv'
  BY <1>1, <1>6 DEF HandsInv
<1> QED
  BY <1>2, <1>3, <1>5, <1>7 DEF CoreInv

\* disconnect, once no thread allocates.
LEMMA DisconnectKeeps ==
    ASSUME Separate, FlagInv, VarsInv, CoreInv, NEW p \in Producers, Disconnect(p)
    PROVE  /\ CoreInv' /\ CountSame(core, core')
           /\ core'.allocating = core.allocating
<1>1. ~NoTakeover /\ ~core.allocating /\ ~core.abandoned
  BY DEF NoTakeover, Disconnect, DisconnectLocked, Call, Usable
<1>2. PICK d : d = Disconnected(core)
  OBVIOUS
<1>3. /\ UnlockNotify(p, d, "idle") /\ held' = [q \in Producers |-> {}]
      /\ UNCHANGED frameCounter
  BY <1>2 DEF Disconnect, DisconnectLocked, callbacks
<1>4. core' = d /\ \A q \in Producers : pc'[q] = "allocate" => pc[q] = "allocate"
  <2>1. pc \in [Producers -> PCs]
    BY DEF VarsInv, LocalsOK
  <2> QED
    BY <1>3, <2>1, WokenIsAwake DEF UnlockNotify
<1> QED
  BY <1>1, <1>2, <1>3, <1>4, TakenOver

\* binderDied, which disconnects in the dead producer's name.
LEMMA BinderDiedKeeps ==
    ASSUME Separate, FlagInv, VarsInv, CoreInv, BinderDied
    PROVE  /\ CoreInv' /\ CountSame(core, core')
           /\ core'.allocating = core.allocating
<1>1. ~NoTakeover /\ ~core.allocating /\ UNCHANGED <<found, frameCounter>>
  BY DEF NoTakeover, BinderDied, VarsInv, LocalsOK, callbacks
<1>2. CASE Usable
  <2>1. PICK d : d = Disconnected(core)
    OBVIOUS
  <2>2. /\ core' = d /\ pc' = [q \in Producers |-> Woken(pc[q])]
        /\ held' = [q \in Producers |-> {}] /\ ~core.abandoned
    BY <1>2, <2>1 DEF BinderDied, Usable
  <2>3. \A q \in Producers : pc'[q] = "allocate" => pc[q] = "allocate"
    <3>1. pc \in [Producers -> PCs]
      BY DEF VarsInv, LocalsOK
    <3> QED
      BY <2>2, <3>1, WokenIsAwake
  <2> QED
    BY <1>1, <2>1, <2>2, <2>3, TakenOver
<1>3. CASE ~Usable
  <2>1. UNCHANGED <<core, pc, held>>
    BY <1>3 DEF BinderDied
  <2>2. PICK c : c = core
    OBVIOUS
  <2>3. Kept(c, c) /\ core' = c
    BY <2>1, <2>2, KeptAsItIs DEF CoreInv
  <2>4. Steady({})
    BY <1>1, <2>1 DEF Steady
  <2> QED
    BY <1>1, <2>2, <2>3, <2>4, KeptStep DEF CountSame
<1> QED
  BY <1>2, <1>3

\* consumerDisconnect, even while a thread allocates.
LEMMA AbandonKeeps ==
    ASSUME Separate, VarsInv, CoreInv, Abandon
    PROVE  /\ CoreInv' /\ CountSame(core, core')
           /\ core'.allocating = core.allocating
<1>1. ~MayFail /\ ~core.abandoned /\ "disconnect" \in ConsumerCalls
  BY DEF Separate, NoTakeover, Abandon, Consumer
<1>2. PICK c : c = core
  OBVIOUS
<1>3. PICK e : e = [c EXCEPT !.queue = <<>>]
  OBVIOUS
<1>4. PICK a : a = FreeAllBuffers(e)
  OBVIOUS
<1>5. PICK d : d = [a EXCEPT !.abandoned = TRUE, !.sharedSlot = INVALID]
  OBVIOUS
<1>6. core' = d
  BY <1>2, <1>3, <1>4, <1>5 DEF Abandon, ConsumerNotify
<1>7. Typed(c) /\ PlacesOK(c)
  BY <1>1, <1>2 DEF CoreInv
<1>8. /\ DOMAIN e = Fields /\ e.slots = c.slots /\ e.queue = <<>>
      /\ e.freeSlots = c.freeSlots /\ e.freeBuffers = c.freeBuffers
      /\ e.active = c.active /\ e.unused = c.unused
      /\ (e.sharedMode <=> c.sharedMode) /\ e.sharedSlot = c.sharedSlot
      /\ e.defaultSize = c.defaultSize /\ e.connected = c.connected
      /\ CountSame(c, e) /\ e.allocating = c.allocating
  BY <1>3, <1>7 DEF Typed, ListsOK, Fields, CountSame
<1>9. Typed(e)
  <2>1. e.queue \in Seq(QueueItems)
    BY <1>8
  <2> QED
    BY <1>7, <1>8, <2>1 DEF Typed, ListsOK
<1>10. PlacesOK(e)
  <2>1. \A t \in Slots : AsBefore(c, e, t)
    BY <1>8 DEF AsBefore, SameState
  <2> QED
    BY <1>7, <1>8, <2>1, AsBeforePlace DEF PlacesOK
<1>11. /\ Typed(a) /\ \A s \in Slots : IsFree(a, s)
       /\ a.allocating = e.allocating
       /\ SameModes(e, a) /\ a.unused = e.unused /\ Len(a.queue) = Len(e.queue)
  BY <1>1, <1>4, <1>9, <1>10, FreeAllPlaced
<1>12. a.queue = <<>>
  <2>1. Len(a.queue) = 0 /\ a.queue \in Seq(QueueItems)
    BY <1>8, <1>11 DEF Typed, ListsOK
  <2> QED
    BY <2>1
<1>13. /\ DOMAIN d = Fields /\ d.slots = a.slots /\ d.queue = a.queue /\ d.abandoned
       /\ d.freeSlots = a.freeSlots /\ d.freeBuffers = a.freeBuffers
       /\ d.active = a.active /\ d.unused = a.unused
       /\ (d.sharedMode <=> a.sharedMode) /\ d.sharedSlot = INVALID
       /\ d.defaultSize = a.defaultSize /\ d.connected = a.connected
       /\ CountSame(a, d) /\ d.allocating = a.allocating
  BY <1>1, <1>5, <1>11 DEF Typed, ListsOK, Fields, CountSame
<1>14. Typed(d)
  BY <1>11, <1>13 DEF Typed, ListsOK
<1>15. QueueOK(d, frameCounter')
  <2>1. \A s \in Slots : IsFree(d, s)
    BY <1>11, <1>13 DEF IsFree
  <2> QED
    BY <1>12, <1>13, <2>1, QueueEmpty
<1>16. CountSame(c, d) /\ d.allocating = c.allocating
  BY <1>8, <1>11, <1>13 DEF CountSame, SameModes
<1> QED
  BY <1>2, <1>6, <1>13, <1>14, <1>15, <1>16 DEF CoreInv, HandsInv

\* What touches neither the slots nor the hands.
LEMMA StillKeeps ==
    ASSUME VarsInv, CoreInv, SetDefaultBufferSize \/ ObituarySent \/ UNCHANGED vars
    PROVE  /\ CoreInv' /\ CountSame(core, core')
           /\ core'.allocating = core.allocating
<1>1. PICK c : c = core
  OBVIOUS
<1>2. Typed(c)
  BY <1>1 DEF CoreInv
<1>3. UNCHANGED <<pc, held, found, frameCounter>>
  BY DEF SetDefaultBufferSize, ObituarySent, vars, locals, callbacks
<1>4. \E d : core' = d /\ Marked(c, d) /\ d.allocating = c.allocating
  <2>1. core' = c \/ \E w \in Sizes : core' = [c EXCEPT !.defaultSize = w]
    BY <1>1 DEF SetDefaultBufferSize, ObituarySent, vars
  <2> QED
    <3>1. CASE core' = c
      BY <1>2, <3>1, Marks
    <3>2. CASE \E w \in Sizes : core' = [c EXCEPT !.defaultSize = w]
      <4>1. PICK w \in Sizes : core' = [c EXCEPT !.defaultSize = w]
        BY <3>2
      <4>2. PICK d : d = [c EXCEPT !.defaultSize = w]
        OBVIOUS
      <4>3. Marked(c, d)
        BY <1>2, <4>2, Marks
      <4>4. d.allocating = c.allocating
        BY <1>2, <4>2 DEF Typed, ListsOK, Fields
      <4> QED
        BY <4>1, <4>2, <4>3, <4>4
    <3> QED
      BY <2>1, <3>1, <3>2
<1>5. Steady({})
  BY <1>3 DEF Steady
<1> QED
  BY <1>1, <1>3, <1>4, <1>5, KeptStep DEF Marked

-----------------------------------------------------------------------------
(* Every step.                                                             *)

\* The calls that change the number of slots in use.
Counted(p) ==
    \/ SetMaxDequeuedBufferCount(p) \/ SetAsyncMode(p)
    \/ SetDequeueTimeout(p)         \/ Connect(p)

\* A step that changes neither the modes nor mUnusedSlots.
LEMMA CountStays ==
    ASSUME VarsInv, CountInv, CountSame(core, core')
    PROVE  CountInv' /\ core'.maxDequeued = core.maxDequeued
<1>1. PICK d : d = core'
  OBVIOUS
<1>2. CountSame(core, d)
  BY <1>1
<1>3. MaxBufferCount(d) = MaxBufferCount(core)
  BY <1>2 DEF CountSame, MaxBufferCount, BufferCountFor, ExtraBuffer
<1>4. Fits(core) <=> Fits(d)
  BY <1>2 DEF CountSame, Fits, ExtraBuffer
<1> QED
  BY <1>1, <1>2, <1>3, <1>4 DEF CountInv, CountSame, SlotAccounting

\* Outside shared mode no slot found is the shared one.
LEMMA NoSharedMisfit ==
    ASSUME VarsInv, CoreInv, NEW p \in Producers
    PROVE  ~DequeueSharedMisfit(p)
BY DEF DequeueSharedMisfit, CoreInv, Typed

\* What mMutex guards, over every step.
LEMMA CoreSteps ==
    ASSUME Separate, SlotsInv, [Next]_vars
    PROVE  /\ CoreInv' /\ CountInv' /\ core'.maxDequeued \in 1 .. NumSlots
           /\ core'.abandoned => core.abandoned \/ "disconnect" \in ConsumerCalls
<1>1. /\ VarsInv /\ CoreInv /\ FlagInv /\ CountInv
      /\ core.maxDequeued \in 1 .. NumSlots
  BY DEF SlotsInv, VarsInv, LocalsOK
<1>2. ASSUME NEW p \in Producers, Counted(p)
      PROVE  /\ CoreInv' /\ CountInv' /\ core'.maxDequeued \in 1 .. NumSlots
             /\ core'.abandoned => core.abandoned \/ "disconnect" \in ConsumerCalls
  <2>1. CASE SetMaxDequeuedBufferCount(p)
    BY <1>1, <2>1, SetMaxDequeuedKeeps
  <2>2. CASE SetAsyncMode(p)
    BY <1>1, <2>2, SetAsyncKeeps
  <2>3. CASE SetDequeueTimeout(p)
    BY <1>1, <2>3, SetTimeoutKeeps
  <2>4. CASE Connect(p)
    BY <1>1, <2>4, ConnectKeeps
  <2> QED
    BY <1>2, <2>1, <2>2, <2>3, <2>4 DEF Counted
<1>3. ASSUME CoreInv' /\ CountSame(core, core')
      PROVE  /\ CoreInv' /\ CountInv' /\ core'.maxDequeued \in 1 .. NumSlots
             /\ core'.abandoned => core.abandoned \/ "disconnect" \in ConsumerCalls
  BY <1>1, <1>3, CountStays DEF CountSame
<1>4. ASSUME NEW p \in Producers, Begin(p), ~Counted(p)
      PROVE  CoreInv' /\ CountSame(core, core')
  BY <1>1, <1>4, MarkingSteps, DetachBufferKeeps, CancelBufferKeeps, QueueBufferKeeps,
     DisconnectKeeps DEF Begin, Counted
<1>5. ASSUME NEW p \in Producers, Continue(p) \/ WaitTimesOut(p) \/ SpuriousWakeup(p)
      PROVE  CoreInv' /\ CountSame(core, core')
  <2>1. CASE DequeueStep(p)
    BY <1>1, <2>1, MarkingSteps, DequeueBlockedKeeps, DequeueFoundKeeps,
       DequeueAllocatedKeeps, DequeueNotAllocatedKeeps, NoSharedMisfit DEF DequeueStep
  <2>2. CASE AttachStep(p)
    BY <1>1, <2>2, MarkingSteps, AttachBlockedKeeps, AttachFoundKeeps DEF AttachStep
  <2>3. CASE AllocateStep(p) \/ Callback(p) \/ WaitTimesOut(p) \/ SpuriousWakeup(p)
    BY <1>1, <2>3, MarkingSteps, AllocateDoneKeeps DEF AllocateStep
  <2>4. CASE DetachNextFinish(p)
    BY <1>1, <2>4, DetachNextKeeps
  <2> QED
    BY <1>5, <2>1, <2>2, <2>3, <2>4 DEF Continue
<1>6. ASSUME \/ ObituarySent \/ BinderDied \/ AcquireBuffer \/ ReleaseBuffer
             \/ Abandon \/ SetDefaultBufferSize \/ UNCHANGED vars
      PROVE  CoreInv' /\ CountSame(core, core')
  BY <1>1, <1>6, StillKeeps, BinderDiedKeeps, AcquireBufferKeeps, ReleaseBufferKeeps,
     AbandonKeeps
<1> QED
  BY <1>2, <1>3, <1>4, <1>5, <1>6 DEF Next

-----------------------------------------------------------------------------
(* The threads' places and the flag mIsAllocating.                         *)

\* Where a thread has set mIsAllocating.
Alloc == {"allocate", "allocate_buffers"}

\* A notification does not change what a thread remembers and allocates.
LEMMA WokenStays ==
    ASSUME NEW l \in PCs
    PROVE  /\ Woken(l) \in PCs
           /\ Woken(l) \in Sized <=> l \in Sized
           /\ Woken(l) = "allocate" <=> l = "allocate"
           /\ Woken(l) \in Alloc <=> l \in Alloc
           /\ Woken(l) \in ForAllocation => l \in ForAllocation
BY DEF PCs, Woken, Sized, Alloc, ForAllocation

\* The code's locals and the flag after the end of a lock scope.
LEMMA ScopeEnds ==
    ASSUME LocalsOK, FlagInv, NEW p \in Producers, NEW d, NEW l \in PCs,
           Unlock(p, d, l) \/ UnlockNotify(p, d, l),
           arg' \in [Producers -> Sizes \cup {NoBuffer}],
           want' \in [Producers -> Sizes \cup {NoBuffer}],
           found' \in [Producers -> Slots \cup {INVALID}],
           \A q \in Producers \ {p} : want'[q] = want[q] /\ found'[q] = found[q],
           l \in Sized => want'[p] \in Sizes,
           l = "allocate" => found'[p] \in Slots,
           l \in ForAllocation => Allocates(p),
           \/ pc[p] \notin Alloc /\ l \notin Alloc /\ d.allocating = core.allocating
           \/ Allocates(p) /\ (d.allocating <=> l \in Alloc)
    PROVE  LocalsOK' /\ FlagInv'
<1>1. /\ pc \in [Producers -> PCs] /\ core' = d /\ pc' \in [Producers -> PCs]
      /\ pc'[p] = l
      /\ \A q \in Producers \ {p} : pc'[q] = pc[q] \/ pc'[q] = Woken(pc[q])
  BY WokenStays DEF LocalsOK, Unlock, UnlockNotify
<1>2. \A q \in Producers \ {p} :
         /\ pc'[q] \in Sized <=> pc[q] \in Sized
         /\ pc'[q] = "allocate" <=> pc[q] = "allocate"
         /\ pc'[q] \in Alloc <=> pc[q] \in Alloc
         /\ pc'[q] \in ForAllocation => pc[q] \in ForAllocation
  BY <1>1, WokenStays
<1>3. LocalsOK'
  BY <1>1, <1>2 DEF LocalsOK, Allocates
<1>4. FlagInv'
  <2> SUFFICES ASSUME OneAllocator, ~MayFail
               PROVE  AllocatingFlag'
    BY DEF FlagInv, OneAllocator, Allocates
  <2>1. core.allocating <=> \E q \in Producers : pc[q] \in Alloc
    BY DEF FlagInv, AllocatingFlag, Alloc
  <2>2. CASE pc[p] \notin Alloc /\ l \notin Alloc /\ d.allocating = core.allocating
    <3>1. (\E q \in Producers : pc'[q] \in Alloc) <=> \E q \in Producers : pc[q] \in Alloc
      BY <1>1, <1>2, <2>2
    <3> QED
      BY <1>1, <2>1, <2>2, <3>1 DEF AllocatingFlag, Alloc
  <2>3. CASE Allocates(p) /\ (d.allocating <=> l \in Alloc)
    <3>1. \A q \in Producers \ {p} : pc[q] \notin Alloc
      BY <2>3 DEF LocalsOK, OneAllocator, Alloc, ForAllocation
    <3>2. (\E q \in Producers : pc'[q] \in Alloc) <=> l \in Alloc
      BY <1>1, <1>2, <3>1
    <3> QED
      BY <1>1, <2>3, <3>2 DEF AllocatingFlag, Alloc
  <2> QED
    BY <2>2, <2>3
<1> QED
  BY <1>3, <1>4

\* The locals of a call that ends, or goes on with what it has.
LEMMA ForgetLocals ==
    ASSUME LocalsOK, NEW p \in Producers,
           Forget(p) \/ UNCHANGED <<arg, want, found>>
    PROVE  /\ arg' \in [Producers -> Sizes \cup {NoBuffer}]
           /\ want' \in [Producers -> Sizes \cup {NoBuffer}]
           /\ found' \in [Producers -> Slots \cup {INVALID}]
           /\ \A q \in Producers \ {p} : want'[q] = want[q] /\ found'[q] = found[q]
BY DEF LocalsOK, Forget

\* A scope after which the thread neither allocates nor remembers a size.
LEMMA PlainEnds ==
    ASSUME LocalsOK, FlagInv, NEW p \in Producers, NEW d,
           NEW l \in {"idle", "detach_next", "callback"},
           Unlock(p, d, l) \/ UnlockNotify(p, d, l), pc[p] \notin Alloc,
           Forget(p) \/ UNCHANGED <<arg, want, found>>,
           d.allocating = core.allocating
    PROVE  LocalsOK' /\ FlagInv'
<1>1. /\ l \in PCs /\ l \notin Sized /\ l \notin ForAllocation
      /\ l \notin Alloc /\ l # "allocate"
  BY DEF PCs, Sized, ForAllocation, Alloc
<1> QED
  BY <1>1, ForgetLocals, ScopeEnds

\* What the consumer and the death notification wake.
LEMMA NotifyEnds ==
    ASSUME LocalsOK, FlagInv, UNCHANGED <<arg, want, found>>,
           core'.allocating = core.allocating,
           pc' = [q \in Producers |-> Woken(pc[q])] \/ UNCHANGED pc
    PROVE  LocalsOK' /\ FlagInv'
<1>1. /\ pc \in [Producers -> PCs] /\ pc' \in [Producers -> PCs]
      /\ \A q \in Producers : pc'[q] = pc[q] \/ pc'[q] = Woken(pc[q])
  BY WokenStays DEF LocalsOK
<1>2. \A q \in Producers :
         /\ pc'[q] \in Sized <=> pc[q] \in Sized
         /\ pc'[q] = "allocate" <=> pc[q] = "allocate"
         /\ pc'[q] \in Alloc <=> pc[q] \in Alloc
         /\ pc'[q] \in ForAllocation => pc[q] \in ForAllocation
  BY <1>1, WokenStays
<1>3. LocalsOK'
  BY <1>1, <1>2 DEF LocalsOK, Allocates
<1>4. FlagInv'
  BY <1>2 DEF FlagInv, OneAllocator, Allocates, AllocatingFlag, Alloc
<1> QED
  BY <1>3, <1>4

\* The steps of the calls that do not allocate and only store their arguments.
LEMMA StoringEnds ==
    ASSUME Separate, LocalsOK, CoreInv, FlagInv, NEW p \in Producers,
           \/ RequestBuffer(p)    \/ AllowAllocation(p)    \/ SetLegacyBufferDrop(p)
           \/ SetSharedBufferMode(p) \/ DetachNextBuffer(p) \/ QueueBufferBadCrop(p)
           \/ DequeueRefused(p)   \/ AttachRefused(p) \/ Callback(p) \/ WaitTimesOut(p)
    PROVE  LocalsOK' /\ FlagInv'
<1>1. /\ Typed(core) /\ DOMAIN core = Fields /\ ~core.sharedMode
  BY DEF CoreInv, Typed, ListsOK
<1>2. ~SetSharedBufferMode(p)
  BY DEF Separate, SetSharedBufferMode, Call
<1>3. pc[p] \notin Alloc
  BY <1>2 DEF RequestBuffer, AllowAllocation, SetLegacyBufferDrop, DetachNextBuffer,
     QueueBufferBadCrop, DequeueRefused, AttachRefused, Callback, Notify, WaitTimesOut,
     Call, Looking, Attaching, Alloc
<1>4. Forget(p) \/ UNCHANGED <<arg, want, found>>
  BY <1>2 DEF RequestBuffer, AllowAllocation, SetLegacyBufferDrop, DetachNextBuffer,
     QueueBufferBadCrop, DequeueRefused, AttachRefused, Callback, Notify, WaitTimesOut,
     locals
<1>5. LookedUp(p).allocating = core.allocating
  BY <1>1 DEF LookedUp, Fields
<1>6. \A s : ShareFirst(core, s) = core
  BY <1>1 DEF ShareFirst
<1>7. \E l \in {"idle", "detach_next"} :
         \E d : Unlock(p, d, l) /\ d.allocating = core.allocating
  <2>1. CASE RequestBuffer(p)
    <3>1. PICK s, d : Unlock(p, d, "idle") /\ d = [core EXCEPT !.slots[s].requested = TRUE]
      BY <2>1 DEF RequestBuffer
    <3>2. d.allocating = core.allocating
      BY <1>1, <3>1 DEF Fields
    <3> QED
      BY <3>1, <3>2
  <2>2. CASE AllowAllocation(p)
    <3>1. PICK d : Unlock(p, d, "idle") /\ d = [core EXCEPT !.allowAllocation = ~@]
      BY <2>2 DEF AllowAllocation
    <3>2. d.allocating = core.allocating
      BY <1>1, <3>1 DEF Fields
    <3> QED
      BY <3>1, <3>2
  <2>3. CASE SetLegacyBufferDrop(p)
    <3>1. PICK d : Unlock(p, d, "idle") /\ d = [core EXCEPT !.legacyDrop = ~@]
      BY <2>3 DEF SetLegacyBufferDrop
    <3>2. d.allocating = core.allocating
      BY <1>1, <3>1 DEF Fields
    <3> QED
      BY <3>1, <3>2
  <2>4. CASE DequeueRefused(p)
    BY <1>5, <2>4 DEF DequeueRefused
  <2>5. CASE DetachNextBuffer(p) \/ QueueBufferBadCrop(p) \/ AttachRefused(p)
             \/ Callback(p) \/ WaitTimesOut(p)
    BY <1>6, <2>5 DEF DetachNextBuffer, QueueBufferBadCrop, AttachRefused, Callback,
       Notify, WaitTimesOut
  <2> QED
    BY <1>2, <2>1, <2>2, <2>3, <2>4, <2>5
<1> QED
  BY <1>3, <1>4, <1>7, PlainEnds

\* The other calls and steps that do not allocate.
LEMMA CallEnds ==
    ASSUME LocalsOK, FlagInv, NEW p \in Producers, core'.allocating = core.allocating,
           \/ Counted(p)      \/ DetachBuffer(p) \/ CancelBuffer(p) \/ QueueBuffer(p)
           \/ Disconnect(p)   \/ AttachFound(p)  \/ DetachNextFinish(p)
    PROVE  LocalsOK' /\ FlagInv'
<1>1. pc[p] \notin Alloc
  BY DEF Counted, SetMaxDequeuedBufferCount, SetAsyncMode, SwitchAsyncMode,
     SetDequeueTimeout, Connect, DetachBuffer, CancelBuffer, QueueBuffer, Disconnect,
     DisconnectLocked, AttachFound, DetachNextFinish, Call, Attaching, Alloc
<1>2. Forget(p) \/ UNCHANGED <<arg, want, found>>
  BY DEF Counted, SetMaxDequeuedBufferCount, SetAsyncMode, SwitchAsyncMode,
     SetDequeueTimeout, Connect, DetachBuffer, CancelBuffer, QueueBuffer, Disconnect,
     DisconnectLocked, AttachFound, DetachNextFinish, locals
<1>3. \E l \in {"idle", "callback"} : \E d : Unlock(p, d, l) \/ UnlockNotify(p, d, l)
  BY DEF Counted, SetMaxDequeuedBufferCount, SetAsyncMode, SwitchAsyncMode,
     SetDequeueTimeout, Connect, DetachBuffer, CancelBuffer, QueueBuffer, Disconnect,
     DisconnectLocked, AttachFound, DetachNextFinish
<1>4. PICK l \in {"idle", "callback"} : \E d : Unlock(p, d, l) \/ UnlockNotify(p, d, l)
  BY <1>3
<1>5. PICK d : Unlock(p, d, l) \/ UnlockNotify(p, d, l)
  BY <1>4
<1>6. d.allocating = core.allocating
  BY <1>5 DEF Unlock, UnlockNotify
<1> QED
  BY <1>1, <1>2, <1>4, <1>5, <1>6, PlainEnds

\* A step of dequeueBuffer, attachBuffer or allocateBuffers that leaves the
\* flag as it is, and has found no slot.
LEMMA WaitingEnds ==
    ASSUME VarsInv, CoreInv, FlagInv, NEW p \in Producers,
           \/ DequeueBuffer(p)  \/ WaitForAllocation(p) \/ DequeueBlocked(p)
           \/ AttachBuffer(p)   \/ AttachBlocked(p)     \/ SpuriousWakeup(p)
           \/ AllocateBuffers(p) \/ YieldToDequeue(p)
    PROVE  LocalsOK' /\ FlagInv'
<1>1. /\ LocalsOK /\ Typed(core) /\ DOMAIN core = Fields
      /\ pc \in [Producers -> PCs]
      /\ arg \in [Producers -> Sizes \cup {NoBuffer}]
      /\ want \in [Producers -> Sizes \cup {NoBuffer}]
      /\ found \in [Producers -> Slots \cup {INVALID}]
      /\ pc[p] \in Sized => want[p] \in Sizes
      /\ pc[p] \in ForAllocation => Allocates(p)
  BY DEF VarsInv, LocalsOK, CoreInv, Typed, ListsOK
<1> DEFINE Ends(l) ==
             /\ l \in PCs /\ pc[p] \notin Alloc /\ l \notin Alloc
             /\ \E d : Unlock(p, d, l) /\ d.allocating = core.allocating
             /\ arg' \in [Producers -> Sizes \cup {NoBuffer}]
             /\ want' \in [Producers -> Sizes \cup {NoBuffer}]
             /\ found' \in [Producers -> Slots \cup {INVALID}]
             /\ \A q \in Producers \ {p} : want'[q] = want[q] /\ found'[q] = found[q]
             /\ l \in Sized => want'[p] \in Sizes
             /\ l \in ForAllocation => Allocates(p)
<1>2. ASSUME NEW l, Ends(l)
      PROVE  LocalsOK' /\ FlagInv'
  <2>1. PICK d : Unlock(p, d, l) /\ d.allocating = core.allocating
    BY <1>2
  <2>2. l # "allocate"
    BY <1>2 DEF Alloc
  <2> QED
    BY <1>1, <1>2, <2>1, <2>2, ScopeEnds
<1>3. CASE DequeueBuffer(p)
  <2>1. /\ pc[p] = "idle" /\ Allocates(p) /\ Unlock(p, core, "dequeue")
        /\ UNCHANGED <<want, found>>
    BY <1>3 DEF DequeueBuffer, Call, Allocates
  <2>2. arg' \in [Producers -> Sizes \cup {NoBuffer}]
    <3>1. PICK w \in Sizes \cup {NoBuffer} : arg' = [arg EXCEPT ![p] = w]
      BY <1>3 DEF DequeueBuffer
    <3> QED
      BY <1>1, <3>1
  <2>3. Ends("dequeue")
    BY <1>1, <2>1, <2>2 DEF PCs, Alloc, Sized
  <2> QED
    BY <1>2, <2>3
<1>4. CASE WaitForAllocation(p)
  <2>1. PICK d : /\ d = [core EXCEPT !.waitingForAllocation = TRUE]
                 /\ Unlock(p, d, "wait_allocation")
    BY <1>4 DEF WaitForAllocation
  <2>2. d.allocating = core.allocating
    BY <1>1, <2>1 DEF Fields
  <2>3. pc[p] = "dequeue" /\ UNCHANGED <<arg, want, found>>
    BY <1>4 DEF WaitForAllocation, locals
  <2>4. Ends("wait_allocation")
    BY <1>1, <2>1, <2>2, <2>3 DEF PCs, Alloc, Sized, ForAllocation
  <2> QED
    BY <1>2, <2>4
<1>5. CASE DequeueBlocked(p)
  <2>1. PICK choice : choice = DequeueChoice(LookedUp(p), SizeFor(p))
    OBVIOUS
  <2>2. /\ Looking(p) /\ ~core.abandoned /\ choice.slot = INVALID
    BY <1>5, <2>1 DEF DequeueBlocked, Refused
  <2>3. PICK l : /\ l = AfterNoSlot(choice.core, "wait_slot", "timed_wait")
                 /\ Unlock(p, choice.core, l)
                 /\ IF l = "idle" THEN Forget(p)
                    ELSE want' = [want EXCEPT ![p] = SizeFor(p)] /\ UNCHANGED <<arg, found>>
    BY <1>5, <2>1 DEF DequeueBlocked
  <2>4. l \in {"idle", "wait_slot", "timed_wait"}
    BY <2>3 DEF AfterNoSlot
  <2>5. choice.core.allocating = core.allocating
    <3>1. Found(core, choice)
      BY <2>1, <2>2, LookingFinds
    <3> QED
      BY <3>1 DEF Found, Rest
  <2>6. SizeFor(p) \in Sizes
    BY <2>2, LookingSize
  <2>7. pc[p] \in ForAllocation \ Alloc
    BY <2>2 DEF Looking, ForAllocation, Alloc
  <2>8. /\ arg' \in [Producers -> Sizes \cup {NoBuffer}]
        /\ want' \in [Producers -> Sizes \cup {NoBuffer}]
        /\ found' \in [Producers -> Slots \cup {INVALID}]
        /\ \A q \in Producers \ {p} : want'[q] = want[q] /\ found'[q] = found[q]
        /\ l # "idle" => want'[p] \in Sizes
    <3>1. CASE l = "idle"
      BY <1>1, <2>3, <3>1, ForgetLocals
    <3>2. CASE l # "idle"
      BY <1>1, <2>3, <2>6, <3>2
    <3> QED
      BY <3>1, <3>2
  <2>9. Ends(l)
    BY <1>1, <2>3, <2>4, <2>5, <2>7, <2>8 DEF PCs, Alloc, Sized
  <2> QED
    BY <1>2, <2>9
<1>6. CASE AttachBuffer(p)
  <2>1. PICK w \in Sizes : want' = [want EXCEPT ![p] = w]
    BY <1>6 DEF AttachBuffer
  <2>2. pc[p] = "idle" /\ Unlock(p, core, "attach") /\ UNCHANGED <<arg, found>>
    BY <1>6 DEF AttachBuffer, Call
  <2>3. Ends("attach")
    BY <1>1, <2>1, <2>2 DEF PCs, Alloc, ForAllocation
  <2> QED
    BY <1>2, <2>3
<1>7. CASE AttachBlocked(p)
  <2>1. pc[p] \in {"attach", "attach_retry"}
    BY <1>7 DEF AttachBlocked, Attaching
  <2>2. PICK l : /\ l = AfterNoSlot(core, "attach_wait", "attach_timed_wait")
                 /\ Unlock(p, core, l)
                 /\ IF l = "idle" THEN Forget(p) ELSE UNCHANGED <<arg, want, found>>
    BY <1>7 DEF AttachBlocked
  <2>3. l \in {"idle", "attach_wait", "attach_timed_wait"}
    BY <2>2 DEF AfterNoSlot
  <2>4. /\ arg' \in [Producers -> Sizes \cup {NoBuffer}]
        /\ want' \in [Producers -> Sizes \cup {NoBuffer}]
        /\ found' \in [Producers -> Slots \cup {INVALID}]
        /\ \A q \in Producers \ {p} : want'[q] = want[q] /\ found'[q] = found[q]
    BY <1>1, <2>2, ForgetLocals
  <2>5. l \in Sized => want'[p] \in Sizes
    BY <1>1, <2>1, <2>2, <2>3 DEF Sized
  <2>6. Ends(l)
    BY <1>1, <2>1, <2>2, <2>3, <2>4, <2>5 DEF PCs, Alloc, ForAllocation
  <2> QED
    BY <1>2, <2>6
<1>8. CASE SpuriousWakeup(p)
  <2>1. /\ Woken(pc[p]) # pc[p] /\ Unlock(p, core, Woken(pc[p]))
        /\ UNCHANGED <<arg, want, found>>
    BY <1>8 DEF SpuriousWakeup, locals
  <2>2. pc[p] \in {"wait_slot", "timed_wait", "attach_wait", "attach_timed_wait"}
    BY <2>1 DEF Woken
  <2>3. Woken(pc[p]) \in PCs /\ pc[p] \notin Alloc /\ Woken(pc[p]) \notin Alloc
    BY <1>1, <2>2, WokenStays DEF Alloc
  <2>4. Ends(Woken(pc[p]))
    BY <1>1, <2>1, <2>2, <2>3, WokenStays DEF Sized
  <2> QED
    BY <1>2, <2>4
<1>9. CASE AllocateBuffers(p)
  <2>1. /\ pc[p] = "idle" /\ Allocates(p) /\ Unlock(p, core, "allocate_loop")
        /\ UNCHANGED <<want, found>>
    BY <1>9 DEF AllocateBuffers, Call, Allocates
  <2>2. arg' \in [Producers -> Sizes \cup {NoBuffer}]
    <3>1. PICK w \in Sizes \cup {NoBuffer} : arg' = [arg EXCEPT ![p] = w]
      BY <1>9 DEF AllocateBuffers
    <3> QED
      BY <1>1, <3>1
  <2>3. Ends("allocate_loop")
    BY <1>1, <2>1, <2>2 DEF PCs, Alloc, Sized
  <2> QED
    BY <1>2, <2>3
<1>10. CASE YieldToDequeue(p)
  <2>1. /\ pc[p] = "yield_to_dequeue" /\ Unlock(p, core, "allocate_loop")
        /\ UNCHANGED <<arg, want, found>>
    BY <1>10 DEF YieldToDequeue, locals
  <2>2. Ends("allocate_loop")
    BY <1>1, <2>1 DEF PCs, Alloc, Sized, ForAllocation
  <2> QED
    BY <1>2, <2>2
<1> QED
  BY <1>3, <1>4, <1>5, <1>6, <1>7, <1>8, <1>9, <1>10

\* The steps that set mIsAllocating or clear it.
LEMMA AllocatingEnds ==
    ASSUME VarsInv, CoreInv, FlagInv, NEW p \in Producers,
           \/ DequeueFound(p)  \/ DequeueAllocated(p) \/ DequeueNotAllocated(p)
           \/ AllocateNext(p)  \/ AllocateFails(p)    \/ AllocateRetries(p)
           \/ AllocateDone(p)
    PROVE  LocalsOK' /\ FlagInv'
<1>1. /\ LocalsOK /\ Typed(core) /\ DOMAIN core = Fields
      /\ pc \in [Producers -> PCs]
      /\ arg \in [Producers -> Sizes \cup {NoBuffer}]
      /\ want \in [Producers -> Sizes \cup {NoBuffer}]
      /\ found \in [Producers -> Slots \cup {INVALID}]
      /\ pc[p] \in Sized => want[p] \in Sizes
      /\ pc[p] \in ForAllocation => Allocates(p)
  BY DEF VarsInv, LocalsOK, CoreInv, Typed, ListsOK
<1> DEFINE Moved ==
             /\ arg' \in [Producers -> Sizes \cup {NoBuffer}]
             /\ want' \in [Producers -> Sizes \cup {NoBuffer}]
             /\ found' \in [Producers -> Slots \cup {INVALID}]
             /\ \A q \in Producers \ {p} : want'[q] = want[q] /\ found'[q] = found[q]
<1>2. Forget(p) \/ UNCHANGED <<arg, want, found>> => Moved
  BY <1>1, ForgetLocals
<1>3. CASE DequeueFound(p)
  <2>1. PICK s \in Slots, w \in Sizes : \E d :
           \/ /\ Unlock(p, d, "allocate") /\ d.allocating
              /\ want' = [want EXCEPT ![p] = w]
              /\ found' = [found EXCEPT ![p] = s]
              /\ UNCHANGED arg
           \/ /\ Unlock(p, d, "idle") /\ d.allocating = core.allocating
              /\ Forget(p)
    <3>1. \E s \in Slots, w \in Sizes : \E d :
                 \/ /\ Unlock(p, d, "allocate") /\ d.allocating
                    /\ want' = [want EXCEPT ![p] = w]
                    /\ found' = [found EXCEPT ![p] = s]
                    /\ UNCHANGED <<arg, held>>
                 \/ /\ Unlock(p, d, "idle") /\ d.allocating = core.allocating
                    /\ held' = [held EXCEPT ![p] = @ \cup {s}]
                    /\ Forget(p)
      BY <1>3, DequeueFoundKeeps
    <3> QED
      BY <3>1
  <2>2. PICK d :
           \/ /\ Unlock(p, d, "allocate") /\ d.allocating
              /\ want' = [want EXCEPT ![p] = w]
              /\ found' = [found EXCEPT ![p] = s]
              /\ UNCHANGED arg
           \/ /\ Unlock(p, d, "idle") /\ d.allocating = core.allocating
              /\ Forget(p)
    BY <2>1
  <2>3. pc[p] \in ForAllocation \ Alloc
    BY <1>3 DEF DequeueFound, Looking, ForAllocation, Alloc
  <2>4. CASE /\ Unlock(p, d, "allocate") /\ d.allocating
             /\ want' = [want EXCEPT ![p] = w]
             /\ found' = [found EXCEPT ![p] = s]
             /\ UNCHANGED arg
    <3>1. Moved /\ want'[p] \in Sizes /\ found'[p] \in Slots
      BY <1>1, <2>4
    <3>2. "allocate" \in PCs /\ "allocate" \in Alloc /\ Allocates(p)
      BY <1>1, <2>3 DEF PCs, Alloc
    <3> QED
      BY <1>1, <2>4, <3>1, <3>2, ScopeEnds
  <2>5. CASE /\ Unlock(p, d, "idle") /\ d.allocating = core.allocating
             /\ Forget(p)
    BY <1>1, <2>3, <2>5, PlainEnds
  <2> QED
    BY <2>2, <2>4, <2>5
<1>4. CASE DequeueAllocated(p) \/ DequeueNotAllocated(p) \/ AllocateFails(p)
  <2>1. pc[p] \in Alloc /\ Forget(p)
    BY <1>4 DEF DequeueAllocated, DequeueNotAllocated, GiveUpAllocation, AllocateFails, Alloc
  <2>2. \E d : Unlock(p, d, "idle") /\ d.allocating = FALSE
    <3>1. CASE DequeueAllocated(p)
      <4>1. PICK d : /\ Unlock(p, d, "idle")
                     /\ d = [core EXCEPT !.slots[found[p]].buffer = want[p], !.allocating = FALSE]
        BY <3>1 DEF DequeueAllocated
      <4>2. d.allocating = FALSE
        BY <1>1, <4>1 DEF Fields
      <4> QED
        BY <4>1, <4>2
    <3>2. CASE DequeueNotAllocated(p)
      <4>1. PICK e : e = FreeSlot(core, found[p])
        OBVIOUS
      <4>2. DOMAIN e = Fields
        BY <1>1, <4>1 DEF FreeSlot
      <4>3. PICK d : /\ Unlock(p, d, "idle")
                     /\ d = [e EXCEPT !.allocating = FALSE]
        BY <3>2, <4>1 DEF DequeueNotAllocated, GiveUpAllocation
      <4>4. d.allocating = FALSE
        BY <4>2, <4>3 DEF Fields
      <4> QED
        BY <4>3, <4>4
    <3>3. CASE AllocateFails(p)
      <4>1. PICK d : /\ Unlock(p, d, "idle")
                     /\ d = [core EXCEPT !.allocating = FALSE]
        BY <3>3 DEF AllocateFails
      <4>2. d.allocating = FALSE
        BY <1>1, <4>1 DEF Fields
      <4> QED
        BY <4>1, <4>2
    <3> QED
      BY <1>4, <3>1, <3>2, <3>3
  <2>3. PICK d : Unlock(p, d, "idle") /\ d.allocating = FALSE
    BY <2>2
  <2>4. /\ "idle" \in PCs /\ "idle" \notin Sized /\ "idle" \notin Alloc
        /\ "idle" \notin ForAllocation /\ "idle" # "allocate" /\ Allocates(p)
    BY <1>1, <2>1 DEF PCs, Sized, Alloc, ForAllocation
  <2>5. Moved
    BY <1>2, <2>1
  <2> QED
    BY <1>1, <2>3, <2>4, <2>5, ScopeEnds
<1>5. CASE AllocateNext(p)
  <2>1. pc[p] = "allocate_loop" /\ Allocates(p) /\ pc[p] \notin Alloc
    BY <1>1, <1>5 DEF AllocateNext, ForAllocation, Alloc
  <2>2. CASE Unlock(p, core, "idle") /\ Forget(p)
    BY <1>1, <2>1, <2>2, PlainEnds
  <2>3. CASE /\ Unlock(p, [core EXCEPT !.allocating = TRUE], "allocate_buffers")
             /\ want' = [want EXCEPT ![p] = RequestedSize(p)]
             /\ UNCHANGED <<arg, found>>
    <3>1. RequestedSize(p) \in Sizes
      BY <1>1 DEF RequestedSize, Typed
    <3>2. Moved /\ want'[p] \in Sizes
      BY <1>1, <2>3, <3>1
    <3>3. PICK d : d = [core EXCEPT !.allocating = TRUE] /\ Unlock(p, d, "allocate_buffers")
      BY <2>3
    <3>4. d.allocating = TRUE
      BY <1>1, <3>3 DEF Fields
    <3>5. "allocate_buffers" \in PCs /\ "allocate_buffers" \in Alloc
      BY DEF PCs, Alloc
    <3> QED
      BY <1>1, <2>1, <3>2, <3>3, <3>4, <3>5, ScopeEnds
  <2> QED
    BY <1>5, <2>2, <2>3 DEF AllocateNext
<1>6. CASE AllocateRetries(p) \/ AllocateDone(p)
  <2>1. pc[p] = "allocate_buffers" /\ UNCHANGED <<arg, want, found>> /\ Allocates(p)
    BY <1>1, <1>6 DEF AllocateRetries, AllocateDone, locals, ForAllocation
  <2>2. \E l \in {"allocate_loop", "yield_to_dequeue"} : \E d :
           Unlock(p, d, l) /\ d.allocating = FALSE
    <3>1. CASE AllocateRetries(p)
      <4>1. PICK d : /\ Unlock(p, d, "allocate_loop")
                     /\ d = [core EXCEPT !.allocating = FALSE]
        BY <3>1 DEF AllocateRetries
      <4>2. d.allocating = FALSE
        BY <1>1, <4>1 DEF Fields
      <4> QED
        BY <4>1, <4>2
    <3>2. CASE AllocateDone(p)
      <4>1. PICK d : Unlock(p, d, "yield_to_dequeue") /\ d = Allocated(p)
        BY <3>2 DEF AllocateDone
      <4>2. d.allocating = FALSE
        <5>1. [core EXCEPT !.allocating = FALSE].allocating = FALSE
          BY <1>1 DEF Fields
        <5>2. ASSUME NEW s
              PROVE  PutBuffer(p, s).allocating = FALSE
          <6>1. PICK e : e = [core EXCEPT !.freeSlots = @ \ {s},
                                !.freeBuffers = <<s>> \o @,
                                !.slots[s] = [ClearedSlot EXCEPT !.buffer = want[p]]]
            OBVIOUS
          <6>2. DOMAIN e = Fields
            BY <1>1, <6>1
          <6>3. PutBuffer(p, s) = [e EXCEPT !.allocating = FALSE]
            BY <6>1 DEF PutBuffer
          <6> QED
            BY <6>2, <6>3 DEF Fields
        <5> QED
          BY <4>1, <5>1, <5>2 DEF Allocated
      <4> QED
        BY <4>1, <4>2
    <3> QED
      BY <1>6, <3>1, <3>2
  <2>3. PICK l \in {"allocate_loop", "yield_to_dequeue"} : \E d :
           Unlock(p, d, l) /\ d.allocating = FALSE
    BY <2>2
  <2>4. PICK d : Unlock(p, d, l) /\ d.allocating = FALSE
    BY <2>3
  <2>5. l \in PCs /\ l \notin Sized /\ l \notin Alloc /\ l # "allocate"
    BY DEF PCs, Sized, Alloc
  <2>6. Moved
    BY <1>2, <2>1
  <2> QED
    BY <1>1, <2>1, <2>4, <2>5, <2>6, ScopeEnds
<1> QED
  BY <1>3, <1>4, <1>5, <1>6

\* The threads' places and the flag, over every step.
LEMMA LocalsSteps ==
    ASSUME Separate, SlotsInv, [Next]_vars
    PROVE  LocalsOK' /\ FlagInv'
<1>1. VarsInv /\ CoreInv /\ FlagInv /\ CountInv /\ LocalsOK
  BY DEF SlotsInv, VarsInv
<1>2. ASSUME NEW p \in Producers, Counted(p)
      PROVE  core'.allocating = core.allocating
  BY <1>1, <1>2, SetMaxDequeuedKeeps, SetAsyncKeeps, SetTimeoutKeeps, ConnectKeeps
     DEF Counted
<1>3. ASSUME NEW p \in Producers, Begin(p)
      PROVE  LocalsOK' /\ FlagInv'
  <2>1. CASE Counted(p)
    BY <1>1, <1>2, <2>1, CallEnds
  <2>2. CASE DetachBuffer(p) \/ CancelBuffer(p) \/ QueueBuffer(p) \/ Disconnect(p)
    <3>1. core'.allocating = core.allocating
      BY <1>1, <2>2, DetachBufferKeeps, CancelBufferKeeps, QueueBufferKeeps, DisconnectKeeps
    <3> QED
      BY <1>1, <2>2, <3>1, CallEnds
  <2>3. CASE DequeueBuffer(p) \/ AttachBuffer(p) \/ AllocateBuffers(p)
    BY <1>1, <2>3, WaitingEnds
  <2> QED
    BY <1>1, <1>3, <2>1, <2>2, <2>3, StoringEnds DEF Begin, Counted
<1>4. ASSUME NEW p \in Producers, Continue(p) \/ WaitTimesOut(p) \/ SpuriousWakeup(p)
      PROVE  LocalsOK' /\ FlagInv'
  <2>1. CASE DequeueStep(p)
    BY <1>1, <2>1, StoringEnds, WaitingEnds, AllocatingEnds, NoSharedMisfit DEF DequeueStep
  <2>2. CASE AttachStep(p)
    <3>1. AttachFound(p) => core'.allocating = core.allocating
      BY <1>1, AttachFoundKeeps
    <3> QED
      BY <1>1, <2>2, <3>1, CallEnds, StoringEnds, WaitingEnds DEF AttachStep
  <2>3. CASE AllocateStep(p)
    BY <1>1, <2>3, WaitingEnds, AllocatingEnds DEF AllocateStep
  <2>4. CASE DetachNextFinish(p)
    BY <1>1, <2>4, DetachNextKeeps, CallEnds
  <2>5. CASE Callback(p) \/ WaitTimesOut(p) \/ SpuriousWakeup(p)
    BY <1>1, <2>5, StoringEnds, WaitingEnds
  <2> QED
    BY <1>4, <2>1, <2>2, <2>3, <2>4, <2>5 DEF Continue
<1>5. ASSUME AcquireBuffer \/ ReleaseBuffer \/ Abandon \/ BinderDied
      PROVE  LocalsOK' /\ FlagInv'
  <2>1. core'.allocating = core.allocating
    BY <1>1, <1>5, AcquireBufferKeeps, ReleaseBufferKeeps, AbandonKeeps, BinderDiedKeeps
  <2>2. pc' = [q \in Producers |-> Woken(pc[q])] \/ UNCHANGED pc
    BY <1>5 DEF AcquireBuffer, ReleaseBuffer, Abandon, BinderDied, ConsumerNotify
  <2>3. UNCHANGED <<arg, want, found>>
    BY <1>5 DEF AcquireBuffer, ReleaseBuffer, Abandon, BinderDied, locals
  <2> QED
    BY <1>1, <2>1, <2>2, <2>3, NotifyEnds
<1>6. ASSUME SetDefaultBufferSize \/ ObituarySent \/ UNCHANGED vars
      PROVE  LocalsOK' /\ FlagInv'
  <2>1. core'.allocating = core.allocating
    BY <1>1, <1>6, StillKeeps
  <2>2. UNCHANGED <<pc, arg, want, found>>
    BY <1>6 DEF SetDefaultBufferSize, ObituarySent, vars, locals
  <2> QED
    BY <1>1, <2>1, <2>2, NotifyEnds
<1> QED
  BY <1>3, <1>4, <1>5, <1>6 DEF Next

-----------------------------------------------------------------------------
(* The other variables.                                                    *)

\* Nothing changes but what mMutex guards and the threads' locals.
Quiet == UNCHANGED <<held, acquired, frameCounter, connections, obituaries, claims>>

\* VALIDATE_CONSISTENCY at the end of the scope.
Validated == \E d : core' = d /\ Validate(d)

\* The calls that change nothing but what mMutex guards and their locals.
LEMMA QuietBegins ==
    ASSUME NEW p \in Producers,
           \/ RequestBuffer(p)       \/ AllowAllocation(p) \/ SetLegacyBufferDrop(p)
           \/ SetSharedBufferMode(p) \/ DequeueBuffer(p)   \/ AttachBuffer(p)
           \/ DetachNextBuffer(p)    \/ QueueBufferBadCrop(p) \/ AllocateBuffers(p)
    PROVE  Quiet
BY DEF RequestBuffer, AllowAllocation, SetLegacyBufferDrop, SetSharedBufferMode,
   DequeueBuffer, AttachBuffer, DetachNextBuffer, QueueBufferBadCrop, AllocateBuffers,
   Quiet, locals, callbacks, consumer, links

\* The steps of calls under way that do the same.
LEMMA QuietSteps ==
    ASSUME NEW p \in Producers,
           \/ WaitForAllocation(p)   \/ DequeueRefused(p)  \/ DequeueBlocked(p)
           \/ DequeueNotAllocated(p) \/ AttachRefused(p)   \/ AttachBlocked(p)
           \/ Callback(p)            \/ WaitTimesOut(p)    \/ SpuriousWakeup(p)
           \/ AllocateNext(p)        \/ AllocateFails(p)   \/ AllocateRetries(p)
           \/ YieldToDequeue(p)
    PROVE  Quiet
BY DEF WaitForAllocation, DequeueRefused, DequeueBlocked, DequeueNotAllocated,
   GiveUpAllocation, AttachRefused, AttachBlocked, Callback, Notify, WaitTimesOut,
   SpuriousWakeup, AllocateNext, AllocateFails, AllocateRetries, YieldToDequeue,
   Quiet, locals, callbacks, consumer, links

\* The calls that validate, and leave the slots the client has alone.
LEMMA ValidatedSteps ==
    ASSUME NEW p \in Producers,
           \/ SetMaxDequeuedBufferCount(p) \/ SetAsyncMode(p) \/ SetDequeueTimeout(p)
           \/ DetachNextFinish(p)          \/ AllocateDone(p)
    PROVE  /\ UNCHANGED <<held, acquired, frameCounter, connections, obituaries>>
           /\ Validated \/ UNCHANGED claims
BY DEF SetMaxDequeuedBufferCount, SetAsyncMode, SwitchAsyncMode, SetDequeueTimeout,
   DetachNextFinish, AllocateDone, Unlock, UnlockNotify, Validated, locals, callbacks,
   consumer, links

\* The calls that give a slot back or hand one out.
LEMMA HandingSteps ==
    ASSUME VarsInv, CoreInv, NEW p \in Producers,
           \/ DetachBuffer(p) \/ CancelBuffer(p) \/ AttachFound(p)
           \/ DequeueFound(p) \/ DequeueAllocated(p)
    PROVE  /\ held' \in [Producers -> SUBSET Slots]
           /\ UNCHANGED <<acquired, frameCounter, connections, obituaries>>
           /\ Validated \/ UNCHANGED claims
<1>1. held \in [Producers -> SUBSET Slots]
  BY DEF VarsInv
<1>2. CASE DetachBuffer(p) \/ CancelBuffer(p)
  <2>1. \E s : held' = [held EXCEPT ![p] = @ \ {s}]
    BY <1>2 DEF DetachBuffer, CancelBuffer, GiveBack
  <2>2. held' \in [Producers -> SUBSET Slots]
    BY <1>1, <2>1
  <2>3. /\ UNCHANGED <<acquired, frameCounter, connections, obituaries>>
        /\ Validated
    BY <1>2 DEF DetachBuffer, CancelBuffer, UnlockNotify, Validated, callbacks, consumer,
       links
  <2> QED
    BY <2>2, <2>3
<1>3. CASE AttachFound(p) \/ DequeueFound(p) \/ DequeueAllocated(p)
  <2>1. held' = held \/ \E s \in Slots : held' = [held EXCEPT ![p] = @ \cup {s}]
    <3>1. CASE AttachFound(p)
      BY <3>1, AttachFoundKeeps
    <3>2. CASE DequeueFound(p)
      BY <3>2, DequeueFoundKeeps
    <3>3. CASE DequeueAllocated(p)
      BY <3>3 DEF DequeueAllocated, VarsInv, LocalsOK
    <3> QED
      BY <1>3, <3>1, <3>2, <3>3
  <2>2. held' \in [Producers -> SUBSET Slots]
    BY <1>1, <2>1
  <2>3. /\ UNCHANGED <<acquired, frameCounter, connections, obituaries>>
        /\ Validated \/ UNCHANGED claims
    BY <1>3 DEF AttachFound, DequeueFound, DequeueAllocated, Unlock, Validated, callbacks,
       consumer, links
  <2> QED
    BY <2>2, <2>3
<1> QED
  BY <1>2, <1>3

\* queueBuffer numbers a frame; connect numbers a connection.
LEMMA NumberingSteps ==
    ASSUME VarsInv, NEW p \in Producers, QueueBuffer(p) \/ Connect(p)
    PROVE  /\ held' \in [Producers -> SUBSET Slots]
           /\ frameCounter' \in 0 .. MaxFrames
           /\ connections' \in 0 .. MaxConnections
           /\ UNCHANGED <<acquired, obituaries>>
           /\ Validated
<1>1. CASE QueueBuffer(p)
  <2>1. \E s : held' = [held EXCEPT ![p] = @ \ {s}]
    BY <1>1 DEF QueueBuffer, GiveBack
  <2>2. frameCounter' \in 0 .. MaxFrames
    <3>1. PICK n \in Nat : n = frameCounter
      BY ProducerAssumption DEF VarsInv
    <3>2. n < MaxFrames /\ frameCounter' = n + 1
      BY <1>1, <3>1 DEF QueueBuffer
    <3> QED
      BY <3>2, ProducerAssumption
  <2>3. UNCHANGED <<acquired, connections, obituaries>> /\ Validated
    BY <1>1 DEF QueueBuffer, UnlockNotify, Validated, consumer, links
  <2> QED
    BY <2>1, <2>2, <2>3 DEF VarsInv
<1>2. CASE Connect(p)
  <2>1. connections' \in 0 .. MaxConnections
    <3>1. PICK n \in Nat : n = connections
      BY ProducerAssumption DEF VarsInv
    <3>2. n < MaxConnections
      BY <1>2, <3>1 DEF Connect
    <3>3. connections' \in {n, n + 1}
      BY <1>2, <3>1 DEF Connect
    <3> QED
      BY <3>1, <3>2, <3>3, ProducerAssumption DEF VarsInv
  <2>2. UNCHANGED <<held, acquired, frameCounter, obituaries>> /\ Validated
    BY <1>2 DEF Connect, Unlock, Validated, locals, callbacks, consumer
  <2> QED
    BY <2>1, <2>2 DEF VarsInv
<1> QED
  BY <1>1, <1>2

\* What has been handed out, acquired and numbered, over every step.
LEMMA OtherSteps ==
    ASSUME SlotsInv, [Next]_vars
    PROVE  /\ held' \in [Producers -> SUBSET Slots]
           /\ acquired' \subseteq Slots \X (1 .. MaxFrames)
           /\ frameCounter' \in 0 .. MaxFrames
           /\ connections' \in 0 .. MaxConnections
           /\ obituaries' \subseteq 1 .. MaxConnections
           /\ obituaries' # {} => "binderDied" \in ConsumerCalls
           /\ claims' \subseteq {"consistency", "buffer_in_slot", "still_connected"}
           /\ "consistency" \in claims' => "consistency" \in claims \/ Validated
<1> DEFINE Handed == held' \in [Producers -> SUBSET Slots]
           Taking == acquired' \subseteq Slots \X (1 .. MaxFrames)
           Numbers == frameCounter' \in 0 .. MaxFrames /\ connections' \in 0 .. MaxConnections
           Deaths == /\ obituaries' \subseteq 1 .. MaxConnections
                     /\ obituaries' # {} => "binderDied" \in ConsumerCalls
           Claimed == /\ claims' \subseteq {"consistency", "buffer_in_slot", "still_connected"}
                      /\ "consistency" \in claims' => "consistency" \in claims \/ Validated
           All == Handed /\ Taking /\ Numbers /\ Deaths /\ Claimed
<1>1. VarsInv /\ CoreInv
  BY DEF SlotsInv
<1>2. /\ UNCHANGED held => Handed
      /\ UNCHANGED acquired => Taking
      /\ UNCHANGED <<frameCounter, connections>> => Numbers
      /\ UNCHANGED obituaries => Deaths
      /\ Validated \/ UNCHANGED claims => Claimed
  BY <1>1 DEF VarsInv, Validated, Validate
<1>3. frameCounter \in 0 .. MaxFrames /\ connections \in 0 .. MaxConnections
  BY <1>1 DEF VarsInv
<1> HIDE DEF Handed, Taking, Deaths, Claimed
<1>4. Quiet => All
  BY <1>2 DEF Quiet
<1>5. ASSUME NEW p \in Producers, Begin(p)
      PROVE  All
  <2>1. CASE SetMaxDequeuedBufferCount(p) \/ SetAsyncMode(p) \/ SetDequeueTimeout(p)
    BY <1>2, <2>1, ValidatedSteps
  <2>2. CASE DetachBuffer(p) \/ CancelBuffer(p)
    BY <1>1, <1>2, <2>2, HandingSteps DEF Handed
  <2>3. CASE QueueBuffer(p) \/ Connect(p)
    BY <1>1, <1>2, <2>3, NumberingSteps DEF Handed
  <2>4. CASE Disconnect(p)
    <3>1. Handed
      BY <2>4 DEF Disconnect, DisconnectLocked, Handed
    <3>2. UNCHANGED <<acquired, frameCounter, connections, obituaries, claims>>
      BY <2>4 DEF Disconnect, DisconnectLocked, callbacks, consumer, links
    <3> QED
      BY <1>2, <3>1, <3>2
  <2> QED
    BY <1>4, <1>5, <2>1, <2>2, <2>3, <2>4, QuietBegins DEF Begin
<1>6. ASSUME NEW p \in Producers, Continue(p) \/ WaitTimesOut(p) \/ SpuriousWakeup(p)
      PROVE  All
  <2>1. CASE DetachNextFinish(p) \/ AllocateDone(p)
    BY <1>2, <2>1, ValidatedSteps
  <2>2. CASE AttachFound(p) \/ DequeueFound(p) \/ DequeueAllocated(p)
    BY <1>1, <1>2, <2>2, HandingSteps DEF Handed
  <2> QED
    BY <1>1, <1>4, <1>6, <2>1, <2>2, QuietSteps, NoSharedMisfit
       DEF Continue, DequeueStep, AttachStep, AllocateStep
<1>7. ASSUME ObituarySent PROVE All
  <2>1. PICK k \in 0 .. MaxConnections : k = core.connected
    BY <1>1 DEF CoreInv, Typed
  <2>2. Deaths
    <3>1. /\ "binderDied" \in ConsumerCalls /\ k # 0
          /\ obituaries' = obituaries \cup {k}
      BY <1>7, <2>1 DEF ObituarySent
    <3>2. k \in 1 .. MaxConnections
      BY <3>1, ProducerAssumption
    <3> QED
      BY <1>1, <3>1, <3>2 DEF VarsInv, Deaths
  <2>3. UNCHANGED <<held, acquired, frameCounter, connections, claims>>
    BY <1>7 DEF ObituarySent, locals, callbacks, consumer
  <2> QED
    BY <1>2, <2>2, <2>3
<1>8. ASSUME BinderDied PROVE All
  <2>1. Deaths
    BY <1>1, <1>8 DEF BinderDied, VarsInv, Deaths
  <2>2. Handed
    BY <1>1, <1>8 DEF BinderDied, VarsInv, Handed
  <2>3. Claimed
    BY <1>1, <1>8 DEF BinderDied, VarsInv, Claimed
  <2>4. UNCHANGED <<acquired, frameCounter, connections>>
    BY <1>8 DEF BinderDied, callbacks, consumer
  <2> QED
    BY <1>2, <2>1, <2>2, <2>3, <2>4
<1>9. ASSUME AcquireBuffer \/ ReleaseBuffer \/ Abandon PROVE All
  <2>1. Taking
    <3>1. CASE AcquireBuffer
      BY <1>1, <3>1, AcquireBufferKeeps DEF Taking
    <3>2. CASE ReleaseBuffer
      BY <1>1, <3>2 DEF ReleaseBuffer, VarsInv, Taking
    <3>3. CASE Abandon
      BY <3>3 DEF Abandon, Taking
    <3> QED
      BY <1>9, <3>1, <3>2, <3>3
  <2>2. UNCHANGED <<held, frameCounter, connections, obituaries, claims>>
    BY <1>9 DEF AcquireBuffer, ReleaseBuffer, Abandon, locals, callbacks, links
  <2> QED
    BY <1>2, <2>1, <2>2
<1>10. ASSUME SetDefaultBufferSize \/ UNCHANGED vars PROVE All
  BY <1>4, <1>10 DEF SetDefaultBufferSize, Quiet, vars, locals, callbacks, consumer, links
<1>11. All
  BY <1>5, <1>6, <1>7, <1>8, <1>9, <1>10 DEF Next
<1> QED
  BY <1>11 DEF Handed, Taking, Deaths, Claimed

-----------------------------------------------------------------------------
(* SlotsInv is inductive.                                                  *)

\* An element of a list without repetition is counted once.
LEMMA OnceCount ==
    ASSUME NEW S, NEW q \in Seq(S), Once(q), NEW s
    PROVE  Cardinality({i \in DOMAIN q : q[i] = s}) = IF s \in ToSet(q) THEN 1 ELSE 0
<1>1. DOMAIN q = 1 .. Len(q)
  OBVIOUS
<1>2. CASE s \in ToSet(q)
  <2>1. PICK k \in DOMAIN q : q[k] = s
    BY <1>2 DEF ToSet
  <2>2. {i \in DOMAIN q : q[i] = s} = {k}
    BY <1>1, <2>1 DEF Once
  <2> QED
    BY <1>2, <2>2, FS_Singleton
<1>3. CASE s \notin ToSet(q)
  <2>1. {i \in DOMAIN q : q[i] = s} = {}
    BY <1>3 DEF ToSet
  <2> QED
    BY <1>3, <2>1, FS_EmptySet
<1> QED
  BY <1>2, <1>3

\* VALIDATE_CONSISTENCY finds every slot in one place.
LEMMA PlacesConsistent ==
    ASSUME NEW c, Typed(c), PlacesOK(c), ~MayFail
    PROVE  Consistent(c)
<1> SUFFICES ASSUME NEW s \in Slots
             PROVE  /\ InLists(c, s) = 1
                    /\ ~IsFree(c, s) => s \in c.active
                    /\ s \in c.active /\ IsFree(c, s) => c.slots[s].shared
                    /\ s \in c.freeSlots => c.slots[s].buffer = NoBuffer
                    /\ s \in ToSet(c.freeBuffers) => c.slots[s].buffer # NoBuffer
  BY DEF Consistent
<1>1. PlaceOK(c, s)
  BY DEF PlacesOK
<1> DEFINE L == {l \in {"freeSlots", "active"} : s \in c[l]}
<1>2. /\ c.freeBuffers \in Seq(Slots) /\ c.unused \in Seq(Slots)
      /\ Once(c.freeBuffers) /\ Once(c.unused)
  BY DEF Typed, ListsOK, PlacesOK
<1>3. Cardinality({i \in DOMAIN c.freeBuffers : c.freeBuffers[i] = s})
         = IF s \in ToSet(c.freeBuffers) THEN 1 ELSE 0
  BY <1>2, OnceCount
<1>4. Cardinality({i \in DOMAIN c.unused : c.unused[i] = s})
         = IF s \in ToSet(c.unused) THEN 1 ELSE 0
  BY <1>2, OnceCount
<1>5. Cardinality(L) = IF s \in c.freeSlots \cup c.active THEN 1 ELSE 0
  <2>1. CASE s \in c.freeSlots
    <3>1. L = {"freeSlots"}
      BY <1>1, <2>1 DEF PlaceOK
    <3>2. Cardinality(L) = 1
      BY <3>1, FS_Singleton
    <3> QED
      BY <2>1, <3>2
  <2>2. CASE s \in c.active
    <3>1. L = {"active"}
      BY <1>1, <2>2 DEF PlaceOK
    <3>2. Cardinality(L) = 1
      BY <3>1, FS_Singleton
    <3> QED
      BY <2>2, <3>2
  <2>3. CASE s \notin c.freeSlots \cup c.active
    <3>1. L = {}
      BY <2>3
    <3>2. Cardinality(L) = 0
      BY <3>1, FS_EmptySet
    <3> QED
      BY <2>3, <3>2
  <2> QED
    BY <2>1, <2>2, <2>3
<1>6. InLists(c, s) = 1
  <2>1. InLists(c, s) = Cardinality(L)
            + Cardinality({i \in DOMAIN c.freeBuffers : c.freeBuffers[i] = s})
            + Cardinality({i \in DOMAIN c.unused : c.unused[i] = s})
    BY DEF InLists
  <2> HIDE DEF L
  <2> QED
    BY <1>1, <1>3, <1>4, <1>5, <2>1 DEF PlaceOK
<1> QED
  BY <1>1, <1>6 DEF PlaceOK

\* Every step keeps SlotsInv.
LEMMA NextKeepsSlotsInv ==
    ASSUME Separate, SlotsInv, [Next]_vars
    PROVE  SlotsInv'
<1>1. /\ CoreInv' /\ CountInv' /\ core'.maxDequeued \in 1 .. NumSlots
      /\ core'.abandoned => core.abandoned \/ "disconnect" \in ConsumerCalls
  BY CoreSteps
<1>2. LocalsOK' /\ FlagInv'
  BY LocalsSteps
<1>3. /\ held' \in [Producers -> SUBSET Slots]
      /\ acquired' \subseteq Slots \X (1 .. MaxFrames)
      /\ frameCounter' \in 0 .. MaxFrames
      /\ connections' \in 0 .. MaxConnections
      /\ obituaries' \subseteq 1 .. MaxConnections
      /\ obituaries' # {} => "binderDied" \in ConsumerCalls
      /\ claims' \subseteq {"consistency", "buffer_in_slot", "still_connected"}
      /\ "consistency" \in claims' => "consistency" \in claims \/ Validated
  BY OtherSteps
<1>4. core'.abandoned => "disconnect" \in ConsumerCalls
  BY <1>1 DEF SlotsInv, VarsInv
<1>5. VarsInv'
  BY <1>1, <1>2, <1>3, <1>4 DEF VarsInv
<1>6. ClaimsInv'
  <2> SUFFICES ASSUME ~MayFail, "disconnect" \notin ConsumerCalls
               PROVE  "consistency" \notin claims'
    BY DEF ClaimsInv, ValidatedConsistency
  <2>1. "consistency" \notin claims
    BY DEF SlotsInv, ClaimsInv, ValidatedConsistency
  <2>2. CASE ~Validated
    BY <1>3, <2>1, <2>2
  <2>3. CASE Validated
    <3>1. PICK d : core' = d /\ Validate(d)
      BY <2>3 DEF Validated
    <3>2. Typed(d) /\ PlacesOK(d)
      BY <1>1, <1>4, <3>1 DEF CoreInv
    <3>3. Consistent(d)
      BY <3>2, PlacesConsistent
    <3> QED
      BY <2>1, <3>1, <3>3 DEF Validate
  <2> QED
    BY <2>2, <2>3
<1> QED
  BY <1>1, <1>2, <1>5, <1>6 DEF SlotsInv

\* A new queue: the slots beyond its buffer count are unused, the others free.
LEMMA InitSlotsInv == Init => SlotsInv
<1> SUFFICES ASSUME Init PROVE SlotsInv
  OBVIOUS
<1>1. core = InitialCore
  BY DEF Init
<1> DEFINE n == MaxAcquired + 1
           free == 0 .. (IF n < NumSlots THEN n ELSE NumSlots) - 1
           m == IF n < NumSlots THEN NumSlots - n ELSE 0
           unused == [i \in 1 .. m |-> n + i - 1]
<1>2. /\ n \in Nat /\ m \in Nat
      /\ free \subseteq Slots
      /\ \A i \in 1 .. m : n + i - 1 \in Slots \ free
      /\ \A s \in Slots \ free : s - n + 1 \in 1 .. m
      /\ NumSlots - m = IF n < NumSlots THEN n ELSE NumSlots
  BY CoreAssumption DEF Slots
<1>3. core.defaultSize \in Sizes
  <2>1. \E z \in Sizes : \A y \in Sizes : z <= y
    BY CoreAssumption, LeastNatural
  <2> QED
    BY <1>1, <2>1 DEF InitialCore
<1>4. /\ core.slots = [s \in Slots |-> ClearedSlot]
      /\ core.freeSlots = free /\ core.unused = unused /\ core.active = {}
      /\ core.freeBuffers = <<>> /\ core.queue = <<>>
      /\ ~core.abandoned /\ ~core.allocating
      /\ ~core.sharedMode /\ core.sharedSlot = INVALID /\ core.connected = 0
      /\ ~core.cannotBlock /\ core.async = FALSE /\ core.maxDequeued = 1
      /\ DOMAIN core = Fields
  BY <1>1 DEF InitialCore, Fields
<1>5. /\ unused \in Seq(Slots) /\ Len(unused) = m /\ DOMAIN unused = 1 .. m
      /\ \A i \in 1 .. m : unused[i] = n + i - 1
  <2> HIDE DEF n, m, free
  <2>1. m \in Nat /\ \A i \in 1 .. m : n + i - 1 \in Slots
    BY <1>2
  <2> QED
    BY <2>1
<1>6. ToSet(unused) = Slots \ free /\ Once(unused)
  <2>1. ASSUME NEW s \in Slots \ free
        PROVE  s \in ToSet(unused)
    <3>1. s - n + 1 \in 1 .. m
      BY <1>2
    <3>2. unused[s - n + 1] = s
      <4>1. unused[s - n + 1] = n + (s - n + 1) - 1
        BY <1>5, <3>1
      <4>2. s \in Int /\ n \in Int
        BY <1>2 DEF Slots
      <4> HIDE DEF n, unused
      <4> QED
        BY <4>1, <4>2
    <3> QED
      BY <1>5, <3>1, <3>2 DEF ToSet
  <2>2. ToSet(unused) \subseteq Slots \ free
    BY <1>2, <1>5 DEF ToSet
  <2>3. Once(unused)
    <3> HIDE DEF n, m, unused
    <3> QED
      BY <1>2, <1>5 DEF Once
  <2> QED
    BY <2>1, <2>2, <2>3
<1> HIDE DEF n, m, free, unused
<1>7. ClearedSlot \in SlotStates
  BY ProducerAssumption DEF ClearedSlot, SlotStates, NoBuffer
<1>8. Typed(core)
  <2>1. <<>> \in Seq(Slots) /\ <<>> \in Seq(QueueItems)
    OBVIOUS
  <2>2. ListsOK(core)
    BY <1>2, <1>4, <1>5, <2>1 DEF ListsOK
  <2>3. core.connected \in 0 .. MaxConnections
    BY <1>4, ProducerAssumption
  <2> QED
    BY <1>3, <1>4, <1>7, <2>2, <2>3 DEF Typed
<1>9. \A s \in Slots : core.slots[s] = ClearedSlot /\ IsFree(core, s)
  BY <1>4 DEF IsFree, ClearedSlot
<1>10. PlacesOK(core)
  <2>1. ToSet(core.freeBuffers) = {} /\ Once(core.freeBuffers)
    BY <1>4 DEF ToSet, Once
  <2>2. \A s \in Slots : PlaceOK(core, s)
    BY <1>4, <1>6, <1>9, <2>1 DEF PlaceOK, ClearedSlot
  <2> QED
    BY <1>4, <1>6, <2>1, <2>2 DEF PlacesOK
<1>11. QueueOK(core, frameCounter)
  BY <1>4, <1>9 DEF QueueOK, QueueFits, IsFree
<1>12. HandsInv /\ FlagInv /\ ClaimsInv
  BY <1>4 DEF Init, HandsInv, Taken, FlagInv, AllocatingFlag, ClaimsInv, ValidatedConsistency
<1>13. CountInv
  <2>1. ExtraBuffer(core.async, core.cannotBlock) = 0
    BY <1>4 DEF ExtraBuffer
  <2>2. MaxBufferCount(core) = IF n < NumSlots THEN n ELSE NumSlots
    BY <1>4, <2>1, CoreAssumption DEF MaxBufferCount, BufferCountFor, n
  <2>3. NumSlots - Len(core.unused) = MaxBufferCount(core)
    BY <1>2, <1>4, <1>5, <2>2
  <2> QED
    BY <1>4, <2>3 DEF CountInv, SlotAccounting
<1>14. VarsInv
  <2>1. LocalsOK
    BY DEF Init, LocalsOK, PCs, Sized, ForAllocation
  <2>2. core.maxDequeued \in 1 .. NumSlots
    BY <1>4, CoreAssumption
  <2> QED
    BY <1>4, <2>1, <2>2, ProducerAssumption DEF Init, VarsInv
<1> QED
  BY <1>8, <1>10, <1>11, <1>12, <1>13, <1>14 DEF SlotsInv, CoreInv

\* SlotsInv always holds.
LEMMA SpecSlotsInv ==
    ASSUME Separate
    PROVE  Spec => []SlotsInv
<1>1. Init => SlotsInv
  BY InitSlotsInv
<1>2. SlotsInv /\ [Next]_vars => SlotsInv'
  BY NextKeepsSlotsInv
<1> QED
  BY <1>1, <1>2, PTL DEF Spec

-----------------------------------------------------------------------------
(* What SlotsInv says of the queue and of the slots handed out.            *)

\* From the slots in a thread's hands.
LEMMA HeldAreDequeued == SlotsInv => HeldSlotsDequeued
<1> SUFFICES ASSUME SlotsInv, ~core.abandoned, NEW p \in Producers, NEW s \in held[p]
             PROVE  IsDequeued(core, s) /\ core.slots[s].buffer # NoBuffer
  BY DEF HeldSlotsDequeued
<1>1. s \in Taken(p) /\ HandsInv
  BY DEF Taken, SlotsInv, CoreInv
<1>2. core.slots[s].dequeueCount = 1 /\ core.slots[s].buffer # NoBuffer
  BY <1>1 DEF HandsInv
<1> QED
  BY <1>2 DEF IsDequeued

\* The type invariant is part of SlotsInv.
LEMMA TypesFollow == SlotsInv => TypeOK
<1> SUFFICES ASSUME SlotsInv PROVE TypeOK
  OBVIOUS
<1>1. VarsInv /\ LocalsOK /\ Typed(core) /\ ListsOK(core) /\ QueueOK(core, frameCounter)
  BY DEF SlotsInv, VarsInv, CoreInv, Typed
<1>2. core.slots \in [Slots -> [dequeueCount : Nat, queueCount : Nat,
                                 acquireCount : Nat, shared : BOOLEAN,
                                 buffer : Sizes \cup {NoBuffer},
                                 requested : BOOLEAN, frame : 0 .. MaxFrames]]
  <2>1. SlotStates \subseteq [dequeueCount : Nat, queueCount : Nat,
                              acquireCount : Nat, shared : BOOLEAN,
                              buffer : Sizes \cup {NoBuffer},
                              requested : BOOLEAN, frame : 0 .. MaxFrames]
    BY DEF SlotStates
  <2> QED
    BY <1>1, <2>1 DEF Typed
<1>3. core.queue \in Seq(Items)
  <2>1. PICK q \in Seq(QueueItems) : q = core.queue
    BY <1>1 DEF ListsOK
  <2>2. PICK k \in Nat : k = Len(q)
    OBVIOUS
  <2>3. \A i \in 1 .. k : q[i] \in QueueItems /\ q[i].frame \in 1 .. MaxFrames
    <3>1. \A i \in 1 .. k : q[i].frame \in 1 .. frameCounter
      BY <1>1, <2>1, <2>2 DEF QueueOK, QueueFits
    <3>2. frameCounter \in 0 .. MaxFrames
      BY <1>1 DEF VarsInv
    <3>3. \A i \in 1 .. k : q[i] \in QueueItems
      BY <2>2
    <3> QED
      BY <3>1, <3>2, <3>3, ProducerAssumption
  <2>4. \A i \in 1 .. k : q[i] \in Items
    BY <2>3 DEF QueueItems, Items
  <2> QED
    BY <2>1, <2>2, <2>4
<1> QED
  BY <1>1, <1>2, <1>3 DEF TypeOK, VarsInv, LocalsOK, Typed, ListsOK

\* A queued slot has one item, as frames are numbered upwards.
LEMMA ItemsAreValid == SlotsInv => QueuedItemsValid
<1> SUFFICES ASSUME SlotsInv, NEW s \in Slots
             PROVE  /\ core.slots[s].queueCount = Cardinality(ItemsOf(s))
                    /\ \A i \in ItemsOf(s) :
                        /\ core.slots[s].buffer # NoBuffer
                        /\ core.slots[s].shared \/ core.slots[s].frame = core.queue[i].frame
  BY DEF QueuedItemsValid
<1>1. /\ Typed(core) /\ QueueOK(core, frameCounter)
      /\ ~core.abandoned => PlacesOK(core)
  BY DEF SlotsInv, CoreInv
<1>2. DOMAIN core.queue = 1 .. Len(core.queue)
  BY <1>1 DEF Typed, ListsOK
<1>3. ItemsOf(s) = {i \in 1 .. Len(core.queue) : core.queue[i].slot = s /\ ~core.queue[i].stale}
  BY <1>2 DEF ItemsOf
<1>4. \A i \in ItemsOf(s) :
         core.slots[s].queueCount = 1 /\ core.slots[s].frame = core.queue[i].frame
  BY <1>1, <1>3 DEF QueueOK, QueueFits
<1>5. CASE core.slots[s].queueCount = 0
  <2>1. ItemsOf(s) = {}
    BY <1>4, <1>5
  <2> QED
    BY <1>5, <2>1, FS_EmptySet
<1>6. CASE core.slots[s].queueCount # 0
  <2>1. PICK i \in ItemsOf(s) : TRUE
    BY <1>1, <1>3, <1>6 DEF QueueOK, QueueFits
  <2>2. \A j \in ItemsOf(s) : core.queue[j].frame = core.queue[i].frame
    BY <1>4, <2>1
  <2>3. \A j, k \in 1 .. Len(core.queue) :
           j < k => core.queue[j].frame < core.queue[k].frame
    BY <1>1 DEF QueueOK, QueueFits
  <2>4. \A j \in 1 .. Len(core.queue) : core.queue[j].frame \in Int
    <3>1. PICK n \in Nat : n = frameCounter
      BY ProducerAssumption DEF SlotsInv, VarsInv
    <3>2. \A j \in 1 .. Len(core.queue) : core.queue[j].frame \in 1 .. n
      BY <1>1, <3>1 DEF QueueOK, QueueFits
    <3> QED
      BY <3>2
  <2>5. ItemsOf(s) \subseteq 1 .. Len(core.queue)
    BY <1>3
  <2>6. ASSUME NEW j \in ItemsOf(s)
        PROVE  j = i
    <3>1. PICK n \in Nat : n = Len(core.queue)
      BY <1>1 DEF Typed, ListsOK
    <3>2. i \in 1 .. n /\ j \in 1 .. n
      BY <2>1, <2>5, <3>1
    <3>3. ~(i < j) /\ ~(j < i)
      BY <2>2, <2>3, <2>4, <3>1, <3>2
    <3> QED
      BY <3>2, <3>3
  <2>7. ItemsOf(s) = {i}
    BY <2>1, <2>6
  <2>8. Cardinality(ItemsOf(s)) = 1 /\ core.slots[s].queueCount = 1
    BY <1>4, <2>1, <2>7, FS_Singleton
  <2>9. core.slots[s].buffer # NoBuffer
    <3>1. ~IsFree(core, s)
      BY <1>6 DEF IsFree
    <3>2. ~core.abandoned /\ PlaceOK(core, s)
      BY <1>1, <3>1 DEF QueueOK, PlacesOK
    <3>3. core.slots[s] \in SlotStates
      BY <1>1 DEF Typed
    <3>4. core.slots[s].dequeueCount = 0
      <4>1. PICK x \in SlotStates : x = core.slots[s]
        BY <3>3
      <4>2. x.dequeueCount + x.queueCount + x.acquireCount = 1 /\ x.queueCount = 1
        BY <2>8, <3>1, <3>2, <4>1 DEF PlaceOK
      <4>3. x.dequeueCount \in Nat /\ x.acquireCount \in Nat
        BY DEF SlotStates
      <4> QED
        BY <4>1, <4>2, <4>3
    <3> QED
      BY <3>1, <3>2, <3>4 DEF PlaceOK
  <2> QED
    BY <1>4, <2>8, <2>9
<1> QED
  BY <1>5, <1>6

\* A slot that a dequeue or attach has handed out stays dequeued, with its
\* buffer, until the thread gives it back: no other call, no wake-up, no
\* allocation in parallel or that failed, and no change of the default size
\* or of the modes takes it away (BufferQueueProducer.cpp).
THEOREM HandedOutSlotsStay ==
    ASSUME Separate
    PROVE  Spec => []HeldSlotsDequeued
<1>1. Spec => []SlotsInv
  BY SpecSlotsInv
<1>2. SlotsInv => HeldSlotsDequeued
  BY HeldAreDequeued
<1> QED
  BY <1>1, <1>2, PTL

\* With one allocating thread and no failing allocation the same holds across
\* disconnects, reconnections, the producer's death and abandonment, and
\* mIsAllocating is set exactly while that thread allocates: the disconnect
\* that waits for the flag waits for the right thing.
THEOREM HandsAlwaysSafe ==
    ASSUME Separate, OneAllocator, ~MayFail
    PROVE  Spec => []HandsSafe
<1>1. Spec => []SlotsInv
  BY SpecSlotsInv
<1>2. SlotsInv => HandsSafe
  <2>1. SlotsInv => HeldSlotsDequeued
    BY HeldAreDequeued
  <2>2. SlotsInv => AllocatingFlag
    BY DEF SlotsInv, FlagInv
  <2> QED
    BY <2>1, <2>2 DEF HandsSafe
<1> QED
  BY <1>1, <1>2, PTL

\* The consumer acquires what the producer queued: a queued slot is named by
\* one item, which finds its buffer and its frame in it, and the items are in
\* the order of their frames, across replaced frames, cleared queues and
\* reconnections.
THEOREM QueueAlwaysSafe ==
    ASSUME Separate
    PROVE  Spec => []QueueSafe
<1>1. Spec => []SlotsInv
  BY SpecSlotsInv
<1>2. SlotsInv => QueueSafe
  <2>1. SlotsInv => TypeOK /\ QueuedItemsValid
    BY TypesFollow, ItemsAreValid
  <2>2. SlotsInv => QueueInOrder
    <3> SUFFICES ASSUME SlotsInv PROVE QueueInOrder
      OBVIOUS
    <3>1. DOMAIN core.queue = 1 .. Len(core.queue)
      BY DEF SlotsInv, CoreInv, Typed, ListsOK
    <3>2. \A i, j \in 1 .. Len(core.queue) :
             i < j => core.queue[i].frame < core.queue[j].frame
      BY DEF SlotsInv, CoreInv, QueueOK, QueueFits
    <3> QED
      BY <3>1, <3>2 DEF QueueInOrder
  <2> QED
    BY <2>1, <2>2 DEF QueueSafe
<1> QED
  BY <1>1, <1>2, PTL

\* While no allocation fails and the consumer stays, every VALIDATE_CONSISTENCY
\* finds each slot in exactly one list and in the state of that list, no slot
\* is in the hands of two threads, and the slots in use are as many as the
\* modes ask for, whatever the order of the setters and connections.
THEOREM SlotsAlwaysSafe ==
    ASSUME Separate, ~MayFail, ~ControlledByApp, "disconnect" \notin ConsumerCalls
    PROVE  Spec => []SlotsSafe
<1>1. Spec => []SlotsInv
  BY SpecSlotsInv
<1>2. ASSUME SlotsInv
      PROVE  SlotsSafe
  <2>1. ValidatedConsistency /\ SlotAccounting
    BY <1>2 DEF SlotsInv, ClaimsInv, CountInv
  <2>2. HandsInv /\ ~core.abandoned
    BY <1>2 DEF SlotsInv, VarsInv, CoreInv
  <2>3. OneHolder
    BY <2>2 DEF HandsInv, Taken, OneHolder
  <2> QED
    BY <2>1, <2>3 DEF SlotsSafe
<1>3. SlotsInv => SlotsSafe
  BY <1>2
<1> QED
  BY <1>1, <1>3, PTL
=============================================================================

------------------------ MODULE WindowDispatchProofs ------------------------
(***************************************************************************)
(* Theorems about WindowDispatch for any number of readers, callers,       *)
(* windows and events.                                                     *)
(*                                                                         *)
(* LockInv: only the holder of window_list_lock writes the list, which     *)
(* also gives that a holder that died freezes it.                          *)
(* QueueInv: the driver's queue has one event for each thread between its  *)
(* zizhan_write and its dispatch_once.  EventInv adds that every event     *)
(* read is in the queue or dispatched, once for each reader of it.         *)
(*                                                                         *)
(* WindowInv: the window list, which is read without its lock.             *)
(*   ListInv  the stores of a locked section, in whatever order they reach *)
(*            memory, make one circular list in the end (SettledOf):       *)
(*            a window is being linked, or unlinked, or the list is        *)
(*            settled.  Whole, that the list is circular and each window   *)
(*            in it pointed to once, is about that list and not about      *)
(*            memory, which may lead into a window's poisoned pointer.     *)
(*   WalkInv  a walk has still ahead of it, in memory, every window it has *)
(*            to deliver to and has not, unless it stands where the next   *)
(*            step faults.                                                 *)
(***************************************************************************)
EXTENDS WindowDispatch, FiniteSetTheorems, FunctionTheorems, TLAPS

Labels == {"idle", "dispatch", "policy", "deliver", "memcpy", "copy_to_user",
           "locked", "unlock", "dead"}

ThreadTypes ==
    /\ pc \in [Threads -> Labels]
    /\ lock \in Callers \cup {Free}
    /\ stores = [c \in Callers |-> stores[c]]

\* Only the holder of window_list_lock has list stores under way, and it is
\* between lock_share and unlock_share (or died there).
StoresUnderLock ==
    \A c \in Callers :
        /\ stores[c] # {} => lock = c
        /\ lock = c <=> pc[c] \in {"locked", "unlock", "dead"}

LockInv == ThreadTypes /\ StoresUnderLock

\* A step of a reader touches neither the list nor the pc of a caller.
ReaderFrame ==
    /\ pc' \in [Threads -> Labels]
    /\ \A c \in Callers : pc'[c] = pc[c]
    /\ UNCHANGED list

\* A step of caller c touches no other thread's pc and no other thread's
\* stores.
CallerFrame(c) ==
    /\ pc' \in [Threads -> Labels]
    /\ \A t \in Threads \ {c} : pc'[t] = pc[t]
    /\ stores' = [d \in Callers |-> stores'[d]]
    /\ \A d \in Callers \ {c} : stores'[d] = stores[d]
    /\ UNCHANGED readers

\* What input_event_to_user does leaves the window list as it is.
LEMMA ReaderStepFrame ==
    ASSUME ThreadTypes, NEW r \in Readers, ReaderStep(r)
    PROVE  ReaderFrame
<1>1. r \in Threads /\ \A c \in Callers : c # r
  BY ReadersAssumption DEF Threads
<1>2. UNCHANGED list
  BY DEF ReaderStep, ZizhanWrite, Dequeue, StartWalk, WalkEnd, PolicyRejects,
         PolicyAccepts, Deliver, StartCopy, MemcpyDone, EndCopy, ReaderOops, CopyToUser
<1>3. \/ UNCHANGED pc
      \/ \E l \in Labels : pc' = [pc EXCEPT ![r] = l]
  BY DEF ReaderStep, ZizhanWrite, Dequeue, StartWalk, WalkEnd, PolicyRejects,
         PolicyAccepts, Deliver, StartCopy, MemcpyDone, EndCopy, ReaderOops, CopyToUser,
         Goto, Labels
<1> QED
  BY <1>1, <1>2, <1>3 DEF ReaderFrame, ThreadTypes, Threads

\* What a window system call does leaves the other threads as they are.
LEMMA CallerStepFrame ==
    ASSUME ThreadTypes, NEW c \in Callers, CallerStep(c)
    PROVE  CallerFrame(c)
<1>1. \/ UNCHANGED pc
      \/ \E l \in Labels : pc' = [pc EXCEPT ![c] = l]
  BY DEF CallerStep, LockShare, Acquire, AddWindow, AddWindowOops, SetWindow,
         GetWindow, Update, DelWindow, Commit, UnlockShare, Goto,
         Labels, list
<1>2. \/ UNCHANGED stores
      \/ \E S : stores' = [stores EXCEPT ![c] = S]
  BY DEF CallerStep, LockShare, Acquire, AddWindow, AddWindowOops, SetWindow,
         GetWindow, Update, DelWindow, Commit, UnlockShare, list
<1>3. UNCHANGED readers
  BY DEF CallerStep, LockShare, Acquire, AddWindow, AddWindowOops, SetWindow,
         GetWindow, Update, DelWindow, Commit, UnlockShare
<1> QED
  BY <1>1, <1>2, <1>3 DEF CallerFrame, ThreadTypes, Threads
LEMMA InitLockInv == Init => LockInv
BY FreeAssumption
DEF Init, LockInv, ThreadTypes, StoresUnderLock, Threads, Labels

\* The steps of a caller take the lock, work under it and release it.
LEMMA CallerKeepsLockInv ==
    ASSUME LockInv, NEW c \in Callers, CallerStep(c)
    PROVE  LockInv'
<1> USE FreeAssumption DEF LockInv
<1>1. CallerFrame(c)
  BY CallerStepFrame
<1>2. c \in Threads /\ c \in DOMAIN pc /\ c \in DOMAIN stores
  BY DEF ThreadTypes, Threads
<1>3. /\ lock' \in Callers \cup {Free}
      /\ stores'[c] # {} => lock' = c
      /\ lock' = c <=> pc'[c] \in {"locked", "unlock", "dead"}
      /\ \A d \in Callers \ {c} : lock' = d <=> lock = d
  <2>1. CASE LockShare(c)
    BY <1>2, <2>1
    DEF LockShare, Acquire, Goto, ThreadTypes, StoresUnderLock
  <2>2. CASE AddWindow(c) \/ SetWindow(c) \/ GetWindow(c)
    BY <1>2, <2>2
    DEF AddWindow, SetWindow, GetWindow, Update, Goto, ThreadTypes,
        StoresUnderLock
  <2>3. CASE AddWindowOops(c)
    BY <1>2, <2>3
    DEF AddWindowOops, Goto, list, ThreadTypes, StoresUnderLock
  <2>4. CASE DelWindow(c)
    BY <1>2, <2>4 DEF DelWindow, Goto, ThreadTypes, StoresUnderLock
  <2>5. CASE Commit(c)
    BY <1>2, <2>5 DEF Commit, ThreadTypes, StoresUnderLock
  <2>6. CASE UnlockShare(c)
    BY <1>2, <2>6
    DEF UnlockShare, Goto, ThreadTypes, StoresUnderLock
  <2> QED
    BY <2>1, <2>2, <2>3, <2>4, <2>5, <2>6 DEF CallerStep
<1>4. \A d \in Callers \ {c} : pc'[d] = pc[d] /\ stores'[d] = stores[d]
  BY <1>1 DEF CallerFrame, Threads
<1> QED
  BY <1>1, <1>3, <1>4 DEF CallerFrame, ThreadTypes, StoresUnderLock

LEMMA NextKeepsLockInv == LockInv /\ [Next]_vars => LockInv'
<1> SUFFICES ASSUME LockInv, [Next]_vars
             PROVE  LockInv'
  OBVIOUS
<1>1. ASSUME NEW r \in Readers, ReaderStep(r)
      PROVE  LockInv'
  <2>1. ReaderFrame
    BY <1>1, ReaderStepFrame DEF LockInv
  <2> QED
    BY <2>1 DEF ReaderFrame, LockInv, ThreadTypes, StoresUnderLock, list
<1>2. ASSUME NEW c \in Callers, CallerStep(c)
      PROVE  LockInv'
  BY <1>2, CallerKeepsLockInv
<1>3. CASE UNCHANGED vars
  BY <1>3 DEF vars, list, LockInv, ThreadTypes, StoresUnderLock
<1> QED
  BY <1>1, <1>2, <1>3 DEF Next

LEMMA LockInvariant == Spec => []LockInv
BY InitLockInv, NextKeepsLockInv, PTL DEF Spec

\* A caller that died in the critical section freezes the window list for
\* every number of callers: nothing but its own stores still changes it.
THEOREM DeadHolderFreezes == Spec => DeadHolderFreezesList
<1>1. ASSUME LockInv, [Next]_vars, NEW c \in Callers, pc[c] = "dead"
      PROVE  /\ lock' = lock /\ allocated' = allocated
             /\ list' # list => stores'[c] # stores[c]
  <2>1. lock = c /\ c # Free
    BY <1>1, FreeAssumption DEF LockInv, StoresUnderLock
  <2>2. \A d \in Callers : d # c => stores[d] = {} /\ pc[d] \notin {"locked", "unlock"}
    BY <1>1, <2>1 DEF LockInv, StoresUnderLock
  <2>3. CASE UNCHANGED list
    BY <2>3 DEF list
  <2>4. ASSUME NEW d \in Callers, CallerStep(d)
        PROVE  \/ UNCHANGED list
               \/ d = c /\ Commit(c)
    BY <1>1, <2>1, <2>2, <2>4
    DEF CallerStep, LockShare, AddWindow, AddWindowOops, SetWindow, GetWindow,
        Update, DelWindow, Commit, UnlockShare
  <2>5. CASE Commit(c)
    <3>1. PICK s \in stores[c] : stores' = [stores EXCEPT ![c] = @ \ {s}]
      BY <2>5 DEF Commit
    <3>2. stores'[c] # stores[c]
      BY <1>1, <3>1 DEF LockInv, ThreadTypes
    <3> QED
      BY <2>5, <3>2 DEF Commit
  <2>6. ASSUME NEW r \in Readers, ReaderStep(r)
        PROVE  UNCHANGED list
    BY <1>1, <2>6, ReaderStepFrame DEF LockInv, ReaderFrame
  <2> QED
    BY <1>1, <2>3, <2>4, <2>5, <2>6 DEF Next, vars
<1>2. LockInv /\ [Next]_vars => [\A c \in Callers : pc[c] = "dead" =>
            lock' = lock /\ allocated' = allocated
            /\ (list' # list => stores'[c] # stores[c])]_vars
  BY <1>1
<1> QED
  BY <1>2, LockInvariant, PTL DEF Spec, DeadHolderFreezesList
-----------------------------------------------------------------------------
QueueInv ==
    /\ pc \in [Threads -> Labels]
    /\ queue \in Seq(Nat)
    /\ nread \in [Readers -> Nat]
    /\ QueueBalance

\* A step that neither enqueues nor dequeues.
Balanced == UNCHANGED queue /\ Writing' = Writing

LEMMA InitQueueInv == Init => QueueInv
<1> SUFFICES ASSUME Init
             PROVE  QueueInv
  OBVIOUS
<1>1. Writing = {}
  BY DEF Init, Writing, Threads
<1> QED
  BY <1>1, FS_EmptySet DEF Init, QueueInv, QueueBalance, Threads, Labels

LEMMA WritingIsFinite == IsFiniteSet(Writing) /\ IsFiniteSet(Writing')
<1>1. Writing \subseteq Readers /\ Writing' \subseteq Readers
  BY DEF Writing
<1> QED
  BY <1>1, FS_Subset, ReadersAssumption

\* zizhan_write puts the thread's event in the queue.
LEMMA ZizhanWriteKeepsQueueInv ==
    ASSUME QueueInv, NEW r \in Readers, ZizhanWrite(r)
    PROVE  QueueInv'
<1>1. /\ queue' = Append(queue, nread[r] + 1)
      /\ nread' = [nread EXCEPT ![r] = @ + 1]
      /\ pc[r] = "idle" /\ pc' = [pc EXCEPT ![r] = "dispatch"]
  BY DEF ZizhanWrite, Goto
<1>2. Writing' = Writing \cup {r} /\ r \notin Writing
  BY <1>1 DEF QueueInv, Writing, Threads
<1>3. Cardinality(Writing') = Cardinality(Writing) + 1
  BY <1>2, WritingIsFinite, FS_AddElement
<1>4. queue' \in Seq(Nat) /\ Len(queue') = Len(queue) + 1
  BY <1>1 DEF QueueInv
<1> QED
  BY <1>1, <1>3, <1>4 DEF QueueInv, QueueBalance, Labels, Threads

\* dispatch_once finds an event and takes exactly one.
LEMMA DequeueKeepsQueueInv ==
    ASSUME QueueInv, NEW r \in Readers, Dequeue(r)
    PROVE  QueueInv'
<1>1. /\ queue # <<>> /\ queue' = Tail(queue)
      /\ nread' = nread
      /\ pc[r] = "dispatch" /\ pc' = [pc EXCEPT ![r] = "policy"]
  BY DEF Dequeue, StartWalk, Goto
<1>2. Writing' = Writing \ {r} /\ r \in Writing
  BY <1>1 DEF QueueInv, Writing, Threads
<1>3. Cardinality(Writing') = Cardinality(Writing) - 1
  BY <1>2, WritingIsFinite, FS_RemoveElement
<1>4. queue' \in Seq(Nat) /\ Len(queue') = Len(queue) - 1
  BY <1>1 DEF QueueInv
<1> QED
  BY <1>1, <1>3, <1>4 DEF QueueInv, QueueBalance, Labels, Threads

LEMMA OtherReaderStepBalanced ==
    ASSUME QueueInv, NEW r \in Readers, ReaderStep(r),
           ~ZizhanWrite(r), ~Dequeue(r)
    PROVE  Balanced /\ pc' \in [Threads -> Labels] /\ UNCHANGED nread
<1>1. UNCHANGED <<queue, nread>>
  BY DEF ReaderStep, WalkEnd, PolicyRejects, PolicyAccepts, Deliver, StartCopy,
         MemcpyDone, EndCopy, ReaderOops, CopyToUser
<1>2. \/ UNCHANGED pc
      \/ /\ pc[r] # "dispatch"
         /\ \E l \in Labels \ {"dispatch"} : pc' = [pc EXCEPT ![r] = l]
  BY DEF ReaderStep, WalkEnd, PolicyRejects, PolicyAccepts, Deliver, StartCopy,
         MemcpyDone, EndCopy, ReaderOops, CopyToUser, Goto, Labels
<1> QED
  BY <1>1, <1>2 DEF Balanced, Writing, QueueInv, Threads

LEMMA CallerStepBalanced ==
    ASSUME QueueInv, NEW c \in Callers, CallerStep(c)
    PROVE  Balanced /\ pc' \in [Threads -> Labels] /\ UNCHANGED nread
<1>1. UNCHANGED <<queue, nread>>
  BY DEF CallerStep, LockShare, Acquire, AddWindow, AddWindowOops, SetWindow,
         GetWindow, Update, DelWindow, Commit, UnlockShare, readers
<1>2. \/ UNCHANGED pc
      \/ \E l \in Labels : pc' = [pc EXCEPT ![c] = l]
  BY DEF CallerStep, LockShare, Acquire, AddWindow, AddWindowOops, SetWindow,
         GetWindow, Update, DelWindow, Commit, UnlockShare, Goto,
         Labels, list
<1>3. c \notin Readers
  BY ReadersAssumption
<1> QED
  BY <1>1, <1>2, <1>3 DEF Balanced, Writing, QueueInv, Threads

LEMMA NextKeepsQueueInv == QueueInv /\ [Next]_vars => QueueInv'
<1> SUFFICES ASSUME QueueInv, [Next]_vars
             PROVE  QueueInv'
  OBVIOUS
<1>1. ASSUME Balanced, pc' \in [Threads -> Labels], UNCHANGED nread
      PROVE  QueueInv'
  BY <1>1 DEF Balanced, QueueInv, QueueBalance
<1>2. ASSUME NEW r \in Readers, ReaderStep(r)
      PROVE  QueueInv'
  BY <1>1, <1>2, ZizhanWriteKeepsQueueInv, DequeueKeepsQueueInv,
     OtherReaderStepBalanced
<1>3. ASSUME NEW c \in Callers, CallerStep(c)
      PROVE  QueueInv'
  BY <1>1, <1>3, CallerStepBalanced
<1>4. CASE UNCHANGED vars
  BY <1>1, <1>4 DEF vars, Balanced, Writing, QueueInv
<1> QED
  BY <1>2, <1>3, <1>4 DEF Next

\* The shared queue holds one event for each thread between its zizhan_write
\* and its dispatch_once, for any number of readers: dequeue_event never meets
\* an empty queue, and the queue needs no more places than there are readers.
THEOREM QueueStaysBalanced == Spec => []QueueBalance
<1>1. QueueInv => QueueBalance
  BY DEF QueueInv
<1> QED
  BY <1>1, InitQueueInv, NextKeepsQueueInv, PTL DEF Spec
-----------------------------------------------------------------------------
\* The events: those read are in the queue or dispatched.
EventInv ==
    /\ QueueInv
    /\ queue \in Seq(Events)
    /\ nread \in [Readers -> 0 .. MaxEvents]
    /\ dispatched \in [Events -> Nat]
    /\ EventsAccounted

Places(q, e) == {i \in 1 .. Len(q) : q[i] = e}
HaveRead(e) == {r \in Readers : nread[r] >= e}

LEMMA PlacesAreFinite ==
    ASSUME NEW q \in Seq(Events), NEW e
    PROVE  IsFiniteSet(Places(q, e)) /\ Cardinality(Places(q, e)) \in Nat
<1>1. Places(q, e) \subseteq 1 .. Len(q) /\ Len(q) \in Int
  BY DEF Places
<1>2. IsFiniteSet(1 .. Len(q))
  BY <1>1, FS_Interval
<1>3. IsFiniteSet(Places(q, e))
  BY <1>1, <1>2, FS_Subset
<1> QED
  BY <1>3, FS_CardinalityType

\* An event at the tail is one place more of its own.
LEMMA PlacesOfAppend ==
    ASSUME NEW q \in Seq(Events), NEW e \in Events, NEW f \in Events
    PROVE  Cardinality(Places(Append(q, f), e)) =
               Cardinality(Places(q, e)) + (IF e = f THEN 1 ELSE 0)
<1>1. CASE e = f
  <2>1. Places(Append(q, f), e) = Places(q, e) \cup {Len(q) + 1} /\ Len(q) + 1 \notin Places(q, e)
    BY <1>1 DEF Places
  <2> QED
    BY <1>1, <2>1, PlacesAreFinite, FS_AddElement
<1>2. CASE e # f
  <2>1. Places(Append(q, f), e) = Places(q, e)
    BY <1>2 DEF Places
  <2> QED
    BY <1>2, <2>1, PlacesAreFinite
<1> QED
  BY <1>1, <1>2

\* The head's event has one place less in the tail.
LEMMA PlacesOfTail ==
    ASSUME NEW q \in Seq(Events), q # <<>>, NEW e \in Events
    PROVE  Cardinality(Places(q, e)) =
               Cardinality(Places(Tail(q), e)) + (IF e = Head(q) THEN 1 ELSE 0)
<1> DEFINE Rest == {i \in 2 .. Len(q) : q[i] = e}
<1>1. Tail(q) \in Seq(Events) /\ Len(Tail(q)) = Len(q) - 1 /\ Len(q) \in Nat \ {0}
  OBVIOUS
<1>2. IsFiniteSet(Rest) /\ Cardinality(Rest) = Cardinality(Places(Tail(q), e))
  <2> DEFINE g == [i \in Places(Tail(q), e) |-> i + 1]
  <2>1. \A i \in Places(Tail(q), e) : i \in Nat /\ g[i] = i + 1 /\ i + 1 \in Rest
    BY <1>1 DEF Places
  <2>2. \A j \in Rest : j - 1 \in Places(Tail(q), e) /\ (j - 1) + 1 = j
    BY <1>1 DEF Places
  <2>3. g \in Bijection(Places(Tail(q), e), Rest)
    <3>1. g \in [Places(Tail(q), e) -> Rest]
      BY <2>1
    <3>2. \A i, j \in Places(Tail(q), e) : g[i] = g[j] => i = j
      BY <2>1
    <3>3. \A j \in Rest : \E i \in Places(Tail(q), e) : g[i] = j
      BY <2>1, <2>2
    <3> HIDE DEF g
    <3> QED
      BY <3>1, <3>2, <3>3, Fun_IsBij
  <2>4. IsFiniteSet(Places(Tail(q), e))
    BY <1>1, PlacesAreFinite
  <2> HIDE DEF g, Rest
  <2>5. ExistsBijection(Places(Tail(q), e), Rest)
    BY <2>3 DEF ExistsBijection
  <2> QED
    BY <2>4, <2>5, FS_Bijection
<1>3. CASE e = Head(q)
  <2>1. Places(q, e) = Rest \cup {1} /\ 1 \notin Rest
    BY <1>1, <1>3 DEF Places
  <2> HIDE DEF Rest
  <2>2. Cardinality(Places(q, e)) = Cardinality(Rest) + 1
    BY <1>2, <2>1, FS_AddElement
  <2> QED
    BY <1>2, <1>3, <2>2
<1>4. CASE e # Head(q)
  <2>1. Places(q, e) = Rest
    BY <1>1, <1>4 DEF Places
  <2>2. Cardinality(Places(q, e)) \in Nat
    BY PlacesAreFinite
  <2> HIDE DEF Rest
  <2> QED
    BY <1>2, <1>4, <2>1, <2>2
<1> QED
  BY <1>3, <1>4

LEMMA ReadersOfAreFinite ==
    ASSUME NEW e
    PROVE  /\ IsFiniteSet(HaveRead(e)) /\ IsFiniteSet(HaveRead(e)')
           /\ Cardinality(HaveRead(e)) \in Nat
<1>1. HaveRead(e) \subseteq Readers /\ HaveRead(e)' \subseteq Readers
  BY DEF HaveRead
<1> QED
  BY <1>1, FS_Subset, FS_CardinalityType, ReadersAssumption

LEMMA InitEventInv == Init => EventInv
<1> SUFFICES ASSUME Init
             PROVE  EventInv
  OBVIOUS
<1>1. queue = <<>> /\ queue \in Seq(Events)
  BY DEF Init
<1>2. \A e \in Events : HaveRead(e) = {} /\ Places(queue, e) = {} /\ dispatched[e] = 0
  BY <1>1 DEF Init, HaveRead, Places, Events
<1>3. nread \in [Readers -> 0 .. MaxEvents] /\ dispatched \in [Events -> Nat]
  BY EventsAssumption DEF Init
<1>4. \A e \in Events :
          Cardinality(HaveRead(e)) = dispatched[e] + Cardinality(Places(queue, e))
  BY <1>2, FS_EmptySet
<1> QED
  BY <1>1, <1>3, <1>4, InitQueueInv DEF EventInv, EventsAccounted, HaveRead, Places

\* zizhan_write: the thread has read one event more, and that one is queued.
LEMMA ZizhanWriteKeepsEventInv ==
    ASSUME EventInv, NEW r \in Readers, ZizhanWrite(r)
    PROVE  EventInv'
<1>1. /\ nread[r] < MaxEvents
      /\ nread' = [nread EXCEPT ![r] = @ + 1]
      /\ queue' = Append(queue, nread[r] + 1)
      /\ UNCHANGED dispatched
  BY DEF ZizhanWrite
<1>2. nread[r] \in Nat /\ nread[r] + 1 \in Events
  BY <1>1, EventsAssumption DEF EventInv, Events
<1>3. nread' \in [Readers -> 0 .. MaxEvents] /\ queue' \in Seq(Events)
  BY <1>1, <1>2, EventsAssumption DEF EventInv, Events
<1>4. ASSUME NEW e \in Events
      PROVE  Cardinality(HaveRead(e)') = dispatched[e] + Cardinality(Places(queue', e))
  <2>1. Cardinality(Places(queue', e)) =
            Cardinality(Places(queue, e)) + (IF e = nread[r] + 1 THEN 1 ELSE 0)
    BY <1>1, <1>2, PlacesOfAppend DEF EventInv
  <2>2. Cardinality(HaveRead(e)) = dispatched[e] + Cardinality(Places(queue, e))
    BY DEF EventInv, EventsAccounted, HaveRead, Places
  <2>3. Cardinality(HaveRead(e)') =
            Cardinality(HaveRead(e)) + (IF e = nread[r] + 1 THEN 1 ELSE 0)
    <3>1. CASE e = nread[r] + 1
      <4>1. HaveRead(e)' = HaveRead(e) \cup {r} /\ r \notin HaveRead(e)
        BY <1>1, <1>2, <3>1, EventsAssumption DEF HaveRead, EventInv, Events
      <4> QED
        BY <3>1, <4>1, FS_AddElement, ReadersOfAreFinite
    <3>2. CASE e # nread[r] + 1
      <4>1. HaveRead(e)' = HaveRead(e)
        BY <1>1, <1>2, <3>2, EventsAssumption DEF HaveRead, EventInv, Events
      <4> QED
        BY <3>2, <4>1, ReadersOfAreFinite
    <3> QED
      BY <3>1, <3>2
  <2>4. Cardinality(Places(queue, e)) \in Nat /\ dispatched[e] \in Nat
    BY PlacesAreFinite DEF EventInv
  <2> QED
    BY <2>1, <2>2, <2>3, <2>4
<1> QED
  BY <1>1, <1>3, <1>4, ZizhanWriteKeepsQueueInv
  DEF EventInv, EventsAccounted, HaveRead, Places

\* dispatch_once: the event it dispatches has one place less in the queue.
LEMMA DequeueKeepsEventInv ==
    ASSUME EventInv, NEW r \in Readers, Dequeue(r)
    PROVE  EventInv'
<1>1. /\ queue # <<>> /\ queue' = Tail(queue)
      /\ dispatched' = [dispatched EXCEPT ![Head(queue)] = @ + 1]
      /\ UNCHANGED nread
  BY DEF Dequeue, StartWalk
<1>2. Head(queue) \in Events /\ queue' \in Seq(Events)
  BY <1>1 DEF EventInv
<1>3. dispatched' \in [Events -> Nat]
  BY <1>1, <1>2 DEF EventInv
<1>4. ASSUME NEW e \in Events
      PROVE  Cardinality(HaveRead(e)') = dispatched'[e] + Cardinality(Places(queue', e))
  <2>1. Cardinality(Places(queue, e)) =
            Cardinality(Places(queue', e)) + (IF e = Head(queue) THEN 1 ELSE 0)
    BY <1>1, PlacesOfTail DEF EventInv
  <2>2. Cardinality(HaveRead(e)) = dispatched[e] + Cardinality(Places(queue, e))
    BY DEF EventInv, EventsAccounted, HaveRead, Places
  <2>3. HaveRead(e)' = HaveRead(e)
    BY <1>1 DEF HaveRead
  <2>4. dispatched'[e] = dispatched[e] + (IF e = Head(queue) THEN 1 ELSE 0)
    BY <1>1, <1>2 DEF EventInv
  <2>5. Cardinality(Places(queue', e)) \in Nat /\ dispatched[e] \in Nat
    BY <1>2, PlacesAreFinite DEF EventInv
  <2> QED
    BY <2>1, <2>2, <2>3, <2>4, <2>5
<1> QED
  BY <1>1, <1>2, <1>3, <1>4, DequeueKeepsQueueInv
  DEF EventInv, EventsAccounted, HaveRead, Places

LEMMA NextKeepsEventInv == EventInv /\ [Next]_vars => EventInv'
<1> SUFFICES ASSUME EventInv, [Next]_vars
             PROVE  EventInv'
  OBVIOUS
<1>1. ASSUME UNCHANGED <<queue, nread, dispatched>>
      PROVE  EventInv'
  <2>1. QueueInv'
    BY NextKeepsQueueInv DEF EventInv
  <2> QED
    BY <1>1, <2>1 DEF EventInv, EventsAccounted
<1>2. ASSUME NEW r \in Readers, ReaderStep(r)
      PROVE  EventInv'
  <2>1. CASE ~ZizhanWrite(r) /\ ~Dequeue(r)
    BY <1>1, <1>2, <2>1
    DEF ReaderStep, WalkEnd, PolicyRejects, PolicyAccepts, Deliver, StartCopy,
        MemcpyDone, EndCopy, ReaderOops, CopyToUser
  <2> QED
    BY <2>1, ZizhanWriteKeepsEventInv, DequeueKeepsEventInv
<1>3. ASSUME NEW c \in Callers, CallerStep(c)
      PROVE  EventInv'
  BY <1>1, <1>3
  DEF CallerStep, LockShare, Acquire, AddWindow, AddWindowOops, SetWindow,
      GetWindow, Update, DelWindow, Commit, UnlockShare, readers
<1>4. CASE UNCHANGED vars
  BY <1>1, <1>4 DEF vars
<1> QED
  BY <1>2, <1>3, <1>4 DEF Next

\* For any number of readers: the shared queue holds one event for each thread
\* between its zizhan_write and its dispatch_once, so that dequeue_event never
\* meets an empty queue and needs no more places than there are readers; and
\* every event that was read is queued or was dispatched, once for each reader
\* of it, whichever thread's dispatch_once took it.
THEOREM EventsStayInHand == Spec => []EventsInHand
<1>1. EventInv => EventsInHand
  BY DEF EventInv, QueueInv, EventsInHand
<1> QED
  BY <1>1, InitEventInv, NextKeepsEventInv, PTL DEF Spec
-----------------------------------------------------------------------------
(* The list as pointers.  Ahead, what a walk meets, is the least set closed *)
(* under next, so that its lemmas need no induction.                        *)

\* Where a next pointer is: in a window or in the head of the list.
Heads == Nodes \cup {ListHead}

\* The walk from x stays in every closed set it starts in.
LEMMA AheadLeast ==
    ASSUME NEW nx, NEW x, NEW S \in SUBSET Nodes, ClosedUnder(nx, S),
           x \in Nodes => x \in S
    PROVE  Ahead(nx, x) \subseteq S
BY DEF Ahead

\* What it meets is such a set itself.
LEMMA AheadClosed ==
    ASSUME NEW nx, NEW x
    PROVE  /\ Ahead(nx, x) \subseteq Nodes
           /\ ClosedUnder(nx, Ahead(nx, x))
           /\ x \in Nodes => x \in Ahead(nx, x)
<1>1. ASSUME NEW m \in Ahead(nx, x), nx[m] \in Nodes
      PROVE  nx[m] \in Ahead(nx, x)
  <2> SUFFICES ASSUME NEW S \in SUBSET Nodes, ClosedUnder(nx, S),
                      x \in Nodes => x \in S
               PROVE  nx[m] \in S
    BY <1>1 DEF Ahead
  <2>1. m \in S
    BY AheadLeast
  <2> QED
    BY <1>1, <2>1 DEF ClosedUnder
<1> QED
  BY <1>1 DEF Ahead, ClosedUnder

\* Outside the windows a walk ends.
LEMMA NothingAhead ==
    ASSUME NEW nx, NEW x, x \notin Nodes
    PROVE  Ahead(nx, x) = {}
<1>1. {} \in SUBSET Nodes /\ ClosedUnder(nx, {})
  BY DEF ClosedUnder
<1>2. Ahead(nx, x) \subseteq {}
  BY <1>1, AheadLeast
<1> QED
  BY <1>2

\* After x come x and what is ahead of the next one.
LEMMA AheadStep ==
    ASSUME NEW nx, NEW x \in Nodes
    PROVE  Ahead(nx, x) \subseteq {x} \cup Ahead(nx, nx[x])
<1> DEFINE S == {x} \cup Ahead(nx, nx[x])
<1>1. S \in SUBSET Nodes /\ ClosedUnder(nx, S)
  BY AheadClosed DEF ClosedUnder
<1> QED
  BY <1>1, AheadLeast

\* A window is met first, or after one that is met.
LEMMA AheadPred ==
    ASSUME NEW nx, NEW x, NEW y \in Ahead(nx, x), y # x
    PROVE  \E z \in Ahead(nx, x) : nx[z] = y
<1> SUFFICES ASSUME \A z \in Ahead(nx, x) : nx[z] # y
             PROVE  FALSE
  OBVIOUS
<1> DEFINE S == Ahead(nx, x) \ {y}
<1>1. S \in SUBSET Nodes /\ ClosedUnder(nx, S) /\ (x \in Nodes => x \in S)
  BY AheadClosed DEF ClosedUnder
<1>2. Ahead(nx, x) \subseteq S
  <2> HIDE DEF S
  <2> QED BY <1>1, AheadLeast
<1> QED
  BY <1>2

\* The list is circular: one window is the last, none is pointed to twice and
\* those outside point to none.
OneEach(nx) == \A x, y \in Heads : nx[x] = nx[y] /\ nx[x] \in Heads => x = y
Whole(nx) ==
    /\ \E x \in LinkedIn(nx) \cup {ListHead} : nx[x] = ListHead
    /\ OneEach(nx)
    /\ \A x \in Nodes \ LinkedIn(nx) : nx[x] \in {Null, Poison}

\* Nothing points to a window outside the list.
LEMMA OutsideUnseen ==
    ASSUME NEW nx, Whole(nx), NEW n \in Nodes \ LinkedIn(nx)
    PROVE  \A y \in Heads : nx[y] # n
<1> SUFFICES ASSUME NEW y \in Heads, nx[y] = n PROVE FALSE
  OBVIOUS
<1>1. CASE y = ListHead
  BY <1>1, AheadClosed DEF LinkedIn
<1>2. CASE y \in LinkedIn(nx)
  BY <1>2, AheadClosed DEF LinkedIn, ClosedUnder
<1>3. CASE y \in Nodes \ LinkedIn(nx)
  BY <1>3, NodesAssumption DEF Whole
<1> QED
  BY <1>1, <1>2, <1>3 DEF Heads

\* list_add of a window to a whole list leaves a whole list.
LEMMA LinkWhole ==
    ASSUME NEW nx \in [Heads -> Pointers], Whole(nx),
           NEW n \in Nodes \ LinkedIn(nx),
           NEW new, new = [nx EXCEPT ![n] = nx[ListHead], ![ListHead] = n]
    PROVE  Whole(new) /\ LinkedIn(new) = LinkedIn(nx) \cup {n}
<1> DEFINE L == LinkedIn(nx)
           M == LinkedIn(new)
<1>1. /\ n # ListHead /\ ListHead \notin Nodes
      /\ new[n] = nx[ListHead] /\ new[ListHead] = n
      /\ \A y \in Heads \ {n, ListHead} : new[y] = nx[y]
  BY NodesAssumption DEF Heads
<1>2. L \subseteq Nodes /\ M \subseteq Nodes /\ ClosedUnder(nx, L) /\ ClosedUnder(new, M)
      /\ n \in M /\ (nx[ListHead] \in Nodes => nx[ListHead] \in L)
  BY <1>1, AheadClosed DEF LinkedIn
<1>3. M \subseteq L \cup {n}
  <2> DEFINE S == L \cup {n}
  <2>1. S \in SUBSET Nodes /\ ClosedUnder(new, S) /\ new[ListHead] \in S
    BY <1>1, <1>2 DEF ClosedUnder, Heads
  <2>2. Ahead(new, new[ListHead]) \subseteq S
    <3> HIDE DEF S
    <3> QED BY <2>1, AheadLeast
  <2> QED
    BY <2>2 DEF LinkedIn
<1>4. L \subseteq M
  <2>1. \A y \in Heads : nx[y] # n
    BY OutsideUnseen
  <2>2. ClosedUnder(nx, L \cap M)
    <3>1. \A y \in L : new[y] = nx[y]
      BY <1>1, <1>2 DEF Heads
    <3>2. \A y \in L \cap M : nx[y] \in Nodes => nx[y] \in L /\ nx[y] \in M
      <4> HIDE DEF L, M
      <4> QED BY <1>2, <3>1 DEF ClosedUnder
    <3> QED
      BY <3>2 DEF ClosedUnder
  <2>3. nx[ListHead] \in Nodes => nx[ListHead] \in L \cap M
    BY <1>1, <1>2 DEF ClosedUnder
  <2> QED
    <3> DEFINE S == L \cap M
    <3>1. S \in SUBSET Nodes
      BY <1>2
    <3>2. Ahead(nx, nx[ListHead]) \subseteq S
      <4> HIDE DEF S
      <4> QED BY <2>2, <2>3, <3>1, AheadLeast DEF S
    <3> QED
      BY <3>2 DEF LinkedIn
<1>5. M = L \cup {n}
  BY <1>2, <1>3, <1>4
<1>6. \E x \in M \cup {ListHead} : new[x] = ListHead
  <2>1. PICK x \in L \cup {ListHead} : nx[x] = ListHead
    BY DEF Whole
  <2>2. CASE x = ListHead
    BY <1>1, <1>5, <2>1, <2>2
  <2>3. CASE x \in L
    <3>1. x # n /\ x # ListHead /\ x \in Heads
      BY <1>1, <1>2, <2>3 DEF Heads
    <3> QED
      BY <1>1, <1>5, <2>1, <2>3, <3>1
  <2> QED
    BY <2>1, <2>2, <2>3
<1>7. OneEach(new)
  <2> SUFFICES ASSUME NEW x \in Heads, NEW y \in Heads, new[x] = new[y], new[x] \in Heads
               PROVE  x = y
    BY DEF OneEach
  <2>1. \A z \in Heads : nx[z] # n
    BY OutsideUnseen
  <2>2. \A z \in Heads : (new[z] = n) <=> z = ListHead
    BY <1>1, <2>1 DEF Heads
  <2>3. CASE x = ListHead \/ y = ListHead
    BY <2>2, <2>3, <1>1
  <2>4. CASE x # ListHead /\ y # ListHead
    <3>1. \A z \in Heads \ {ListHead} :
             new[z] = nx[IF z = n THEN ListHead ELSE z]
      BY <1>1
    <3> QED
      BY <1>1, <2>4, <3>1 DEF Whole, OneEach, Heads
  <2> QED
    BY <2>3, <2>4
<1>8. \A x \in Nodes \ M : new[x] \in {Null, Poison}
  BY <1>1, <1>5 DEF Whole, Heads
<1> QED
  BY <1>5, <1>6, <1>7, <1>8 DEF Whole

\* list_del of a window of a whole list leaves a whole list without it.
LEMMA UnlinkWhole ==
    ASSUME NEW nx \in [Heads -> Pointers], Whole(nx),
           NEW n \in LinkedIn(nx), NEW prev \in LinkedIn(nx) \cup {ListHead},
           nx[prev] = n,
           NEW new, new = [nx EXCEPT ![prev] = nx[n], ![n] = Poison]
    PROVE  prev # n /\ Whole(new) /\ LinkedIn(new) = LinkedIn(nx) \ {n}
<1> DEFINE L == LinkedIn(nx)
           M == LinkedIn(new)
<1>1. /\ L \subseteq Nodes /\ M \subseteq Nodes /\ ClosedUnder(nx, L) /\ ClosedUnder(new, M)
      /\ (nx[ListHead] \in Nodes => nx[ListHead] \in L)
      /\ (new[ListHead] \in Nodes => new[ListHead] \in M)
      /\ ListHead \notin Nodes /\ Poison \notin Heads /\ n \in Nodes /\ prev \in Heads
  BY AheadClosed, NodesAssumption, PointersAssumption DEF LinkedIn, Heads
<1>2. \A y \in Heads : nx[y] = n => y = prev
  BY <1>1 DEF Whole, OneEach, Heads
<1>3. prev # n
  <2> SUFFICES ASSUME prev = n PROVE FALSE
    OBVIOUS
  <2> DEFINE S == L \ {n}
  <2>1. S \in SUBSET Nodes /\ ClosedUnder(nx, S) /\ (nx[ListHead] \in Nodes => nx[ListHead] \in S)
    BY <1>1, <1>2 DEF ClosedUnder, Heads
  <2>2. Ahead(nx, nx[ListHead]) \subseteq S
    <3> HIDE DEF S
    <3> QED BY <2>1, AheadLeast
  <2> QED
    BY <2>2 DEF LinkedIn
<1>4. /\ new[prev] = nx[n] /\ new[n] = Poison
      /\ \A y \in Heads \ {n, prev} : new[y] = nx[y]
  BY <1>1, <1>3 DEF Heads
<1>5. \A y \in Heads : new[y] # n
  BY <1>1, <1>2, <1>3, <1>4 DEF Heads
<1>6. M \subseteq L \ {n}
  <2> DEFINE S == L \ {n}
  <2>1. S \in SUBSET Nodes /\ ClosedUnder(new, S) /\ (new[ListHead] \in Nodes => new[ListHead] \in S)
    <3>1. \A y \in L \cup {ListHead} : new[y] \in Nodes => new[y] \in L
      BY <1>1, <1>4 DEF ClosedUnder, Heads
    <3> QED
      BY <1>1, <1>5, <3>1 DEF ClosedUnder, Heads
  <2>2. Ahead(new, new[ListHead]) \subseteq S
    <3> HIDE DEF S
    <3> QED BY <2>1, AheadLeast
  <2> QED
    BY <2>2 DEF LinkedIn
<1>7. L \ {n} \subseteq M
  <2> DEFINE S == M \cup {n}
  <2>1. CASE nx[n] \in Nodes => nx[n] \in M
    <3>1. S \in SUBSET Nodes /\ ClosedUnder(nx, S) /\ (nx[ListHead] \in Nodes => nx[ListHead] \in S)
      <4>1. \A y \in M : y # n => nx[y] \in {n, new[y]}
        BY <1>1, <1>4 DEF Heads
      <4>2. nx[ListHead] \in {n, new[ListHead]}
        BY <1>1, <1>4 DEF Heads
      <4>3. \A y \in M : nx[y] \in Nodes => nx[y] \in S
        <5> HIDE DEF L, M
        <5> QED BY <1>1, <2>1, <4>1 DEF ClosedUnder
      <4> QED
        <5> HIDE DEF L, M
        <5> QED BY <1>1, <2>1, <4>2, <4>3 DEF ClosedUnder
    <3>2. Ahead(nx, nx[ListHead]) \subseteq S
      <4> HIDE DEF S
      <4> QED BY <3>1, AheadLeast
    <3> QED
      BY <3>2 DEF LinkedIn
  <2>2. CASE nx[n] \in Nodes /\ nx[n] \notin M
    <3>1. prev \notin M /\ prev # ListHead
      BY <1>1, <1>4, <2>2 DEF ClosedUnder
    <3>2. ClosedUnder(nx, M) /\ (nx[ListHead] \in Nodes => nx[ListHead] \in M)
      <4>1. n \notin M
        BY <1>6
      <4>2. \A y \in M \cup {ListHead} : new[y] = nx[y]
        BY <1>1, <1>4, <3>1, <4>1 DEF Heads
      <4> HIDE DEF L, M
      <4> QED
        BY <1>1, <4>2 DEF ClosedUnder
    <3>3. L \subseteq M
      BY <1>1, <3>2, AheadLeast DEF LinkedIn
    <3> QED
      BY <3>3
  <2> QED
    BY <2>1, <2>2
<1>8. M = L \ {n}
  BY <1>6, <1>7
<1>9. \E x \in M \cup {ListHead} : new[x] = ListHead
  <2>1. PICK x \in L \cup {ListHead} : nx[x] = ListHead
    BY DEF Whole
  <2>2. CASE x = n
    BY <1>1, <1>3, <1>4, <1>8, <2>1, <2>2
  <2>3. CASE x # n
    <3>1. x # prev /\ x \in Heads
      BY <1>1, <2>1 DEF Heads
    <3> QED
      BY <1>4, <1>8, <2>1, <2>3, <3>1
  <2> QED
    BY <2>2, <2>3
<1>10. OneEach(new)
  <2> SUFFICES ASSUME NEW x \in Heads, NEW y \in Heads, new[x] = new[y], new[x] \in Heads
               PROVE  x = y
    BY DEF OneEach
  <2>1. x # n /\ y # n
    BY <1>1, <1>4
  <2>2. \A z \in Heads \ {n} : new[z] = nx[IF z = prev THEN n ELSE z]
    BY <1>4
  <2> QED
    BY <1>1, <2>1, <2>2 DEF Whole, OneEach, Heads
<1>11. \A x \in Nodes \ M : new[x] \in {Null, Poison}
  <2> SUFFICES ASSUME NEW x \in Nodes \ M PROVE new[x] \in {Null, Poison}
    OBVIOUS
  <2>1. CASE x = n
    BY <1>4, <2>1
  <2>2. CASE x # n
    <3>1. x \notin L /\ x \in Heads /\ x # ListHead
      BY <1>1, <1>8, <2>2 DEF Heads
    <3>2. nx[x] \in {Null, Poison}
      BY <3>1 DEF Whole
    <3>3. x # prev
      BY <3>1
    <3> QED
      BY <1>4, <2>2, <3>1, <3>2, <3>3
  <2> QED
    BY <2>1, <2>2
<1> QED
  BY <1>3, <1>8, <1>9, <1>10, <1>11 DEF Whole

-----------------------------------------------------------------------------
(* What a store to one next pointer leaves ahead of a walk.                *)

\* Nothing but the head, or a window that led nowhere, is set: a walk still
\* meets what it would have met.
LEMMA ExtendedAhead ==
    ASSUME NEW nx \in [Heads -> Pointers], NEW p \in Heads, NEW v,
           p = ListHead \/ nx[p] = Null, NEW x
    PROVE  Ahead(nx, x) \subseteq Ahead([nx EXCEPT ![p] = v], x)
<1> DEFINE new == [nx EXCEPT ![p] = v]
           S == Ahead(new, x)
<1>1. S \in SUBSET Nodes /\ ClosedUnder(new, S) /\ (x \in Nodes => x \in S)
  <2> HIDE DEF new
  <2> QED BY AheadClosed
<1>2. ClosedUnder(nx, S)
  BY <1>1, NodesAssumption DEF ClosedUnder, Heads
<1> QED
  <2> HIDE DEF S
  <2>1. Ahead(nx, x) \subseteq S
    BY <1>1, <1>2, AheadLeast
  <2> QED BY <2>1 DEF S

\* A window is cut off behind while the list still leads to it: a walk that
\* would have met one of the windows that stay linked still does.
LEMMA CutAhead ==
    ASSUME NEW nx \in [Heads -> Pointers], OneEach(nx), NEW n \in Nodes,
           NEW x, NEW m \in Ahead(nx, x),
           m \in LinkedIn([nx EXCEPT ![n] = Poison])
    PROVE  m \in Ahead([nx EXCEPT ![n] = Poison], x)
<1> DEFINE new == [nx EXCEPT ![n] = Poison]
           S == Ahead(new, x)
           B == Ahead(nx, nx[n])
           T == LinkedIn(new)
<1>1. /\ new[n] = Poison /\ Poison \notin Heads /\ ListHead \notin Nodes
      /\ \A y \in Heads \ {n} : new[y] = nx[y]
  BY NodesAssumption, PointersAssumption DEF Heads
<1>2. /\ S \in SUBSET Nodes /\ ClosedUnder(new, S) /\ (x \in Nodes => x \in S)
      /\ B \in SUBSET Nodes /\ ClosedUnder(nx, B) /\ (nx[n] \in Nodes => nx[n] \in B)
      /\ T \in SUBSET Nodes
      /\ \A y \in T : y # new[ListHead] => \E z \in T : new[z] = y
  <2> HIDE DEF new
  <2> QED BY AheadClosed, AheadPred DEF LinkedIn
<1>3. \A y \in T : \E z \in T \cup {ListHead} : z # n /\ nx[z] = y
  <2> SUFFICES ASSUME NEW y \in T PROVE \E z \in T \cup {ListHead} : z # n /\ nx[z] = y
    OBVIOUS
  <2>1. PICK z \in T \cup {ListHead} : new[z] = y
    BY <1>2
  <2>2. y \in Heads /\ z \in Heads
    BY <1>2 DEF Heads
  <2> QED
    BY <1>1, <2>1, <2>2
<1>4. T \cap B = {}
  <2> DEFINE D == B \ T
  <2>1. nx[n] \in Nodes => nx[n] \in D
    <3> SUFFICES ASSUME nx[n] \in T PROVE FALSE
      BY <1>2
    <3>1. PICK z \in T \cup {ListHead} : z # n /\ nx[z] = nx[n]
      BY <1>3
    <3> QED
      BY <1>2, <3>1 DEF OneEach, Heads
  <2>2. ClosedUnder(nx, D)
    <3> SUFFICES ASSUME NEW y \in D, nx[y] \in T PROVE FALSE
      BY <1>2 DEF ClosedUnder
    <3>1. PICK z \in T \cup {ListHead} : z # n /\ nx[z] = nx[y]
      BY <1>3
    <3>2. z = y
      BY <1>2, <3>1 DEF OneEach, Heads
    <3> QED
      BY <1>1, <1>2, <3>2
  <2>3. B \subseteq D
    <3>1. D \in SUBSET Nodes
      BY <1>2
    <3> HIDE DEF D
    <3> QED BY <2>1, <2>2, <3>1, AheadLeast
  <2> QED
    BY <2>3
<1>5. CASE n \notin S
  <2>1. ClosedUnder(nx, S)
    <3>1. \A y \in S : new[y] = nx[y]
      BY <1>1, <1>2, <1>5 DEF Heads
    <3> HIDE DEF S, new
    <3> QED BY <1>2, <3>1 DEF ClosedUnder
  <2>2. Ahead(nx, x) \subseteq S
    <3> HIDE DEF S
    <3> QED BY <1>2, <2>1, AheadLeast
  <2> QED
    BY <2>2
<1>6. CASE n \in S
  <2> DEFINE U == S \cup B
  <2>1. U \in SUBSET Nodes /\ ClosedUnder(nx, U) /\ (x \in Nodes => x \in U)
    BY <1>1, <1>2 DEF ClosedUnder, Heads
  <2>2. Ahead(nx, x) \subseteq U
    <3> HIDE DEF U
    <3> QED BY <2>1, AheadLeast
  <2> QED
    BY <1>4, <2>2
<1> QED
  BY <1>5, <1>6

\* A window that nothing points to is cut off: only a walk in it notices.
LEMMA CutUnseenAhead ==
    ASSUME NEW nx \in [Heads -> Pointers], NEW n \in Nodes,
           \A y \in Heads : nx[y] # n, NEW v, NEW x, x # n
    PROVE  Ahead(nx, x) \subseteq Ahead([nx EXCEPT ![n] = v], x)
<1> DEFINE new == [nx EXCEPT ![n] = v]
           S == Ahead(new, x) \ {n}
<1>1. Ahead(new, x) \in SUBSET Nodes /\ ClosedUnder(new, Ahead(new, x))
      /\ (x \in Nodes => x \in Ahead(new, x))
  <2> HIDE DEF new
  <2> QED BY AheadClosed
<1>2. S \in SUBSET Nodes /\ ClosedUnder(nx, S) /\ (x \in Nodes => x \in S)
  BY <1>1 DEF ClosedUnder, Heads
<1>3. Ahead(nx, x) \subseteq S
  <2> HIDE DEF S
  <2> QED BY <1>2, AheadLeast
<1> QED
  BY <1>3

\* The window before n is made to pass n over: a walk still meets the others.
LEMMA SkipAhead ==
    ASSUME NEW nx \in [Heads -> Pointers], NEW prev \in Heads, NEW n \in Nodes,
           prev # n, nx[prev] = n, NEW v, nx[n] = v \/ nx[n] = Poison,
           NEW x, NEW m \in Ahead(nx, x), m # n
    PROVE  m \in Ahead([nx EXCEPT ![prev] = v], x)
<1> DEFINE new == [nx EXCEPT ![prev] = v]
           S == Ahead(new, x)
           U == S \cup {n}
<1>1. S \in SUBSET Nodes /\ ClosedUnder(new, S) /\ (x \in Nodes => x \in S)
  <2> HIDE DEF new
  <2> QED BY AheadClosed
<1>2. new[prev] = v /\ (\A y \in Heads \ {prev} : new[y] = nx[y]) /\ Poison \notin Nodes
  BY NodesAssumption
<1>3. CASE n \in S \/ prev \in S \/ nx[n] = Poison
  <2>1. U \in SUBSET Nodes /\ ClosedUnder(nx, U) /\ (x \in Nodes => x \in U)
    <3>1. \A y \in S \ {prev} : new[y] = nx[y]
      BY <1>1, <1>2 DEF Heads
    <3>2. nx[n] \in Nodes => nx[n] \in S
      <4>1. n \in S => (new[n] \in Nodes => new[n] \in S)
        BY <1>1 DEF ClosedUnder
      <4>2. prev \in S => (v \in Nodes => v \in S)
        BY <1>1, <1>2 DEF ClosedUnder
      <4>3. new[n] = nx[n]
        BY <1>2 DEF Heads
      <4> HIDE DEF S, new
      <4> QED BY <1>2, <1>3, <4>1, <4>2, <4>3
    <3>3. \A y \in S : nx[y] \in Nodes => nx[y] \in U
      <4> HIDE DEF S, new
      <4> QED BY <1>1, <3>1 DEF ClosedUnder
    <3>4. \A y \in U : nx[y] \in Nodes => nx[y] \in U
      <4> HIDE DEF S, new
      <4> QED BY <3>2, <3>3
    <3>5. U \in SUBSET Nodes
      <4> HIDE DEF S, new
      <4> QED BY <1>1
    <3> HIDE DEF S, new
    <3> QED BY <1>1, <3>4, <3>5 DEF ClosedUnder
  <2>2. Ahead(nx, x) \subseteq U
    <3> HIDE DEF U
    <3> QED BY <2>1, AheadLeast
  <2> QED
    BY <2>2
<1>4. CASE n \notin S /\ prev \notin S
  <2>1. ClosedUnder(nx, S)
    <3>1. \A y \in S : new[y] = nx[y]
      BY <1>1, <1>2, <1>4 DEF Heads
    <3> HIDE DEF S, new
    <3> QED BY <1>1, <3>1 DEF ClosedUnder
  <2>2. Ahead(nx, x) \subseteq S
    <3> HIDE DEF S
    <3> QED BY <1>1, <2>1, AheadLeast
  <2> QED
    BY <2>2
<1> QED
  BY <1>3, <1>4

-----------------------------------------------------------------------------
(* The list and the stores under way.                                      *)

\* The stores there are.
StoreKinds ==
    [node : Heads, member : {"next"}, value : Pointers]
        \cup [node : Nodes, member : {"pid"}, value : Pids]
        \cup [node : Nodes, member : {"zorder"}, value : Zorders]
        \cup [node : Nodes, member : {"event_buffer"}, value : Buffers]

\* What the list becomes when the stores of P reach memory nx.
NextsOf(P) == {s \in P : s.member = "next"}
SettledOf(nx, P) ==
    [x \in Heads |->
        IF \E s \in NextsOf(P) : s.node = x
        THEN (CHOOSE s \in NextsOf(P) : s.node = x).value
        ELSE nx[x]]

\* Window n is being added: it led nowhere before.
Linking(nx, P, n) ==
    LET E == SettledOf(nx, P) IN
    /\ NextsOf(P) \subseteq {Store(n, "next", E[n]), Store(ListHead, "next", n)}
    /\ E[ListHead] = n
    /\ Store(n, "next", E[n]) \in P => nx[n] = Null

\* Window n is being deleted from behind prev.
Unlinking(nx, P, n, prev) ==
    LET E == SettledOf(nx, P) IN
    /\ prev # n
    /\ NextsOf(P) \subseteq {Store(prev, "next", E[prev]), Store(n, "next", Poison)}
    /\ n \notin LinkedIn(E) /\ E[n] = Poison
    /\ Store(prev, "next", E[prev]) \in P => nx[prev] = n
    /\ Store(n, "next", Poison) \in P => nx[n] = E[prev]

\* What the stores to next pointers can be together.
Shape(nx, P) ==
    \/ NextsOf(P) = {}
    \/ \E n \in Nodes : Linking(nx, P, n)
    \/ \E n \in Nodes, prev \in Heads : Unlinking(nx, P, n, prev)

\* The members of n are set or will be.
Complete(w, P, n) ==
    \A m \in {"pid", "event_buffer"} :
        w[n][m] # Null \/ \E s \in P : s.node = n /\ s.member = m

\* The list that memory and the stores P come to is whole, of allocated windows
\* with their members set; an unallocated window is in no list.
ListOf(nx, w, al, P) ==
    LET E == SettledOf(nx, P) IN
    /\ Shape(nx, P) /\ Whole(E)
    /\ LinkedIn(E) \subseteq al
    /\ \A n \in LinkedIn(E) : Complete(w, P, n)
    /\ \A n \in Nodes \ al : nx[n] = Null
    /\ \A s \in P : s.node \in al \cup {ListHead}

\* A next pointer has one store under way at most.
LEMMA OneStoreEach ==
    ASSUME NEW nx, NEW P, P \subseteq StoreKinds, Shape(nx, P)
    PROVE  \A s, t \in NextsOf(P) : s.node = t.node => s = t
<1>1. ListHead \notin Nodes
  BY NodesAssumption
<1>2. ASSUME NEW n \in Nodes, Linking(nx, P, n)
      PROVE  \A s, t \in NextsOf(P) : s.node = t.node => s = t
  BY <1>1, <1>2 DEF Linking, Store
<1>3. ASSUME NEW n \in Nodes, NEW prev \in Heads, Unlinking(nx, P, n, prev)
      PROVE  \A s, t \in NextsOf(P) : s.node = t.node => s = t
  BY <1>3 DEF Unlinking, Store
<1> QED
  BY <1>2, <1>3 DEF Shape

\* So the settled list has the value of that store, or what memory has.
LEMMA SettledValue ==
    ASSUME NEW nx, NEW P, \A s, t \in NextsOf(P) : s.node = t.node => s = t
    PROVE  /\ \A s \in NextsOf(P) : s.node \in Heads => SettledOf(nx, P)[s.node] = s.value
           /\ \A x \in Heads : (\A s \in NextsOf(P) : s.node # x) => SettledOf(nx, P)[x] = nx[x]
<1>1. ASSUME NEW s \in NextsOf(P), s.node \in Heads
      PROVE  SettledOf(nx, P)[s.node] = s.value
  <2> DEFINE t == CHOOSE t \in NextsOf(P) : t.node = s.node
  <2>1. t \in NextsOf(P) /\ t.node = s.node
    BY <1>1
  <2>2. t = s
    <3> HIDE DEF t
    <3> QED BY <1>1, <2>1
  <2> QED
    BY <1>1, <2>2 DEF SettledOf
<1> QED
  BY <1>1 DEF SettledOf

\* With no store under way the list is as it is.
LEMMA SettledAlready ==
    ASSUME NEW nx \in [Heads -> Pointers], NEW P, NextsOf(P) = {}
    PROVE  SettledOf(nx, P) = nx
BY DEF SettledOf

\* A store reaches memory: the list goes on becoming the same.
LEMMA CommitSettles ==
    ASSUME NEW nx \in [Heads -> Pointers], NEW P, P \subseteq StoreKinds,
           \A s, t \in NextsOf(P) : s.node = t.node => s = t,
           NEW s \in NextsOf(P)
    PROVE  SettledOf([nx EXCEPT ![s.node] = s.value], P \ {s}) = SettledOf(nx, P)
<1> DEFINE new == [nx EXCEPT ![s.node] = s.value]
           Q == P \ {s}
<1>1. s.node \in Heads
  BY DEF NextsOf, StoreKinds, Heads
<1>2. NextsOf(Q) = NextsOf(P) \ {s}
  BY DEF NextsOf
<1>3. \A a, b \in NextsOf(Q) : a.node = b.node => a = b
  BY <1>2
<1>4. /\ \A t \in NextsOf(Q) : t.node \in Heads => SettledOf(new, Q)[t.node] = t.value
      /\ \A x \in Heads : (\A t \in NextsOf(Q) : t.node # x) => SettledOf(new, Q)[x] = new[x]
  <2> HIDE DEF new, Q
  <2> QED BY <1>3, SettledValue
<1>5. /\ \A t \in NextsOf(P) : t.node \in Heads => SettledOf(nx, P)[t.node] = t.value
      /\ \A x \in Heads : (\A t \in NextsOf(P) : t.node # x) => SettledOf(nx, P)[x] = nx[x]
  BY SettledValue
<1>6. ASSUME NEW x \in Heads
      PROVE  SettledOf(new, Q)[x] = SettledOf(nx, P)[x]
  <2>1. CASE x = s.node
    <3>1. \A t \in NextsOf(Q) : t.node # x
      BY <1>2, <2>1
    <3>2. SettledOf(new, Q)[x] = new[x] /\ new[x] = s.value
      BY <1>1, <1>4, <2>1, <3>1
    <3> QED
      BY <1>1, <1>5, <2>1, <3>2
  <2>2. CASE x # s.node /\ \E t \in NextsOf(P) : t.node = x
    <3>1. PICK t \in NextsOf(P) : t.node = x
      BY <2>2
    <3>2. t \in NextsOf(Q)
      BY <1>2, <2>2, <3>1
    <3> QED
      <4> HIDE DEF new, Q
      <4> QED BY <1>4, <1>5, <3>1, <3>2
  <2>3. CASE x # s.node /\ \A t \in NextsOf(P) : t.node # x
    <3>1. SettledOf(new, Q)[x] = new[x] /\ SettledOf(nx, P)[x] = nx[x]
      <4> HIDE DEF new
      <4> QED BY <1>2, <1>4, <1>5, <2>3
    <3> QED
      BY <2>3, <3>1
  <2> QED
    BY <2>1, <2>2, <2>3
<1>7. SettledOf(new, Q) = [x \in Heads |-> SettledOf(new, Q)[x]]
      /\ SettledOf(nx, P) = [x \in Heads |-> SettledOf(nx, P)[x]]
  BY DEF SettledOf
<1> QED
  <2> HIDE DEF new, Q
  <2>1. SettledOf(new, Q) = SettledOf(nx, P)
    BY <1>6, <1>7
  <2> QED BY <2>1 DEF new, Q

\* A next pointer reaches memory.
LEMMA CommitNextKeepsList ==
    ASSUME NEW nx \in [Heads -> Pointers], NEW w, NEW al, NEW P, P \subseteq StoreKinds,
           ListOf(nx, w, al, P), NEW s \in NextsOf(P)
    PROVE  ListOf([nx EXCEPT ![s.node] = s.value], w, al, P \ {s})
<1> DEFINE new == [nx EXCEPT ![s.node] = s.value]
           Q == P \ {s}
           E == SettledOf(nx, P)
<1>1. /\ s \in P /\ s.node \in Heads /\ s.member = "next"
      /\ new[s.node] = s.value /\ \A x \in Heads \ {s.node} : new[x] = nx[x]
      /\ NextsOf(Q) = NextsOf(P) \ {s}
      /\ ListHead \in Heads /\ Nodes \subseteq Heads /\ ListHead \notin Nodes
  BY NodesAssumption DEF NextsOf, StoreKinds, Heads
<1>2. \A a, b \in NextsOf(P) : a.node = b.node => a = b
  BY OneStoreEach DEF ListOf
<1>3. SettledOf(new, Q) = E
  BY <1>2, CommitSettles
<1>4. Shape(new, Q)
  <2> HIDE DEF new, E
  <2>1. CASE NextsOf(P) = {}
    BY <2>1
  <2>2. ASSUME NEW n \in Nodes, Linking(nx, P, n)
        PROVE  Linking(new, Q, n)
    <3>1. /\ NextsOf(P) \subseteq {Store(n, "next", E[n]), Store(ListHead, "next", n)}
          /\ E[ListHead] = n
          /\ Store(n, "next", E[n]) \in P => nx[n] = Null
      BY <2>2 DEF Linking, E
    <3>2. ASSUME Store(n, "next", E[n]) \in Q
          PROVE  new[n] = Null
      <4>1. Store(n, "next", E[n]) \in NextsOf(P) /\ Store(n, "next", E[n]) # s
        BY <3>2 DEF NextsOf, Store
      <4>2. s.node # n
        BY <1>2, <4>1 DEF Store
      <4> QED
        BY <1>1, <3>1, <4>1, <4>2 DEF NextsOf
    <3> QED
      BY <1>1, <1>3, <3>1, <3>2 DEF Linking
  <2>3. ASSUME NEW n \in Nodes, NEW prev \in Heads, Unlinking(nx, P, n, prev)
        PROVE  Unlinking(new, Q, n, prev)
    <3>1. /\ prev # n
          /\ NextsOf(P) \subseteq {Store(prev, "next", E[prev]), Store(n, "next", Poison)}
          /\ n \notin LinkedIn(E) /\ E[n] = Poison
          /\ Store(prev, "next", E[prev]) \in P => nx[prev] = n
          /\ Store(n, "next", Poison) \in P => nx[n] = E[prev]
      BY <2>3 DEF Unlinking, E
    <3>2. ASSUME Store(prev, "next", E[prev]) \in Q
          PROVE  new[prev] = n
      <4>1. Store(prev, "next", E[prev]) \in NextsOf(P) /\ Store(prev, "next", E[prev]) # s
        BY <3>2 DEF NextsOf, Store
      <4>2. s.node # prev
        BY <1>2, <4>1 DEF Store
      <4> QED
        BY <1>1, <3>1, <4>1, <4>2 DEF NextsOf
    <3>3. ASSUME Store(n, "next", Poison) \in Q
          PROVE  new[n] = E[prev]
      <4>1. Store(n, "next", Poison) \in NextsOf(P) /\ Store(n, "next", Poison) # s
        BY <3>3 DEF NextsOf, Store
      <4>2. s.node # n
        BY <1>2, <4>1 DEF Store
      <4> QED
        BY <1>1, <3>1, <4>1, <4>2 DEF NextsOf
    <3> QED
      BY <1>1, <1>3, <3>1, <3>2, <3>3 DEF Unlinking
  <2> QED
    BY <2>1, <2>2, <2>3 DEF Shape, ListOf
<1>5. \A n \in LinkedIn(E) : Complete(w, Q, n)
  <2> SUFFICES ASSUME NEW n \in LinkedIn(E) PROVE Complete(w, Q, n)
    OBVIOUS
  <2>1. Complete(w, P, n)
    BY DEF ListOf
  <2> QED
    BY <1>1, <2>1 DEF Complete
<1>6. \A n \in Nodes \ al : new[n] = Null
  BY <1>1 DEF ListOf
<1>7. \A t \in Q : t.node \in al \cup {ListHead}
  BY DEF ListOf
<1>8. Whole(E) /\ LinkedIn(E) \subseteq al
  BY DEF ListOf
<1> QED
  <2> HIDE DEF new, Q, E
  <2>1. ListOf(new, w, al, Q)
    BY <1>3, <1>4, <1>5, <1>6, <1>7, <1>8 DEF ListOf
  <2> QED BY <2>1 DEF new, Q

\* Another member of a window reaches memory.
LEMMA CommitMemberKeepsList ==
    ASSUME NEW nx \in [Heads -> Pointers], NEW w \in [Nodes -> Windows], NEW al,
           NEW P, P \subseteq StoreKinds, ListOf(nx, w, al, P),
           NEW s \in P, s.member # "next"
    PROVE  ListOf(nx, [w EXCEPT ![s.node][s.member] = s.value], al, P \ {s})
<1> DEFINE v == [w EXCEPT ![s.node][s.member] = s.value]
           Q == P \ {s}
<1>1. NextsOf(Q) = NextsOf(P)
  BY DEF NextsOf
<1>2. SettledOf(nx, Q) = SettledOf(nx, P)
  BY <1>1 DEF SettledOf
<1>3. Shape(nx, Q)
  <2>1. Shape(nx, P)
    BY DEF ListOf
  <2> QED
    BY <1>1, <1>2, <2>1 DEF Shape, Linking, Unlinking
<1>4. s.node \in Nodes /\ s.member \in {"pid", "zorder", "event_buffer"}
      /\ (s.member \in {"pid", "event_buffer"} => s.value # Null)
  BY NullAssumption DEF StoreKinds
<1>5. ASSUME NEW n \in Nodes, Complete(w, P, n)
      PROVE  Complete(v, Q, n)
  <2> SUFFICES ASSUME NEW m \in {"pid", "event_buffer"}
               PROVE  v[n][m] # Null \/ \E t \in Q : t.node = n /\ t.member = m
    BY DEF Complete
  <2>0. w[n] \in Windows /\ w[s.node] \in Windows
    BY <1>4
  <2>1. CASE s.node = n /\ s.member = m
    BY <1>4, <2>0, <2>1 DEF Windows
  <2>2. CASE ~(s.node = n /\ s.member = m)
    <3>1. v[n][m] = w[n][m]
      BY <1>4, <2>0, <2>2 DEF Windows
    <3> QED
      BY <1>5, <2>2, <3>1 DEF Complete
  <2> QED
    BY <2>1, <2>2
<1>6. LinkedIn(SettledOf(nx, P)) \subseteq Nodes
  BY AheadClosed DEF LinkedIn
<1> QED
  <2> HIDE DEF v, Q
  <2>1. \A t \in Q : t \in P
    BY DEF Q
  <2>2. ListOf(nx, v, al, Q)
    BY <1>2, <1>3, <1>5, <1>6, <2>1 DEF ListOf
  <2> QED BY <2>2 DEF v, Q

\* The two stores of list_add come to a whole list with the window in it.
LEMMA LinkSettles ==
    ASSUME NEW nx \in [Heads -> Pointers], Whole(nx),
           NEW n \in Nodes \ LinkedIn(nx), NEW P,
           NextsOf(P) = {Store(n, "next", nx[ListHead]), Store(ListHead, "next", n)}
    PROVE  /\ SettledOf(nx, P) = [nx EXCEPT ![n] = nx[ListHead], ![ListHead] = n]
           /\ Whole(SettledOf(nx, P))
           /\ LinkedIn(SettledOf(nx, P)) = LinkedIn(nx) \cup {n}
<1> DEFINE first == Store(n, "next", nx[ListHead])
           second == Store(ListHead, "next", n)
           E == [nx EXCEPT ![n] = nx[ListHead], ![ListHead] = n]
<1>1. ListHead \in Heads /\ Nodes \subseteq Heads /\ ListHead # n
  BY NodesAssumption DEF Heads
<1>2. NextsOf(P) = {first, second} /\ first.node = n /\ second.node = ListHead
      /\ first.value = nx[ListHead] /\ second.value = n
  BY DEF Store
<1>3. SettledOf(nx, P) = E
  <2>1. /\ \A s \in NextsOf(P) : s.node \in Heads => SettledOf(nx, P)[s.node] = s.value
        /\ \A x \in Heads : (\A s \in NextsOf(P) : s.node # x) => SettledOf(nx, P)[x] = nx[x]
    <3>1. \A s, t \in NextsOf(P) : s.node = t.node => s = t
      <4> HIDE DEF first, second
      <4> QED BY <1>1, <1>2
    <3> QED BY <3>1, SettledValue
  <2>2. ASSUME NEW x \in Heads PROVE SettledOf(nx, P)[x] = E[x]
    <3> HIDE DEF first, second
    <3>1. CASE x = n
      BY <1>1, <1>2, <2>1, <3>1
    <3>2. CASE x = ListHead
      BY <1>1, <1>2, <2>1, <3>2
    <3>3. CASE x # n /\ x # ListHead
      BY <1>1, <1>2, <2>1, <3>3
    <3> QED
      BY <3>1, <3>2, <3>3
  <2>3. SettledOf(nx, P) = [x \in Heads |-> SettledOf(nx, P)[x]]
    BY DEF SettledOf
  <2> QED
    BY <2>2, <2>3
<1>4. Whole(E) /\ LinkedIn(E) = LinkedIn(nx) \cup {n}
  BY LinkWhole
<1> QED
  BY <1>3, <1>4

\* add_window's stores, under way together, add the window to the list.
LEMMA AddKeepsList ==
    ASSUME NEW nx \in [Heads -> Pointers], NEW w \in [Nodes -> Windows],
           NEW al \in SUBSET Nodes, ListOf(nx, w, al, {}),
           NEW n \in Nodes \ al, NEW p, NEW z, NEW b
    PROVE  ListOf(nx, w, al \cup {n},
                  Members(n, p, z, b)
                      \cup {Store(n, "next", nx[ListHead]), Store(ListHead, "next", n)})
<1> DEFINE first == Store(n, "next", nx[ListHead])
           second == Store(ListHead, "next", n)
           P == Members(n, p, z, b) \cup {first, second}
           E == SettledOf(nx, P)
<1>1. ListHead \in Heads /\ Nodes \subseteq Heads /\ ListHead # n
  BY NodesAssumption DEF Heads
<1>2. NextsOf(P) = {first, second}
  BY DEF NextsOf, Members, Store
<1>3. Whole(nx) /\ LinkedIn(nx) \subseteq al /\ nx[n] = Null
      /\ \A m \in LinkedIn(nx) : Complete(w, {}, m)
  <2>1. SettledOf(nx, {}) = nx
    BY SettledAlready DEF NextsOf
  <2> QED
    BY <2>1 DEF ListOf
<1>4. /\ E = [nx EXCEPT ![n] = nx[ListHead], ![ListHead] = n]
      /\ Whole(E) /\ LinkedIn(E) = LinkedIn(nx) \cup {n}
  <2> HIDE DEF P
  <2> QED BY <1>2, <1>3, LinkSettles
<1>5. Linking(nx, P, n)
  <2>1. E[n] = nx[ListHead] /\ E[ListHead] = n
    <3> HIDE DEF E
    <3> QED BY <1>1, <1>4
  <2> HIDE DEF P
  <2> QED
    BY <1>2, <1>3, <2>1 DEF Linking
<1>6. \A m \in LinkedIn(E) : Complete(w, P, m)
  <2>1. Complete(w, P, n)
    <3>1. Store(n, "pid", p) \in P /\ Store(n, "event_buffer", b) \in P
      BY DEF Members
    <3> HIDE DEF P
    <3> QED BY <3>1 DEF Complete, Store
  <2>2. \A m \in LinkedIn(nx) : Complete(w, P, m)
    BY <1>3 DEF Complete
  <2> HIDE DEF P, E
  <2> QED
    BY <1>4, <2>1, <2>2
<1>7. \A s \in P : s.node \in (al \cup {n}) \cup {ListHead}
  BY DEF Members, Store
<1>8. \A m \in Nodes \ (al \cup {n}) : nx[m] = Null
  BY DEF ListOf
<1> QED
  <2> HIDE DEF P
  <2>1. ListOf(nx, w, al \cup {n}, P)
    BY <1>3, <1>4, <1>5, <1>6, <1>7, <1>8 DEF ListOf, Shape
  <2> QED BY <2>1 DEF P

\* set_window's stores, and no store at all, leave the list's pointers alone.
LEMMA SetKeepsList ==
    ASSUME NEW nx \in [Heads -> Pointers], NEW w, NEW al, ListOf(nx, w, al, {}),
           NEW P, \A s \in P : s.member # "next" /\ s.node \in LinkedIn(nx)
    PROVE  ListOf(nx, w, al, P)
<1>1. NextsOf(P) = {} /\ NextsOf({}) = {}
  BY DEF NextsOf
<1>2. SettledOf(nx, P) = nx /\ SettledOf(nx, {}) = nx
  BY <1>1, SettledAlready
<1>3. \A n \in LinkedIn(nx) : Complete(w, P, n)
  BY <1>2 DEF ListOf, Complete
<1> QED
  BY <1>1, <1>2, <1>3 DEF ListOf, Shape

\* del_window's stores take the window out of the list.
LEMMA DelKeepsList ==
    ASSUME NEW nx \in [Heads -> Pointers], NEW w, NEW al \in SUBSET Nodes,
           ListOf(nx, w, al, {}),
           NEW n \in LinkedIn(nx), NEW prev \in LinkedIn(nx) \cup {ListHead},
           nx[prev] = n
    PROVE  ListOf(nx, w, al, {Store(prev, "next", nx[n]), Store(n, "next", Poison)})
<1> DEFINE first == Store(prev, "next", nx[n])
           second == Store(n, "next", Poison)
           P == {first, second}
           E == [nx EXCEPT ![prev] = nx[n], ![n] = Poison]
<1>1. SettledOf(nx, {}) = nx
  BY SettledAlready DEF NextsOf
<1>2. Whole(nx) /\ LinkedIn(nx) \subseteq al /\ \A m \in LinkedIn(nx) : Complete(w, {}, m)
  BY <1>1 DEF ListOf
<1>3. prev # n /\ Whole(E) /\ LinkedIn(E) = LinkedIn(nx) \ {n}
  <2>1. E = [nx EXCEPT ![prev] = nx[n], ![n] = Poison]
    OBVIOUS
  <2> HIDE DEF first, second, P, E
  <2> QED BY <1>2, <2>1, UnlinkWhole
<1>4. n \in Nodes /\ n \in Heads /\ prev \in Heads
  BY AheadClosed DEF LinkedIn, Heads
<1>5. NextsOf(P) = {first, second} /\ first.node = prev /\ second.node = n
      /\ first.value = nx[n] /\ second.value = Poison
  BY DEF NextsOf, Store
<1>6. SettledOf(nx, P) = E
  <2>1. /\ \A s \in NextsOf(P) : s.node \in Heads => SettledOf(nx, P)[s.node] = s.value
        /\ \A x \in Heads : (\A s \in NextsOf(P) : s.node # x) => SettledOf(nx, P)[x] = nx[x]
    <3>1. \A s, t \in NextsOf(P) : s.node = t.node => s = t
      <4> HIDE DEF first, second, P
      <4> QED BY <1>3, <1>5
    <3> HIDE DEF P
    <3> QED BY <3>1, SettledValue
  <2>2. ASSUME NEW x \in Heads PROVE SettledOf(nx, P)[x] = E[x]
    <3> HIDE DEF first, second, P
    <3>1. CASE x = n
      BY <1>3, <1>4, <1>5, <2>1, <3>1
    <3>2. CASE x = prev
      BY <1>3, <1>4, <1>5, <2>1, <3>2
    <3>3. CASE x # n /\ x # prev
      BY <1>4, <1>5, <2>1, <3>3
    <3> QED
      BY <3>1, <3>2, <3>3
  <2>3. SettledOf(nx, P) = [x \in Heads |-> SettledOf(nx, P)[x]]
    BY DEF SettledOf
  <2> HIDE DEF P
  <2> QED
    BY <2>2, <2>3
<1>7. Unlinking(nx, P, n, prev)
  <2>1. E[prev] = nx[n] /\ E[n] = Poison
    BY <1>3, <1>4
  <2> HIDE DEF P, E
  <2> QED
    BY <1>3, <1>5, <1>6, <2>1 DEF Unlinking
<1>8. \A m \in LinkedIn(E) : Complete(w, P, m)
  BY <1>2, <1>3 DEF Complete
<1>9. \A s \in P : s.node \in al \cup {ListHead}
  <2> HIDE DEF first, second
  <2> QED BY <1>2, <1>5
<1>10. \A m \in Nodes \ al : nx[m] = Null
  BY DEF ListOf
<1> QED
  <2> HIDE DEF P, E
  <2>1. ListOf(nx, w, al, P)
    BY <1>2, <1>3, <1>4, <1>6, <1>7, <1>8, <1>9, <1>10 DEF ListOf, Shape
  <2> QED BY <2>1 DEF P

-----------------------------------------------------------------------------
(* The walks.                                                              *)

\* A walk at x still meets the windows of M, unless it is about to fault.
Follows(nx, x, M) ==
    \/ x \in {Null, Poison}
    \/ x \in Nodes /\ nx[x] = Poison
    \/ M \subseteq Ahead(nx, x)

\* A window nothing points to is not linked.
LEMMA UnseenOutside ==
    ASSUME NEW nx, NEW n, \A y \in Heads : nx[y] # n
    PROVE  n \notin LinkedIn(nx)
<1>1. nx[ListHead] # n /\ LinkedIn(nx) \subseteq Heads
  BY AheadClosed DEF LinkedIn, Heads
<1> QED
  BY <1>1, AheadPred DEF LinkedIn

\* A store to a next pointer reaches memory: the walk still meets the windows
\* that stay linked.
LEMMA CommitFollows ==
    ASSUME NEW nx \in [Heads -> Pointers], NEW w, NEW al, NEW P, P \subseteq StoreKinds,
           ListOf(nx, w, al, P), NEW s \in NextsOf(P),
           NEW x \in Pointers, NEW M \in SUBSET Nodes, Follows(nx, x, M)
    PROVE  Follows([nx EXCEPT ![s.node] = s.value], x,
                   M \cap LinkedIn([nx EXCEPT ![s.node] = s.value]))
<1> DEFINE new == [nx EXCEPT ![s.node] = s.value]
           L == LinkedIn(new)
           E == SettledOf(nx, P)
<1>1. /\ s \in P /\ s.node \in Heads
      /\ new[s.node] = s.value /\ \A y \in Heads \ {s.node} : new[y] = nx[y]
      /\ ListHead \in Heads /\ Nodes \subseteq Heads /\ ListHead \notin Nodes
      /\ Poison \notin Heads /\ Null # Poison
  BY NodesAssumption, PointersAssumption DEF NextsOf, StoreKinds, Heads
<1>2. /\ \A t \in NextsOf(P) : t.node \in Heads => E[t.node] = t.value
      /\ \A y \in Heads : (\A t \in NextsOf(P) : t.node # y) => E[y] = nx[y]
  BY OneStoreEach, SettledValue DEF ListOf
<1>3. CASE x \in {Null, Poison}
  BY <1>3 DEF Follows
<1>4. ASSUME NEW n \in Nodes, Linking(nx, P, n), x \notin {Null, Poison}
      PROVE  Follows(new, x, M \cap L)
  <2>1. s.node = ListHead \/ nx[s.node] = Null
    BY <1>1, <1>4 DEF Linking, Store
  <2>2. Ahead(nx, x) \subseteq Ahead(new, x)
    BY <1>1, <2>1, ExtendedAhead
  <2>3. x \in Nodes /\ nx[x] = Poison => new[x] = Poison
    BY <1>1, <2>1
  <2> HIDE DEF new
  <2> QED
    BY <1>4, <2>2, <2>3 DEF Follows
<1>5. ASSUME NEW n \in Nodes, NEW prev \in Heads, Unlinking(nx, P, n, prev),
             x \notin {Null, Poison}
      PROVE  Follows(new, x, M \cap L)
  <2>1. /\ prev # n
        /\ NextsOf(P) \subseteq {Store(prev, "next", E[prev]), Store(n, "next", Poison)}
        /\ n \notin LinkedIn(E) /\ E[n] = Poison
        /\ Store(prev, "next", E[prev]) \in P => nx[prev] = n
        /\ Store(n, "next", Poison) \in P => nx[n] = E[prev]
    BY <1>5 DEF Unlinking
  <2>2. \A y \in Heads : E[y] # n
    BY <2>1, OutsideUnseen DEF ListOf
  <2>3. \A y \in Heads \ {prev, n} : nx[y] = E[y]
    <3> HIDE DEF E
    <3> QED BY <1>2, <2>1 DEF Store
  <2>4. nx[n] \in {E[prev], Poison}
    <3>1. CASE Store(n, "next", Poison) \in P
      BY <2>1, <3>1
    <3>2. CASE Store(n, "next", Poison) \notin P
      <4>1. \A t \in NextsOf(P) : t.node # n
        <5> HIDE DEF E
        <5> QED BY <2>1, <3>2 DEF Store, NextsOf
      <4> QED
        BY <1>1, <1>2, <2>1, <4>1
    <3> QED
      BY <3>1, <3>2
  <2>5. nx[prev] \in {n, E[prev]}
    <3>1. CASE Store(prev, "next", E[prev]) \in P
      BY <2>1, <3>1
    <3>2. CASE Store(prev, "next", E[prev]) \notin P
      <4>1. \A t \in NextsOf(P) : t.node # prev
        <5> HIDE DEF E
        <5> QED BY <2>1, <3>2 DEF Store, NextsOf
      <4> QED
        BY <1>1, <1>2, <2>1, <4>1
    <3> QED
      BY <3>1, <3>2
  <2>6. CASE s = Store(prev, "next", E[prev])
    <3>1. nx[prev] = n /\ s.node = prev /\ s.value = E[prev]
      BY <1>1, <2>1, <2>6 DEF Store
    <3>2. \A y \in Heads : new[y] # n
      <4> HIDE DEF new, E
      <4> QED BY <1>1, <2>2, <2>3, <2>4, <3>1
    <3>3. n \notin L
      <4> HIDE DEF new
      <4> QED BY <3>2, UnseenOutside
    <3>4. ASSUME NEW m \in Ahead(nx, x), m # n
          PROVE  m \in Ahead(new, x)
      <4> DEFINE v == s.value
      <4>1. nx[n] = v \/ nx[n] = Poison
        BY <2>4, <3>1
      <4>2. m \in Ahead([nx EXCEPT ![prev] = v], x)
        <5> HIDE DEF v, E, L, new
        <5> QED BY <2>1, <3>1, <3>4, <4>1, SkipAhead
      <4> QED
        BY <3>1, <4>2
    <3>5. x \in Nodes /\ nx[x] = Poison => new[x] = Poison
      BY <1>1, <3>1
    <3> HIDE DEF new, L
    <3> QED
      BY <1>5, <3>3, <3>4, <3>5 DEF Follows
  <2>7. CASE s = Store(n, "next", Poison)
    <3>1. nx[n] = E[prev] /\ s.node = n /\ s.value = Poison
      BY <1>1, <2>1, <2>7 DEF Store
    <3>2. x \in Nodes /\ nx[x] = Poison => new[x] = Poison
      BY <1>1, <3>1
    <3>3. CASE x = n
      BY <1>1, <3>1, <3>3 DEF Follows
    <3>4. CASE nx[prev] = n
      <4>1. OneEach(nx)
        <5> SUFFICES ASSUME NEW y \in Heads, NEW z \in Heads, nx[y] = nx[z], nx[y] \in Heads
                     PROVE  y = z
          BY DEF OneEach
        <5>1. OneEach(E)
          BY DEF ListOf, Whole
        <5>2. \A u \in Heads \ {prev} : nx[u] = E[IF u = n THEN prev ELSE u]
          <6> HIDE DEF E
          <6> QED BY <2>3, <3>1
        <5> HIDE DEF E
        <5>3. \A u \in Heads \ {prev} : nx[u] # n
          BY <1>1, <2>2, <5>2
        <5>4. CASE y = prev \/ z = prev
          BY <3>4, <5>3, <5>4
        <5>5. CASE y # prev /\ z # prev
          BY <5>1, <5>2, <5>5, <1>1 DEF OneEach
        <5> QED
          BY <5>4, <5>5
      <4>2. \A m \in Ahead(nx, x) : m \in L => m \in Ahead(new, x)
        BY <3>1, <4>1, CutAhead
      <4> HIDE DEF new, L
      <4> QED
        BY <1>5, <3>2, <4>2 DEF Follows
    <3>5. CASE x # n /\ nx[prev] = E[prev]
      <4>1. \A y \in Heads : nx[y] # n
        <5> HIDE DEF E
        <5> QED BY <1>1, <2>2, <2>3, <3>1, <3>5
      <4>2. Ahead(nx, x) \subseteq Ahead(new, x)
        BY <3>1, <3>5, <4>1, CutUnseenAhead
      <4> HIDE DEF new, L
      <4> QED
        BY <1>5, <3>2, <4>2 DEF Follows
    <3> QED
      BY <2>5, <3>3, <3>4, <3>5
  <2> QED
    BY <2>1, <2>6, <2>7
<1> QED
  BY <1>3, <1>4, <1>5 DEF ListOf, Shape

-----------------------------------------------------------------------------
(* The inductive invariant.                                                *)

\* The stores of all callers.
Pending == UNION {stores[c] : c \in Callers}

ListTypes ==
    /\ next \in [Heads -> Pointers]
    /\ win \in [Nodes -> Windows]
    /\ allocated \in SUBSET Nodes
    /\ stores \in [Callers -> SUBSET StoreKinds]

\* Between locked sections nothing is under way.
ListInv ==
    /\ ListTypes
    /\ ListOf(next, win, allocated, Pending)
    /\ \A c \in Callers : pc[c] \in {"idle", "locked"} => stores[c] = {}

WalkTypes ==
    /\ mem \in [Buffers -> SUBSET Events]
    /\ burst \in [Buffers -> SUBSET Events]
    /\ ev \in [Readers -> 0 .. MaxEvents]
    /\ cur \in [Readers -> Pointers]
    /\ dst \in [Readers -> Buffers \cup {Null}]
    /\ must \in [Readers -> SUBSET Nodes]
    /\ got \in [Readers -> SUBSET Nodes]

Walking(r) == pc[r] \in {"policy", "deliver", "memcpy"}
\* Reader r in its walk: the windows it must deliver to are linked and on top.
WalkOf(r) ==
    /\ must[r] \subseteq OnTop(next, win)
    /\ Walking(r) => Follows(next, cur[r], must[r] \ got[r]) /\ ev[r] \in Events
    /\ pc[r] \in {"deliver", "memcpy"} => cur[r] \in Nodes
    /\ pc[r] = "memcpy" => dst[r] \in Buffers
    /\ pc[r] = "copy_to_user" => must[r] \subseteq got[r]

WalkInv == WalkTypes /\ \A r \in Readers : WalkOf(r)

WindowInv == EventInv /\ LockInv /\ ListInv /\ WalkInv

\* The list is empty at first.
LEMMA InitWindowInv == Init => WindowInv
<1> SUFFICES ASSUME Init PROVE WindowInv
  OBVIOUS
<1>1. Heads = Nodes \cup {ListHead} /\ ListHead \notin Nodes
  BY NodesAssumption DEF Heads
<1>2. ListTypes
  <2>1. ZeroWindow \in Windows
    BY DEF ZeroWindow, Windows, Zorders
  <2> QED
    BY <1>1, <2>1 DEF Init, ListTypes, Pointers
<1>3. Pending = {} /\ NextsOf(Pending) = {}
  BY DEF Init, Pending, NextsOf
<1>4. SettledOf(next, Pending) = next
  BY <1>2, <1>3, SettledAlready DEF ListTypes
<1>5. next[ListHead] = ListHead /\ \A n \in Nodes : next[n] = Null
  BY <1>1 DEF Init
<1>6. LinkedIn(next) = {}
  BY <1>1, <1>5, NothingAhead DEF LinkedIn
<1>7. Whole(next)
  BY <1>1, <1>5, <1>6, NodesAssumption, PointersAssumption DEF Whole, OneEach
<1>8. ListOf(next, win, allocated, Pending)
  BY <1>3, <1>4, <1>5, <1>6, <1>7 DEF ListOf, Shape
<1>9. ListInv
  BY <1>2, <1>8 DEF ListInv, Init
<1>10. WalkInv
  BY EventsAssumption DEF Init, WalkInv, WalkTypes, WalkOf, Walking, Pointers, Threads
<1> QED
  BY <1>9, <1>10, InitEventInv, InitLockInv DEF WindowInv

-----------------------------------------------------------------------------
(* The readers.                                                            *)

\* A reader's step leaves the list.
LEMMA ReaderKeepsListInv ==
    ASSUME WindowInv, NEW r \in Readers, ReaderStep(r)
    PROVE  ListInv'
<1>1. ReaderFrame
  BY ReaderStepFrame DEF WindowInv, LockInv
<1>2. Pending' = Pending
  BY <1>1 DEF ReaderFrame, list, Pending
<1> QED
  BY <1>1, <1>2 DEF ReaderFrame, list, WindowInv, ListInv, ListTypes

\* Where a reader is says nothing of the other readers' walks.
LEMMA OtherWalks ==
    ASSUME WindowInv, NEW r \in Readers, UNCHANGED list,
           \A q \in Readers \ {r} :
               /\ pc'[q] = pc[q] /\ cur'[q] = cur[q] /\ ev'[q] = ev[q] /\ dst'[q] = dst[q]
               /\ must'[q] = must[q] /\ got'[q] = got[q],
           WalkTypes', WalkOf(r)'
    PROVE  WalkInv'
<1>1. ASSUME NEW q \in Readers \ {r} PROVE WalkOf(q)'
  BY <1>1 DEF WindowInv, WalkInv, WalkOf, Walking, list
<1> QED
  BY <1>1 DEF WalkInv

LEMMA ReaderKeepsWalkInv ==
    ASSUME WindowInv, NEW r \in Readers, ReaderStep(r)
    PROVE  WalkInv'
<1>1. /\ WalkTypes /\ WalkOf(r) /\ ListTypes
      /\ pc \in [Threads -> Labels] /\ r \in Threads
      /\ queue \in Seq(Events)
  BY DEF WindowInv, WalkInv, ListInv, EventInv, QueueInv, Threads
<1>2. UNCHANGED list
  BY ReaderStepFrame DEF ReaderFrame, WindowInv, LockInv
<1>3. CASE ZizhanWrite(r) \/ ReaderOops(r)
  <2>1. /\ UNCHANGED <<mem, burst, walk, must>>
        /\ pc'[r] \in {"dispatch", "dead"}
        /\ \A q \in Readers \ {r} : pc'[q] = pc[q]
    <3>1. \E l \in {"dispatch", "dead"} : pc' = [pc EXCEPT ![r] = l]
      BY <1>3 DEF ZizhanWrite, ReaderOops, Goto
    <3>2. UNCHANGED <<mem, burst, walk, must>>
      BY <1>3 DEF ZizhanWrite, ReaderOops
    <3> QED
      BY <1>1, <3>1, <3>2 DEF Threads
  <2>2. WalkTypes' /\ WalkOf(r)'
    BY <1>1, <1>2, <2>1 DEF WalkTypes, WalkOf, Walking, walk, list
  <2> QED
    BY <1>2, <2>1, <2>2, OtherWalks DEF walk
<1>4. CASE Dequeue(r)
  <2>1. /\ queue # <<>> /\ ev' = [ev EXCEPT ![r] = Head(queue)]
        /\ cur' = [cur EXCEPT ![r] = next[ListHead]]
        /\ must' = [must EXCEPT ![r] = OnTop(next, win)]
        /\ got' = [got EXCEPT ![r] = {}]
        /\ pc' = [pc EXCEPT ![r] = "policy"]
        /\ UNCHANGED <<mem, burst, dst>>
    BY <1>4 DEF Dequeue, StartWalk, Goto
  <2>2. Head(queue) \in Events /\ Head(queue) \in 0 .. MaxEvents
    BY <1>1, <2>1, EventsAssumption DEF Events
  <2>3. next[ListHead] \in Pointers
    BY <1>1 DEF ListTypes, Heads
  <2>4. OnTop(next, win) \subseteq LinkedIn(next) /\ LinkedIn(next) \subseteq Nodes
    BY AheadClosed DEF OnTop, LinkedIn
  <2>5. WalkTypes'
    BY <1>1, <2>1, <2>2, <2>3, <2>4 DEF WalkTypes
  <2>6. /\ ev'[r] = Head(queue) /\ cur'[r] = next[ListHead] /\ got'[r] = {}
        /\ must'[r] = OnTop(next, win) /\ pc'[r] = "policy"
        /\ \A q \in Readers \ {r} :
               /\ pc'[q] = pc[q] /\ cur'[q] = cur[q] /\ ev'[q] = ev[q] /\ dst'[q] = dst[q]
               /\ must'[q] = must[q] /\ got'[q] = got[q]
    BY <1>1, <2>1 DEF WalkTypes, Threads
  <2>7. Follows(next, next[ListHead], OnTop(next, win) \ {})
    BY <2>4 DEF Follows, LinkedIn
  <2>8. WalkOf(r)'
    BY <1>2, <2>2, <2>6, <2>7 DEF WalkOf, Walking, list
  <2> QED
    BY <1>2, <2>5, <2>6, <2>8, OtherWalks
<1>5. CASE WalkEnd(r)
  <2>1. /\ UNCHANGED <<mem, burst, walk, must>> /\ cur[r] = ListHead /\ pc[r] = "policy"
        /\ pc'[r] = "copy_to_user"
        /\ \A q \in Readers \ {r} : pc'[q] = pc[q]
    BY <1>1, <1>5 DEF WalkEnd, Goto
  <2>2. must[r] \subseteq got[r]
    <3>1. Ahead(next, ListHead) = {}
      BY NodesAssumption, NothingAhead
    <3> QED
      BY <1>1, <2>1, <3>1, NodesAssumption, PointersAssumption DEF WalkOf, Walking, Follows
  <2>3. WalkTypes' /\ WalkOf(r)'
    BY <1>1, <1>2, <2>1, <2>2 DEF WalkTypes, WalkOf, Walking, walk, list
  <2> QED
    BY <1>2, <2>1, <2>3, OtherWalks DEF walk
<1>6. ASSUME cur[r] \in Nodes, NEW G, must[r] \ G \subseteq (must[r] \ got[r]) \ {cur[r]},
             Follows(next, cur[r], must[r] \ got[r])
      PROVE  Follows(next, next[cur[r]], must[r] \ G)
  <2>1. Ahead(next, cur[r]) \subseteq {cur[r]} \cup Ahead(next, next[cur[r]])
    BY <1>6, AheadStep
  <2>2. next[cur[r]] = Poison \/ must[r] \ got[r] \subseteq Ahead(next, cur[r])
    BY <1>6, NodesAssumption DEF Follows
  <2> QED
    BY <1>6, <2>1, <2>2 DEF Follows
<1>7. CASE PolicyRejects(r)
  <2>1. /\ UNCHANGED <<mem, burst, pc, ev, dst, got, must>>
        /\ cur[r] \in Nodes /\ win[cur[r]].zorder # TOP /\ pc[r] = "policy"
        /\ cur' = [cur EXCEPT ![r] = next[cur[r]]]
    BY <1>7 DEF PolicyRejects
  <2>2. cur[r] \notin must[r]
    BY <1>1, <2>1 DEF WalkOf, OnTop
  <2>3. Follows(next, next[cur[r]], must[r] \ got[r])
    BY <1>1, <1>6, <2>1, <2>2 DEF WalkOf, Walking
  <2>4. next[cur[r]] \in Pointers
    BY <1>1, <2>1 DEF ListTypes, Heads
  <2>5. cur'[r] = next[cur[r]] /\ \A q \in Readers \ {r} : cur'[q] = cur[q]
    BY <1>1, <2>1 DEF WalkTypes
  <2>6. WalkTypes'
    BY <1>1, <2>1, <2>4 DEF WalkTypes
  <2>7. WalkOf(r)'
    BY <1>1, <1>2, <2>1, <2>3, <2>5 DEF WalkOf, Walking, list
  <2> QED
    BY <1>2, <2>1, <2>5, <2>6, <2>7, OtherWalks
<1>8. CASE PolicyAccepts(r)
  <2>1. /\ UNCHANGED <<mem, burst, walk, must>> /\ cur[r] \in Nodes /\ pc[r] = "policy"
        /\ pc'[r] = "deliver"
        /\ \A q \in Readers \ {r} : pc'[q] = pc[q]
    BY <1>1, <1>8 DEF PolicyAccepts, Goto
  <2>2. WalkTypes' /\ WalkOf(r)'
    BY <1>1, <1>2, <2>1 DEF WalkTypes, WalkOf, Walking, walk, list
  <2> QED
    BY <1>2, <2>1, <2>2, OtherWalks DEF walk
<1>9. CASE Deliver(r)
  <2> DEFINE b == win[cur[r]].event_buffer
  <2>1. /\ UNCHANGED <<mem, ev, cur, got, must>> /\ pc[r] = "deliver" /\ b # Null
        /\ dst' = [dst EXCEPT ![r] = b]
        /\ burst' = [burst EXCEPT ![b] = @ \cup {ev[r]}]
        /\ pc' = [pc EXCEPT ![r] = "memcpy"]
    BY <1>9 DEF Deliver, StartCopy, Goto
  <2>2. b \in Buffers
    BY <1>1, <2>1 DEF WalkOf, ListTypes, Windows
  <2>3. ev[r] \in Events
    BY <1>1, <2>1 DEF WalkOf, Walking
  <2> HIDE DEF b
  <2>4. WalkTypes'
    BY <1>1, <2>1, <2>2, <2>3 DEF WalkTypes
  <2>5. /\ pc'[r] = "memcpy" /\ dst'[r] = b
        /\ \A q \in Readers \ {r} : pc'[q] = pc[q] /\ dst'[q] = dst[q]
    BY <1>1, <2>1 DEF WalkTypes, Threads
  <2>6. WalkOf(r)'
    BY <1>1, <1>2, <2>1, <2>2, <2>5 DEF WalkOf, Walking, list
  <2> QED
    BY <1>2, <2>1, <2>4, <2>5, <2>6, OtherWalks
<1>10. CASE MemcpyDone(r)
  <2>1. /\ UNCHANGED <<ev, dst, must>> /\ pc[r] = "memcpy"
        /\ \/ UNCHANGED <<mem, burst>>
           \/ /\ mem' = [mem EXCEPT ![dst[r]] = burst[dst[r]]]
              /\ burst' = [burst EXCEPT ![dst[r]] = {}]
        /\ got' = [got EXCEPT ![r] = @ \cup {cur[r]}]
        /\ cur' = [cur EXCEPT ![r] = next[cur[r]]]
        /\ pc' = [pc EXCEPT ![r] = "policy"]
    BY <1>10 DEF MemcpyDone, EndCopy, Goto
  <2>2. cur[r] \in Nodes /\ dst[r] \in Buffers
    BY <1>1, <2>1 DEF WalkOf
  <2>3. Follows(next, next[cur[r]], must[r] \ (got[r] \cup {cur[r]}))
    BY <1>1, <1>6, <2>1, <2>2 DEF WalkOf, Walking
  <2>4. next[cur[r]] \in Pointers
    BY <1>1, <2>2 DEF ListTypes, Heads
  <2>5. /\ cur'[r] = next[cur[r]] /\ pc'[r] = "policy" /\ got'[r] = got[r] \cup {cur[r]}
        /\ \A q \in Readers \ {r} : cur'[q] = cur[q] /\ got'[q] = got[q] /\ pc'[q] = pc[q]
    BY <1>1, <2>1 DEF WalkTypes, Threads
  <2>6. WalkTypes'
    BY <1>1, <2>1, <2>2, <2>4 DEF WalkTypes
  <2>7. WalkOf(r)'
    BY <1>1, <1>2, <2>1, <2>3, <2>5 DEF WalkOf, Walking, list
  <2> QED
    BY <1>2, <2>1, <2>5, <2>6, <2>7, OtherWalks
<1>11. CASE CopyToUser(r)
  <2>1. /\ pc' = [pc EXCEPT ![r] = "idle"]
        /\ ev' = [ev EXCEPT ![r] = 0] /\ cur' = [cur EXCEPT ![r] = ListHead]
        /\ dst' = [dst EXCEPT ![r] = Null]
        /\ got' = [got EXCEPT ![r] = {}] /\ must' = [must EXCEPT ![r] = {}]
        /\ UNCHANGED <<mem, burst>>
    BY <1>11 DEF CopyToUser, Goto
  <2>2. WalkTypes'
    BY <1>1, <2>1, EventsAssumption DEF WalkTypes, Pointers
  <2>3. /\ must'[r] = {} /\ got'[r] = {} /\ pc'[r] = "idle" /\ ev'[r] = 0
        /\ cur'[r] = ListHead /\ dst'[r] = Null
        /\ \A q \in Readers \ {r} :
               /\ pc'[q] = pc[q] /\ cur'[q] = cur[q] /\ ev'[q] = ev[q] /\ dst'[q] = dst[q]
               /\ must'[q] = must[q] /\ got'[q] = got[q]
    BY <1>1, <2>1 DEF WalkTypes, Threads
  <2>4. WalkOf(r)'
    BY <2>3 DEF WalkOf, Walking
  <2> QED
    BY <1>2, <2>2, <2>3, <2>4, OtherWalks
<1> QED
  BY <1>3, <1>4, <1>5, <1>7, <1>8, <1>9, <1>10, <1>11 DEF ReaderStep

-----------------------------------------------------------------------------
(* The callers.                                                            *)

\* Only the holder has stores under way.
LEMMA PendingOfHolder ==
    ASSUME LockInv, NEW c \in Callers, pc[c] \in {"locked", "unlock", "dead"}
    PROVE  Pending = stores[c] /\ \A d \in Callers \ {c} : stores[d] = {}
BY DEF LockInv, StoresUnderLock, Pending

\* The walks are where they were, and so are the windows unless a store
\* reaches memory.
LEMMA CallerWalks ==
    ASSUME WindowInv, NEW c \in Callers, CallerStep(c), UNCHANGED <<next, win, must>>
    PROVE  WalkInv'
<1>1. CallerFrame(c)
  BY CallerStepFrame DEF WindowInv, LockInv
<1>2. \A r \in Readers : pc'[r] = pc[r]
  BY <1>1, ReadersAssumption DEF CallerFrame, Threads
<1> QED
  BY <1>1, <1>2 DEF CallerFrame, readers, walk, WindowInv, WalkInv, WalkTypes, WalkOf, Walking

\* A locked section begins with the list settled.
LEMMA LockedSettled ==
    ASSUME WindowInv, NEW c \in Callers, pc[c] = "locked"
    PROVE  Pending = {} /\ SettledOf(next, {}) = next /\ ListOf(next, win, allocated, {})
<1>1. Pending = {}
  BY PendingOfHolder DEF WindowInv, ListInv
<1>2. SettledOf(next, {}) = next
  BY SettledAlready DEF WindowInv, ListInv, ListTypes, NextsOf
<1> QED
  BY <1>1, <1>2 DEF WindowInv, ListInv

LEMMA CallerKeepsListInv ==
    ASSUME WindowInv, NEW c \in Callers, CallerStep(c), LockInv'
    PROVE  ListInv'
<1>1. /\ ListInv /\ ListTypes /\ LockInv
      /\ pc \in [Threads -> Labels] /\ c \in Threads
      /\ \A d \in Callers : d \in Threads
  BY DEF WindowInv, ListInv, EventInv, QueueInv, Threads
<1>2. /\ \A d \in Callers \ {c} : pc'[d] = pc[d] /\ stores'[d] = stores[d]
  BY CallerStepFrame DEF WindowInv, LockInv, CallerFrame, Threads
<1>3. CASE LockShare(c) \/ AddWindowOops(c) \/ UnlockShare(c)
  <2>1. UNCHANGED <<next, win, allocated, stores>>
    BY <1>3 DEF LockShare, Acquire, AddWindowOops, UnlockShare, list
  <2>2. Pending' = Pending
    BY <2>1 DEF Pending
  <2>3. pc'[c] \in {"idle", "locked"} => stores[c] = {}
    BY <1>1, <1>3 DEF LockShare, Acquire, AddWindowOops, UnlockShare, ListInv, Goto
  <2> QED
    BY <1>1, <1>2, <2>1, <2>2, <2>3 DEF ListInv, ListTypes
<1>4. ASSUME NEW new \in SUBSET Nodes, NEW S \in SUBSET StoreKinds,
             pc[c] = "locked", stores' = [stores EXCEPT ![c] = S],
             pc' = [pc EXCEPT ![c] = "unlock"] \/ pc' = [pc EXCEPT ![c] = "dead"],
             allocated' = allocated \cup new, UNCHANGED <<next, win>>,
             ListOf(next, win, allocated \cup new, S)
      PROVE  ListInv'
  <2>1. /\ \A d \in Callers \ {c} : stores[d] = {}
    BY <1>1, <1>4, PendingOfHolder
  <2>2. stores'[c] = S /\ stores' \in [Callers -> SUBSET StoreKinds] /\ pc'[c] \in {"unlock", "dead"}
    BY <1>1, <1>4 DEF ListTypes
  <2>3. Pending' = S
    BY <1>2, <2>1, <2>2 DEF Pending
  <2> QED
    BY <1>1, <1>2, <1>4, <2>2, <2>3 DEF ListInv, ListTypes
<1>5. CASE AddWindow(c)
  <2>1. PICK n \in Nodes \ allocated, p \in Pids, z \in Zorders, b \in Buffers :
            Update(c, {n}, Members(n, p, z, b)
                \cup {Store(n, "next", next[ListHead]), Store(ListHead, "next", n)})
    BY <1>5 DEF AddWindow
  <2> DEFINE S == Members(n, p, z, b)
                      \cup {Store(n, "next", next[ListHead]), Store(ListHead, "next", n)}
  <2>2. S \in SUBSET StoreKinds
    BY <1>1 DEF ListTypes, StoreKinds, Members, Store, Heads, Pointers
  <2>3. pc[c] = "locked"
    BY <2>1 DEF Update
  <2>4. ListOf(next, win, allocated \cup {n}, S)
    BY <1>1, <2>3, LockedSettled, AddKeepsList DEF ListTypes
  <2> HIDE DEF S
  <2> QED
    BY <1>4, <2>1, <2>2, <2>3, <2>4 DEF Update, Goto, S
<1>6. CASE SetWindow(c)
  <2>1. PICK p \in Pids, width \in Zorders, b \in Buffers :
            Update(c, {}, UNION {{Store(n, "zorder", width),
                                  Store(n, "event_buffer", b)} : n \in Matching(p)})
    BY <1>6 DEF SetWindow
  <2> DEFINE S == UNION {{Store(n, "zorder", width),
                          Store(n, "event_buffer", b)} : n \in Matching(p)}
  <2>2. Matching(p) \subseteq LinkedIn(next) /\ LinkedIn(next) \subseteq Nodes
    BY AheadClosed DEF Matching, Linked, LinkedIn
  <2>3. S \in SUBSET StoreKinds /\ \A s \in S : s.member # "next" /\ s.node \in LinkedIn(next)
    BY <2>2 DEF StoreKinds, Store
  <2>4. pc[c] = "locked"
    BY <2>1 DEF Update
  <2>5. ListOf(next, win, allocated \cup {}, S)
    <3> HIDE DEF S
    <3>1. ListOf(next, win, allocated, S)
      BY <1>1, <2>3, <2>4, LockedSettled, SetKeepsList DEF ListTypes
    <3> QED
      BY <3>1
  <2> HIDE DEF S
  <2> QED
    BY <1>4, <2>1, <2>3, <2>4, <2>5 DEF Update, Goto, S
<1>7. CASE GetWindow(c)
  <2>1. pc[c] = "locked"
    BY <1>7 DEF GetWindow, Update
  <2>2. ListOf(next, win, allocated \cup {}, {})
    BY <2>1, LockedSettled
  <2>3. /\ stores' = [stores EXCEPT ![c] = {}] /\ allocated' = allocated \cup {}
        /\ pc' = [pc EXCEPT ![c] = "unlock"] /\ UNCHANGED <<next, win>>
    BY <1>7 DEF GetWindow, Update, Goto
  <2>4. {} \in SUBSET Nodes /\ {} \in SUBSET StoreKinds
    OBVIOUS
  <2> QED
    BY <1>4, <2>1, <2>2, <2>3, <2>4
<1>8. CASE DelWindow(c)
  <2>1. PICK p \in Pids : \E n \in Matching(p), prev \in Linked \cup {ListHead} :
            /\ next[prev] = n
            /\ stores' = [stores EXCEPT ![c] =
                   {Store(prev, "next", next[n]), Store(n, "next", Poison)}]
    BY <1>8 DEF DelWindow
  <2>2. PICK n \in Matching(p), prev \in Linked \cup {ListHead} :
            /\ next[prev] = n
            /\ stores' = [stores EXCEPT ![c] =
                   {Store(prev, "next", next[n]), Store(n, "next", Poison)}]
    BY <2>1
  <2>3. /\ n \in LinkedIn(next) /\ prev \in LinkedIn(next) \cup {ListHead}
        /\ n \in Nodes /\ n \in Heads /\ prev \in Heads
    BY AheadClosed DEF Matching, Linked, LinkedIn, Heads
  <2> DEFINE S == {Store(prev, "next", next[n]), Store(n, "next", Poison)}
  <2>4. S \in SUBSET StoreKinds
    BY <1>1, <2>3 DEF ListTypes, StoreKinds, Store, Pointers
  <2>5. pc[c] = "locked" /\ pc' = [pc EXCEPT ![c] = "dead"] /\ UNCHANGED <<next, win, allocated>>
    BY <1>8 DEF DelWindow, Goto
  <2>6. ListOf(next, win, allocated, S)
    BY <1>1, <2>2, <2>3, <2>5, LockedSettled, DelKeepsList DEF ListTypes
  <2>7. allocated \cup {} = allocated
    OBVIOUS
  <2> HIDE DEF S
  <2> QED
    BY <1>4, <2>2, <2>4, <2>5, <2>6, <2>7 DEF S
<1>9. CASE Commit(c)
  <2>1. PICK s \in stores[c] :
            /\ stores' = [stores EXCEPT ![c] = @ \ {s}]
            /\ IF s.member = "next"
               THEN next' = [next EXCEPT ![s.node] = s.value] /\ win' = win
               ELSE win' = [win EXCEPT ![s.node][s.member] = s.value] /\ next' = next
    BY <1>9 DEF Commit
  <2>2. UNCHANGED <<allocated, pc>>
    BY <1>9 DEF Commit
  <2>3. pc[c] \in {"unlock", "dead"} /\ Pending = stores[c]
        /\ \A d \in Callers \ {c} : stores[d] = {}
    BY <1>1, <2>1, PendingOfHolder DEF LockInv, StoresUnderLock, ListInv
  <2>4. stores' \in [Callers -> SUBSET StoreKinds] /\ stores'[c] = Pending \ {s}
    BY <1>1, <2>1, <2>3 DEF ListTypes
  <2>5. Pending' = Pending \ {s} /\ Pending \subseteq StoreKinds /\ s \in Pending
    BY <1>1, <1>2, <2>1, <2>3, <2>4 DEF Pending, ListTypes
  <2>6. CASE s.member = "next"
    <3>1. s \in NextsOf(Pending) /\ s.node \in Heads /\ s.value \in Pointers
      BY <2>5, <2>6 DEF NextsOf, StoreKinds
    <3>2. next' = [next EXCEPT ![s.node] = s.value] /\ win' = win
      BY <2>1, <2>6
    <3>3. ListOf(next', win', allocated', Pending')
      BY <1>1, <2>2, <2>5, <3>1, <3>2, CommitNextKeepsList DEF ListInv, ListTypes
    <3>4. next' \in [Heads -> Pointers]
      BY <1>1, <3>1, <3>2 DEF ListTypes
    <3> QED
      BY <1>1, <1>2, <2>2, <2>3, <2>4, <3>2, <3>3, <3>4 DEF ListInv, ListTypes
  <2>7. CASE s.member # "next"
    <3>1. next' = next /\ win' = [win EXCEPT ![s.node][s.member] = s.value]
      BY <2>1, <2>7
    <3>2. ListOf(next', win', allocated', Pending')
      BY <1>1, <2>2, <2>5, <2>7, <3>1, CommitMemberKeepsList DEF ListInv, ListTypes
    <3>3. win' \in [Nodes -> Windows]
      <4>1. /\ s.node \in Nodes
            /\ \/ s.member = "pid" /\ s.value \in Pids
               \/ s.member = "zorder" /\ s.value \in Zorders
               \/ s.member = "event_buffer" /\ s.value \in Buffers
        BY <2>5, <2>7 DEF StoreKinds
      <4>2. [win[s.node] EXCEPT ![s.member] = s.value] \in Windows
        BY <1>1, <4>1 DEF ListTypes, Windows
      <4> QED
        BY <1>1, <3>1, <4>1, <4>2 DEF ListTypes
    <3> QED
      BY <1>1, <1>2, <2>2, <2>3, <2>4, <3>1, <3>2, <3>3 DEF ListInv, ListTypes
  <2> QED
    BY <2>6, <2>7
<1> QED
  BY <1>3, <1>5, <1>6, <1>7, <1>8, <1>9 DEF CallerStep

LEMMA CallerKeepsWalkInv ==
    ASSUME WindowInv, NEW c \in Callers, CallerStep(c)
    PROVE  WalkInv'
<1>1. CASE ~Commit(c)
  <2>1. UNCHANGED <<next, win, must>>
    BY <1>1 DEF CallerStep, LockShare, Acquire, AddWindow, AddWindowOops, SetWindow,
       GetWindow, Update, DelWindow, UnlockShare, list
  <2> QED
    BY <2>1, CallerWalks
<1>2. CASE Commit(c)
  <2>1. PICK s \in stores[c] :
            IF s.member = "next"
            THEN next' = [next EXCEPT ![s.node] = s.value] /\ win' = win
            ELSE win' = [win EXCEPT ![s.node][s.member] = s.value] /\ next' = next
    BY <1>2 DEF Commit
  <2>2. /\ must' = [r \in Readers |-> must[r] \cap OnTop(next', win')]
        /\ UNCHANGED <<pc, mem, burst, ev, cur, dst, got>>
    BY <1>2 DEF Commit, readers, walk
  <2>3. s \in Pending /\ Pending \subseteq StoreKinds /\ ListTypes
        /\ ListOf(next, win, allocated, Pending)
    BY <2>1 DEF WindowInv, ListInv, ListTypes, Pending
  <2>4. WalkTypes'
    BY <2>2 DEF WindowInv, WalkInv, WalkTypes
  <2>5. ASSUME NEW r \in Readers PROVE WalkOf(r)'
    <3>1. /\ must'[r] = must[r] \cap OnTop(next', win') /\ must[r] \subseteq Nodes
          /\ cur[r] \in Pointers /\ WalkOf(r)
      BY <2>2 DEF WindowInv, WalkInv, WalkTypes
    <3>2. ASSUME Walking(r)
          PROVE  Follows(next', cur[r], must'[r] \ got[r])
      <4>1. Follows(next, cur[r], must[r] \ got[r])
        BY <3>1, <3>2 DEF WalkOf
      <4>2. CASE s.member # "next"
        BY <2>1, <3>1, <4>1, <4>2 DEF Follows
      <4>3. CASE s.member = "next"
        <5>1. s \in NextsOf(Pending) /\ next' = [next EXCEPT ![s.node] = s.value]
          BY <2>1, <2>3, <4>3 DEF NextsOf
        <5>2. must[r] \ got[r] \in SUBSET Nodes
          BY <3>1
        <5>3. Follows(next', cur[r], (must[r] \ got[r]) \cap LinkedIn(next'))
          BY <2>3, <3>1, <4>1, <5>1, <5>2, CommitFollows DEF ListTypes
        <5>4. must'[r] \ got[r] \subseteq (must[r] \ got[r]) \cap LinkedIn(next')
          BY <3>1 DEF OnTop
        <5> QED
          BY <5>3, <5>4 DEF Follows
      <4> QED
        BY <4>2, <4>3
    <3> QED
      BY <2>2, <3>1, <3>2 DEF WalkOf, Walking
  <2> QED
    BY <2>4, <2>5 DEF WalkInv
<1> QED
  BY <1>1, <1>2

LEMMA NextKeepsWindowInv == WindowInv /\ [Next]_vars => WindowInv'
<1> SUFFICES ASSUME WindowInv, [Next]_vars PROVE WindowInv'
  OBVIOUS
<1>1. EventInv' /\ LockInv'
  BY NextKeepsEventInv, NextKeepsLockInv DEF WindowInv
<1>2. ASSUME NEW r \in Readers, ReaderStep(r) PROVE WindowInv'
  BY <1>1, <1>2, ReaderKeepsListInv, ReaderKeepsWalkInv DEF WindowInv
<1>3. ASSUME NEW c \in Callers, CallerStep(c) PROVE WindowInv'
  BY <1>1, <1>3, CallerKeepsListInv, CallerKeepsWalkInv DEF WindowInv
<1>4. CASE UNCHANGED vars
  <2>1. Pending' = Pending
    BY <1>4 DEF vars, list, Pending
  <2> QED
    BY <1>1, <1>4, <2>1
    DEF vars, list, walk, WindowInv, ListInv, ListTypes, WalkInv, WalkTypes, WalkOf, Walking
<1> QED
  BY <1>2, <1>3, <1>4 DEF Next

\* For any number of windows, callers and readers, and in whatever order the
\* stores of a locked section reach memory: the walk that dispatch_once makes
\* without window_list_lock delivers to every window that was linked and on top
\* from the dequeue to the end of the walk, and when the lock is free the list
\* is circular and each of its windows is allocated and has its members set.
THEOREM WindowsAlwaysSafe == Spec => []WindowSafe
<1>1. WindowInv => TypeOK
  <2> SUFFICES ASSUME WindowInv PROVE TypeOK
    OBVIOUS
  <2>1. \A c \in Callers : \A s \in stores[c] : s.node \in Nodes \cup {ListHead}
    BY DEF WindowInv, ListInv, ListTypes, StoreKinds, Heads
  <2> QED
    BY <2>1 DEF WindowInv, ListInv, ListTypes, WalkInv, WalkTypes, EventInv, QueueInv,
       LockInv, ThreadTypes, TypeOK, Heads, Labels
<1>2. WindowInv => WalkComplete
  BY DEF WindowInv, WalkInv, WalkOf, WalkComplete
<1>3. WindowInv => ListConsistent
  <2> SUFFICES ASSUME WindowInv, lock = Free
               PROVE  /\ \E n \in Linked \cup {ListHead} : next[n] = ListHead
                      /\ \A n \in Linked : win[n].pid # Null /\ win[n].event_buffer # Null
                      /\ Linked \subseteq allocated
    BY DEF ListConsistent
  <2>1. Pending = {}
    BY FreeAssumption DEF WindowInv, LockInv, StoresUnderLock, Pending
  <2>2. SettledOf(next, Pending) = next
    BY <2>1, SettledAlready DEF WindowInv, ListInv, ListTypes, NextsOf
  <2>3. Whole(next) /\ LinkedIn(next) \subseteq allocated
        /\ \A n \in LinkedIn(next) : Complete(win, {}, n)
    BY <2>1, <2>2 DEF WindowInv, ListInv, ListOf
  <2>4. ASSUME NEW n \in LinkedIn(next)
        PROVE  win[n].pid # Null /\ win[n].event_buffer # Null
    <3>1. \A m \in {"pid", "event_buffer"} : win[n][m] # Null
      BY <2>3 DEF Complete
    <3> QED
      BY <3>1
  <2> QED
    BY <2>3, <2>4 DEF Whole, Linked
<1>4. WindowInv => WindowSafe
  BY <1>1, <1>2, <1>3 DEF WindowSafe
<1> QED
  BY <1>4, InitWindowInv, NextKeepsWindowInv, PTL DEF Spec

-----------------------------------------------------------------------------
(* Nothing registered is lost: unless a caller died with the lock, the list *)
(* that memory and the stores under way come to has every allocated window. *)

KeptInv ==
    (\A c \in Callers : pc[c] # "dead") => allocated \subseteq LinkedIn(SettledOf(next, Pending))

\* A section that changes no next pointer, and registers nothing.
LEMMA SettledPending ==
    ASSUME WindowInv, NEW c \in Callers, pc[c] = "locked",
           NEW S, NextsOf(S) = {}, stores' = [stores EXCEPT ![c] = S], UNCHANGED next
    PROVE  SettledOf(next', Pending') = SettledOf(next, Pending)
<1>1. Pending = {} /\ NextsOf(Pending) = {}
  BY LockedSettled DEF NextsOf
<1>2. \A d \in Callers \ {c} : stores'[d] = {}
  BY PendingOfHolder DEF WindowInv, LockInv, ThreadTypes
<1>3. stores'[c] = S
  BY DEF WindowInv, LockInv, ThreadTypes
<1>4. Pending' = S
  BY <1>2, <1>3 DEF Pending
<1> QED
  BY <1>1, <1>4 DEF SettledOf

LEMMA CallerKeepsKeptInv ==
    ASSUME WindowInv, KeptInv, NEW c \in Callers, CallerStep(c)
    PROVE  KeptInv'
<1> SUFFICES ASSUME \A d \in Callers : pc'[d] # "dead"
             PROVE  allocated' \subseteq LinkedIn(SettledOf(next', Pending'))
  BY DEF KeptInv
<1>1. /\ ListTypes /\ pc \in [Threads -> Labels] /\ c \in Threads
      /\ \A d \in Callers \ {c} : pc'[d] = pc[d] /\ stores'[d] = stores[d]
  BY CallerStepFrame DEF WindowInv, ListInv, LockInv, ThreadTypes, CallerFrame, Threads
<1>2. pc[c] # "dead"
  BY <1>1
  DEF CallerStep, LockShare, Acquire, AddWindow, AddWindowOops, SetWindow,
      GetWindow, Update, DelWindow, Commit, UnlockShare
<1>3. allocated \subseteq LinkedIn(SettledOf(next, Pending))
  BY <1>1, <1>2 DEF KeptInv
<1>4. CASE LockShare(c) \/ UnlockShare(c)
  <2>1. UNCHANGED <<next, allocated, stores>>
    BY <1>4 DEF LockShare, Acquire, UnlockShare
  <2> QED
    BY <1>3, <2>1 DEF Pending
<1>5. CASE AddWindowOops(c) \/ DelWindow(c)
  BY <1>1, <1>5 DEF AddWindowOops, DelWindow, Goto
<1>6. CASE AddWindow(c)
  <2>1. PICK n \in Nodes \ allocated, p \in Pids, z \in Zorders, b \in Buffers :
            Update(c, {n}, Members(n, p, z, b)
                \cup {Store(n, "next", next[ListHead]), Store(ListHead, "next", n)})
    BY <1>6 DEF AddWindow
  <2> DEFINE S == Members(n, p, z, b)
                      \cup {Store(n, "next", next[ListHead]), Store(ListHead, "next", n)}
  <2>2. /\ pc[c] = "locked" /\ stores' = [stores EXCEPT ![c] = S]
        /\ allocated' = allocated \cup {n} /\ next' = next
    BY <2>1 DEF Update
  <2>3. /\ Pending = {} /\ SettledOf(next, {}) = next /\ ListOf(next, win, allocated, {})
    BY <2>2, LockedSettled
  <2> HIDE DEF S
  <2>4. LinkedIn(SettledOf(next, S)) = LinkedIn(next) \cup {n}
    <3>1. Whole(next) /\ LinkedIn(next) \subseteq allocated
      BY <2>3 DEF ListOf
    <3>2. NextsOf(S) = {Store(n, "next", next[ListHead]), Store(ListHead, "next", n)}
      BY DEF S, NextsOf, Members, Store
    <3> QED
      BY <1>1, <3>1, <3>2, LinkSettles DEF ListTypes
  <2>5. stores'[c] = S /\ \A d \in Callers \ {c} : stores[d] = {}
    BY <1>1, <2>2, PendingOfHolder DEF WindowInv, ListTypes
  <2>6. Pending' = S
    BY <1>1, <2>5 DEF Pending
  <2> QED
    BY <1>3, <2>2, <2>3, <2>4, <2>6
<1>7. CASE SetWindow(c)
  <2>1. PICK p \in Pids, width \in Zorders, b \in Buffers :
            Update(c, {}, UNION {{Store(n, "zorder", width),
                                  Store(n, "event_buffer", b)} : n \in Matching(p)})
    BY <1>7 DEF SetWindow
  <2> DEFINE S == UNION {{Store(n, "zorder", width),
                          Store(n, "event_buffer", b)} : n \in Matching(p)}
  <2>2. NextsOf(S) = {}
    BY DEF NextsOf, Store
  <2> HIDE DEF S
  <2>3. /\ pc[c] = "locked" /\ stores' = [stores EXCEPT ![c] = S]
        /\ allocated' = allocated \cup {} /\ next' = next
    BY <2>1 DEF Update, S
  <2> QED
    BY <1>3, <2>2, <2>3, SettledPending
<1>8. CASE GetWindow(c)
  <2>1. /\ pc[c] = "locked" /\ stores' = [stores EXCEPT ![c] = {}]
        /\ allocated' = allocated \cup {} /\ next' = next
    BY <1>8 DEF GetWindow, Update
  <2>2. NextsOf({}) = {}
    BY DEF NextsOf
  <2> QED
    BY <1>3, <2>1, <2>2, SettledPending
<1>9. CASE Commit(c)
  <2>1. PICK s \in stores[c] :
            /\ stores' = [stores EXCEPT ![c] = @ \ {s}]
            /\ IF s.member = "next"
               THEN next' = [next EXCEPT ![s.node] = s.value] /\ win' = win
               ELSE win' = [win EXCEPT ![s.node][s.member] = s.value] /\ next' = next
    BY <1>9 DEF Commit
  <2>2. allocated' = allocated
    BY <1>9 DEF Commit
  <2>3. pc[c] \in {"locked", "unlock", "dead"}
    BY <2>1 DEF WindowInv, LockInv, StoresUnderLock
  <2>4. Pending = stores[c] /\ \A d \in Callers \ {c} : stores[d] = {}
    BY <2>3, PendingOfHolder DEF WindowInv
  <2>5. stores'[c] = Pending \ {s}
    BY <1>1, <2>1, <2>4 DEF ListTypes
  <2>6. Pending' = Pending \ {s} /\ Pending \subseteq StoreKinds /\ s \in Pending
    BY <1>1, <2>1, <2>4, <2>5 DEF Pending, ListTypes
  <2>7. CASE s.member = "next"
    <3>1. s \in NextsOf(Pending) /\ next' = [next EXCEPT ![s.node] = s.value]
      BY <2>1, <2>6, <2>7 DEF NextsOf
    <3>2. \A a, b \in NextsOf(Pending) : a.node = b.node => a = b
      BY <2>6, OneStoreEach DEF WindowInv, ListInv, ListOf
    <3>3. SettledOf(next', Pending \ {s}) = SettledOf(next, Pending)
      BY <1>1, <2>6, <3>1, <3>2, CommitSettles DEF ListTypes
    <3> QED
      BY <1>3, <2>2, <2>6, <3>3
  <2>8. CASE s.member # "next"
    <3>1. NextsOf(Pending') = NextsOf(Pending) /\ next' = next
      BY <2>1, <2>6, <2>8 DEF NextsOf
    <3>2. SettledOf(next', Pending') = SettledOf(next, Pending)
      BY <3>1 DEF SettledOf
    <3> QED
      BY <1>3, <2>2, <3>2
  <2> QED
    BY <2>7, <2>8
<1> QED
  BY <1>4, <1>5, <1>6, <1>7, <1>8, <1>9 DEF CallerStep

LEMMA NextKeepsKeptInv == WindowInv /\ KeptInv /\ [Next]_vars => KeptInv'
<1> SUFFICES ASSUME WindowInv, KeptInv, [Next]_vars PROVE KeptInv'
  OBVIOUS
<1>1. ASSUME NEW r \in Readers, ReaderStep(r) PROVE KeptInv'
  <2>1. ReaderFrame
    BY <1>1, ReaderStepFrame DEF WindowInv, LockInv
  <2>2. Pending' = Pending
    BY <2>1 DEF ReaderFrame, list, Pending
  <2> QED
    BY <2>1, <2>2 DEF ReaderFrame, list, KeptInv
<1>2. ASSUME NEW c \in Callers, CallerStep(c) PROVE KeptInv'
  BY <1>2, CallerKeepsKeptInv
<1>3. CASE UNCHANGED vars
  <2>1. Pending' = Pending
    BY <1>3 DEF vars, list, Pending
  <2> QED
    BY <1>3, <2>1 DEF vars, list, KeptInv
<1> QED
  BY <1>1, <1>2, <1>3 DEF Next

\* For any number of callers, windows and readers, and in whatever order the stores of their
\* locked sections reach memory: a caller that finds window_list_lock free finds every window
\* registered so far in the list, so that no add_window undoes another one's (window.c 30-50).
THEOREM RegistrationsAlwaysKept == Spec => []RegistrationsKept
<1>1. Init => WindowInv /\ KeptInv
  BY InitWindowInv DEF Init, KeptInv
<1>2. WindowInv /\ KeptInv /\ [Next]_vars => WindowInv' /\ KeptInv'
  BY NextKeepsWindowInv, NextKeepsKeptInv
<1>3. WindowInv /\ KeptInv => RegistrationsKept
  <2> SUFFICES ASSUME WindowInv, KeptInv, lock = Free PROVE Linked = allocated
    BY DEF RegistrationsKept
  <2>1. Pending = {} /\ \A c \in Callers : pc[c] # "dead"
    BY FreeAssumption DEF WindowInv, LockInv, StoresUnderLock, Pending
  <2>2. SettledOf(next, Pending) = next
    BY <2>1, SettledAlready DEF WindowInv, ListInv, ListTypes, NextsOf
  <2> QED
    BY <2>1, <2>2 DEF KeptInv, Linked, WindowInv, ListInv, ListOf
<1> QED
  BY <1>1, <1>2, <1>3, PTL DEF Spec
=============================================================================

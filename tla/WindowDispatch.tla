--------------------------- MODULE WindowDispatch ---------------------------
(***************************************************************************)
(* The zizhan window driver: window.c, dispatcher.c, zizhan.c and the hook *)
(* in input-compat.c.                                                      *)
(*                                                                         *)
(* Every thread that read()s an evdev node (both event hubs open the same  *)
(* nodes) runs input_event_to_user for each event: it enqueues the event   *)
(* on the driver's queue, runs dispatch_once, and only then copies the     *)
(* event to its own caller.  dispatch_once takes the oldest queued event   *)
(* and walks the window list WITHOUT window_list_lock, while the window    *)
(* system calls change the list under that lock.                           *)
(*                                                                         *)
(* The list is kept as its next pointers.  A thread that holds the lock    *)
(* has a set of pending stores that reach memory in any order before the   *)
(* unlock (the target is ARMv8 and list_add has no barrier): that is what  *)
(* a walker without the lock may observe.                                  *)
(***************************************************************************)
EXTENDS Naturals, Sequences, FiniteSets

CONSTANTS
    Readers,     \* threads in evdev's read(), all on the same device
    Callers,     \* threads in the window system calls
    Nodes,       \* the window structures kzalloc can return (bound)
    Pids,        \* the pid argument of the system calls
    Buffers,     \* the event_buffer pages the callers register
    MaxEvents,   \* the device produces events 1 .. MaxEvents (bound)
    ListHead,    \* &window_list
    Null,        \* a null pointer
    Poison,      \* LIST_POISON1, stored by list_del
    Free         \* window_list_lock is not held

ASSUME ReadersAssumption == IsFiniteSet(Readers) /\ Readers \cap Callers = {}
ASSUME NodesAssumption == {ListHead, Null, Poison} \cap Nodes = {}
ASSUME PointersAssumption == ListHead # Null /\ ListHead # Poison /\ Null # Poison
ASSUME NullAssumption == Null \notin Pids \cup Buffers
ASSUME EventsAssumption == MaxEvents \in Nat
ASSUME FreeAssumption == Free \notin Callers

VARIABLES
    next,        \* node.next of every window and of the list head
    win,         \* the other members of every window
    allocated,   \* the windows kzalloc has returned; nothing frees them
    mem,         \* the events whose bytes a settled buffer holds
    burst,       \* the events being copied into a buffer at the same time
    lock,        \* the holder of window_list_lock
    stores,      \* stores of the lock holder that are not in memory yet
    queue,       \* zizhan_data
    pc,          \* where every thread is
    nread,       \* how many events a reader has taken from the device
    ev,          \* dispatch_once's e
    cur,         \* dispatch_once's win
    dst,         \* the buffer deliver's memcpy is writing
    dispatched,  \* history: how often each event left the queue
    must,        \* history: windows linked and on top ever since the dequeue
    got          \* history: windows this dispatch has copied the event to

list == <<next, win, allocated, lock, stores>>
walk == <<ev, cur, dst, got>>
vars == <<list, mem, burst, queue, pc, nread, walk, dispatched, must>>

Threads == Readers \cup Callers
Events == 1 .. MaxEvents
TOP == 99                       \* the zorder policy() delivers to
Zorders == {0, TOP}
Pointers == Nodes \cup {ListHead, Null, Poison}
ZeroWindow == [pid |-> Null, zorder |-> 0, event_buffer |-> Null]
Windows == [pid : Pids \cup {Null}, zorder : Zorders,
            event_buffer : Buffers \cup {Null}]

\* A store of v to member m of a window, or to a next pointer.
Store(n, m, v) == [node |-> n, member |-> m, value |-> v]

\* The windows that a walk which has come to x will meet: those of every set
\* that has x and, with a window, the next one.
ClosedUnder(nx, S) == \A m \in S : nx[m] \in Nodes => nx[m] \in S
Ahead(nx, x) ==
    {n \in Nodes : \A S \in SUBSET Nodes :
                     ClosedUnder(nx, S) /\ (x \in Nodes => x \in S) => n \in S}
LinkedIn(nx) == Ahead(nx, nx[ListHead])
Linked == LinkedIn(next)
OnTop(nx, w) == {n \in LinkedIn(nx) : w[n].zorder = TOP}

TypeOK ==
    /\ next \in [Nodes \cup {ListHead} -> Pointers]
    /\ win \in [Nodes -> Windows]
    /\ allocated \subseteq Nodes
    /\ mem \in [Buffers -> SUBSET Events]
    /\ burst \in [Buffers -> SUBSET Events]
    /\ lock \in Callers \cup {Free}
    /\ \A c \in Callers : \A s \in stores[c] : s.node \in Nodes \cup {ListHead}
    /\ queue \in Seq(Events)
    /\ pc \in [Threads -> {"idle", "dispatch", "policy", "deliver", "memcpy",
                           "copy_to_user", "locked", "unlock", "dead"}]
    /\ nread \in [Readers -> 0 .. MaxEvents]
    /\ ev \in [Readers -> 0 .. MaxEvents]
    /\ cur \in [Readers -> Pointers]
    /\ dst \in [Readers -> Buffers \cup {Null}]
    /\ dispatched \in [Events -> Nat]
    /\ must \in [Readers -> SUBSET Nodes]
    /\ got \in [Readers -> SUBSET Nodes]

Init ==
    /\ next = [n \in Nodes \cup {ListHead} |->
                  IF n = ListHead THEN ListHead ELSE Null]
    /\ win = [n \in Nodes |-> ZeroWindow]
    /\ allocated = {}
    /\ mem = [b \in Buffers |-> {}]
    /\ burst = [b \in Buffers |-> {}]
    /\ lock = Free
    /\ stores = [c \in Callers |-> {}]
    /\ queue = <<>>
    /\ pc = [t \in Threads |-> "idle"]
    /\ nread = [r \in Readers |-> 0]
    /\ ev = [r \in Readers |-> 0]
    /\ cur = [r \in Readers |-> ListHead]
    /\ dst = [r \in Readers |-> Null]
    /\ dispatched = [e \in Events |-> 0]
    /\ must = [r \in Readers |-> {}]
    /\ got = [r \in Readers |-> {}]

Goto(t, l) == pc' = [pc EXCEPT ![t] = l]

-----------------------------------------------------------------------------
(* The readers: input_event_to_user, dispatch_once, policy and deliver.    *)

\* zizhan_write: the next event of the device goes to the tail of the queue.
ZizhanWrite(r) ==
    /\ pc[r] = "idle"
    /\ nread[r] < MaxEvents
    /\ nread' = [nread EXCEPT ![r] = @ + 1]
    /\ queue' = Append(queue, nread[r] + 1)
    /\ Goto(r, "dispatch")
    /\ UNCHANGED <<list, mem, burst, walk, dispatched, must>>

\* Dispatching e starts a walk and leaves rest in the queue.
StartWalk(r, e, rest) ==
    /\ pc[r] = "dispatch"
    /\ queue # <<>>
    /\ ev' = [ev EXCEPT ![r] = e]
    /\ queue' = rest
    /\ dispatched' = [dispatched EXCEPT ![e] = @ + 1]
    /\ cur' = [cur EXCEPT ![r] = next[ListHead]]
    /\ must' = [must EXCEPT ![r] = OnTop(next, win)]
    /\ got' = [got EXCEPT ![r] = {}]
    /\ Goto(r, "policy")
    /\ UNCHANGED <<list, mem, burst, nread, dst>>

\* Mutants: the event stays queued; the walk waits for window_list_lock.
DequeuePeeks(r) == StartWalk(r, Head(queue), queue)
DequeueLocked(r) == lock = Free /\ StartWalk(r, Head(queue), Tail(queue))

\* dispatch_once takes the oldest event, whoever queued it, and starts to walk.
Dequeue(r) == StartWalk(r, Head(queue), Tail(queue))

\* The walk is over when it is back at the head.
WalkEnd(r) ==
    /\ pc[r] = "policy"
    /\ cur[r] = ListHead
    /\ Goto(r, "copy_to_user")
    /\ UNCHANGED <<list, mem, burst, queue, nread, walk, dispatched, must>>

\* policy(): a window that is not on top is passed over.
PolicyRejects(r) ==
    /\ pc[r] = "policy"
    /\ cur[r] \in Nodes
    /\ win[cur[r]].zorder # TOP
    /\ cur' = [cur EXCEPT ![r] = next[cur[r]]]
    /\ UNCHANGED <<list, mem, burst, queue, pc, nread, ev, dst, got, dispatched,
                   must>>

PolicyAccepts(r) ==
    /\ pc[r] = "policy"
    /\ cur[r] \in Nodes
    /\ win[cur[r]].zorder = TOP
    /\ Goto(r, "deliver")
    /\ UNCHANGED <<list, mem, burst, queue, nread, walk, dispatched, must>>

\* The copy of event e into the current window's buffer begins.
StartCopy(r, e) ==
    LET b == win[cur[r]].event_buffer IN
    /\ pc[r] = "deliver"
    /\ b # Null
    /\ dst' = [dst EXCEPT ![r] = b]
    /\ burst' = [burst EXCEPT ![b] = @ \cup {e}]
    /\ Goto(r, "memcpy")
    /\ UNCHANGED <<list, mem, queue, nread, ev, cur, got, dispatched, must>>

\* Mutant: the event this thread has enqueued itself is delivered.
DeliverOwn(r) == StartCopy(r, nread[r])

\* deliver(): event_buffer is read after policy() has decided.
Deliver(r) == StartCopy(r, ev[r])

\* deliver returns; the walk goes on at nxt.
EndCopy(r, contents, nxt) ==
    /\ pc[r] = "memcpy"
    /\ IF \E q \in Readers \ {r} : pc[q] = "memcpy" /\ dst[q] = dst[r]
       THEN UNCHANGED <<mem, burst>>
       ELSE /\ mem' = [mem EXCEPT ![dst[r]] = contents]
            /\ burst' = [burst EXCEPT ![dst[r]] = {}]
    /\ got' = [got EXCEPT ![r] = @ \cup {cur[r]}]
    /\ cur' = [cur EXCEPT ![r] = nxt]
    /\ Goto(r, "policy")
    /\ UNCHANGED <<list, queue, nread, ev, dst, dispatched, must>>

\* The copy is whole only when no other copy into the buffer overlapped it.
MemcpyDone(r) == EndCopy(r, burst[dst[r]], next[cur[r]])

\* A null or poisoned next, or a null event_buffer, is dereferenced: an oops
\* ends the thread.
ReaderOops(r) ==
    /\ \/ pc[r] = "policy" /\ cur[r] \in {Null, Poison}
       \/ pc[r] = "deliver" /\ win[cur[r]].event_buffer = Null
    /\ Goto(r, "dead")
    /\ UNCHANGED <<list, mem, burst, queue, nread, walk, dispatched, must>>

\* copy_to_user succeeds or the call returns -EFAULT; the event stays
\* dispatched either way, and the locals of the call are gone.
CopyToUser(r) ==
    /\ pc[r] = "copy_to_user"
    /\ Goto(r, "idle")
    /\ ev' = [ev EXCEPT ![r] = 0]
    /\ cur' = [cur EXCEPT ![r] = ListHead]
    /\ dst' = [dst EXCEPT ![r] = Null]
    /\ got' = [got EXCEPT ![r] = {}]
    /\ must' = [must EXCEPT ![r] = {}]
    /\ UNCHANGED <<list, mem, burst, queue, nread, dispatched>>

ReaderStep(r) ==
    \/ ZizhanWrite(r)   \/ Dequeue(r)       \/ WalkEnd(r)
    \/ PolicyRejects(r) \/ PolicyAccepts(r) \/ Deliver(r)
    \/ MemcpyDone(r)    \/ ReaderOops(r)    \/ CopyToUser(r)

-----------------------------------------------------------------------------
(* The window system calls.                                                *)

readers == <<mem, burst, queue, nread, walk, dispatched>>

Acquire(c) ==
    /\ pc[c] = "idle"
    /\ lock' = c
    /\ Goto(c, "locked")
    /\ UNCHANGED <<next, win, allocated, stores, readers, must>>

\* Mutant: USE_LOCK 0.
LockShareUnlocked(c) == Acquire(c)

\* lock_share()
LockShare(c) == lock = Free /\ Acquire(c)

Matching(pid) == {n \in Linked : win[n].pid = pid}

\* A locked section allocates the windows of new and ends with stores S.
Update(c, new, S) ==
    /\ pc[c] = "locked"
    /\ allocated' = allocated \cup new
    /\ stores' = [stores EXCEPT ![c] = S]
    /\ Goto(c, "unlock")
    /\ UNCHANGED <<next, win, lock, readers, must>>

Members(n, p, z, b) ==
    {Store(n, "pid", p), Store(n, "zorder", z), Store(n, "event_buffer", b)}

\* Mutant: list_add forgets the new node's own next.
AddWindowHalfLinked(c) ==
    \E n \in Nodes \ allocated, p \in Pids, z \in Zorders, b \in Buffers :
        Update(c, {n}, Members(n, p, z, b) \cup {Store(ListHead, "next", n)})

\* add_window: the members are set and the node is linked at the head.
AddWindow(c) ==
    \E n \in Nodes \ allocated, p \in Pids, z \in Zorders, b \in Buffers :
        Update(c, {n}, Members(n, p, z, b)
            \cup {Store(n, "next", next[ListHead]), Store(ListHead, "next", n)})

\* kzalloc fails and add_window stores through the null pointer.
AddWindowOops(c) ==
    /\ pc[c] = "locked"
    /\ Goto(c, "dead")
    /\ UNCHANGED <<list, readers, must>>

\* set_window changes every window of pid; its zorder becomes the width.
SetWindow(c) ==
    \E p \in Pids, width \in Zorders, b \in Buffers :
        Update(c, {}, UNION {{Store(n, "zorder", width),
                              Store(n, "event_buffer", b)} : n \in Matching(p)})

\* get_window, and del_window when no window has the pid, change nothing.
GetWindow(c) == Update(c, {}, {})

\* del_window unlinks the first window of pid, then advances through the
\* next pointer list_del has just poisoned: the thread dies with the lock.
DelWindow(c) ==
    /\ pc[c] = "locked"
    /\ \E p \in Pids : \E n \in Matching(p), prev \in Linked \cup {ListHead} :
        /\ \A m \in Matching(p) : n \notin Ahead(next, next[m])
        /\ next[prev] = n
        /\ stores' = [stores EXCEPT ![c] =
               {Store(prev, "next", next[n]), Store(n, "next", Poison)}]
    /\ Goto(c, "dead")
    /\ UNCHANGED <<next, win, allocated, lock, readers, must>>

\* A pending store reaches memory.
Commit(c) ==
    /\ \E s \in stores[c] :
        /\ stores' = [stores EXCEPT ![c] = @ \ {s}]
        /\ IF s.member = "next"
           THEN next' = [next EXCEPT ![s.node] = s.value] /\ win' = win
           ELSE win' = [win EXCEPT ![s.node][s.member] = s.value] /\ next' = next
    /\ LET top == OnTop(next', win') IN must' = [r \in Readers |-> must[r] \cap top]
    /\ UNCHANGED <<allocated, lock, pc, readers>>

\* unlock_share(): a release, so every store of the holder is in memory.
UnlockShare(c) ==
    /\ pc[c] = "unlock"
    /\ stores[c] = {}
    /\ lock' = Free
    /\ Goto(c, "idle")
    /\ UNCHANGED <<next, win, allocated, stores, readers, must>>

CallerStep(c) ==
    \/ LockShare(c) \/ AddWindow(c) \/ AddWindowOops(c) \/ SetWindow(c)
    \/ GetWindow(c) \/ DelWindow(c) \/ Commit(c)        \/ UnlockShare(c)

Next == (\E r \in Readers : ReaderStep(r)) \/ (\E c \in Callers : CallerStep(c))

\* A thread inside the kernel keeps running; nothing obliges a thread to call.
Fairness ==
    /\ \A r \in Readers : WF_vars(pc[r] # "idle" /\ ReaderStep(r))
    /\ \A c \in Callers : WF_vars(Commit(c)) /\ WF_vars(UnlockShare(c))

Spec == Init /\ [][Next]_vars
FairSpec == Spec /\ Fairness

-----------------------------------------------------------------------------
(* Properties.                                                             *)

Writing == {r \in Readers : pc[r] = "dispatch"}

\* Every dispatch_once follows its own thread's zizhan_write, so the queue
\* holds one event per thread between the two calls: dequeue_event never meets
\* an empty queue, and the 1000 places of zizhan_data cannot run out.
QueueBalance == Len(queue) = Cardinality(Writing)

\* Whatever dispatcher picks whose event, each read of an event leads to one
\* dispatch of that event: those not yet dispatched are still queued.
EventsAccounted ==
    \A e \in Events :
        Cardinality({r \in Readers : nread[r] >= e})
            = dispatched[e] + Cardinality({i \in 1 .. Len(queue) : queue[i] = e})

\* Each event that was read is in the queue or was dispatched, once for each
\* reader of it, and the queue holds no more than the threads that will take it.
EventsInHand == QueueBalance /\ EventsAccounted

\* The unlocked walk misses no window that was linked and on top from the
\* dequeue to the end of the walk, however windows are added, moved or
\* deleted meanwhile.
WalkComplete ==
    \A r \in Readers : pc[r] = "copy_to_user" => must[r] \subseteq got[r]

\* With the lock free, the list is circular, no member of it is half set and
\* every linked window was allocated: the locked walks of the next caller
\* terminate and see only complete windows.
ListConsistent ==
    lock = Free =>
        /\ \E n \in Linked \cup {ListHead} : next[n] = ListHead
        /\ \A n \in Linked : win[n].pid # Null /\ win[n].event_buffer # Null
        /\ Linked \subseteq allocated

\* Whatever calls came one after another, a caller that finds the lock free
\* finds every window registered so far in the list: no add_window overwrites
\* the link another one has just made.  (del_window of a registered pid keeps
\* the lock forever.)
RegistrationsKept == lock = Free => Linked = allocated

\* No window is lost, and the list is whole, while the walk runs without the
\* lock.
WindowSafe == TypeOK /\ WalkComplete /\ ListConsistent

\* A caller that died in the critical section (del_window of a registered pid,
\* or a failed kzalloc) leaves the lock held: no window is added, changed or
\* deleted afterwards, apart from the stores it had issued itself.
DeadHolderFreezesList ==
    [][\A c \in Callers : pc[c] = "dead" =>
            lock' = lock /\ allocated' = allocated
            /\ (list' # list => stores'[c] # stores[c])]_vars

\* A thread in input_event_to_user always comes back or oopses, even when the
\* lock is never released: dispatch_once takes no lock and its walk ends.
ReadReturns ==
    \A r \in Readers : pc[r] # "idle" ~> pc[r] \in {"idle", "dead"}

=============================================================================

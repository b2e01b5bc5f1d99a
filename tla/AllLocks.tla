------------------------------ MODULE AllLocks ------------------------------
(* mm_take_all_locks and mm_drop_all_locks (mmap.c 3429-3608): a task locks    *)
(* its address space against everything that walks its pages, while other      *)
(* tasks do the same to theirs and the reverse mapping takes single locks.     *)
(* Address spaces share files and, after a fork, anonymous roots; a lock met   *)
(* twice is recognised by a mark beside it.                                    *)
EXTENDS Integers, Sequences, FiniteSets

CONSTANTS
  Tasks,
  Walkers,  \* users of single locks: truncation, the reverse mapping
  Files, Roots,  \* mapping->i_mmap_rwsem and anon_vma->root->rwsem
  Areas,    \* task -> its areas in order: [file, huge, roots]; file may be NoLock
  NoLock

ASSUME NamesAssumption ==
  /\ Files \cap Roots = {} /\ Tasks \cap Walkers = {}
  /\ NoLock \notin Files \cup Roots \cup Tasks \cup Walkers
ASSUME AreasAssumption ==
  \A t \in Tasks :
    Areas[t] \in Seq([file : Files \cup {NoLock}, huge : BOOLEAN, roots : SUBSET Roots])

VARIABLES
  mutex,    \* mm_all_locks_mutex: the task that holds it, or NoLock
  holder,   \* per lock: who holds it for writing, or NoLock
  marked,   \* AS_MM_ALL_LOCKS and the low bit of rb_node
  pc        \* per task: its phase, the area it is at, the roots of that area still to visit,
            \* and the lock it has half done with

lockVars == <<mutex, holder, marked, pc>>

Locks == Files \cup Roots
Users == Tasks \cup Walkers
Idle == [phase |-> "idle", at |-> 1, todo |-> {}, half |-> NoLock]

FilesOf(t) == {Areas[t][i].file : i \in DOMAIN Areas[t]} \ {NoLock}
RootsOf(t) == UNION {Areas[t][i].roots : i \in DOMAIN Areas[t]}

Init ==
  /\ mutex = NoLock /\ marked = {}
  /\ holder = [l \in Locks |-> NoLock]
  /\ pc = [t \in Tasks |-> Idle]

----------------------------------------------------------------------------
Here(t) == Areas[t][pc[t].at]
InArea(t) == pc[t].at <= Len(Areas[t])
Between(t) == pc[t].half = NoLock

\* The task has mmap_sem for writing and takes the mutex.
TakeMutex(t) ==
  /\ pc[t].phase = "idle" /\ mutex = NoLock
  /\ mutex' = t
  /\ pc' = [pc EXCEPT ![t].phase = "huge", ![t].at = 1]
  /\ UNCHANGED <<holder, marked>>

\* the loop of this phase locks the file of the area
Wanted(t) == Here(t).file # NoLock /\ Here(t).huge = (pc[t].phase = "huge")

\* vm_lock_mapping: the mark, then the lock.  An area of the other kind, and a marked file, is
\* passed over.
MarkFile(t) ==
  /\ pc[t].phase \in {"huge", "files"} /\ InArea(t) /\ Between(t)
  /\ IF Wanted(t) /\ Here(t).file \notin marked
     THEN marked' = marked \cup {Here(t).file} /\ pc' = [pc EXCEPT ![t].half = Here(t).file]
     ELSE pc' = [pc EXCEPT ![t].at = @ + 1] /\ UNCHANGED marked
  /\ UNCHANGED <<mutex, holder>>

LockFile(t) ==
  /\ pc[t].phase \in {"huge", "files"} /\ ~Between(t)
  /\ holder[pc[t].half] = NoLock
  /\ holder' = [holder EXCEPT ![pc[t].half] = t]
  /\ pc' = [pc EXCEPT ![t].half = NoLock, ![t].at = @ + 1]
  /\ UNCHANGED <<mutex, marked>>

RootsAt(t, i) == IF i <= Len(Areas[t]) THEN Areas[t][i].roots ELSE {}

\* the end of a loop
NextLoop(t) ==
  /\ pc[t].phase \in {"huge", "files"} /\ ~InArea(t) /\ Between(t)
  /\ pc' = [pc EXCEPT ![t].phase = IF @ = "huge" THEN "files" ELSE "anon", ![t].at = 1,
                      ![t].todo = IF pc[t].phase = "files" THEN RootsAt(t, 1) ELSE {}]
  /\ UNCHANGED <<mutex, holder, marked>>

\* Mutant: a root that is locked already is waited for no more.
LockRootTaken(t) ==
  /\ pc[t].phase = "anon"
  /\ \E r \in pc[t].todo :
       /\ holder' = IF holder[r] = NoLock THEN [holder EXCEPT ![r] = t] ELSE holder
       /\ marked' = IF holder[r] = NoLock THEN marked \cup {r} ELSE marked
       /\ pc' = [pc EXCEPT ![t].todo = @ \ {r}]
  /\ UNCHANGED mutex

\* vm_lock_anon_vma: the lock, and under it the mark.  A marked root is passed over.
LockRoot(t) ==
  /\ pc[t].phase = "anon"
  /\ \E r \in pc[t].todo :
       /\ r \in marked \/ holder[r] = NoLock
       /\ holder' = IF r \in marked THEN holder ELSE [holder EXCEPT ![r] = t]
       /\ marked' = marked \cup {r}
       /\ pc' = [pc EXCEPT ![t].todo = @ \ {r}]
  /\ UNCHANGED mutex

NextArea(t) ==
  /\ pc[t].phase = "anon" /\ pc[t].todo = {}
  /\ pc' = IF InArea(t) THEN [pc EXCEPT ![t].at = @ + 1, ![t].todo = RootsAt(t, pc[t].at + 1)]
           ELSE [pc EXCEPT ![t].phase = "inside", ![t].at = 1]
  /\ UNCHANGED <<mutex, holder, marked>>

\* mm_drop_all_locks begins: from the section, or at an area when a signal is pending.
Drop(t) ==
  /\ \/ pc[t].phase = "inside"
     \/ pc[t].phase \in {"huge", "files"} /\ InArea(t) /\ Between(t)
     \/ pc[t].phase = "anon" /\ InArea(t) /\ pc[t].todo = Here(t).roots
  /\ pc' = [pc EXCEPT ![t].phase = "drop", ![t].at = 1, ![t].todo = RootsAt(t, 1)]
  /\ UNCHANGED <<mutex, holder, marked>>

\* vm_unlock_anon_vma: the mark is cleared before the lock is released.
UnlockRoot(t) ==
  /\ pc[t].phase = "drop"
  /\ \/ \E r \in pc[t].todo \cap marked :
          /\ Between(t)
          /\ marked' = marked \ {r}
          /\ pc' = [pc EXCEPT ![t].half = r]
          /\ UNCHANGED <<mutex, holder>>
     \/ /\ pc[t].half \in Roots
        /\ holder' = [holder EXCEPT ![pc[t].half] = NoLock]
        /\ pc' = [pc EXCEPT ![t].half = NoLock, ![t].todo = @ \ {pc[t].half}]
        /\ UNCHANGED <<mutex, marked>>

\* the roots of the area are done
RootsDone(t) == pc[t].phase = "drop" /\ InArea(t) /\ pc[t].todo \cap marked = {}

\* vm_unlock_mapping: the lock, then the mark; then the next area.
UnlockFile(t) ==
  /\ RootsDone(t) /\ Between(t)
  /\ LET f == Here(t).file IN
     IF f \in marked
     THEN holder' = [holder EXCEPT ![f] = NoLock] /\ pc' = [pc EXCEPT ![t].half = f]
     ELSE pc' = [pc EXCEPT ![t].at = @ + 1, ![t].todo = RootsAt(t, pc[t].at + 1)] /\ UNCHANGED holder
  /\ UNCHANGED <<mutex, marked>>

UnmarkFile(t) ==
  /\ pc[t].phase = "drop" /\ pc[t].half \in Files
  /\ marked' = marked \ {pc[t].half}
  /\ pc' = [pc EXCEPT ![t].half = NoLock, ![t].at = @ + 1, ![t].todo = RootsAt(t, pc[t].at + 1)]
  /\ UNCHANGED <<mutex, holder>>

ReleaseMutex(t) ==
  /\ pc[t].phase = "drop" /\ ~InArea(t) /\ Between(t)
  /\ mutex' = NoLock
  /\ pc' = [pc EXCEPT ![t] = Idle]
  /\ UNCHANGED <<holder, marked>>

\* A walker locks files before roots (mm/rmap.c).
HasRoot(w) == \E r \in Roots : holder[r] = w
Walk(w) ==
  /\ \E l \in Locks :
       \/ /\ holder[l] = NoLock /\ ~HasRoot(w)
          /\ l \in Files => \A f \in Files : holder[f] # w
          /\ holder' = [holder EXCEPT ![l] = w]
       \/ /\ holder[l] = w
          /\ holder' = [holder EXCEPT ![l] = NoLock]
  /\ UNCHANGED <<mutex, marked, pc>>

Step(t) ==
  \/ MarkFile(t) \/ LockFile(t) \/ NextLoop(t) \/ LockRoot(t) \/ NextArea(t)
  \/ Drop(t) \/ UnlockRoot(t) \/ UnlockFile(t) \/ UnmarkFile(t) \/ ReleaseMutex(t)

Next ==
  \/ \E t \in Tasks : TakeMutex(t) \/ Step(t)
  \/ \E w \in Walkers : Walk(w)

Spec == Init /\ [][Next]_lockVars

----------------------------------------------------------------------------
\* Between mm_take_all_locks and mm_drop_all_locks the task holds every lock of its areas,
\* however files and roots are shared (3480-3555).
EverythingLocked ==
  \A t \in Tasks : pc[t].phase = "inside" => \A l \in FilesOf(t) \cup RootsOf(t) : holder[l] = t

\* A walker that holds a root never sees the mark in its tree (3560-3572).
MarkNeverSeen == \A w \in Walkers, r \in Roots : holder[r] = w => r \notin marked

\* What is marked is held, or half done, by the task with the mutex; a task without it has
\* nothing left, also after it was interrupted (3540-3555, 3586-3608).
NothingLeft ==
  /\ \A l \in marked : mutex \in Tasks /\ (holder[l] = mutex \/ pc[mutex].half = l)
  /\ \A t \in Tasks : mutex # t => pc[t] = Idle /\ \A l \in Locks : holder[l] # t

\* A task that has locked its areas whole holds every lock of them, nobody meets a mark, and
\* nothing is left behind (3429-3608).
LocksSafe == EverythingLocked /\ MarkNeverSeen /\ NothingLeft

\* Nobody waits for a lock whose holder waits in turn: whoever is under way, somebody can go on.
SomebodyMoves ==
  (\E t \in Tasks : pc[t].phase # "idle") =>
    \/ \E t \in Tasks : ENABLED Step(t)
    \/ \E w \in Walkers, l \in Locks : holder[l] = w

\* The loops over files and roots, with their marks and interruptions, amount to one lock on the
\* whole space.
Owner == IF \E t \in Tasks : pc[t].phase = "inside" THEN CHOOSE t \in Tasks : pc[t].phase = "inside" ELSE NoLock
Whole == INSTANCE WholeSpaceLock WITH
  owner <- Owner, walked <- {l \in Locks : holder[l] \in Walkers},
  Needs <- [t \in Tasks |-> FilesOf(t) \cup RootsOf(t)]

\* mm_take_all_locks and mm_drop_all_locks are one lock on the whole address space, for all who
\* walk it (3471-3605).
TakenAsOne == Whole!Spec
=============================================================================

--------------------------- MODULE WholeSpaceLock ---------------------------
(* What mm_take_all_locks promises (mmap.c 3471-3507): a task has its whole    *)
(* address space to itself, and the locks it needs for that seem to be taken   *)
(* and given back all at once.                                                 *)
CONSTANTS
  Tasks, Locks,
  Needs,    \* task -> the locks of its areas
  NoLock

VARIABLES
  owner,    \* the task that has its space to itself, or NoLock
  walked    \* the locks that somebody holds to walk pages

wholeVars == <<owner, walked>>

\* the locks of the owner's space
Closed == IF owner = NoLock THEN {} ELSE Needs[owner]

Init == owner = NoLock /\ walked = {}

\* mm_take_all_locks returns 0: nobody walks a page of the space.
Enter(t) ==
  /\ owner = NoLock /\ owner' = t
  /\ walked \cap Needs[t] = {}
  /\ UNCHANGED walked

\* mm_drop_all_locks
Leave == owner # NoLock /\ owner' = NoLock /\ UNCHANGED walked

\* A walker gets a lock that no other has and that no owner's space needs.
Walk ==
  /\ \E l \in Locks \ (walked \cup Closed) : walked' = walked \cup {l}
  /\ UNCHANGED owner

GoOn ==
  /\ \E l \in walked : walked' = walked \ {l}
  /\ UNCHANGED owner

Next == (\E t \in Tasks : Enter(t)) \/ Leave \/ Walk \/ GoOn

Spec == Init /\ [][Next]_wholeVars
=============================================================================

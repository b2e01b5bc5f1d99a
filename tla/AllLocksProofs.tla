--------------------------- MODULE AllLocksProofs ---------------------------
(* A task that has come through mm_take_all_locks holds every lock of its      *)
(* areas, nobody meets a mark, and nothing is left behind; and the whole is    *)
(* one lock on the address space.  For any number of tasks and walkers, and    *)
(* any sharing of files and roots between any areas.                           *)
(*                                                                             *)
(* LocksSafe is not inductive.  LocksInv says how far the task with the mutex  *)
(* has come: while it takes, its marks are its locks and the one lock it has   *)
(* half done, and it holds the files and roots of the areas behind it; while   *)
(* it drops, the areas behind it have no mark left, and everything it holds is *)
(* in its areas, so that at the end it holds nothing.                          *)
EXTENDS AllLocks, TLAPS

Phases == {"idle", "huge", "files", "anon", "inside", "drop"}
Taking == {"huge", "files", "anon", "inside"}
Mine(t) == {l \in Locks : holder[l] = t}
Need(t) == FilesOf(t) \cup RootsOf(t)

Places == [phase : Phases, at : Nat \ {0}, todo : SUBSET Roots, half : Locks \cup {NoLock}]

LocksType ==
  /\ mutex \in Tasks \cup {NoLock}
  /\ holder \in [Locks -> Users \cup {NoLock}]
  /\ marked \subseteq Locks
  /\ pc \in [Tasks -> Places]

\* A task without the mutex is out of the game.
OnlyOne ==
  /\ \A t \in Tasks : mutex # t => pc[t] = Idle /\ Mine(t) = {}
  /\ \A t \in Tasks : mutex = t => pc[t].phase # "idle"
  /\ mutex = NoLock => marked = {}

\* the areas with a huge page
Huge(t) == {i \in DOMAIN Areas[t] : Areas[t][i].huge}

\* the file of area i is held, unless it has none
FileHeld(t, i) == Areas[t][i].file # NoLock => Areas[t][i].file \in Mine(t)

\* What a task that takes its locks has behind it.
Behind(t) ==
  /\ pc[t].phase = "huge" => \A i \in Huge(t) : i < pc[t].at => FileHeld(t, i)
  /\ pc[t].phase = "files" =>
       /\ \A i \in DOMAIN Areas[t] : i < pc[t].at => FileHeld(t, i)
       /\ \A i \in Huge(t) : FileHeld(t, i)
  /\ pc[t].phase \in {"anon", "inside"} => \A i \in DOMAIN Areas[t] : FileHeld(t, i)
  /\ pc[t].phase = "anon" =>
       /\ \A i \in DOMAIN Areas[t] : i < pc[t].at => Areas[t][i].roots \subseteq Mine(t)
       /\ RootsAt(t, pc[t].at) \ pc[t].todo \subseteq Mine(t)
  /\ pc[t].phase = "inside" => Need(t) \subseteq Mine(t)

\* Its marks are its locks, but for a file it has marked and waits for.
TakingInv(t) ==
  pc[t].phase \in Taking =>
    /\ Behind(t)
    /\ pc[t].half = NoLock => marked = Mine(t)
    /\ pc[t].half # NoLock =>
         /\ pc[t].phase \in {"huge", "files"} /\ InArea(t) /\ pc[t].half = Here(t).file
         /\ marked = Mine(t) \cup {pc[t].half}

\* A task that drops its locks has no mark behind it.
DroppingInv(t) ==
  pc[t].phase = "drop" =>
    /\ \A l \in Locks \ {pc[t].half} : l \in marked <=> l \in Mine(t)
    /\ pc[t].half \in Roots => pc[t].half \in pc[t].todo \cap Mine(t) /\ pc[t].half \notin marked
    /\ pc[t].half \in Files =>
         InArea(t) /\ pc[t].half = Here(t).file /\ pc[t].half \notin Mine(t) /\ pc[t].todo \cap marked = {}
    /\ \A i \in DOMAIN Areas[t] : i < pc[t].at =>
         Areas[t][i].file \notin marked /\ Areas[t][i].roots \cap marked = {}
    /\ (RootsAt(t, pc[t].at) \ pc[t].todo) \cap marked = {}

\* The invariant of the task with the mutex.
Progress(t) ==
  mutex = t =>
    /\ pc[t].at <= Len(Areas[t]) + 1 /\ pc[t].todo \subseteq RootsAt(t, pc[t].at)
    /\ pc[t].phase \in {"huge", "files"} => pc[t].todo = {}
    /\ marked \cup Mine(t) \subseteq Need(t)
    /\ TakingInv(t) /\ DroppingInv(t)

\* The inductive invariant.
LocksInv == LocksType /\ OnlyOne /\ \A t \in Tasks : Progress(t)

----------------------------------------------------------------------------
\* What is known of an area.
LEMMA AreaFacts ==
  ASSUME NEW t \in Tasks
  PROVE  /\ Len(Areas[t]) \in Nat /\ DOMAIN Areas[t] = 1 .. Len(Areas[t])
         /\ \A i \in DOMAIN Areas[t] :
              /\ Areas[t][i].file \in Files \cup {NoLock}
              /\ Areas[t][i].huge \in BOOLEAN
              /\ Areas[t][i].roots \subseteq Roots
<1> DEFINE Kind == [file : Files \cup {NoLock}, huge : BOOLEAN, roots : SUBSET Roots]
<1>1. Areas[t] \in Seq(Kind)
  BY AreasAssumption
<1> HIDE DEF Kind
<1>2. Len(Areas[t]) \in Nat /\ DOMAIN Areas[t] = 1 .. Len(Areas[t])
  BY <1>1
<1>3. \A i \in DOMAIN Areas[t] : Areas[t][i] \in Kind
  BY <1>1, <1>2
<1> QED
  BY <1>2, <1>3 DEF Kind

\* What a task needs is what its areas have.
LEMMA NeedFacts ==
  ASSUME NEW t \in Tasks
  PROVE  /\ \A i \in DOMAIN Areas[t] :
              /\ Areas[t][i].file # NoLock => Areas[t][i].file \in Need(t)
              /\ Areas[t][i].roots \subseteq Need(t)
         /\ \A l \in Need(t) : l \in Locks /\ \E i \in DOMAIN Areas[t] :
              (l = Areas[t][i].file /\ l # NoLock) \/ l \in Areas[t][i].roots
         /\ \A i \in Nat \ {0} : RootsAt(t, i) \subseteq Roots \cap Need(t)
<1>1. \A i \in DOMAIN Areas[t] : Areas[t][i].file # NoLock => Areas[t][i].file \in FilesOf(t)
  BY DEF FilesOf
<1>2. \A i \in DOMAIN Areas[t] : Areas[t][i].roots \subseteq RootsOf(t)
  BY DEF RootsOf
<1>3. \A l \in FilesOf(t) : \E i \in DOMAIN Areas[t] : l = Areas[t][i].file /\ l # NoLock
  BY DEF FilesOf
<1>4. \A l \in RootsOf(t) : \E i \in DOMAIN Areas[t] : l \in Areas[t][i].roots
  BY DEF RootsOf
<1>5. \A i \in Nat \ {0} : RootsAt(t, i) \subseteq Roots \cap Need(t)
  BY <1>2, AreaFacts DEF RootsAt, Need
<1>6. \A l \in Need(t) : l \in Locks
  BY <1>3, <1>4, AreaFacts DEF Need, Locks
<1> QED
  BY <1>1, <1>2, <1>3, <1>4, <1>5, <1>6 DEF Need

\* At first nobody has the mutex.
LEMMA InitLocksInv == Init => LocksInv
BY NamesAssumption
DEF Init, LocksInv, LocksType, Places, OnlyOne, Progress, Phases, Idle, Mine, Locks, Users

\* Whoever is not idle has the mutex.
LEMMA OwnerKnown ==
  ASSUME LocksInv, NEW t \in Tasks, pc[t].phase # "idle"
  PROVE  mutex = t
BY DEF LocksInv, OnlyOne, Idle

\* A step of the task with the mutex leaves the others out of the game.
LEMMA Frame ==
  ASSUME LocksInv, NEW t \in Tasks, mutex = t, mutex' = t, LocksType',
         \A s \in Tasks \ {t} : pc'[s] = pc[s],
         \A l \in Locks : holder'[l] = holder[l] \/ holder'[l] \in {t, NoLock},
         pc'[t].phase # "idle", Progress(t)'
  PROVE  LocksInv'
<1>1. ASSUME NEW s \in Tasks, mutex' # s
      PROVE  pc'[s] = Idle /\ Mine(s)' = {}
  BY <1>1, NamesAssumption DEF LocksInv, OnlyOne, Mine
<1>2. OnlyOne'
  BY <1>1, NamesAssumption DEF OnlyOne
<1> QED
  BY <1>2 DEF LocksInv, Progress

\* What a step writes into a task's place leaves it one.
LEMMA PlaceTyped ==
  ASSUME NEW p \in Places, NEW ph \in Phases, NEW a \in Nat \ {0}, NEW td \in SUBSET Roots
  PROVE  /\ [p EXCEPT !.phase = ph, !.at = a, !.todo = td] \in Places
         /\ [p EXCEPT !.phase = ph, !.at = a] \in Places
         /\ [p EXCEPT !.at = a, !.todo = td] \in Places
BY DEF Places

LEMMA TakeMutexKeeps ==
  ASSUME LocksInv, NEW t \in Tasks, TakeMutex(t)
  PROVE  LocksInv'
<1>1. /\ pc'[t].phase = "huge" /\ pc'[t].at = 1 /\ pc'[t].todo = {} /\ pc'[t].half = NoLock
      /\ pc[t] = Idle /\ \A s \in Tasks \ {t} : pc'[s] = pc[s]
  BY NamesAssumption DEF TakeMutex, LocksInv, LocksType, Places, OnlyOne, Idle
<1>2. LocksType'
  <2>1. pc' = [pc EXCEPT ![t] = [@ EXCEPT !.phase = "huge", !.at = 1]]
    BY DEF TakeMutex, LocksInv, LocksType, Places
  <2> QED
    BY <2>1 DEF TakeMutex, LocksInv, LocksType, Places, Phases
<1>3. \A s \in Tasks : Mine(s)' = {} /\ Mine(s) = {}
  BY NamesAssumption DEF TakeMutex, LocksInv, OnlyOne, Mine
<1>4. marked' = {} /\ mutex' = t
  BY DEF TakeMutex, LocksInv, OnlyOne
<1>5. OnlyOne'
  BY <1>1, <1>3, <1>4, NamesAssumption DEF OnlyOne, LocksInv, TakeMutex
<1>6. Progress(t)'
  BY <1>1, <1>3, <1>4, AreaFacts DEF Progress, TakingInv, DroppingInv, Behind, RootsAt, Huge
<1> QED
  BY <1>2, <1>4, <1>5, <1>6 DEF LocksInv, Progress

LEMMA MarkFileKeeps ==
  ASSUME LocksInv, NEW t \in Tasks, MarkFile(t)
  PROVE  LocksInv'
<1>1. mutex = t /\ mutex' = t /\ holder' = holder /\ Progress(t)
  BY OwnerKnown DEF MarkFile, LocksInv
<1>2. pc[t].at \in DOMAIN Areas[t]
  BY AreaFacts DEF MarkFile, InArea, LocksInv, LocksType, Places
<1>3. Mine(t)' = Mine(t) /\ \A s \in Tasks \ {t} : pc'[s] = pc[s]
  BY <1>1 DEF Mine, MarkFile, LocksInv, LocksType, Places
<1>4. CASE Wanted(t) /\ Here(t).file \notin marked
  <2>1. Here(t).file \in Files
    BY <1>2, <1>4, AreaFacts DEF Here, Wanted
  <2>2. /\ pc' = [pc EXCEPT ![t].half = Here(t).file]
        /\ marked' = marked \cup {Here(t).file}
    BY <1>4 DEF MarkFile
  <2>3. LocksType'
    BY <1>1, <2>1, <2>2 DEF LocksInv, LocksType, Places, Locks, MarkFile
  <2>4. /\ pc'[t].phase = pc[t].phase /\ pc'[t].at = pc[t].at /\ pc'[t].todo = pc[t].todo
        /\ pc'[t].half = Here(t).file
    BY <2>2 DEF LocksInv, LocksType, Places
  <2>5. Here(t).file \in Need(t) /\ Here(t)' = Here(t) /\ Here(t).file # NoLock
    BY <1>2, <2>1, <2>4, NeedFacts, NamesAssumption DEF Here
  <2>6. TakingInv(t)'
    BY <1>1, <1>3, <2>2, <2>4, <2>5 DEF Progress, TakingInv, Behind, FileHeld, MarkFile, Between, InArea
  <2>7. Progress(t)'
    BY <1>1, <1>3, <2>2, <2>4, <2>5, <2>6 DEF Progress, DroppingInv, MarkFile
  <2> QED
    BY <1>1, <1>3, <2>3, <2>4, <2>7, Frame DEF MarkFile
<1>5. CASE ~(Wanted(t) /\ Here(t).file \notin marked)
  <2>1. pc' = [pc EXCEPT ![t].at = @ + 1] /\ marked' = marked
    BY <1>5 DEF MarkFile
  <2>2. LocksType'
    BY <1>1, <2>1 DEF LocksInv, LocksType, Places, MarkFile
  <2>3. /\ pc'[t].phase = pc[t].phase /\ pc'[t].at = pc[t].at + 1 /\ pc'[t].todo = pc[t].todo
        /\ pc'[t].half = NoLock
    BY <2>1 DEF LocksInv, LocksType, Places, MarkFile, Between
  <2>4. marked = Mine(t) /\ Behind(t) /\ pc[t].half = NoLock
    BY <1>1 DEF Progress, TakingInv, MarkFile, Between, Taking
  <2>5. Wanted(t) => FileHeld(t, pc[t].at)
    BY <1>5, <2>4 DEF FileHeld, Here
  <2>6. pc[t].at \in Nat /\ DOMAIN Areas[t] \subseteq Nat /\ Huge(t) \subseteq DOMAIN Areas[t]
    BY AreaFacts DEF LocksInv, LocksType, Places, Huge
  <2>7. \A i \in DOMAIN Areas[t] : i < pc'[t].at => i < pc[t].at \/ i = pc[t].at
    BY <2>3, <2>6
  <2>8. \A i \in DOMAIN Areas[t] : FileHeld(t, i)' <=> FileHeld(t, i)
    BY <1>3 DEF FileHeld
  <2>9. Wanted(t) <=> Here(t).file # NoLock
                      /\ (pc[t].at \in Huge(t) <=> pc[t].phase = "huge")
    BY <1>2, AreaFacts DEF Wanted, Here, Huge
  <2>10. ASSUME pc[t].phase = "huge" PROVE TakingInv(t)'
    <3>1. pc[t].at \in Huge(t) => FileHeld(t, pc[t].at)
      BY <2>5, <2>9, <2>10 DEF Here, FileHeld
    <3>2. \A i \in Huge(t) : i < pc'[t].at => FileHeld(t, i)'
      BY <2>4, <2>6, <2>7, <2>8, <2>10, <3>1 DEF Behind
    <3> QED
      BY <1>3, <2>1, <2>3, <2>4, <2>10, <3>2 DEF TakingInv, Behind
  <2>11. ASSUME pc[t].phase = "files" PROVE TakingInv(t)'
    <3>1. FileHeld(t, pc[t].at)
      BY <2>4, <2>5, <2>9, <2>11 DEF Behind, Here, FileHeld
    <3>2. \A i \in DOMAIN Areas[t] : i < pc'[t].at => FileHeld(t, i)'
      BY <2>4, <2>6, <2>7, <2>8, <2>11, <3>1 DEF Behind
    <3>3. \A i \in Huge(t) : FileHeld(t, i)'
      BY <2>4, <2>6, <2>8, <2>11 DEF Behind
    <3> QED
      BY <1>3, <2>1, <2>3, <2>4, <2>11, <3>2, <3>3 DEF TakingInv, Behind
  <2>12. Progress(t)'
    BY <1>1, <1>2, <1>3, <2>1, <2>3, <2>10, <2>11, AreaFacts DEF Progress, DroppingInv, MarkFile
  <2> QED
    BY <1>1, <1>3, <2>2, <2>3, <2>12, Frame DEF MarkFile
<1> QED
  BY <1>4, <1>5

LEMMA LockFileKeeps ==
  ASSUME LocksInv, NEW t \in Tasks, LockFile(t)
  PROVE  LocksInv'
<1>1. mutex = t /\ mutex' = t /\ marked' = marked /\ Progress(t)
  BY OwnerKnown DEF LockFile, LocksInv
<1>2. /\ InArea(t) /\ pc[t].half = Here(t).file /\ marked = Mine(t) \cup {pc[t].half}
      /\ pc[t].half \in Locks /\ Behind(t)
  BY <1>1 DEF Progress, TakingInv, Taking, LockFile, Between, LocksInv, LocksType, Places
<1>3. /\ \A s \in Tasks \ {t} : pc'[s] = pc[s]
      /\ pc'[t].phase = pc[t].phase /\ pc'[t].at = pc[t].at + 1 /\ pc'[t].todo = pc[t].todo
      /\ pc'[t].half = NoLock
      /\ pc[t].at \in Nat \ {0} /\ pc[t].phase \in {"huge", "files"}
  BY DEF LockFile, LocksInv, LocksType, Places
<1>4. LocksType'
  <2>1. holder' \in [Locks -> Users \cup {NoLock}]
    BY <1>2 DEF LockFile, LocksInv, LocksType, Places, Users
  <2>2. pc[t].at + 1 \in Nat \ {0} /\ pc[t] \in Places
    BY <1>3 DEF LocksInv, LocksType, Places
  <2>3. pc'[t] \in Places
    BY <2>2 DEF LockFile, LocksInv, LocksType, Places
  <2> QED
    BY <1>1, <1>3, <2>1, <2>3 DEF LockFile, LocksInv, LocksType, Places
<1>5. Mine(t)' = Mine(t) \cup {pc[t].half}
  BY <1>2 DEF LockFile, Mine, LocksInv, LocksType, Places
<1>6. pc[t].at \in DOMAIN Areas[t] /\ DOMAIN Areas[t] \subseteq Nat /\ Huge(t) \subseteq DOMAIN Areas[t]
  BY <1>2, <1>3, AreaFacts DEF InArea, Huge
<1>7. \A i \in DOMAIN Areas[t] : FileHeld(t, i) \/ i = pc[t].at => FileHeld(t, i)'
  BY <1>2, <1>5 DEF FileHeld, Here
<1>8. \A i \in DOMAIN Areas[t] : i < pc'[t].at => i < pc[t].at \/ i = pc[t].at
  BY <1>3, <1>6
<1>9. Behind(t)'
  BY <1>2, <1>3, <1>6, <1>7, <1>8 DEF Behind
<1>10. Progress(t)'
  BY <1>1, <1>2, <1>3, <1>5, <1>6, <1>9, AreaFacts DEF Progress, TakingInv, DroppingInv
<1> QED
  BY <1>1, <1>3, <1>4, <1>10, Frame DEF LockFile, LocksInv, LocksType, Places

LEMMA NextLoopKeeps ==
  ASSUME LocksInv, NEW t \in Tasks, NextLoop(t)
  PROVE  LocksInv'
<1>1. mutex = t /\ mutex' = t /\ marked' = marked /\ holder' = holder /\ Progress(t)
  BY OwnerKnown DEF NextLoop, LocksInv
<1>2. /\ pc' = [pc EXCEPT ![t] = pc'[t]]
      /\ pc'[t].phase = IF pc[t].phase = "huge" THEN "files" ELSE "anon"
      /\ pc'[t].at = 1 /\ pc'[t].half = NoLock /\ pc[t].half = NoLock
      /\ pc'[t].todo = IF pc[t].phase = "files" THEN RootsAt(t, 1) ELSE {}
      /\ pc[t].phase \in {"huge", "files"} /\ ~InArea(t) /\ pc[t].at \in Nat \ {0}
  BY DEF NextLoop, Between, LocksInv, LocksType, Places
<1>3. RootsAt(t, 1) \subseteq Roots
  BY NeedFacts
<1>4. LocksType'
  <2> DEFINE ph == IF pc[t].phase = "huge" THEN "files" ELSE "anon"
             td == IF pc[t].phase = "files" THEN RootsAt(t, 1) ELSE {}
  <2>1. ph \in Phases /\ td \in SUBSET Roots /\ 1 \in Nat \ {0} /\ pc[t] \in Places
    BY <1>3 DEF Phases, LocksInv, LocksType
  <2>2. pc'[t] = [pc[t] EXCEPT !.phase = ph, !.at = 1, !.todo = td]
    BY DEF NextLoop, LocksInv, LocksType, Places
  <2> HIDE DEF ph, td
  <2>3. [pc[t] EXCEPT !.phase = ph, !.at = 1, !.todo = td] \in Places
    BY <2>1, PlaceTyped
  <2>4. pc'[t] \in Places
    BY <2>2, <2>3, Zenon
  <2> QED
    BY <1>1, <1>2, <2>4 DEF LocksInv, LocksType
<1>5. Mine(t)' = Mine(t) /\ marked = Mine(t) /\ Behind(t)
  BY <1>1, <1>2 DEF Mine, Progress, TakingInv, Taking
<1>6. \A i \in DOMAIN Areas[t] : i < pc[t].at /\ i \in Nat /\ ~(i < 1)
  BY <1>2, AreaFacts DEF InArea
<1>7. \A i \in DOMAIN Areas[t] : FileHeld(t, i)' <=> FileHeld(t, i)
  BY <1>5 DEF FileHeld
<1>8. Behind(t)'
  <2>1. CASE pc[t].phase = "huge"
    <3>1. \A i \in Huge(t) : FileHeld(t, i)'
      BY <1>5, <1>6, <1>7, <2>1 DEF Behind, Huge
    <3> QED
      BY <1>2, <1>6, <2>1, <3>1 DEF Behind
  <2>2. CASE pc[t].phase = "files"
    <3>1. \A i \in DOMAIN Areas[t] : FileHeld(t, i)'
      BY <1>5, <1>6, <1>7, <2>2 DEF Behind
    <3> QED
      BY <1>2, <1>6, <2>2, <3>1 DEF Behind
  <2> QED
    BY <1>2, <2>1, <2>2
<1>9. Progress(t)'
  BY <1>1, <1>2, <1>5, <1>8, AreaFacts DEF Progress, TakingInv, DroppingInv, RootsAt
<1> QED
  BY <1>1, <1>2, <1>4, <1>9, Frame DEF LocksInv, LocksType, Places

LEMMA LockRootKeeps ==
  ASSUME LocksInv, NEW t \in Tasks, LockRoot(t)
  PROVE  LocksInv'
<1>1. PICK r \in pc[t].todo :
        /\ r \in marked \/ holder[r] = NoLock
        /\ holder' = IF r \in marked THEN holder ELSE [holder EXCEPT ![r] = t]
        /\ marked' = marked \cup {r}
        /\ pc' = [pc EXCEPT ![t].todo = @ \ {r}]
  BY DEF LockRoot
<1>2. mutex = t /\ mutex' = t /\ Progress(t) /\ pc[t].phase = "anon"
  BY OwnerKnown DEF LockRoot, LocksInv
<1>3. pc[t].half = NoLock /\ marked = Mine(t) /\ Behind(t)
  BY <1>2 DEF Progress, TakingInv, Taking
<1>4. r \in Roots /\ r \in Locks /\ r \in RootsAt(t, pc[t].at) /\ r \in Need(t)
  BY <1>1, <1>2, NeedFacts DEF Progress, LocksInv, LocksType, Places, Locks
<1>5. /\ pc' = [pc EXCEPT ![t] = pc'[t]]
      /\ pc'[t].phase = "anon" /\ pc'[t].at = pc[t].at /\ pc'[t].half = NoLock
      /\ pc'[t].todo = pc[t].todo \ {r}
  BY <1>1, <1>2, <1>3 DEF LocksInv, LocksType, Places
<1>6. LocksType'
  BY <1>1, <1>2, <1>4 DEF LocksInv, LocksType, Places, Users
<1>7. Mine(t)' = Mine(t) \cup {r} /\ marked' = Mine(t)'
  BY <1>1, <1>3, <1>4 DEF Mine, LocksInv, LocksType, Places
<1>8. Behind(t)'
  BY <1>2, <1>3, <1>5, <1>7 DEF Behind, FileHeld
<1>9. Progress(t)'
  BY <1>2, <1>4, <1>5, <1>7, <1>8 DEF Progress, TakingInv, DroppingInv
<1>10. \A l \in Locks : holder'[l] = holder[l] \/ holder'[l] \in {t, NoLock}
  BY <1>1, <1>4 DEF LocksInv, LocksType, Places
<1> QED
  BY <1>2, <1>5, <1>6, <1>9, <1>10, Frame DEF LocksInv, LocksType, Places

LEMMA NextAreaKeeps ==
  ASSUME LocksInv, NEW t \in Tasks, NextArea(t)
  PROVE  LocksInv'
<1>1. /\ mutex = t /\ mutex' = t /\ marked' = marked /\ holder' = holder /\ Progress(t)
      /\ pc[t].phase = "anon" /\ pc[t].todo = {}
  BY OwnerKnown DEF NextArea, LocksInv
<1>2. Mine(t)' = Mine(t) /\ marked = Mine(t) /\ Behind(t) /\ pc[t].half = NoLock
  BY <1>1 DEF Mine, Progress, TakingInv, Taking
<1>3. pc[t].at \in Nat \ {0} /\ pc[t] \in Places
  BY DEF LocksInv, LocksType, Places
<1>4. \A i \in DOMAIN Areas[t] : FileHeld(t, i)'
  BY <1>1, <1>2 DEF Behind, FileHeld
<1>5. RootsAt(t, pc[t].at) \subseteq Mine(t)
  BY <1>1, <1>2 DEF Behind
<1>6. CASE InArea(t)
  <2>1. /\ pc' = [pc EXCEPT ![t] = pc'[t]]
        /\ pc'[t] = [pc[t] EXCEPT !.at = pc[t].at + 1, !.todo = RootsAt(t, pc[t].at + 1)]
        /\ pc'[t].phase = "anon" /\ pc'[t].at = pc[t].at + 1 /\ pc'[t].half = NoLock
        /\ pc'[t].todo = RootsAt(t, pc'[t].at)
    BY <1>1, <1>2, <1>6 DEF NextArea, LocksInv, LocksType, Places
  <2>2. pc[t].at + 1 \in Nat \ {0} /\ RootsAt(t, pc[t].at + 1) \in SUBSET Roots
    BY <1>3, NeedFacts
  <2>3. pc'[t] \in Places
    BY <1>3, <2>1, <2>2 DEF Places
  <2>4. LocksType'
    BY <1>1, <2>1, <2>3 DEF LocksInv, LocksType
  <2>5. \A i \in DOMAIN Areas[t] : i < pc'[t].at => Areas[t][i].roots \subseteq Mine(t)
    <3>1. \A i \in DOMAIN Areas[t] : i < pc'[t].at => i < pc[t].at \/ i = pc[t].at
      BY <1>3, <2>1, AreaFacts
    <3>2. Areas[t][pc[t].at].roots \subseteq Mine(t)
      BY <1>5, <1>6 DEF RootsAt, InArea
    <3> QED
      BY <1>1, <1>2, <3>1, <3>2 DEF Behind
  <2>6. Behind(t)'
    BY <1>2, <1>4, <2>1, <2>5 DEF Behind
  <2>7. Progress(t)'
    BY <1>1, <1>2, <1>3, <1>6, <2>1, <2>6, AreaFacts DEF Progress, TakingInv, DroppingInv, InArea
  <2> QED
    BY <1>1, <2>1, <2>4, <2>7, Frame DEF LocksInv, LocksType
<1>7. CASE ~InArea(t)
  <2>1. /\ pc' = [pc EXCEPT ![t] = pc'[t]]
        /\ pc'[t] = [pc[t] EXCEPT !.phase = "inside", !.at = 1]
        /\ pc'[t].phase = "inside" /\ pc'[t].at = 1 /\ pc'[t].half = NoLock
        /\ pc'[t].todo = {}
    BY <1>1, <1>2, <1>7 DEF NextArea, LocksInv, LocksType, Places
  <2>2. pc'[t] \in Places
    <3>1. "inside" \in Phases /\ 1 \in Nat \ {0}
      BY DEF Phases
    <3>2. [pc[t] EXCEPT !.phase = "inside", !.at = 1] \in Places
      BY <1>3, <3>1, PlaceTyped
    <3> QED
      BY <2>1, <3>2, Zenon
  <2>3. LocksType'
    BY <1>1, <2>1, <2>2 DEF LocksInv, LocksType
  <2>4. \A i \in DOMAIN Areas[t] : i < pc[t].at
    BY <1>3, <1>7, AreaFacts DEF InArea
  <2>5. Need(t) \subseteq Mine(t)
    BY <1>1, <1>2, <2>4, NeedFacts DEF Behind, FileHeld
  <2>6. Behind(t)'
    BY <1>2, <1>4, <2>1, <2>5 DEF Behind, Need, FilesOf, RootsOf
  <2>7. Progress(t)'
    BY <1>1, <1>2, <2>1, <2>6, AreaFacts DEF Progress, TakingInv, DroppingInv, RootsAt
  <2> QED
    BY <1>1, <2>1, <2>3, <2>7, Frame DEF LocksInv, LocksType
<1> QED
  BY <1>6, <1>7

LEMMA DropKeeps ==
  ASSUME LocksInv, NEW t \in Tasks, Drop(t)
  PROVE  LocksInv'
<1>1. /\ mutex = t /\ mutex' = t /\ marked' = marked /\ holder' = holder /\ Progress(t)
      /\ pc[t].phase \in Taking
  BY OwnerKnown DEF Drop, LocksInv, Taking
<1>2. Mine(t)' = Mine(t) /\ marked = Mine(t) /\ pc[t].half = NoLock
  BY <1>1 DEF Mine, Progress, TakingInv, Drop, Between
<1>3. /\ pc' = [pc EXCEPT ![t] = pc'[t]]
      /\ pc'[t] = [pc[t] EXCEPT !.phase = "drop", !.at = 1, !.todo = RootsAt(t, 1)]
      /\ pc'[t].phase = "drop" /\ pc'[t].at = 1 /\ pc'[t].half = NoLock
      /\ pc'[t].todo = RootsAt(t, 1)
  BY <1>2 DEF Drop, LocksInv, LocksType, Places
<1>4. pc'[t] \in Places
  <2>1. RootsAt(t, 1) \in SUBSET Roots /\ pc[t] \in Places
    BY NeedFacts DEF LocksInv, LocksType
  <2>2. "drop" \in Phases /\ 1 \in Nat \ {0}
    BY DEF Phases
  <2>3. [pc[t] EXCEPT !.phase = "drop", !.at = 1, !.todo = RootsAt(t, 1)] \in Places
    BY <2>1, <2>2, PlaceTyped
  <2> QED
    BY <1>3, <2>3, Zenon
<1>5. LocksType'
  BY <1>1, <1>3, <1>4 DEF LocksInv, LocksType
<1>6. DroppingInv(t)'
  BY <1>1, <1>2, <1>3, AreaFacts, NamesAssumption DEF DroppingInv, Locks
<1>7. Progress(t)'
  BY <1>1, <1>2, <1>3, <1>6, AreaFacts DEF Progress, TakingInv, Taking
<1> QED
  BY <1>1, <1>3, <1>5, <1>7, Frame DEF LocksInv, LocksType

\* The first half of UnlockRoot clears the mark, the second releases the lock.
LEMMA UnlockRootKeeps ==
  ASSUME LocksInv, NEW t \in Tasks, UnlockRoot(t)
  PROVE  LocksInv'
<1>1. mutex = t /\ mutex' = t /\ Progress(t) /\ pc[t].phase = "drop" /\ DroppingInv(t)
  BY OwnerKnown DEF UnlockRoot, LocksInv, Progress
<1>2. Files \cap Roots = {} /\ NoLock \notin Locks /\ Locks = Files \cup Roots
  BY NamesAssumption DEF Locks
<1>3. ASSUME NEW r \in pc[t].todo \cap marked, Between(t), marked' = marked \ {r},
             pc' = [pc EXCEPT ![t].half = r], UNCHANGED <<mutex, holder>>
      PROVE  LocksInv'
  <2>1. r \in Roots /\ r \in Locks
    BY <1>2, <1>3 DEF LocksInv, LocksType, Places
  <2>2. /\ pc' = [pc EXCEPT ![t] = pc'[t]]
        /\ pc'[t].phase = "drop" /\ pc'[t].at = pc[t].at /\ pc'[t].half = r
        /\ pc'[t].todo = pc[t].todo
    BY <1>1, <1>3 DEF LocksInv, LocksType, Places
  <2>3. LocksType'
    BY <1>3, <2>1 DEF LocksInv, LocksType, Places
  <2>4. Mine(t)' = Mine(t) /\ r \in Mine(t) /\ pc[t].half = NoLock
    BY <1>1, <1>3, <2>1, <1>2 DEF Mine, DroppingInv, Between
  <2>5. DroppingInv(t)'
    BY <1>1, <1>2, <1>3, <2>1, <2>2, <2>4 DEF DroppingInv
  <2>6. Progress(t)'
    BY <1>1, <1>3, <2>2, <2>4, <2>5 DEF Progress, TakingInv, Taking
  <2> QED
    BY <1>1, <1>3, <2>2, <2>3, <2>6, Frame DEF LocksInv, LocksType
<1>4. ASSUME pc[t].half \in Roots, holder' = [holder EXCEPT ![pc[t].half] = NoLock],
             pc' = [pc EXCEPT ![t].half = NoLock, ![t].todo = @ \ {pc[t].half}],
             UNCHANGED <<mutex, marked>>
      PROVE  LocksInv'
  <2> DEFINE r == pc[t].half
  <2>1. r \in Roots /\ r \in Locks /\ r \in pc[t].todo /\ r \in Mine(t) /\ r \notin marked
    BY <1>1, <1>2, <1>4 DEF DroppingInv
  <2>2. /\ pc' = [pc EXCEPT ![t] = pc'[t]]
        /\ pc'[t].phase = "drop" /\ pc'[t].at = pc[t].at /\ pc'[t].half = NoLock
        /\ pc'[t].todo = pc[t].todo \ {r}
    BY <1>1, <1>4 DEF LocksInv, LocksType, Places
  <2>3. LocksType'
    BY <1>4, <2>1 DEF LocksInv, LocksType, Places
  <2>4. Mine(t)' = Mine(t) \ {r}
    BY <1>2, <1>4, NamesAssumption DEF Mine, LocksInv, LocksType
  <2>5. \A l \in Locks : l \in marked' <=> l \in Mine(t)'
    BY <1>1, <1>4, <2>1, <2>4 DEF DroppingInv
  <2>6. (RootsAt(t, pc'[t].at) \ pc'[t].todo) \cap marked' = {}
    BY <1>1, <1>4, <2>1, <2>2 DEF DroppingInv
  <2>7. DroppingInv(t)'
    BY <1>1, <1>2, <1>4, <2>2, <2>5, <2>6 DEF DroppingInv
  <2>8. Progress(t)'
    BY <1>1, <1>4, <2>2, <2>4, <2>7 DEF Progress, TakingInv, Taking
  <2>9. \A l \in Locks : holder'[l] = holder[l] \/ holder'[l] \in {t, NoLock}
    BY <1>4 DEF LocksInv, LocksType
  <2> QED
    BY <1>1, <1>4, <2>2, <2>3, <2>8, <2>9, Frame DEF LocksInv, LocksType
<1> QED
  BY <1>3, <1>4 DEF UnlockRoot

\* The next area of a task that drops its locks has nothing behind it, once the roots of the
\* last one and its file are without a mark.
LEMMA NextDrop ==
  ASSUME LocksInv, NEW t \in Tasks, mutex = t, pc[t].phase = "drop", RootsDone(t),
         pc'[t].phase = "drop", pc'[t].at = pc[t].at + 1, pc'[t].half = NoLock,
         pc'[t].todo = RootsAt(t, pc[t].at + 1),
         Mine(t)' = Mine(t), marked' = marked \ {Here(t).file}, mutex' = t,
         \A l \in Locks : l \in marked' <=> l \in Mine(t)
  PROVE  Progress(t)'
<1>1. Progress(t) /\ DroppingInv(t) /\ InArea(t) /\ pc[t].todo \cap marked = {}
      /\ pc[t].at \in Nat \ {0} /\ NoLock \notin Locks
  BY NamesAssumption DEF LocksInv, LocksType, Places, Progress, RootsDone, Locks
<1>2. \A i \in DOMAIN Areas[t] : i < pc'[t].at => i < pc[t].at \/ i = pc[t].at
  BY <1>1, AreaFacts
<1>3. Here(t).roots \cap marked = {} /\ Here(t) = Areas[t][pc[t].at]
  BY <1>1 DEF DroppingInv, RootsAt, InArea, Here
<1>4. \A i \in DOMAIN Areas[t] : i < pc'[t].at =>
        Areas[t][i].file \notin marked' /\ Areas[t][i].roots \cap marked' = {}
  BY <1>1, <1>2, <1>3 DEF DroppingInv
<1>5. DroppingInv(t)'
  BY <1>1, <1>4, NamesAssumption DEF DroppingInv, Locks
<1> QED
  BY <1>1, <1>5, AreaFacts DEF Progress, TakingInv, Taking, InArea

LEMMA UnlockFileKeeps ==
  ASSUME LocksInv, NEW t \in Tasks, UnlockFile(t)
  PROVE  LocksInv'
<1>1. /\ mutex = t /\ mutex' = t /\ marked' = marked /\ Progress(t) /\ DroppingInv(t)
      /\ pc[t].phase = "drop" /\ pc[t].half = NoLock /\ RootsDone(t) /\ InArea(t)
      /\ pc[t].todo \cap marked = {}
  BY OwnerKnown DEF UnlockFile, LocksInv, Progress, RootsDone, Between
<1>2. Files \cap Roots = {} /\ NoLock \notin Locks /\ Locks = Files \cup Roots
  BY NamesAssumption DEF Locks
<1>3. pc[t].at \in DOMAIN Areas[t] /\ pc[t].at \in Nat \ {0} /\ pc[t] \in Places
  BY <1>1, AreaFacts DEF InArea, LocksInv, LocksType, Places
<1>4. CASE Here(t).file \in marked
  <2> DEFINE f == Here(t).file
  <2>1. holder' = [holder EXCEPT ![f] = NoLock] /\ pc' = [pc EXCEPT ![t].half = f]
    BY <1>4 DEF UnlockFile
  <2>2. f \in Files /\ f \in Locks /\ f \in Mine(t)
    BY <1>1, <1>2, <1>3, <1>4, AreaFacts DEF Here, LocksInv, LocksType, DroppingInv
  <2>3. /\ pc' = [pc EXCEPT ![t] = pc'[t]]
        /\ pc'[t].phase = "drop" /\ pc'[t].at = pc[t].at /\ pc'[t].half = f
        /\ pc'[t].todo = pc[t].todo
    BY <1>1, <2>1 DEF LocksInv, LocksType, Places
  <2>4. LocksType'
    BY <1>1, <2>1, <2>2 DEF LocksInv, LocksType, Places
  <2>5. Mine(t)' = Mine(t) \ {f}
    BY <1>2, <2>1, NamesAssumption DEF Mine, LocksInv, LocksType
  <2>6. Here(t)' = Here(t) /\ InArea(t)'
    BY <1>1, <2>3 DEF Here, InArea
  <2>7. DroppingInv(t)'
    BY <1>1, <1>2, <2>2, <2>3, <2>5, <2>6 DEF DroppingInv
  <2>8. Progress(t)'
    BY <1>1, <2>3, <2>5, <2>7 DEF Progress, TakingInv, Taking
  <2>9. \A l \in Locks : holder'[l] = holder[l] \/ holder'[l] \in {t, NoLock}
    BY <2>1 DEF LocksInv, LocksType
  <2> QED
    BY <1>1, <2>3, <2>4, <2>8, <2>9, Frame DEF LocksInv, LocksType
<1>5. CASE Here(t).file \notin marked
  <2>0. holder' = holder /\ pc' = [pc EXCEPT ![t].at = @ + 1, ![t].todo = RootsAt(t, pc[t].at + 1)]
    BY <1>5 DEF UnlockFile
  <2>1. /\ holder' = holder
        /\ pc' = [pc EXCEPT ![t] = pc'[t]]
        /\ pc'[t] = [pc[t] EXCEPT !.at = pc[t].at + 1, !.todo = RootsAt(t, pc[t].at + 1)]
        /\ pc'[t].phase = "drop" /\ pc'[t].at = pc[t].at + 1 /\ pc'[t].half = NoLock
        /\ pc'[t].todo = RootsAt(t, pc[t].at + 1)
    BY <1>1, <2>0 DEF LocksInv, LocksType, Places
  <2>2. [pc[t] EXCEPT !.at = pc[t].at + 1, !.todo = RootsAt(t, pc[t].at + 1)] \in Places
    <3>1. pc[t].at + 1 \in Nat \ {0} /\ RootsAt(t, pc[t].at + 1) \in SUBSET Roots /\ "drop" \in Phases
      BY <1>3, NeedFacts DEF Phases
    <3> QED
      BY <1>3, <3>1, PlaceTyped
  <2>3. pc'[t] \in Places
    BY <2>1, <2>2, Zenon
  <2>4. LocksType'
    BY <1>1, <2>1, <2>3 DEF LocksInv, LocksType
  <2>5. Mine(t)' = Mine(t) /\ marked' = marked \ {Here(t).file}
    BY <1>1, <1>5, <2>1 DEF Mine
  <2>6. \A l \in Locks : l \in marked' <=> l \in Mine(t)
    BY <1>1, <1>2 DEF DroppingInv
  <2>7. Progress(t)'
    BY <1>1, <2>1, <2>5, <2>6, NextDrop
  <2> QED
    BY <1>1, <2>1, <2>4, <2>7, Frame DEF LocksInv, LocksType
<1> QED
  BY <1>4, <1>5

LEMMA UnmarkFileKeeps ==
  ASSUME LocksInv, NEW t \in Tasks, UnmarkFile(t)
  PROVE  LocksInv'
<1>1. /\ mutex = t /\ mutex' = t /\ holder' = holder /\ Progress(t) /\ DroppingInv(t)
      /\ pc[t].phase = "drop" /\ pc[t].half \in Files
  BY OwnerKnown DEF UnmarkFile, LocksInv, Progress
<1>2. /\ InArea(t) /\ pc[t].half = Here(t).file /\ pc[t].half \notin Mine(t)
      /\ pc[t].todo \cap marked = {} /\ RootsDone(t)
  BY <1>1 DEF DroppingInv, RootsDone
<1>3. pc[t].at \in Nat \ {0} /\ pc[t] \in Places
  BY DEF LocksInv, LocksType, Places
<1>4. /\ pc' = [pc EXCEPT ![t] = pc'[t]]
      /\ pc'[t].phase = "drop" /\ pc'[t].at = pc[t].at + 1 /\ pc'[t].half = NoLock
      /\ pc'[t].todo = RootsAt(t, pc[t].at + 1)
  BY <1>1 DEF UnmarkFile, LocksInv, LocksType, Places
<1>5. pc'[t] \in Places
  <2>1. [pc[t] EXCEPT !.at = pc[t].at + 1, !.todo = RootsAt(t, pc[t].at + 1)] \in Places
    <3>1. pc[t].at + 1 \in Nat \ {0} /\ RootsAt(t, pc[t].at + 1) \in SUBSET Roots /\ "drop" \in Phases
      BY <1>3, NeedFacts DEF Phases
    <3> QED
      BY <1>3, <3>1, PlaceTyped
  <2>2. pc'[t] = [[pc[t] EXCEPT !.at = pc[t].at + 1, !.todo = RootsAt(t, pc[t].at + 1)] EXCEPT !.half = NoLock]
    BY DEF UnmarkFile, LocksInv, LocksType, Places
  <2> QED
    BY <2>1, <2>2 DEF Places
<1>6. LocksType'
  BY <1>1, <1>4, <1>5 DEF UnmarkFile, LocksInv, LocksType
<1>7. Mine(t)' = Mine(t) /\ marked' = marked \ {Here(t).file}
  BY <1>1, <1>2 DEF Mine, UnmarkFile
<1>8. \A l \in Locks : l \in marked' <=> l \in Mine(t)
  BY <1>1, <1>2, <1>7 DEF DroppingInv
<1>9. Progress(t)'
  BY <1>1, <1>2, <1>4, <1>7, <1>8, NextDrop
<1> QED
  BY <1>1, <1>4, <1>6, <1>9, Frame DEF LocksInv, LocksType

LEMMA ReleaseMutexKeeps ==
  ASSUME LocksInv, NEW t \in Tasks, ReleaseMutex(t)
  PROVE  LocksInv'
<1>1. /\ mutex = t /\ mutex' = NoLock /\ holder' = holder /\ marked' = marked /\ Progress(t)
      /\ DroppingInv(t) /\ pc[t].phase = "drop" /\ pc[t].half = NoLock /\ ~InArea(t)
      /\ pc' = [pc EXCEPT ![t] = Idle]
  BY OwnerKnown DEF ReleaseMutex, LocksInv, Progress, Between
<1>2. \A i \in DOMAIN Areas[t] : i < pc[t].at
  BY <1>1, AreaFacts DEF InArea, LocksInv, LocksType, Places
<1>3. marked \subseteq Need(t) /\ Mine(t) \subseteq Need(t) /\ NoLock \notin Locks
  BY <1>1, NamesAssumption DEF Progress, Locks
<1>4. marked = {}
  BY <1>1, <1>2, <1>3, NeedFacts DEF DroppingInv
<1>5. Mine(t) = {}
  BY <1>1, <1>3, <1>4, NeedFacts DEF DroppingInv
<1>6. LocksType'
  <2>1. Idle \in Places
    BY DEF Idle, Places, Phases
  <2> QED
    BY <1>1, <2>1 DEF LocksInv, LocksType
<1>7. \A s \in Tasks : pc'[s] = Idle /\ Mine(s)' = {}
  BY <1>1, <1>5 DEF LocksInv, LocksType, OnlyOne, Mine
<1> QED
  BY <1>1, <1>4, <1>6, <1>7, NamesAssumption DEF LocksInv, OnlyOne, Progress

\* A walker takes and gives back what nobody else holds.
LEMMA WalkKeeps ==
  ASSUME LocksInv, NEW w \in Walkers, Walk(w)
  PROVE  LocksInv' /\ \A t \in Tasks : Mine(t)' = Mine(t)
<1>1. mutex' = mutex /\ marked' = marked /\ pc' = pc
  BY DEF Walk
<1>2. PICK l \in Locks : \/ holder[l] = NoLock /\ holder' = [holder EXCEPT ![l] = w]
                         \/ holder[l] = w /\ holder' = [holder EXCEPT ![l] = NoLock]
  BY DEF Walk
<1>3. \A t \in Tasks : Mine(t)' = Mine(t)
  BY <1>2, NamesAssumption DEF Mine, LocksInv, LocksType
<1>4. LocksType'
  BY <1>1, <1>2 DEF LocksInv, LocksType, Users
<1>5. OnlyOne'
  BY <1>1, <1>3 DEF LocksInv, OnlyOne
<1>6. ASSUME NEW t \in Tasks
      PROVE  Progress(t)'
  <2>1. \A i \in DOMAIN Areas[t] : FileHeld(t, i)' <=> FileHeld(t, i)
    BY <1>3 DEF FileHeld
  <2>2. Behind(t)' <=> Behind(t)
    BY <1>1, <1>3, <2>1 DEF Behind, Huge
  <2>3. TakingInv(t)' <=> TakingInv(t)
    BY <1>1, <1>3, <2>2 DEF TakingInv, InArea, Here
  <2>4. DroppingInv(t)' <=> DroppingInv(t)
    BY <1>1, <1>3 DEF DroppingInv, InArea, Here
  <2> QED
    BY <1>1, <1>3, <2>3, <2>4 DEF LocksInv, Progress
<1> QED
  BY <1>3, <1>4, <1>5, <1>6 DEF LocksInv

LEMMA StepKeeps ==
  ASSUME LocksInv, NEW t \in Tasks, Step(t)
  PROVE  LocksInv'
BY MarkFileKeeps, LockFileKeeps, NextLoopKeeps, LockRootKeeps, NextAreaKeeps, DropKeeps,
   UnlockRootKeeps, UnlockFileKeeps, UnmarkFileKeeps, ReleaseMutexKeeps DEF Step

LEMMA NextLocksInv == LocksInv /\ [Next]_lockVars => LocksInv'
<1> SUFFICES ASSUME LocksInv, [Next]_lockVars PROVE LocksInv'
  OBVIOUS
<1>1. CASE Next
  BY <1>1, TakeMutexKeeps, StepKeeps, WalkKeeps DEF Next
<1>2. CASE UNCHANGED lockVars
  BY <1>2 DEF lockVars, LocksInv, LocksType, OnlyOne, Progress, TakingInv, DroppingInv, Behind,
              FileHeld, Mine, InArea, Here
<1> QED
  BY <1>1, <1>2

LEMMA InvLocksSafe == LocksInv => LocksSafe
<1> SUFFICES ASSUME LocksInv PROVE LocksSafe
  OBVIOUS
<1>1. \A t \in Tasks : pc[t].phase = "inside" => Need(t) \subseteq Mine(t)
  BY OwnerKnown DEF LocksInv, Progress, TakingInv, Taking, Behind
<1>2. \A t \in Tasks : mutex = t => \A l \in marked : l \in Mine(t) \/ pc[t].half = l
  <2> SUFFICES ASSUME NEW t \in Tasks, mutex = t, NEW l \in marked, pc[t].half # l
               PROVE  l \in Mine(t)
    OBVIOUS
  <2>1. l \in Locks /\ pc[t].phase \in Phases /\ pc[t].phase # "idle" /\ TakingInv(t) /\ DroppingInv(t)
    BY DEF LocksInv, LocksType, Places, OnlyOne, Progress
  <2> QED
    BY <2>1 DEF TakingInv, DroppingInv, Taking, Phases
<1>3. EverythingLocked
  BY <1>1 DEF EverythingLocked, Need, Mine
<1>4. NothingLeft
  BY <1>2, NamesAssumption DEF NothingLeft, LocksInv, LocksType, OnlyOne, Mine
<1>5. ASSUME NEW w \in Walkers, NEW r \in Roots, holder[r] = w
      PROVE  r \notin marked
  <2> SUFFICES ASSUME r \in marked PROVE FALSE
    OBVIOUS
  <2>1. mutex \in Tasks /\ r \notin Mine(mutex) /\ pc[mutex].half = r
    BY <1>2, <1>4, <1>5, NamesAssumption DEF NothingLeft, Mine
  <2>2. r \notin Files /\ r # NoLock /\ pc[mutex].phase \in Phases /\ pc[mutex].phase # "idle"
        /\ TakingInv(mutex) /\ DroppingInv(mutex)
    BY <2>1, NamesAssumption DEF LocksInv, LocksType, Places, OnlyOne, Progress
  <2>3. pc[mutex].phase # "drop"
    BY <2>1, <2>2 DEF DroppingInv
  <2>4. InArea(mutex) /\ r = Here(mutex).file
    BY <2>1, <2>2, <2>3 DEF TakingInv, Taking, Phases
  <2>5. Here(mutex).file \in Files \cup {NoLock}
    BY <2>1, <2>4, AreaFacts DEF Here, InArea, LocksInv, LocksType, Places
  <2> QED
    BY <2>2, <2>4, <2>5
<1>6. MarkNeverSeen
  BY <1>5 DEF MarkNeverSeen
<1> QED
  BY <1>3, <1>4, <1>6 DEF LocksSafe

\* A task that has come through mm_take_all_locks holds every lock of its areas, a walker never
\* sees a mark, and when the mutex is free no lock and no mark is left, for any tasks, walkers
\* and areas (mmap.c 3429-3608).
THEOREM AllLocksSafe == Spec => []LocksSafe
BY InitLocksInv, NextLocksInv, InvLocksSafe, PTL DEF Spec

----------------------------------------------------------------------------
Walked == {l \in Locks : holder[l] \in Walkers}

\* The owner of the abstract lock is the task inside.
OwnerRight ==
  /\ \A t \in Tasks : pc[t].phase = "inside" => Owner = t
  /\ (\A t \in Tasks : pc[t].phase # "inside") => Owner = NoLock

LEMMA OwnerIs == LocksInv => OwnerRight
<1> SUFFICES ASSUME LocksInv PROVE OwnerRight
  OBVIOUS
<1>1. \A s, t \in Tasks : pc[s].phase = "inside" /\ pc[t].phase = "inside" => s = t
  BY OwnerKnown
<1>2. ASSUME NEW t \in Tasks, pc[t].phase = "inside"
      PROVE  Owner = t
  <2> DEFINE c == CHOOSE s \in Tasks : pc[s].phase = "inside"
  <2>1. c \in Tasks /\ pc[c].phase = "inside"
    BY <1>2
  <2>2. c = t
    BY <1>1, <1>2, <2>1
  <2> QED
    BY <1>2, <2>2 DEF Owner
<1> QED
  BY <1>2 DEF Owner, OwnerRight

LEMMA OwnerIsNext == LocksInv' => OwnerRight'
BY OwnerIs, PTL

\* A step of a task on its way leaves the walkers' locks alone.
LEMMA WalkedKept ==
  ASSUME LocksInv, NEW t \in Tasks, TakeMutex(t) \/ Step(t)
  PROVE  Walked' = Walked
<1>1. SUFFICES \A l \in Locks : holder'[l] = holder[l] \/ ({holder[l], holder'[l]} \subseteq {t, NoLock})
  BY NamesAssumption DEF Walked
<1>2. CASE TakeMutex(t) \/ MarkFile(t) \/ NextLoop(t) \/ NextArea(t) \/ Drop(t) \/ UnmarkFile(t)
           \/ ReleaseMutex(t)
  BY <1>2 DEF TakeMutex, MarkFile, NextLoop, NextArea, Drop, UnmarkFile, ReleaseMutex
<1>3. CASE LockFile(t)
  BY <1>3 DEF LockFile, LocksInv, LocksType
<1>4. CASE LockRoot(t)
  BY <1>4 DEF LockRoot, LocksInv, LocksType
<1>5. CASE UnlockRoot(t)
  <2>1. DroppingInv(t) /\ pc[t].phase = "drop"
    BY <1>5, OwnerKnown DEF UnlockRoot, LocksInv, Progress
  <2>2. pc[t].half \in Roots => holder[pc[t].half] = t
    BY <2>1 DEF DroppingInv, Mine
  <2> QED
    BY <1>5, <2>2 DEF UnlockRoot, LocksInv, LocksType
<1>6. CASE UnlockFile(t)
  <2>1. DroppingInv(t) /\ pc[t].phase = "drop" /\ pc[t].half = NoLock /\ NoLock \notin Locks
    BY <1>6, OwnerKnown, NamesAssumption
    DEF UnlockFile, RootsDone, Between, LocksInv, Progress, Locks
  <2>2. Here(t).file \in marked => holder[Here(t).file] = t
    BY <2>1 DEF DroppingInv, Mine, LocksInv, LocksType
  <2> QED
    BY <1>6, <2>2 DEF UnlockFile, LocksInv, LocksType
<1> QED
  BY <1>2, <1>3, <1>4, <1>5, <1>6 DEF Step

\* Taking the last lock enters the space, and beginning to drop leaves it; nothing else that a
\* task does can be told from outside.
LEMMA TaskRefines ==
  ASSUME LocksInv, LocksInv', NEW t \in Tasks, TakeMutex(t) \/ Step(t)
  PROVE  Whole!Next \/ UNCHANGED Whole!wholeVars
<1>1. Walked' = Walked /\ OwnerRight /\ OwnerRight'
  BY WalkedKept, OwnerIs, OwnerIsNext
<1>2. \A s \in Tasks \ {t} : pc[s].phase # "inside" /\ pc'[s].phase # "inside"
  <2>1. mutex \in {t, NoLock} /\ mutex' \in {t, NoLock}
    BY OwnerKnown DEF TakeMutex, Step, MarkFile, LockFile, NextLoop, LockRoot, NextArea, Drop,
                      UnlockRoot, UnlockFile, RootsDone, UnmarkFile, ReleaseMutex
  <2> QED
    BY <2>1, NamesAssumption DEF LocksInv, OnlyOne, Idle
<1>3. CASE pc[t].phase # "inside" /\ pc'[t].phase = "inside"
  <2>1. Owner = NoLock /\ Owner' = t
    BY <1>1, <1>2, <1>3 DEF OwnerRight
  <2>2. Need(t) \subseteq Mine(t)'
    <3>1. mutex' = t
      BY <1>3 DEF LocksInv, OnlyOne, Idle
    <3>2. Progress(t)'
      BY DEF LocksInv
    <3> QED
      BY <1>3, <3>1, <3>2 DEF Progress, TakingInv, Taking, Behind, Need, FilesOf, RootsOf
  <2>3. Walked' \cap Need(t) = {}
    BY <2>2, NamesAssumption DEF Walked, Mine
  <2>4. Whole!Enter(t)
    BY <1>1, <2>1, <2>3 DEF Whole!Enter, Walked, Need
  <2> QED
    BY <2>4 DEF Whole!Next
<1>4. CASE pc[t].phase = "inside" /\ pc'[t].phase # "inside"
  <2>1. Owner = t /\ Owner' = NoLock
    BY <1>1, <1>2, <1>4 DEF OwnerRight
  <2>2. Whole!Leave
    BY <1>1, <2>1, NamesAssumption DEF Whole!Leave, Walked
  <2> QED
    BY <2>2 DEF Whole!Next
<1>5. CASE pc[t].phase = "inside" <=> pc'[t].phase = "inside"
  <2>1. Owner' = Owner
    BY <1>1, <1>2, <1>5 DEF OwnerRight
  <2> QED
    BY <1>1, <2>1 DEF Whole!wholeVars, Walked
<1> QED
  BY <1>3, <1>4, <1>5

\* What a walker takes no other has, and it is not in the space of a task inside.
LEMMA WalkRefines ==
  ASSUME LocksInv, NEW w \in Walkers, Walk(w)
  PROVE  Whole!Next \/ UNCHANGED Whole!wholeVars
<1>1. PICK l \in Locks : \/ holder[l] = NoLock /\ holder' = [holder EXCEPT ![l] = w]
                         \/ holder[l] = w /\ holder' = [holder EXCEPT ![l] = NoLock]
  BY DEF Walk
<1>2. Owner' = Owner
  BY DEF Walk, Owner
<1>3. NoLock \notin Walkers /\ holder \in [Locks -> Users \cup {NoLock}]
  BY NamesAssumption DEF LocksInv, LocksType
<1>4. CASE holder[l] = NoLock /\ holder' = [holder EXCEPT ![l] = w]
  <2>1. l \notin Walked /\ Walked' = Walked \cup {l}
    BY <1>3, <1>4 DEF Walked
  <2>2. l \notin Whole!Closed
    <3>1. \A t \in Tasks : pc[t].phase = "inside" => l \notin Need(t)
      BY <1>4, InvLocksSafe, NamesAssumption DEF LocksSafe, EverythingLocked, Need
    <3>2. Owner = NoLock \/ (Owner \in Tasks /\ pc[Owner].phase = "inside")
      BY DEF Owner
    <3> QED
      BY <3>1, <3>2 DEF Whole!Closed, Need
  <2>3. Whole!Walk
    BY <1>2, <2>1, <2>2 DEF Whole!Walk, Walked
  <2> QED
    BY <2>3 DEF Whole!Next
<1>5. CASE holder[l] = w /\ holder' = [holder EXCEPT ![l] = NoLock]
  <2>1. l \in Walked /\ Walked' = Walked \ {l}
    BY <1>3, <1>5 DEF Walked
  <2>2. Whole!GoOn
    BY <1>2, <2>1 DEF Whole!GoOn, Walked
  <2> QED
    BY <2>2 DEF Whole!Next
<1> QED
  BY <1>1, <1>4, <1>5

\* mm_take_all_locks and mm_drop_all_locks, with their marks, their interruptions and locks met
\* twice, are one lock on the whole address space (mmap.c 3471-3605).
THEOREM LocksTakenAsOne == Spec => TakenAsOne
<1>1. Init => Whole!Init
  <2> SUFFICES ASSUME Init PROVE Whole!Init
    OBVIOUS
  <2>1. Owner = NoLock
    BY DEF Init, Owner, Idle
  <2>2. Walked = {}
    BY NamesAssumption DEF Init, Walked
  <2> QED
    BY <2>1, <2>2 DEF Whole!Init, Walked
<1>2. LocksInv /\ LocksInv' /\ [Next]_lockVars => [Whole!Next]_Whole!wholeVars
  <2> SUFFICES ASSUME LocksInv, LocksInv', [Next]_lockVars
               PROVE  Whole!Next \/ UNCHANGED Whole!wholeVars
    OBVIOUS
  <2>1. CASE Next
    BY <2>1, TaskRefines, WalkRefines DEF Next
  <2>2. CASE UNCHANGED lockVars
    BY <2>2 DEF lockVars, Whole!wholeVars, Owner
  <2> QED
    BY <2>1, <2>2
<1> QED
  BY <1>1, <1>2, InitLocksInv, NextLocksInv, PTL DEF Spec, TakenAsOne, Whole!Spec
=============================================================================

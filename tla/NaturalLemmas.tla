--------------------------- MODULE NaturalLemmas ---------------------------
(***************************************************************************)
(* Induction over the natural numbers for sets rather than predicates: the *)
(* form in which the other proofs use it, for the value of a recursive     *)
(* function or the first time that something happens.                      *)
(***************************************************************************)
EXTENDS FiniteSetTheorems, TLAPS

\* Every set of natural numbers that is not empty has a least element.
LEMMA LeastNatural ==
    ASSUME NEW T, T \subseteq Nat, T # {}
    PROVE  \E m \in T : \A n \in T : m <= n
<1> DEFINE Below == {1 .. n : n \in T}
<1>1. Below \subseteq FiniteSubsetsOf(Nat)
    <2> SUFFICES ASSUME NEW n \in T PROVE 1 .. n \in FiniteSubsetsOf(Nat)
        OBVIOUS
    <2>1. IsFiniteSet(1 .. n)
        BY FS_Interval
    <2> QED
        BY <2>1 DEF FiniteSubsetsOf
<1>2. Below # {}
    OBVIOUS
<1>3. PICK B \in Below : \A C \in Below : <<C, B>> \notin StrictSubsetOrdering(Nat)
    <2> HIDE DEF Below
    <2> QED
        BY <1>1, <1>2, FS_StrictSubsetOrderingWellFounded, WFMin
<1>4. PICK m \in T : B = 1 .. m
    OBVIOUS
<1>5. ASSUME NEW n \in T PROVE m <= n
    <2> SUFFICES ASSUME n < m PROVE FALSE
        OBVIOUS
    <2>1. 1 .. n \subseteq 1 .. m /\ m \in 1 .. m /\ m \notin 1 .. n
        OBVIOUS
    <2>2. <<1 .. n, 1 .. m>> \in StrictSubsetOrdering(Nat)
        BY <2>1 DEF StrictSubsetOrdering
    <2> QED
        BY <1>3, <1>4, <2>2
<1> QED
    BY <1>5

\* A set of natural numbers with 0 and the successor of every member is Nat.
LEMMA SetInduction ==
    ASSUME NEW S \in SUBSET Nat, 0 \in S, \A n \in S : n + 1 \in S
    PROVE  S = Nat
<1>1. CASE Nat \ S = {}
    BY <1>1
<1>2. CASE Nat \ S # {}
    <2>1. PICK m \in Nat \ S : \A n \in Nat \ S : m <= n
        BY <1>2, LeastNatural
    <2>2. m # 0 /\ m - 1 \in Nat
        BY <2>1
    <2>3. m - 1 \in S
        BY <2>1, <2>2
    <2>4. (m - 1) + 1 \in S
        BY <2>3
    <2> QED
        BY <2>1, <2>2, <2>4
<1> QED
    BY <1>1, <1>2
=============================================================================

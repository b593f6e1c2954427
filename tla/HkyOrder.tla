------------------------------ MODULE HkyOrder ------------------------------
(***************************************************************************)
(* The first and the last of a nonempty finite set of positions: what a     *)
(* scan that stops at its first hit, or that keeps its latest one, ends up  *)
(* with.  The lemmas say that they are what their names say.  The least     *)
(* element comes from the well-foundedness of strict inclusion on finite    *)
(* sets, applied to the intervals 0..x for x in the set; induction over the *)
(* naturals, for a set of them, from the least one that is not in the set.  *)
(***************************************************************************)
EXTENDS Integers, WellFoundedInduction, FiniteSetTheorems, TLAPS

FirstOf(S) == CHOOSE i \in S : \A j \in S : i <= j
LastOf(S) == CHOOSE i \in S : \A j \in S : j <= i

\* A nonempty set of naturals has a least element, and FirstOf is it.
LEMMA FirstOfIn ==
    ASSUME NEW S \in SUBSET Nat, S # {}
    PROVE  FirstOf(S) \in S /\ \A j \in S : FirstOf(S) <= j
  <1> DEFINE T == {0..x : x \in S}
  <1>1. T \subseteq FiniteSubsetsOf(Nat) /\ T # {}
    <2>1. ASSUME NEW x \in S PROVE IsFiniteSet(0..x) /\ 0..x \in SUBSET Nat
      BY FS_Interval
    <2> QED BY <2>1 DEF FiniteSubsetsOf
  <1>2. PICK t \in T : \A u \in T : ~(<<u, t>> \in StrictSubsetOrdering(Nat))
    <2> HIDE DEF T
    <2> QED BY <1>1, FS_StrictSubsetOrderingWellFounded, WFMin
  <1>3. PICK x \in S : t = 0..x OBVIOUS
  <1>4. ASSUME NEW y \in S, y < x PROVE FALSE
    <2>1. 0..y \subseteq 0..x /\ 0..y # 0..x
      <3>1. x \in 0..x /\ x \notin 0..y BY <1>4
      <3> QED BY <3>1, <1>4
    <2>2. <<0..y, 0..x>> \in StrictSubsetOrdering(Nat)
      BY <2>1 DEF StrictSubsetOrdering
    <2> QED BY <2>2, <1>2, <1>3
  <1>5. \A j \in S : x <= j BY <1>4
  <1> QED BY <1>5 DEF FirstOf

\* A nonempty bounded set of naturals has a greatest element: LastOf.
LEMMA LastOfIn ==
    ASSUME NEW n \in Nat, NEW S \in SUBSET (0..n), S # {}
    PROVE  LastOf(S) \in S /\ \A j \in S : j <= LastOf(S)
  <1> DEFINE T == {n - i : i \in S}
  <1>1. T \in SUBSET Nat /\ T # {}
    <2>1. \A i \in S : n - i \in Nat OBVIOUS
    <2> QED BY <2>1
  <1>2. PICK t \in T : \A u \in T : t <= u
    <2> HIDE DEF T
    <2> QED BY <1>1, FirstOfIn
  <1>3. PICK i \in S : t = n - i OBVIOUS
  <1>4. \A j \in S : j <= i
    <2> TAKE j \in S
    <2>1. n - i <= n - j BY <1>2, <1>3
    <2> QED BY <2>1
  <1> QED BY <1>4 DEF LastOf

\* A set that has 0, and with a natural number the next, has them all.
LEMMA NatSetInduction ==
    ASSUME NEW T, 0 \in T, \A n \in Nat : n \in T => n + 1 \in T
    PROVE  Nat \subseteq T
  <1> SUFFICES ASSUME Nat \ T # {} PROVE FALSE OBVIOUS
  <1>1. PICK n \in Nat \ T : \A j \in Nat \ T : n <= j
    <2>1. Nat \ T \in SUBSET Nat OBVIOUS
    <2> QED BY ONLY <2>1, Nat \ T # {}, FirstOfIn
  <1>2. n - 1 \in Nat /\ n - 1 \in T BY <1>1
  <1> QED BY <1>1, <1>2
=============================================================================

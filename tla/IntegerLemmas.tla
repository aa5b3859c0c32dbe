---------------------------- MODULE IntegerLemmas ----------------------------
(***************************************************************************)
(* Bounded sets of integers have a least and a greatest element: what the  *)
(* CHOOSE of a first trigger, a largest count or a last name rests on.     *)
(***************************************************************************)
EXTENDS Integers, WellFoundedInduction, TLAPS

\* Nat is well founded under its order, written as a set of pairs.
LEMMA NatWellFounded == IsWellFoundedOn({p \in Nat \X Nat : p[1] < p[2]}, Nat)
  BY NatLessThanWellFounded DEF OpToRel

\* A non-empty set of integers above a bound has a least element.
LEMMA LeastOfBounded ==
    ASSUME NEW S \in SUBSET Int, NEW b \in Int, \A x \in S : b < x, S # {}
    PROVE  \E x \in S : \A y \in S : x <= y
  <1> DEFINE T == {x - b : x \in S}
             R == {p \in Nat \X Nat : p[1] < p[2]}
  <1>1. T \in SUBSET Nat /\ T # {}
    <2>1. ASSUME NEW x \in S PROVE x - b \in Nat
      <3>1. x \in Int /\ b < x
        OBVIOUS
      <3> QED
        BY <3>1
    <2>2. T # {}
      <3>1. PICK x \in S : TRUE
        OBVIOUS
      <3>2. x - b \in T
        BY <3>1
      <3> QED
        BY <3>2
    <2> QED
      BY <2>1, <2>2
  <1>2. \E k \in T : \A j \in T : <<j, k>> \notin R
    <2> HIDE DEF R, T
    <2>1. IsWellFoundedOn(R, Nat)
      BY NatWellFounded DEF R
    <2> QED
      BY <1>1, <2>1, WFMin
  <1>3. PICK k \in T : \A j \in T : <<j, k>> \notin R
    BY <1>2
  <1>4. \A j \in T : k <= j
    <2>1. ASSUME NEW j \in T PROVE k <= j
      <3>1. k \in Nat /\ j \in Nat
        BY <1>1
      <3>2. ~(j < k)
        BY <1>3, <3>1
      <3> QED
        BY <3>1, <3>2
    <2> QED
      BY <2>1
  <1>5. PICK x \in S : k = x - b
    BY <1>3
  <1>6. ASSUME NEW y \in S PROVE x <= y
    <2>1. y - b \in T
      OBVIOUS
    <2>2. k <= y - b
      BY <1>4, <2>1
    <2> QED
      BY <1>5, <2>2
  <1> QED
    BY <1>6

\* A non-empty set of integers below a bound has a greatest element.
LEMMA GreatestOfBounded ==
    ASSUME NEW S \in SUBSET Int, NEW b \in Int, \A x \in S : x < b, S # {}
    PROVE  \E x \in S : \A y \in S : y <= x
  <1> DEFINE T == {-x : x \in S}
  <1>1. T \in SUBSET Int /\ T # {} /\ \A k \in T : -b < k
    <2>1. ASSUME NEW k \in T PROVE k \in Int /\ -b < k
      <3>1. PICK x \in S : k = -x
        OBVIOUS
      <3> QED
        BY <3>1
    <2>2. T # {}
      <3>1. PICK x \in S : TRUE
        OBVIOUS
      <3>2. -x \in T
        BY <3>1
      <3> QED
        BY <3>2
    <2> QED
      BY <2>1, <2>2
  <1>2. PICK k \in T : \A j \in T : k <= j
    <2> HIDE DEF T
    <2>1. -b \in Int
      OBVIOUS
    <2> QED
      BY <1>1, <2>1, LeastOfBounded
  <1>3. PICK x \in S : k = -x
    BY <1>2
  <1>4. ASSUME NEW y \in S PROVE y <= x
    <2>1. -y \in T
      OBVIOUS
    <2>2. k <= -y
      BY <1>2, <2>1
    <2> QED
      BY <1>3, <2>2
  <1> QED
    BY <1>4
=============================================================================

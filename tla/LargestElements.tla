---------------------------- MODULE LargestElements ----------------------------
(***************************************************************************)
(* Largest and smallest elements of sets of natural numbers: what a SELECT *)
(* of a MAX, ORDER BY ... LIMIT 1, or the head of a sorted list relies on. *)
(***************************************************************************)
EXTENDS Integers, TLAPS, WellFoundedInduction

\* A nonempty set of naturals with a bound has a largest element.  (The least
\* of its bounds is a member: otherwise one less would still be a bound.)
LEMMA LargestElement ==
  ASSUME NEW S \in SUBSET Nat, NEW b \in Nat, \A n \in S : n <= b, S # {}
  PROVE  \E m \in S : \A n \in S : m >= n
<1> DEFINE U == {u \in Nat : \A n \in S : n <= u}
<1>1. U \subseteq Nat /\ U # {}
  BY SMT
<1> DEFINE R == OpToRel(<, Nat)
<1>2. PICK m \in U : \A u \in U : ~ (<<u, m>> \in R)
  <2> HIDE DEF U, R
  <2> QED BY <1>1, NatLessThanWellFounded, WFMin, Zenon DEF R
<1>3. \A u \in U : ~ (u < m)
  BY <1>2 DEF OpToRel
<1>4. m \in S
  <2> SUFFICES ASSUME m \notin S PROVE FALSE
    OBVIOUS
  <2>1. \A n \in S : n <= m /\ n # m
    OBVIOUS
  <2>2. m > 0
    <3>1. PICK n \in S : TRUE
      OBVIOUS
    <3>2. n \in Nat /\ m \in Nat /\ n <= m /\ n # m
      BY <2>1
    <3> QED BY <3>2
  <2>3. m - 1 \in U
    BY <2>1, <2>2
  <2> QED BY <2>3, <1>3
<1> QED BY <1>4

\* A nonempty set of naturals has a smallest element.
LEMMA SmallestElement ==
  ASSUME NEW S \in SUBSET Nat, S # {}
  PROVE  \E m \in S : \A n \in S : m <= n
<1> DEFINE R == OpToRel(<, Nat)
<1>1. PICK m \in S : \A n \in S : ~ (<<n, m>> \in R)
  <2> HIDE DEF R
  <2> QED BY NatLessThanWellFounded, WFMin, Zenon DEF R
<1>2. \A n \in S : ~ (n < m)
  BY <1>1 DEF OpToRel
<1> QED BY <1>2
================================================================================

---------------------------- MODULE OrderLemmas ----------------------------
(* Least and greatest elements of sets of natural numbers. *)
EXTENDS Integers, WellFoundedInduction, TLAPS

\* A non-empty set of natural numbers has a least element.
LEMMA LeastNatural ==
    ASSUME NEW S \in SUBSET Nat, S # {}
    PROVE  \E n \in S : \A k \in S : n <= k
<1> DEFINE R == {p \in Nat \X Nat : p[1] < p[2]}
<1>1. IsWellFoundedOn(OpToRel(<, Nat), Nat)
  BY NatLessThanWellFounded
<1>2. R = OpToRel(<, Nat)
  BY DEF OpToRel
<1>3. IsWellFoundedOn(R, Nat)
  BY <1>1, <1>2
<1> HIDE DEF R
<1>4. PICK n \in S : \A k \in S : ~ (<<k, n>> \in R)
  BY <1>3, WFMin
<1>5. ASSUME NEW k \in S  PROVE n <= k
  <2>1. <<k, n>> \notin R
    BY <1>4
  <2>2. <<k, n>> \in Nat \X Nat
    OBVIOUS
  <2>3. ~ (k < n)
    BY <2>1, <2>2 DEF R
  <2> QED BY <2>3
<1> QED BY <1>5

\* A non-empty set of natural numbers with a bound has a greatest element.
LEMMA GreatestNatural ==
    ASSUME NEW bound \in Nat, NEW S \in SUBSET (0..bound), S # {}
    PROVE  \E n \in S : \A k \in S : k <= n
<1> DEFINE U == {u \in Nat : \A k \in S : k <= u}
<1>1. bound \in U
  OBVIOUS
<1>2. PICK u \in U : \A k \in U : u <= k
  <2>1. U \in SUBSET Nat /\ U # {}
    BY <1>1
  <2> HIDE DEF U
  <2> QED BY <2>1, LeastNatural
<1>3. u \in S
  <2>1. CASE u = 0
    <3>1. PICK k \in S : TRUE
      OBVIOUS
    <3>2. k \in Nat /\ k <= u
      BY <1>2
    <3>3. k = 0
      BY <3>2, <2>1
    <3> QED BY <3>3, <2>1
  <2>2. CASE u # 0
    <3>1. u - 1 \in Nat /\ u - 1 \notin U
      BY <2>2, <1>2
    <3>2. PICK k \in S : ~ (k <= u - 1)
      BY <3>1
    <3> QED BY <3>2, <1>2
  <2> QED BY <2>1, <2>2
<1> QED BY <1>2, <1>3
=============================================================================

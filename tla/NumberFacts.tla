----------------------------- MODULE NumberFacts -----------------------------
(***************************************************************************)
(* Least and greatest numbers, and induction over the natural numbers.  The *)
(* library states induction for an operator; these state it for a set, from *)
(* the fact that finite sets are well-founded by inclusion.                 *)
(***************************************************************************)
EXTENDS Integers, FiniteSets, FiniteSetTheorems, WellFoundedInduction, TLAPS

\* A set of numbers has a least one: of the intervals from 0 to its members,
\* one is minimal.
LEMMA LeastNumber ==
  ASSUME NEW T \in SUBSET Nat, T # {}
  PROVE  \E n \in T : \A m \in T : n <= m
<1> DEFINE R == StrictSubsetOrdering(Nat)
           F == FiniteSubsetsOf(Nat)
           B == {0..n : n \in T}
<1>1. B \subseteq F
  <2>1. ASSUME NEW n \in T PROVE 0..n \in F
    <3>1. n \in Int /\ 0 \in Int /\ 0..n \subseteq Nat
      OBVIOUS
    <3>2. IsFiniteSet(0..n)
      BY <3>1, FS_Interval
    <3> QED
      BY <3>1, <3>2 DEF FiniteSubsetsOf
  <2> QED
    BY <2>1
<1>2. IsWellFoundedOn(R, F)
  BY FS_StrictSubsetOrderingWellFounded
<1>3. B # {}
  OBVIOUS
<1>4. PICK b \in B : \A c \in B : ~ (<<c, b>> \in R)
  <2> HIDE DEF R, F, B
  <2> QED
    BY <1>1, <1>2, <1>3, WFMin
<1>5. PICK n \in T : b = 0..n
  OBVIOUS
<1>6. ASSUME NEW m \in T, m < n PROVE FALSE
  <2>1. /\ 0..m \in SUBSET Nat /\ 0..n \in SUBSET Nat
        /\ 0..m \subseteq 0..n /\ 0..m # 0..n
    <3>1. n \in 0..n /\ n \notin 0..m
      BY <1>6
    <3> QED
      BY <1>6, <3>1
  <2>2. <<0..m, 0..n>> \in R
    BY <2>1 DEF StrictSubsetOrdering
  <2> QED
    BY <1>4, <1>5, <2>2
<1> QED
  BY <1>6

\* A set of numbers below a bound has a greatest one.
LEMMA GreatestNumber ==
  ASSUME NEW n \in Nat, NEW T \in SUBSET (0..n), T # {}
  PROVE  \E k \in T : \A m \in T : m <= k
<1> DEFINE U == {n - k : k \in T}
<1>1. U \in SUBSET Nat
  <2>1. \A k \in T : n - k \in Nat
    OBVIOUS
  <2> QED
    BY <2>1
<1>2. U # {}
  OBVIOUS
<1>3. PICK u \in U : \A v \in U : u <= v
  <2> HIDE DEF U
  <2> QED
    BY <1>1, <1>2, LeastNumber
<1>4. PICK k \in T : u = n - k
  OBVIOUS
<1>5. ASSUME NEW m \in T PROVE n - k <= n - m
  BY <1>3, <1>4
<1> QED
  BY <1>5

\* What holds of 0, and of n + 1 where it holds of n, holds of every number.
LEMMA Induction ==
  ASSUME NEW T \in SUBSET Nat, 0 \in T, \A n \in T : n + 1 \in T
  PROVE  T = Nat
<1> SUFFICES ASSUME Nat \ T # {} PROVE FALSE
  OBVIOUS
<1>1. PICK n \in Nat \ T : \A m \in Nat \ T : n <= m
  <2> DEFINE U == Nat \ T
  <2>1. U \in SUBSET Nat /\ U # {}
    OBVIOUS
  <2> HIDE DEF U
  <2>2. \E n \in U : \A m \in U : n <= m
    BY <2>1, LeastNumber
  <2> QED
    BY <2>2 DEF U
<1>2. n # 0 /\ n - 1 \in Nat /\ n - 1 \in T
  BY <1>1
<1> QED
  BY <1>1, <1>2
==============================================================================

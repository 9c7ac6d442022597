---------------------------- MODULE LeastElements ----------------------------
(***************************************************************************)
(* Least elements of sets of numbers and of finite sets.  What a recursive  *)
(* function computes is proved with them: of the arguments at which it      *)
(* fails, were there any, one would be least.                              *)
(***************************************************************************)
EXTENDS Integers, FiniteSets, FiniteSetTheorems, TLAPS

\* A property of some finite set fails first at a set all of whose proper
\* subsets have it.
LEMMA LeastSet ==
    ASSUME NEW T, IsFiniteSet(T), NEW Bad \in SUBSET SUBSET T, Bad # {}
    PROVE  \E S \in Bad : /\ IsFiniteSet(S)
                          /\ \A R \in SUBSET S : R # S => R \notin Bad
<1>1. IsWellFoundedOn(StrictSubsetOrdering(T), SUBSET T)
  BY FS_StrictSubsetOrderingWellFounded, FS_FiniteSubsetsOfFinite
<1>2. PICK S \in Bad : \A R \in Bad : <<R, S>> \notin StrictSubsetOrdering(T)
  BY <1>1, WFMin
<1>3. IsFiniteSet(S)
  BY FS_Subset
<1>4. ASSUME NEW R \in SUBSET S, R # S, R \in Bad PROVE FALSE
  BY <1>2, <1>4 DEF StrictSubsetOrdering
<1> QED
  BY <1>3, <1>4

\* A set of numbers has a least one.
LEMMA LeastNumber ==
    ASSUME NEW S \in SUBSET Nat, S # {}
    PROVE  \E n \in S : \A m \in S : n <= m
<1>1. PICK n \in S : \A m \in S : ~ (<<m, n>> \in OpToRel(<, Nat))
  BY NatLessThanWellFounded, WFMin
<1>2. ASSUME NEW m \in S PROVE n <= m
  <2>1. ~(m < n)
    BY <1>1 DEF OpToRel
  <2> QED
    BY <2>1
<1> QED
  BY <1>2

\* A set of numbers with a bound has a greatest one.
LEMMA GreatestNumber ==
    ASSUME NEW S \in SUBSET Nat, S # {}, NEW b \in Nat, \A m \in S : m <= b
    PROVE  \E n \in S : \A m \in S : m <= n
<1> DEFINE Bounds == {c \in Nat : \A m \in S : m <= c}
<1>1. PICK c \in Bounds : \A d \in Bounds : c <= d
  <2>1. b \in Bounds /\ Bounds \in SUBSET Nat
    OBVIOUS
  <2> HIDE DEF Bounds
  <2> QED
    BY <2>1, LeastNumber
<1>2. c \in Nat /\ \A m \in S : m <= c
  OBVIOUS
<1>3. c \in S
  <2> SUFFICES ASSUME c \notin S PROVE FALSE
    OBVIOUS
  <2>1. c # 0 /\ \A m \in S : m <= c - 1
    <3>1. \A m \in S : m \in Nat /\ m <= c /\ m # c
      BY <1>2
    <3>2. PICK m \in S : TRUE
      OBVIOUS
    <3> QED
      BY <1>2, <3>1, <3>2
  <2>2. c - 1 \in Bounds
    BY <1>2, <2>1
  <2> QED
    BY <1>1, <1>2, <2>2
<1> QED
  BY <1>2, <1>3
=============================================================================

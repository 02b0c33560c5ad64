---------------------------- MODULE NumberLemmas ----------------------------
(***************************************************************************)
(* Least and greatest numbers.  Induction over numbers goes by the least   *)
(* counterexample: the induction theorems of the library have an operator  *)
(* for a parameter, which the provers cannot instantiate.                  *)
(***************************************************************************)
EXTENDS Integers, FiniteSetsExt, WellFoundedInduction, TLAPS

\* The least-number principle.
LEMMA LeastNumber ==
  ASSUME NEW T, T \subseteq Nat, T # {}
  PROVE  \E m \in T : \A n \in T : m <= n
  <1>1. PICK m \in T : \A n \in T : ~(<<n, m>> \in OpToRel(<, Nat))
    BY WFMin, NatLessThanWellFounded, Zenon
  <1>2. \A n \in T : ~(n < m)
    BY <1>1 DEF OpToRel
  <1> QED
    BY <1>2

\* A bounded set of numbers has a maximum, and Max is it.
LEMMA GreatestNumber ==
  ASSUME NEW b \in Nat, NEW T, T \subseteq 0 .. b, T # {}
  PROVE  Max(T) \in T /\ \A n \in T : Max(T) >= n
  <1> DEFINE D == {x \in Nat : \E n \in T : x = b - n}
  <1>0. \A n \in T : n \in Int /\ b - n \in Nat
    OBVIOUS
  <1>1. D \subseteq Nat /\ D # {}
    <2>1. PICK n \in T : TRUE
      OBVIOUS
    <2>2. b - n \in D
      BY <1>0
    <2> QED
      BY <2>2
  <1>2. PICK d \in D : \A e \in D : d <= e
    <2> HIDE DEF D
    <2> QED
      BY <1>1, LeastNumber
  <1>3. PICK m \in T : d = b - m
    OBVIOUS
  <1>4. \A n \in T : m >= n
    <2> SUFFICES ASSUME NEW n \in T PROVE m >= n
      OBVIOUS
    <2>1. b - n \in D
      BY <1>0
    <2>2. d <= b - n
      BY <1>2, <2>1
    <2> QED
      BY <1>0, <1>3, <2>2
  <1> QED
    BY <1>4 DEF Max

\* So has a set of numbers a minimum, and Min is it.
LEMMA SmallestNumber ==
  ASSUME NEW T, T \subseteq Nat, T # {}
  PROVE  Min(T) \in T /\ \A n \in T : Min(T) <= n
  <1>1. \E m \in T : \A n \in T : m <= n
    BY LeastNumber
  <1> QED
    BY <1>1 DEF Min

\* Induction over an interval, for the numbers of a set.
LEMMA IntervalInduction ==
  ASSUME NEW a \in Int, NEW b \in Int, NEW P,
         a \in P,
         \A i \in a + 1 .. b : i - 1 \in P => i \in P
  PROVE  \A i \in a .. b : i \in P
  <1> DEFINE T == {n \in Nat : n + a <= b /\ n + a \notin P}
  <1>1. T = {}
    <2> SUFFICES ASSUME T # {} PROVE FALSE
      OBVIOUS
    <2>1. PICK m \in T : \A n \in T : m <= n
      <3>1. T \subseteq Nat
        OBVIOUS
      <3> HIDE DEF T
      <3> QED
        BY <3>1, LeastNumber
    <2>2. m # 0
      <3>1. m + a \notin P /\ 0 + a = a
        BY <2>1
      <3> QED
        BY <3>1
    <2>3. m - 1 \in Nat /\ ~(m <= m - 1) /\ (m - 1) + a = (m + a) - 1 /\ m + a \in a + 1 .. b
      BY <2>2
    <2>4. (m + a) - 1 \in P
      BY <2>1, <2>3
    <2> QED
      BY <2>3, <2>4
  <1> SUFFICES ASSUME NEW i \in a .. b, i \notin P PROVE FALSE
    OBVIOUS
  <1>2. i - a \in Nat /\ (i - a) + a = i /\ i <= b
    OBVIOUS
  <1>3. i - a \in T
    BY <1>2
  <1> QED
    BY <1>1, <1>3

\* The same from zero.
LEMMA InductionTo ==
  ASSUME NEW n \in Nat, NEW P, 0 \in P, \A i \in 1 .. n : i - 1 \in P => i \in P
  PROVE  \A i \in 0 .. n : i \in P
  <1>1. \A i \in 0 + 1 .. n : i - 1 \in P => i \in P
    OBVIOUS
  <1> QED
    BY <1>1, IntervalInduction
=============================================================================

------------------------------ MODULE Extremes ------------------------------
(***************************************************************************)
(* A finite set of integers has a greatest and a least member.  The views  *)
(* and the engines ask for the newest and the oldest of their rows; the    *)
(* proofs about them need that there is one.  From the least member come   *)
(* the arguments by induction: about the first row at which a loop fails.  *)
(***************************************************************************)
EXTENDS Integers, FiniteSetTheorems, WellFoundedInduction, TLAPS

\* A finite set of integers that is not empty has a greatest member: a smallest
\* subset without one would have none without one of its members either.
LEMMA Greatest ==
  ASSUME NEW S, S \subseteq Int, IsFiniteSet(S), S # {}
  PROVE \E m \in S : \A n \in S : n <= m
<1> DEFINE Has(T) == \E m \in T : \A n \in T : n <= m
<1> DEFINE Without == {T \in SUBSET S : T # {} /\ ~Has(T)}
<1> SUFFICES ASSUME Without # {} PROVE FALSE
  BY S \in SUBSET S
<1>1. FiniteSubsetsOf(S) = SUBSET S
  BY FS_FiniteSubsetsOfFinite
<1>2. IsWellFoundedOn(StrictSubsetOrdering(S), SUBSET S)
  BY <1>1, FS_StrictSubsetOrderingWellFounded
<1> HIDE DEF Has
<1>3. PICK T \in Without : \A U \in Without : <<U, T>> \notin StrictSubsetOrdering(S)
  <2>1. Without \subseteq SUBSET S
    OBVIOUS
  <2> HIDE DEF Without
  <2> QED BY <1>2, <2>1, WFMin
<1>4. PICK x \in T : TRUE
  OBVIOUS
<1> DEFINE U == T \ {x}
<1>5. U \in SUBSET S /\ <<U, T>> \in StrictSubsetOrdering(S)
  BY <1>4 DEF StrictSubsetOrdering
<1>6. CASE U = {}
  <2>1. T = {x} /\ x \in Int
    BY <1>4, <1>6
  <2> QED BY <2>1 DEF Has
<1>7. CASE Has(U)
  <2>1. PICK m \in U : \A n \in U : n <= m
    BY <1>7 DEF Has
  <2>2. T \subseteq Int /\ m \in T /\ \A n \in T : n = x \/ n <= m
    BY <2>1
  <2>3. Has(T)
    BY <1>4, <2>2 DEF Has
  <2> QED BY <2>3
<1> QED BY <1>3, <1>5, <1>6, <1>7

\* It has a least member too: the greatest of the negated ones, negated.
LEMMA Least ==
  ASSUME NEW S, S \subseteq Int, IsFiniteSet(S), S # {}
  PROVE \E m \in S : \A n \in S : m <= n
<1> DEFINE T == {-n : n \in S}
<1> DEFINE f == [n \in S |-> -n]
<1>1. f \in Surjection(S, T)
  BY DEF Surjection
<1>2. IsFiniteSet(T)
  BY ONLY <1>1, IsFiniteSet(S), FS_Surjection
<1>3. T \subseteq Int /\ T # {}
  <2>1. \A n \in S : -n \in Int
    OBVIOUS
  <2>2. PICK n \in S : TRUE
    OBVIOUS
  <2>3. -n \in T
    OBVIOUS
  <2>4. T \subseteq Int
    BY <2>1
  <2> QED BY <2>3, <2>4
<1>4. PICK k \in T : \A n \in T : n <= k
  <2> HIDE DEF T
  <2> QED BY <1>2, <1>3, Greatest
<1>5. PICK m \in S : k = -m
  OBVIOUS
<1>6. \A n \in S : -n <= -m
  BY <1>4, <1>5
<1> QED BY <1>5, <1>6

\* A set of natural numbers has a least member, finite or not: it is among the
\* numbers up to any one of them.
LEMMA LeastNatural ==
  ASSUME NEW S, S \subseteq Nat, S # {}
  PROVE \E m \in S : \A n \in S : m <= n
<1>1. PICK k \in S : TRUE
  OBVIOUS
<1> DEFINE T == S \cap 0..k
<1>2. T \subseteq Int /\ IsFiniteSet(T) /\ T # {}
  <2>1. IsFiniteSet(0..k)
    BY <1>1, FS_Interval
  <2>2. IsFiniteSet(T)
    BY <2>1, FS_Subset
  <2> QED BY <1>1, <2>2
<1>3. PICK m \in T : \A n \in T : m <= n
  <2> HIDE DEF T
  <2> QED BY <1>2, Least
<1>4. ASSUME NEW n \in S PROVE m <= n
  <2>1. n \in Nat /\ k \in Nat /\ m \in Nat /\ m <= k
    BY <1>1, <1>3
  <2> QED BY <1>3, <2>1
<1> QED BY <1>3, <1>4

\* A number on the way from 0 to n at which something stops being so is
\* reached by a step from one at which it was so.
LEMMA FirstFailure ==
  ASSUME NEW n \in Nat, NEW fails, fails \subseteq 0..n, fails # {}, 0 \notin fails
  PROVE \E i \in 1..n : i \in fails /\ i - 1 \in 0..n /\ i - 1 \notin fails
<1>1. fails \subseteq Nat
  OBVIOUS
<1>2. PICK m \in fails : \A k \in fails : m <= k
  BY <1>1, LeastNatural
<1> QED BY <1>2
=============================================================================

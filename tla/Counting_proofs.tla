--------------------------- MODULE Counting_proofs ---------------------------
(***************************************************************************)
(* Facts about the number of elements of a set, for the counters of the    *)
(* thread pool and its queues and for the threads at some point of a call. *)
(***************************************************************************)
EXTENDS FiniteSets, Integers, FiniteSetTheorems, TLAPS

\* 1 if p holds, for sums
One(p) == IF p THEN 1 ELSE 0

\* A set that differs from a finite one in at most one element has at most one
\* element more or less.
LEMMA CountMoves ==
  ASSUME NEW S, NEW T, NEW x, IsFiniteSet(S),
         \A y : y # x => (y \in S <=> y \in T)
  PROVE  /\ IsFiniteSet(T)
         /\ Cardinality(S) \in Nat
         /\ Cardinality(T) \in Nat
         /\ Cardinality(T) = Cardinality(S) + One(x \in T) - One(x \in S)
<1>0. Cardinality(S) \in Nat
  BY FS_CardinalityType
<1>1. CASE x \in S /\ x \notin T
  <2>1. T = S \ {x}
    BY <1>1
  <2> QED BY <1>0, <1>1, <2>1, FS_RemoveElement, FS_CardinalityType DEF One
<1>2. CASE x \notin S /\ x \in T
  <2>1. T = S \cup {x}
    BY <1>2
  <2> QED BY <1>0, <1>2, <2>1, FS_AddElement, FS_CardinalityType DEF One
<1>3. CASE x \in S <=> x \in T
  <2>1. T = S
    BY <1>3
  <2> QED BY <1>0, <1>3, <2>1 DEF One
<1> QED BY <1>1, <1>2, <1>3

\* A set that did not change has as many elements as before.
LEMMA CountStays ==
  ASSUME NEW S, NEW T, IsFiniteSet(S), \A y : y \in S <=> y \in T
  PROVE  /\ IsFiniteSet(T)
         /\ Cardinality(S) \in Nat
         /\ Cardinality(T) = Cardinality(S)
<1>1. S = T
  OBVIOUS
<1> QED BY <1>1, FS_CardinalityType

\* There is an element where the count is not zero, and none where it is.
LEMMA CountPositive ==
  ASSUME NEW S, IsFiniteSet(S)
  PROVE  /\ Cardinality(S) \in Nat
         /\ \A x : x \in S => Cardinality(S) >= 1
         /\ Cardinality(S) = 0 <=> S = {}
BY FS_CardinalityType, FS_EmptySet

=============================================================================

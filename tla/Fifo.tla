-------------------------------- MODULE Fifo --------------------------------
(***************************************************************************)
(* What a CircularQueue (include/circular_queue.h) holds, seen from        *)
(* outside: a sequence of at most n elements.  Module CircularQueue has    *)
(* the ring of slots that stores it.                                       *)
(***************************************************************************)
EXTENDS Naturals, Sequences

\* Counting the spare slot of the ring twice (a mutant, see README.md)
IsFull_OneEarly(q, n) == n > 0 /\ Len(q) + 1 >= n

\* A queue asked to hold nothing is never full: full() tests capacity_ > 1.
IsFull(q, n) == n > 0 /\ Len(q) = n

\* Leaving head_ where it is when the ring overflows
PushBack_Grows(q, e, n) == IF n = 0 THEN q ELSE Append(q, e)

\* pushBack drops the oldest element of a full queue, and silently drops the
\* new one when the queue has no room at all.
PushBack(q, e, n) ==
  IF n = 0 THEN q
  ELSE Append(IF IsFull(q, n) THEN Tail(q) ELSE q, e)

Holds(q, e) == \E i \in DOMAIN q : q[i] = e
Distinct(q) == \A i, j \in DOMAIN q : q[i] = q[j] => i = j

=============================================================================

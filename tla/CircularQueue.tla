--------------------------- MODULE CircularQueue ---------------------------
(***************************************************************************)
(* threadpool::CircularQueue (include/circular_queue.h): a ring of slots   *)
(* in a std::vector, one slot longer than asked for, so that head_ = end_  *)
(* means empty and never full.  It has no lock: its callers take turns.    *)
(* Calls that throw (popFront and front of an empty queue, at with a bad   *)
(* index) change nothing and are not steps.                                *)
(***************************************************************************)
EXTENDS Naturals, Sequences

CONSTANTS
  Queues,     \* the queue objects
  Requests,   \* the capacities asked of the constructor
  MaxSlots,   \* elems_.max_size()
  Elements,   \* the values of T
  NoElement,  \* a default-constructed or moved-from value of T
  SizeMod     \* number of values of std::size_t

\* A vector takes at most half of the address space.
ASSUME RingAssumption ==
  /\ SizeMod \in Nat \ {0, 1}
  /\ Requests \subseteq 0 .. SizeMod - 1
  /\ MaxSlots \in Nat \ {0}
  /\ 2 * MaxSlots <= SizeMod
  /\ NoElement \notin Elements

VARIABLES
  capacity,       \* capacity_, one more than asked for
  head,           \* head_
  end,            \* end_
  overrun_count,  \* overrun_count_
  elems           \* elems_, a function on 0 .. elems_.size() - 1

vars == <<capacity, head, end, overrun_count, elems>>

Slot(n) == 0 .. n - 1
Value == Elements \cup {NoElement}
NoSlots == [i \in Slot(0) |-> NoElement]

\* Forgetting the spare slot
Slots_NoSpare(n) == IF n > 0 THEN n ELSE 1

\* capacity + 1 wraps for the largest request, which then gets no room at all.
Slots(n) == IF n > 0 THEN (n + 1) % SizeMod ELSE 1

\* The default constructor has no slots, as the wrapped request; a constructor
\* that asks the vector for too much throws and there is no queue.
Init ==
  /\ capacity \in [Queues -> {0} \cup {Slots(n) : n \in Requests}]
  /\ \A q \in Queues : capacity[q] <= MaxSlots
  /\ head = [q \in Queues |-> 0]
  /\ end = [q \in Queues |-> 0]
  /\ overrun_count = [q \in Queues |-> 0]
  /\ elems = [q \in Queues |-> [i \in Slot(capacity[q]) |-> NoElement]]

-----------------------------------------------------------------------------
(***************************************************************************)
(* What the const members return                                           *)
(***************************************************************************)

Empty(q) == head[q] = end[q]
Full(q) == capacity[q] > 1 /\ (end[q] + 1) % capacity[q] = head[q]
Capacity(q) == IF capacity[q] > 1 THEN capacity[q] - 1 ELSE 0

\* The distance between the pointers, taken without the wrap
Size_Unwrapped(q) ==
  IF head[q] <= end[q] THEN end[q] - head[q] ELSE head[q] - end[q]

Size(q) ==
  IF head[q] <= end[q] THEN end[q] - head[q] ELSE capacity[q] - head[q] + end[q]

\* The slot of at(index): the sum is a size_t before it is reduced.
Index(q, i) == ((head[q] + i) % SizeMod) % capacity[q]
At(q, i) == elems[q][Index(q, i)]

-----------------------------------------------------------------------------
(***************************************************************************)
(* Operations                                                              *)
(***************************************************************************)

\* Counting every push that meets end_ before moving it
PushBack_LateTest(q, e) ==
  /\ capacity[q] > 1
  /\ elems' = [elems EXCEPT ![q][end[q]] = e]
  /\ end' = [end EXCEPT ![q] = (@ + 1) % capacity[q]]
  /\ IF end[q] = head[q]
     THEN /\ head' = [head EXCEPT ![q] = (@ + 1) % capacity[q]]
          /\ overrun_count' = [overrun_count EXCEPT ![q] = (@ + 1) % SizeMod]
     ELSE UNCHANGED <<head, overrun_count>>
  /\ UNCHANGED capacity

\* Forgetting that end_ wraps
PushBack_Unwrapped(q, e) ==
  /\ capacity[q] > 1
  /\ elems' = [elems EXCEPT ![q][end[q]] = e]
  /\ end' = [end EXCEPT ![q] = @ + 1]
  /\ UNCHANGED <<capacity, head, overrun_count>>

\* pushBack and emplaceBack (no step without room).  On overflow head_ moves on;
\* the oldest element stays in what is now the spare slot until the next push.
PushBack(q, e) ==
  LET after == (end[q] + 1) % capacity[q]
  IN /\ capacity[q] > 1
     /\ elems' = [elems EXCEPT ![q][end[q]] = e]
     /\ end' = [end EXCEPT ![q] = after]
     /\ IF after = head[q]
        THEN /\ head' = [head EXCEPT ![q] = (@ + 1) % capacity[q]]
             /\ overrun_count' = [overrun_count EXCEPT ![q] = (@ + 1) % SizeMod]
        ELSE UNCHANGED <<head, overrun_count>>
     /\ UNCHANGED capacity

PopFront(q) ==
  /\ ~Empty(q)
  /\ head' = [head EXCEPT ![q] = (@ + 1) % capacity[q]]
  /\ UNCHANGED <<capacity, end, overrun_count, elems>>

\* A write (or a move, which leaves NoElement) through the reference that
\* front(), at(i) or operator[] returned
Assign(q, i, e) ==
  /\ i < Size(q)
  /\ elems' = [elems EXCEPT ![q][Index(q, i)] = e]
  /\ UNCHANGED <<capacity, head, end, overrun_count>>

Clear(q) ==
  /\ head' = [head EXCEPT ![q] = 0]
  /\ end' = [end EXCEPT ![q] = 0]
  /\ overrun_count' = [overrun_count EXCEPT ![q] = 0]
  /\ UNCHANGED <<capacity, elems>>

ResetCounter(q) ==
  /\ overrun_count' = [overrun_count EXCEPT ![q] = 0]
  /\ UNCHANGED <<capacity, head, end, elems>>

\* Move assignment, or move construction of a q whose lifetime begins anew.
\* The other queue is left without slots and with its counter.
Move(q, r) ==
  /\ q # r
  /\ capacity' = [capacity EXCEPT ![q] = capacity[r], ![r] = 1]
  /\ head' = [head EXCEPT ![q] = head[r], ![r] = 0]
  /\ end' = [end EXCEPT ![q] = end[r], ![r] = 0]
  /\ overrun_count' = [overrun_count EXCEPT ![q] = overrun_count[r]]
  /\ elems' = [elems EXCEPT ![q] = elems[r], ![r] = NoSlots]

Next ==
  \E q \in Queues :
    \/ PopFront(q) \/ Clear(q) \/ ResetCounter(q)
    \/ \E r \in Queues : Move(q, r)
    \/ \E e \in Value :
         PushBack(q, e) \/ \E i \in Slot(Size(q)) : Assign(q, i, e)

Spec == Init /\ [][Next]_vars

-----------------------------------------------------------------------------
(***************************************************************************)
(* Properties                                                              *)
(***************************************************************************)

\* Every slot that an operation may touch exists: the pointers stay in the
\* vector, and a queue that has room has all of its slots.
TypeOK ==
  /\ capacity \in [Queues -> 0 .. MaxSlots]
  /\ overrun_count \in [Queues -> 0 .. SizeMod - 1]
  /\ \A q \in Queues :
       /\ head[q] \in Slot(capacity[q]) \cup {0}
       /\ end[q] \in Slot(capacity[q]) \cup {0}
       /\ DOMAIN elems[q] = Slot(capacity[q]) \/ (capacity[q] = 1 /\ elems[q] = NoSlots)
       /\ \A i \in DOMAIN elems[q] : elems[q][i] \in Value

\* The elements from head_ up to end_, round the ring
Items(q) ==
  IF capacity[q] <= 1 THEN <<>>
  ELSE [i \in 1 .. (end[q] + capacity[q] - head[q]) % capacity[q] |->
          elems[q][(head[q] + i - 1) % capacity[q]]]

\* The room a constructor gives is what it was asked for, but for the largest
\* request, which gets none like the default constructor.
Abs == INSTANCE BoundedFifo WITH
         Sizes <- {0} \cup (Requests \ {SizeMod - 1}),
         items <- [q \in Queues |-> Items(q)],
         room <- [q \in Queues |-> Capacity(q)],
         overruns <- overrun_count

\* The ring is a bounded queue with room for what was asked, neither one more nor
\* one less for the spare slot: each call does to the elements what a queue does,
\* oldest first out and oldest first lost, whatever way the pointers have gone
\* round and whichever queue the ring was moved from.
RingIsFifo == Abs!Spec

\* size(), empty(), full() and at() tell the truth about the elements: size_t
\* arithmetic and the spare slot do not show.
ViewsAgree ==
  \A q \in Queues :
    /\ Size(q) = Len(Items(q))
    /\ Empty(q) <=> Items(q) = <<>>
    /\ Full(q) <=> Abs!IsFull(Items(q), Capacity(q))
    /\ \A i \in Slot(Size(q)) : At(q, i) = Items(q)[i + 1]

=============================================================================

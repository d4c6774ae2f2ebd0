---------------------------- MODULE BoundedFifo ----------------------------
(***************************************************************************)
(* What CircularQueue (include/circular_queue.h) promises: queues of       *)
(* bounded length that drop and count their oldest element on overflow,    *)
(* let the elements they hold be read and written in place, and hand all   *)
(* they have to another queue when moved from.  No ring, no slots.         *)
(***************************************************************************)
EXTENDS Fifo

CONSTANTS
  Queues,     \* the queue objects
  Sizes,      \* the numbers of elements a queue may be given room for
  Elements,   \* the values of T
  NoElement,  \* a moved-from value of T
  SizeMod     \* number of values of std::size_t

VARIABLES
  items,     \* the elements of each queue, oldest first
  room,      \* the number of elements each queue can hold
  overruns   \* the elements each queue dropped, as a size_t

vars == <<items, room, overruns>>

Init ==
  /\ items = [q \in Queues |-> <<>>]
  /\ room \in [Queues -> Sizes]
  /\ overruns = [q \in Queues |-> 0]

Push(q, e) ==
  /\ items' = [items EXCEPT ![q] = PushBack(@, e, room[q])]
  /\ overruns' = IF IsFull(items[q], room[q])
                 THEN [overruns EXCEPT ![q] = (@ + 1) % SizeMod]
                 ELSE overruns
  /\ UNCHANGED room

Pop(q) ==
  /\ items[q] # <<>>
  /\ items' = [items EXCEPT ![q] = Tail(@)]
  /\ UNCHANGED <<room, overruns>>

Assign(q, i, e) ==
  /\ i \in DOMAIN items[q]
  /\ items' = [items EXCEPT ![q][i] = e]
  /\ UNCHANGED <<room, overruns>>

Clear(q) ==
  /\ items' = [items EXCEPT ![q] = <<>>]
  /\ overruns' = [overruns EXCEPT ![q] = 0]
  /\ UNCHANGED room

ResetCounter(q) ==
  /\ overruns' = [overruns EXCEPT ![q] = 0]
  /\ UNCHANGED <<items, room>>

\* The queue moved from has neither elements nor room, and still its counter.
Move(q, r) ==
  /\ q # r
  /\ items' = [items EXCEPT ![q] = items[r], ![r] = <<>>]
  /\ room' = [room EXCEPT ![q] = room[r], ![r] = 0]
  /\ overruns' = [overruns EXCEPT ![q] = overruns[r]]

Next ==
  \E q \in Queues :
    \/ Pop(q) \/ Clear(q) \/ ResetCounter(q)
    \/ \E r \in Queues : Move(q, r)
    \/ \E e \in Elements \cup {NoElement} :
         Push(q, e) \/ \E i \in DOMAIN items[q] : Assign(q, i, e)

Spec == Init /\ [][Next]_vars

=============================================================================

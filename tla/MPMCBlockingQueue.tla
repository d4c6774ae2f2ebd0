-------------------------- MODULE MPMCBlockingQueue --------------------------
(***************************************************************************)
(* threadpool::MPMCBlockingQueue (include/mpmc_blocking_queue.h): a        *)
(* bounded queue between producer and consumer threads.                    *)
(*                                                                         *)
(* A section under queue_mutex_ is one action: nobody looks into it, and   *)
(* the mutex is free before and after.  A wait that finds its predicate    *)
(* false releases the mutex and falls asleep in one step.  notify_one is a *)
(* step of its own, since every operation unlocks before it notifies.      *)
(***************************************************************************)
EXTENDS Fifo, FiniteSets

CONSTANTS
  Capacity,   \* max_elems
  Producers,  \* threads that call the enqueue operations
  Consumers,  \* threads that call the dequeue operations
  Pushes,     \* the enqueue operations they use
  Pops,       \* the dequeue operations they use
  Elements,   \* the elements, each handed over at most once
  NoElement   \* a moved-from or not yet written element

EnqueueOps == {"enqueue", "enqueueNoWait", "enqueueIfNotFull"}
DequeueOps == {"dequeue", "dequeueWaitFor"}
Threads == Producers \cup Consumers

ASSUME QueueAssumption ==
  /\ Capacity \in Nat
  /\ Producers \cap Consumers = {}
  /\ Pushes \subseteq EnqueueOps
  /\ Pops \subseteq DequeueOps
  /\ Elements \subseteq Nat
  /\ NoElement \notin Elements

ProducerStep == EnqueueOps \cup {"idle", "popCv", "notifyPush", "discard"}
ConsumerStep ==
  DequeueOps \cup {"idle", "pushCv", "pushCvTimed", "lastLook", "notifyPop"}

VARIABLES
  queue,          \* contents of circular_queue_
  overrun_count,  \* its overrunCount()
  discard_count,  \* discard_count_
  pc,             \* where each thread is
  arg,            \* the element a producer hands over
  fate            \* history: where each element is

vars == <<queue, overrun_count, discard_count, pc, arg, fate>>

Fate == {"new", "offered", "stored", "taken", "overrun", "discarded"}

Init ==
  /\ queue = <<>>
  /\ overrun_count = 0
  /\ discard_count = 0
  /\ pc = [t \in Threads |-> "idle"]
  /\ arg = [p \in Producers |-> NoElement]
  /\ fate = [e \in Elements |-> "new"]

Goes(t, step) == pc' = [pc EXCEPT ![t] = step]

-----------------------------------------------------------------------------
(***************************************************************************)
(* Producers                                                               *)
(***************************************************************************)

\* Elements are numbered in the order in which they are offered.
Offer(p, e) ==
  /\ pc[p] = "idle"
  /\ fate[e] = "new"
  /\ \A d \in Elements : fate[d] = "new" => e <= d
  /\ \E op \in Pushes : Goes(p, op)
  /\ arg' = [arg EXCEPT ![p] = e]
  /\ fate' = [fate EXCEPT ![e] = "offered"]
  /\ UNCHANGED <<queue, overrun_count, discard_count>>

\* Overwriting without counting
Overruns_Forgotten == overrun_count

Overruns ==
  IF IsFull(queue, Capacity) THEN overrun_count + 1 ELSE overrun_count

\* circular_queue_.pushBack: a full queue loses its front and counts it, a
\* queue without room keeps nothing (and counts nothing).
PushElement(p) ==
  LET lost == IF Capacity = 0 THEN {arg[p]}
              ELSE IF IsFull(queue, Capacity) THEN {Head(queue)} ELSE {}
  IN /\ queue' = PushBack(queue, arg[p], Capacity)
     /\ overrun_count' = Overruns
     /\ fate' = [e \in Elements |-> IF e \in lost THEN "overrun"
                                    ELSE IF e = arg[p] THEN "stored"
                                    ELSE fate[e]]
     /\ Goes(p, "notifyPush")
     /\ UNCHANGED arg

\* pop_cv_.wait while the queue is full
Enqueue(p) ==
  /\ pc[p] = "enqueue"
  /\ IF IsFull(queue, Capacity)
     THEN Goes(p, "popCv") /\ UNCHANGED <<queue, overrun_count, arg, fate>>
     ELSE PushElement(p)
  /\ UNCHANGED discard_count

EnqueueNoWait(p) ==
  /\ pc[p] = "enqueueNoWait"
  /\ PushElement(p)
  /\ UNCHANGED discard_count

EnqueueIfNotFull(p) ==
  /\ pc[p] = "enqueueIfNotFull"
  /\ IF IsFull(queue, Capacity)
     THEN /\ fate' = [fate EXCEPT ![arg[p]] = "discarded"]
          /\ Goes(p, "discard")
          /\ UNCHANGED <<queue, overrun_count, arg>>
     ELSE PushElement(p)
  /\ UNCHANGED discard_count

\* The discard counter moves after the unlock.
CountDiscard(p) ==
  /\ pc[p] = "discard"
  /\ discard_count' = discard_count + 1
  /\ Goes(p, "idle")
  /\ arg' = [arg EXCEPT ![p] = NoElement]
  /\ UNCHANGED <<queue, overrun_count, fate>>

\* Consumers asleep on push_cv_, with the step each wakes up to
OnPushCv == {c \in Consumers : pc[c] \in {"pushCv", "pushCvTimed"}}
Woken(c) == IF pc[c] = "pushCv" THEN "dequeue" ELSE "dequeueWaitFor"

\* push_cv_.notify_one() only when the queue was empty before the push
NotifyPush_WasEmpty(p) ==
  /\ pc[p] = "notifyPush"
  /\ IF OnPushCv = {} \/ Len(queue) > 1 THEN Goes(p, "idle")
     ELSE \E c \in OnPushCv :
            pc' = [pc EXCEPT ![p] = "idle", ![c] = Woken(c)]
  /\ arg' = [arg EXCEPT ![p] = NoElement]
  /\ UNCHANGED <<queue, overrun_count, discard_count, fate>>

NotifyPush(p) ==
  /\ pc[p] = "notifyPush"
  /\ IF OnPushCv = {} THEN Goes(p, "idle")
     ELSE \E c \in OnPushCv :
            pc' = [pc EXCEPT ![p] = "idle", ![c] = Woken(c)]
  /\ arg' = [arg EXCEPT ![p] = NoElement]
  /\ UNCHANGED <<queue, overrun_count, discard_count, fate>>

-----------------------------------------------------------------------------
(***************************************************************************)
(* Consumers                                                               *)
(***************************************************************************)

Request(c) ==
  /\ pc[c] = "idle"
  /\ \E op \in Pops : Goes(c, op)
  /\ UNCHANGED <<queue, overrun_count, discard_count, arg, fate>>

\* front() is moved out, then popFront
PopElement(c) ==
  /\ queue' = Tail(queue)
  /\ fate' = [fate EXCEPT ![Head(queue)] = "taken"]
  /\ Goes(c, "notifyPop")

\* push_cv_.wait while the queue is empty
Dequeue(c) ==
  /\ pc[c] = "dequeue"
  /\ IF queue = <<>>
     THEN Goes(c, "pushCv") /\ UNCHANGED <<queue, fate>>
     ELSE PopElement(c)
  /\ UNCHANGED <<overrun_count, discard_count, arg>>

\* push_cv_.wait_for
DequeueWaitFor(c) ==
  /\ pc[c] = "dequeueWaitFor"
  /\ IF queue = <<>>
     THEN Goes(c, "pushCvTimed") /\ UNCHANGED <<queue, fate>>
     ELSE PopElement(c)
  /\ UNCHANGED <<overrun_count, discard_count, arg>>

\* Once its time is up a waiter tests the queue a last time, and takes an
\* element that a notification it no longer waits for left behind.
TimeOut(c) ==
  /\ pc[c] \in {"dequeueWaitFor", "pushCvTimed"}
  /\ Goes(c, "lastLook")
  /\ UNCHANGED <<queue, overrun_count, discard_count, arg, fate>>

\* Giving up without the last look
LastLook_Skipped(c) ==
  /\ pc[c] = "lastLook"
  /\ Goes(c, "idle")
  /\ UNCHANGED <<queue, overrun_count, discard_count, arg, fate>>

\* Starting the wait anew
LastLook_WaitsAgain(c) ==
  /\ pc[c] = "lastLook"
  /\ IF queue = <<>>
     THEN Goes(c, "dequeueWaitFor") /\ UNCHANGED <<queue, fate>>
     ELSE PopElement(c)
  /\ UNCHANGED <<overrun_count, discard_count, arg>>

\* Returning an element without pop_cv_.notify_one
LastLook_Silent(c) ==
  /\ pc[c] = "lastLook"
  /\ Goes(c, "idle")
  /\ IF queue = <<>> THEN UNCHANGED <<queue, fate>>
     ELSE /\ queue' = Tail(queue)
          /\ fate' = [fate EXCEPT ![Head(queue)] = "taken"]
  /\ UNCHANGED <<overrun_count, discard_count, arg>>

LastLook(c) ==
  /\ pc[c] = "lastLook"
  /\ IF queue = <<>>
     THEN Goes(c, "idle") /\ UNCHANGED <<queue, fate>>
     ELSE PopElement(c)
  /\ UNCHANGED <<overrun_count, discard_count, arg>>

OnPopCv == {p \in Producers : pc[p] = "popCv"}

\* pop_cv_.notify_one() only when the queue was full before the pop
NotifyPop_WasFull(c) ==
  /\ pc[c] = "notifyPop"
  /\ IF OnPopCv = {} \/ Len(queue) + 1 < Capacity THEN Goes(c, "idle")
     ELSE \E p \in OnPopCv :
            pc' = [pc EXCEPT ![c] = "idle", ![p] = "enqueue"]
  /\ UNCHANGED <<queue, overrun_count, discard_count, arg, fate>>

NotifyPop(c) ==
  /\ pc[c] = "notifyPop"
  /\ IF OnPopCv = {} THEN Goes(c, "idle")
     ELSE \E p \in OnPopCv :
            pc' = [pc EXCEPT ![c] = "idle", ![p] = "enqueue"]
  /\ UNCHANGED <<queue, overrun_count, discard_count, arg, fate>>

WakeSpuriously ==
  /\ \/ \E c \in OnPushCv : Goes(c, Woken(c))
     \/ \E p \in OnPopCv : Goes(p, "enqueue")
  /\ UNCHANGED <<queue, overrun_count, discard_count, arg, fate>>

-----------------------------------------------------------------------------
ProducerRuns(p) ==
  \/ Enqueue(p) \/ EnqueueNoWait(p) \/ EnqueueIfNotFull(p)
  \/ CountDiscard(p) \/ NotifyPush(p)

ConsumerRuns(c) ==
  Dequeue(c) \/ DequeueWaitFor(c) \/ LastLook(c) \/ NotifyPop(c)

Next ==
  \/ \E p \in Producers : (\E e \in Elements : Offer(p, e)) \/ ProducerRuns(p)
  \/ \E c \in Consumers : Request(c) \/ ConsumerRuns(c) \/ TimeOut(c)
  \/ WakeSpuriously

Spec == Init /\ [][Next]_vars

\* Threads that can run do run, and time passes.  Nobody has to call, and a
\* waiter is not owed a spurious wake-up.
Fairness ==
  /\ \A p \in Producers : WF_vars(ProducerRuns(p))
  /\ \A c \in Consumers : WF_vars(ConsumerRuns(c)) /\ SF_vars(TimeOut(c))

FairSpec == Spec /\ Fairness

-----------------------------------------------------------------------------
(***************************************************************************)
(* Safety                                                                  *)
(***************************************************************************)

\* The types of the variables of the queue and of the threads in its calls.
TypeOK ==
  /\ queue \in Seq(Elements) /\ Len(queue) <= Capacity
  /\ overrun_count \in Nat
  /\ discard_count \in Nat
  /\ pc \in [Threads -> ProducerStep \cup ConsumerStep]
  /\ \A p \in Producers : pc[p] \in ProducerStep
  /\ \A c \in Consumers : pc[c] \in ConsumerStep
  /\ arg \in [Producers -> Elements \cup {NoElement}]
  /\ fate \in [Elements -> Fate]

\* No lost wake-up on push_cv_: while a consumer sleeps, each element in the
\* queue has a producer that is yet to notify or a consumer that is yet to
\* look at the queue, a waiter whose time is up included.
ConsumersOwed ==
  OnPushCv # {} =>
    Len(queue) <=
      Cardinality({p \in Producers : pc[p] = "notifyPush"})
      + Cardinality({c \in Consumers : pc[c] \in DequeueOps \cup {"lastLook"}})

\* No lost wake-up on pop_cv_: while a producer sleeps, each free place in the
\* queue has a consumer that is yet to notify or a producer that is yet to
\* look at the queue.
ProducersOwed ==
  OnPopCv # {} =>
    Capacity - Len(queue) <=
      Cardinality({c \in Consumers : pc[c] = "notifyPop"})
      + Cardinality({p \in Producers : pc[p] = "enqueue"})

\* Each element is in one place, and what was lost is counted once: by
\* overrun_count_ when pushBack dropped it from a full queue, by
\* discard_count_ when enqueueIfNotFull refused it.
EveryElementAccounted ==
  /\ Distinct(queue)
  /\ \A e \in Elements : fate[e] = "stored" <=> Holds(queue, e)
  /\ Capacity > 0 =>
       overrun_count = Cardinality({e \in Elements : fate[e] = "overrun"})
  /\ discard_count + Cardinality({p \in Producers : pc[p] = "discard"})
       = Cardinality({e \in Elements : fate[e] = "discarded"})

-----------------------------------------------------------------------------
(***************************************************************************)
(* Progress, under FairSpec                                                *)
(***************************************************************************)

\* No consumer sleeps on while there is an element for it.
ElementsReachSleepers ==
  (OnPushCv # {} /\ queue # <<>>) ~> (OnPushCv = {} \/ queue = <<>>)

\* No producer sleeps on while there is room.
RoomReachesSleepers ==
  (OnPopCv # {} /\ ~IsFull(queue, Capacity))
    ~> (OnPopCv = {} \/ IsFull(queue, Capacity))

\* dequeueWaitFor returns, with an element or without.
TimedWaitEnds ==
  \A c \in Consumers : pc[c] = "dequeueWaitFor" ~> pc[c] = "idle"

=============================================================================

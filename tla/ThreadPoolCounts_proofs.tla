----------------------- MODULE ThreadPoolCounts_proofs -----------------------
(***************************************************************************)
(* Theorems about ThreadPool that count: the two counters and the          *)
(* statistics, the wake-ups of queue_cv_ and what the end of a wait means. *)
(* The sets that are counted are finite because threads are, or because    *)
(* they start empty and a step adds at most one element.                   *)
(***************************************************************************)
EXTENDS ThreadPool_proofs

\* The groups of variables that the actions leave unchanged.
USE DEF modeVars, queueVars, statusVars, counterVars, workerVars, clientVars,
        historyVars, taskVars, WorkerMoves, ClientMoves

-----------------------------------------------------------------------------
(***************************************************************************)
(* Arithmetic of size_t                                                    *)
(***************************************************************************)

\* A number has one remainder.
LEMMA OneRemainder ==
  ASSUME NEW m \in Nat, m > 0, NEW q \in Int, NEW r \in 0 .. m - 1
  PROVE  (m * q + r) % m = r
OBVIOUS

\* Every number has a quotient and a remainder.
LEMMA Division ==
  ASSUME NEW m \in Nat, m > 0, NEW a \in Int
  PROVE  \E q \in Int, r \in 0 .. m - 1 : a = m * q + r /\ a % m = r
<1> DEFINE q == a \div m
           r == a % m
<1>1. q \in Int /\ r \in 0 .. m - 1
  OBVIOUS
<1>2. a = m * q + r
  OBVIOUS
<1> QED BY <1>1, <1>2

\* Adding one to the remainder, as ++ does, gives the remainder of one more.
LEMMA IncMod == ASSUME NEW a \in Int PROVE Inc(a % SizeMod) = (a + 1) % SizeMod
<1>1. SizeMod \in Nat /\ SizeMod > 0
  BY PoolAssumption
<1>2. PICK q \in Int, r \in 0 .. SizeMod - 1 : a = SizeMod * q + r /\ a % SizeMod = r
  BY <1>1, Division
<1>3. CASE r + 1 < SizeMod
  <2>1. a + 1 = SizeMod * q + (r + 1) /\ r + 1 \in 0 .. SizeMod - 1
    BY <1>1, <1>2, <1>3
  <2>2. (SizeMod * q + (r + 1)) % SizeMod = r + 1
    BY <1>1, <2>1, OneRemainder
  <2>3. (r + 1) % SizeMod = r + 1
    BY <1>1, <2>1
  <2> QED BY <1>2, <2>1, <2>2, <2>3 DEF Inc
<1>4. CASE r + 1 = SizeMod
  <2>1. /\ a + 1 = SizeMod * (q + 1) + 0 /\ r + 1 = SizeMod * 1 + 0
        /\ 0 \in 0 .. SizeMod - 1 /\ q + 1 \in Int
    BY <1>1, <1>2, <1>4
  <2>2. (SizeMod * (q + 1) + 0) % SizeMod = 0 /\ (SizeMod * 1 + 0) % SizeMod = 0
    BY <1>1, <2>1, OneRemainder
  <2> QED BY <1>2, <2>1, <2>2 DEF Inc
<1> QED BY <1>1, <1>2, <1>3, <1>4

\* Taking one from the remainder, as -- does, gives the remainder of one less.
LEMMA DecMod == ASSUME NEW a \in Int PROVE Dec(a % SizeMod) = (a - 1) % SizeMod
<1>1. SizeMod \in Nat /\ SizeMod > 0
  BY PoolAssumption
<1>2. PICK q \in Int, r \in 0 .. SizeMod - 1 : a = SizeMod * q + r /\ a % SizeMod = r
  BY <1>1, Division
<1>3. CASE r = 0
  <2>1. /\ a - 1 = SizeMod * (q - 1) + (SizeMod - 1) /\ q - 1 \in Int
        /\ SizeMod - 1 \in 0 .. SizeMod - 1
    BY <1>1, <1>2, <1>3
  <2>2. (SizeMod * (q - 1) + (SizeMod - 1)) % SizeMod = SizeMod - 1
    BY <1>1, <2>1, OneRemainder
  <2>3. (r + SizeMod - 1) % SizeMod = SizeMod - 1
    BY <1>1, <1>3, <2>1
  <2> QED BY <1>2, <2>1, <2>2, <2>3 DEF Dec
<1>4. CASE r > 0
  <2>1. PICK k \in 0 .. SizeMod - 1 : k = r - 1
    BY <1>1, <1>2, <1>4
  <2>2. a - 1 = SizeMod * q + k /\ r + SizeMod - 1 = SizeMod * 1 + k
    BY <1>1, <1>2, <2>1
  <2>3. (SizeMod * q + k) % SizeMod = k /\ (SizeMod * 1 + k) % SizeMod = k
    BY <1>1, <2>1, OneRemainder
  <2> QED BY <1>2, <2>2, <2>3 DEF Dec
<1> QED BY <1>1, <1>2, <1>3, <1>4

-----------------------------------------------------------------------------
(***************************************************************************)
(* The counters                                                            *)
(***************************************************************************)

\* Workers with a task, tasks thrown away, and submits that pushed but did not
\* count
Busy == {w \in Workers : wpc[w] \in BusyStep}
Dropped == {t \in Tasks : outcome[t] = "overwritten"}
Uncounted == {c \in Clients : cpc[c] = "count"}

\* What pending_tasks_ would be if it could not wrap
Owed == Len(task_queue) + Cardinality(Busy) + Cardinality(Dropped)
          - Cardinality(Uncounted)

\* The counters are those numbers in the arithmetic of size_t; the sets that
\* are counted are finite, however many tasks there are.
CounterInv ==
  /\ IsFiniteSet(Dropped)
  /\ pending_tasks = Owed % SizeMod
  /\ running_tasks = Cardinality(Busy) % SizeMod

\* The number of elements of each of the counted sets
LEMMA CountedFinite ==
  ASSUME TypeOK, CounterInv
  PROVE  /\ IsFiniteSet(Busy) /\ IsFiniteSet(Dropped) /\ IsFiniteSet(Uncounted)
         /\ Cardinality(Busy) \in Nat /\ Cardinality(Dropped) \in Nat
         /\ Cardinality(Uncounted) \in Nat
         /\ Len(task_queue) \in Nat /\ Owed \in Int
<1>1. Busy \subseteq Threads /\ Uncounted \subseteq Threads
  BY DEF Busy, Uncounted, Threads
<1>2. IsFiniteSet(Busy) /\ IsFiniteSet(Uncounted)
  BY <1>1, FiniteThreads, FS_Subset
<1>3. /\ Cardinality(Busy) \in Nat /\ Cardinality(Dropped) \in Nat
      /\ Cardinality(Uncounted) \in Nat
  BY <1>2, FS_CardinalityType DEF CounterInv
<1>4. Len(task_queue) \in Nat
  BY DEF TypeOK
<1> QED BY <1>2, <1>3, <1>4 DEF CounterInv, Owed

\* A step that moves nobody into or out of the counted sets
LEMMA SameCounts ==
  ASSUME CounterInv, UNCHANGED <<pending_tasks, running_tasks>>,
         Len(task_queue)' = Len(task_queue),
         \A w \in Workers : wpc'[w] \in BusyStep <=> wpc[w] \in BusyStep,
         \A t \in Tasks : outcome'[t] = "overwritten" <=> outcome[t] = "overwritten",
         \A c \in Clients : cpc'[c] = "count" <=> cpc[c] = "count"
  PROVE  CounterInv'
<1>1. Busy' = Busy
  BY DEF Busy
<1>2. Dropped' = Dropped
  BY DEF Dropped
<1>3. Uncounted' = Uncounted
  BY DEF Uncounted
<1> QED BY <1>1, <1>2, <1>3 DEF CounterInv, Owed

\* A push: the task enters the queue, or it is thrown away, or the front is; it
\* is not counted yet.
LEMMA PushCounts ==
  ASSUME IInv, CounterInv, NEW c \in Clients, cpc[c] \in QueueFullPolicy, Push(c),
         UNCHANGED <<pending_tasks, running_tasks, wpc>>
  PROVE  CounterInv'
<1>1. /\ arg[c] \in Tasks /\ outcome[arg[c]] = "submitting"
      /\ task_queue \in Seq(Tasks) /\ Len(task_queue) <= Capacity
      /\ \A t \in Tasks : outcome[t] = "queued" <=> Holds(task_queue, t)
  BY DEF IInv, TypeOK, Placed, SubmitsOwnTask, EveryTaskInOnePlace, PrePush
<1>2. /\ IsFiniteSet(Busy) /\ IsFiniteSet(Dropped) /\ IsFiniteSet(Uncounted)
      /\ Cardinality(Busy) \in Nat /\ Cardinality(Dropped) \in Nat
      /\ Cardinality(Uncounted) \in Nat /\ Len(task_queue) \in Nat
  BY CountedFinite DEF IInv
<1>3. Busy' = Busy
  BY DEF Busy
<1>4. Cardinality(Uncounted') = Cardinality(Uncounted) + 1
  <2>1. /\ c \notin Uncounted
        /\ \A d : d \in Uncounted' <=> d = c \/ d \in Uncounted
    BY DEF Uncounted, Push, ClientGoes, IInv, TypeOK, QueueFullPolicy
  <2>2. Uncounted' = Uncounted \cup {c}
    BY <2>1
  <2> QED BY <1>2, <2>1, <2>2, FS_AddElement
<1>5. ASSUME NEW x \in Tasks, outcome[x] # "overwritten",
             \A t \in Tasks : outcome'[t] = "overwritten" <=>
               t = x \/ outcome[t] = "overwritten"
      PROVE  IsFiniteSet(Dropped') /\ Cardinality(Dropped') = Cardinality(Dropped) + 1
  <2>1. Dropped' = Dropped \cup {x} /\ x \notin Dropped
    BY <1>5 DEF Dropped
  <2> QED BY <1>2, <2>1, FS_AddElement
<1>6. /\ IsFiniteSet(Dropped')
      /\ \/ /\ Len(task_queue') = Len(task_queue)
            /\ Cardinality(Dropped') = Cardinality(Dropped) + 1
         \/ /\ Len(task_queue') = Len(task_queue) + 1
            /\ Cardinality(Dropped') = Cardinality(Dropped)
  <2>1. CASE Capacity = 0
    <3>1. task_queue' = task_queue
      BY <2>1 DEF Push, PushBack
    <3>2. \A t \in Tasks : outcome'[t] = "overwritten" <=>
            t = arg[c] \/ outcome[t] = "overwritten"
      BY <1>1, <2>1 DEF Push
    <3>3. IsFiniteSet(Dropped') /\ Cardinality(Dropped') = Cardinality(Dropped) + 1
      BY <1>1, <1>5, <3>2
    <3> QED BY <1>2, <3>1, <3>3
  <2>2. CASE Capacity # 0 /\ IsFull(task_queue, Capacity)
    <3>1. task_queue # <<>>
      BY <1>1, <2>2, PoolAssumption DEF IsFull
    <3>2. /\ Head(task_queue) \in Tasks /\ Holds(task_queue, Head(task_queue))
          /\ Tail(task_queue) \in Seq(Tasks)
          /\ Len(Tail(task_queue)) = Len(task_queue) - 1
      BY <1>1, <3>1, TailHolds
    <3>3. outcome[Head(task_queue)] = "queued"
      BY <1>1, <3>2
    <3>4. \A t \in Tasks : outcome'[t] = "overwritten" <=>
            t = Head(task_queue) \/ outcome[t] = "overwritten"
      BY <1>1, <2>2, <3>2, <3>3 DEF Push
    <3>5. IsFiniteSet(Dropped') /\ Cardinality(Dropped') = Cardinality(Dropped) + 1
      BY <1>5, <3>2, <3>3, <3>4
    <3>6. Len(task_queue') = Len(Tail(task_queue)) + 1
      <4>1. task_queue' = Append(Tail(task_queue), arg[c])
        BY <2>2 DEF Push, PushBack
      <4> QED BY <1>1, <3>2, <4>1, AppendHolds
    <3>7. Len(task_queue) - 1 + 1 = Len(task_queue)
      BY <1>2
    <3> QED BY <3>2, <3>5, <3>6, <3>7
  <2>3. CASE Capacity # 0 /\ ~IsFull(task_queue, Capacity)
    <3>1. Len(task_queue') = Len(task_queue) + 1
      <4>1. task_queue' = Append(task_queue, arg[c])
        BY <2>3 DEF Push, PushBack
      <4> QED BY <1>1, <4>1, AppendHolds
    <3>2. Dropped' = Dropped
      BY <1>1, <2>3 DEF Dropped, Push
    <3> QED BY <1>2, <3>1, <3>2
  <2> QED BY <2>1, <2>2, <2>3
<1>7. /\ Cardinality(Busy') = Cardinality(Busy)
      /\ Owed' = Len(task_queue') + Cardinality(Busy') + Cardinality(Dropped')
                   - Cardinality(Uncounted')
  BY <1>3 DEF Owed
<1>8. Owed' = Owed
  <2>1. CASE /\ Len(task_queue') = Len(task_queue)
             /\ Cardinality(Dropped') = Cardinality(Dropped) + 1
    BY <1>2, <1>4, <1>7, <2>1 DEF Owed
  <2>2. CASE /\ Len(task_queue') = Len(task_queue) + 1
             /\ Cardinality(Dropped') = Cardinality(Dropped)
    BY <1>2, <1>4, <1>7, <2>2 DEF Owed
  <2> QED BY <1>6, <2>1, <2>2
<1> QED BY <1>3, <1>6, <1>8 DEF CounterInv

\* The step that counts the pushed task
LEMMA CountPendingCounts ==
  ASSUME TypeOK, CounterInv, NEW c \in Clients, CountPending(c)
  PROVE  CounterInv'
<1>a. /\ cpc[c] = "count" /\ cpc' = [cpc EXCEPT ![c] = "notify"]
      /\ cpc \in [Clients -> ClientStep]
      /\ UNCHANGED <<task_queue, running_tasks, wpc, outcome>>
      /\ pending_tasks' = Inc(pending_tasks)
  BY DEF CountPending, ClientGoes, TypeOK
<1>b. c \in Uncounted /\ Uncounted' = Uncounted \ {c}
  BY <1>a DEF Uncounted
<1>1. Busy' = Busy /\ Dropped' = Dropped
  BY <1>a DEF Busy, Dropped
<1>2. Cardinality(Uncounted') = Cardinality(Uncounted) - 1
  BY <1>b, CountedFinite, FS_RemoveElement
<1>3. Owed \in Int /\ Owed' = Owed + 1
  BY <1>a, <1>1, <1>2, CountedFinite DEF Owed
<1>4. pending_tasks' = Owed' % SizeMod
  BY <1>a, <1>3, IncMod DEF CounterInv
<1> QED BY <1>a, <1>1, <1>4 DEF CounterInv

\* A task moves from the queue to a worker.
LEMMA DequeueCounts ==
  ASSUME IInv, CounterInv, NEW w \in Workers, Dequeue(w)
  PROVE  CounterInv'
<1>1. /\ IsFiniteSet(Busy) /\ IsFiniteSet(Dropped) /\ IsFiniteSet(Uncounted)
      /\ Cardinality(Busy) \in Nat /\ Cardinality(Dropped) \in Nat
      /\ Cardinality(Uncounted) \in Nat /\ Len(task_queue) \in Nat
  BY CountedFinite DEF IInv
<1>2. w \notin Busy /\ Busy' = Busy \cup {w}
  BY DEF Dequeue, WorkerGoes, IInv, TypeOK, Busy, BusyStep
<1>3. Cardinality(Busy') = Cardinality(Busy) + 1
  BY <1>1, <1>2, FS_AddElement
<1>4. /\ Len(task_queue') = Len(task_queue) - 1
      /\ Holds(task_queue, Head(task_queue)) /\ Head(task_queue) \in Tasks
  BY TailHolds DEF Dequeue, IInv, TypeOK
<1>5. Dropped' = Dropped
  BY <1>4 DEF Dequeue, Becomes, IInv, TypeOK, Placed, EveryTaskInOnePlace, Dropped
<1>6. Uncounted' = Uncounted
  <2>1. UNCHANGED cpc
    BY DEF Dequeue
  <2> QED BY <2>1 DEF Uncounted
<1>7. Owed' = Owed
  BY <1>1, <1>3, <1>4, <1>5, <1>6 DEF Owed
<1>8. running_tasks' = Cardinality(Busy') % SizeMod
  BY <1>1, <1>3, IncMod DEF Dequeue, CounterInv
<1>9. UNCHANGED pending_tasks
  BY DEF Dequeue
<1> QED BY <1>5, <1>7, <1>8, <1>9 DEF CounterInv

\* A worker takes its task out of both counters.
LEMMA FinishCounts ==
  ASSUME TypeOK, CounterInv, NEW w \in Workers, Finish(w)
  PROVE  CounterInv'
<1>1. /\ IsFiniteSet(Busy) /\ IsFiniteSet(Dropped) /\ IsFiniteSet(Uncounted)
      /\ Cardinality(Busy) \in Nat /\ Cardinality(Dropped) \in Nat
      /\ Cardinality(Uncounted) \in Nat /\ Len(task_queue) \in Nat
  BY CountedFinite
<1>2. w \in Busy /\ Busy' = Busy \ {w}
  BY DEF Finish, WorkerGoes, TypeOK, Busy, BusyStep
<1>3. Cardinality(Busy') = Cardinality(Busy) - 1
  BY <1>1, <1>2, FS_RemoveElement
<1>4. Dropped' = Dropped /\ UNCHANGED task_queue
  <2>1. UNCHANGED <<task_queue, outcome>>
    BY DEF Finish
  <2> QED BY <2>1 DEF Dropped
<1>5. Uncounted' = Uncounted
  <2>1. \A c \in Clients : cpc'[c] = "count" <=> cpc[c] = "count"
    BY DEF Finish
  <2> QED BY <2>1 DEF Uncounted
<1>6. Owed \in Int /\ Owed' = Owed - 1
  BY <1>1, <1>3, <1>4, <1>5 DEF Owed
<1>7. pending_tasks' = Owed' % SizeMod
  BY <1>6, DecMod DEF Finish, CounterInv
<1>8. running_tasks' = Cardinality(Busy') % SizeMod
  BY <1>1, <1>3, DecMod DEF Finish, CounterInv
<1> QED BY <1>1, <1>4, <1>7, <1>8 DEF CounterInv

\* forceStop takes a drained task out of the count.
LEMMA AbandonCounts ==
  ASSUME IInv, CounterInv, NEW c \in Clients, Abandon(c)
  PROVE  CounterInv'
<1>1. /\ IsFiniteSet(Busy) /\ IsFiniteSet(Dropped) /\ IsFiniteSet(Uncounted)
      /\ Cardinality(Busy) \in Nat /\ Cardinality(Dropped) \in Nat
      /\ Cardinality(Uncounted) \in Nat /\ Len(task_queue) \in Nat
  BY CountedFinite DEF IInv
<1>2. /\ Len(task_queue') = Len(task_queue) - 1
      /\ Holds(task_queue, Head(task_queue)) /\ Head(task_queue) \in Tasks
  BY TailHolds DEF Abandon, IInv, TypeOK
<1>3. Dropped' = Dropped
  BY <1>2 DEF Abandon, Becomes, IInv, TypeOK, Placed, EveryTaskInOnePlace, Dropped
<1>4. Uncounted' = Uncounted /\ Busy' = Busy /\ UNCHANGED running_tasks
  <2>1. UNCHANGED <<wpc, cpc, running_tasks>>
    BY DEF Abandon
  <2> QED BY <2>1 DEF Uncounted, Busy
<1>5. Owed \in Int /\ Owed' = Owed - 1
  BY <1>1, <1>2, <1>3, <1>4 DEF Owed
<1>6. pending_tasks' = Owed' % SizeMod
  BY <1>5, DecMod DEF Abandon, CounterInv
<1> QED BY <1>1, <1>3, <1>4, <1>6 DEF CounterInv

\* Every step keeps the counters equal to the numbers of tasks and workers.
LEMMA CounterStep ==
  ASSUME IInv, CounterInv, [Next]_vars
  PROVE  CounterInv'
<1> USE PoolAssumption DEF Clients, Threads, WorkerGoes, ClientGoes, Becomes,
      AfterWait, WorkerStep, ClientStep, QueueFullPolicy, BusyStep
<1>a. TypeOK /\ Placed
  BY DEF IInv
<1> USE <1>a DEF TypeOK
<1>1. ASSUME NEW c \in Submitters, NEW t \in Tasks, Submit(c, t) PROVE CounterInv'
  BY <1>1, SameCounts DEF Submit
<1>2. ASSUME NEW c \in Submitters, LoadPolicy(c) PROVE CounterInv'
  BY <1>2, SameCounts DEF LoadPolicy
<1>3. ASSUME NEW c \in Submitters, EnqueueBlocking(c) PROVE CounterInv'
  BY <1>3, PushCounts DEF EnqueueBlocking
<1>4. ASSUME NEW c \in Submitters, EnqueueOverwrite(c) PROVE CounterInv'
  BY <1>4, PushCounts DEF EnqueueOverwrite
<1>5. ASSUME NEW c \in Submitters, EnqueueDiscard(c) PROVE CounterInv'
  <2>1. CASE IsFull(task_queue, Capacity)
    <3>1. arg[c] \in Tasks /\ outcome[arg[c]] = "submitting"
      BY <1>5 DEF EnqueueDiscard, Placed, SubmitsOwnTask, PrePush
    <3> QED BY <1>5, <2>1, <3>1, SameCounts DEF EnqueueDiscard
  <2>2. CASE ~IsFull(task_queue, Capacity)
    BY <1>5, <2>2, PushCounts DEF EnqueueDiscard
  <2> QED BY <2>1, <2>2
<1>6. ASSUME NEW c \in Submitters, CountPending(c) PROVE CounterInv'
  BY <1>6, CountPendingCounts
<1>7. ASSUME NEW c \in Submitters, NotifyWorker(c) PROVE CounterInv'
  <2>1. \A w \in Workers : wpc'[w] \in BusyStep <=> wpc[w] \in BusyStep
    BY <1>7 DEF NotifyWorker, Waiting
  <2> QED BY <1>7, <2>1, SameCounts DEF NotifyWorker
<1>8. ASSUME NEW c \in Controllers, WaitForAllTask(c) PROVE CounterInv'
  BY <1>8, SameCounts DEF WaitForAllTask
<1>9. ASSUME NEW c \in Controllers, WaitForRunningTask(c) PROVE CounterInv'
  BY <1>9, SameCounts DEF WaitForRunningTask
<1>10. ASSUME NEW c \in Controllers, Shutdown(c) PROVE CounterInv'
  <2>1. PICK opt \in Options : cpc' = [cpc EXCEPT ![c] = FirstPhase[opt]]
    BY <1>10 DEF Shutdown
  <2>2. FirstPhase[opt] # "count"
    BY DEF FirstPhase, ShutdownOption
  <2> QED BY <1>10, <2>1, <2>2, SameCounts DEF Shutdown
<1>11. ASSUME NEW c \in Controllers, Stop(c) PROVE CounterInv'
  BY <1>11, SameCounts DEF Stop
<1>12. ASSUME NEW c \in Controllers, Pause(c) PROVE CounterInv'
  BY <1>12, SameCounts DEF Pause
<1>13. ASSUME NEW c \in Controllers, Resume(c) PROVE CounterInv'
  BY <1>13, SameCounts DEF Resume
<1>14. ASSUME NEW c \in Controllers, SetQueueFullPolicy(c) PROVE CounterInv'
  BY <1>14, SameCounts DEF SetQueueFullPolicy
<1>15. ASSUME NEW c \in Controllers, AwaitNoPending(c) PROVE CounterInv'
  BY <1>15, SameCounts DEF AwaitNoPending
<1>16. ASSUME NEW c \in Controllers, ReadRunning(c) PROVE CounterInv'
  BY <1>16, SameCounts DEF ReadRunning
<1>17. ASSUME NEW c \in Controllers, ReadPending(c) PROVE CounterInv'
  BY <1>17, SameCounts DEF ReadPending
<1>18. ASSUME NEW c \in Controllers, PollAgain(c) PROVE CounterInv'
  BY <1>18, SameCounts DEF PollAgain
<1>19. ASSUME NEW c \in Controllers, TimeOut(c) PROVE CounterInv'
  BY <1>19, SameCounts DEF TimeOut
<1>20. ASSUME NEW c \in Controllers, ForceStop(c) PROVE CounterInv'
  BY <1>20, SameCounts DEF ForceStop
<1>21. ASSUME NEW c \in Controllers, BeginDrain(c) PROVE CounterInv'
  BY <1>21, SameCounts DEF BeginDrain
<1>22. ASSUME NEW c \in Controllers, Abandon(c) PROVE CounterInv'
  BY <1>22, AbandonCounts
<1>23. ASSUME NEW c \in Controllers, EndDrain(c) PROVE CounterInv'
  BY <1>23, SameCounts DEF EndDrain
<1>24. ASSUME NEW c \in Controllers, SetStopped(c) PROVE CounterInv'
  BY <1>24, SameCounts DEF SetStopped
<1>25. ASSUME NEW c \in Controllers, JoinWorkers(c) PROVE CounterInv'
  BY <1>25, SameCounts DEF JoinWorkers
<1>26. ASSUME NEW c \in Controllers, JoinFails(c) PROVE CounterInv'
  BY <1>26, SameCounts DEF JoinFails
<1>27. ASSUME NEW c \in Controllers, WakeWaiterSpuriously(c) PROVE CounterInv'
  BY <1>27, SameCounts DEF WakeWaiterSpuriously
<1>28. ASSUME NEW w \in Workers, TestPaused(w) PROVE CounterInv'
  BY <1>28, SameCounts DEF TestPaused
<1>29. ASSUME NEW w \in Workers, LeavePause(w) PROVE CounterInv'
  BY <1>29, SameCounts DEF LeavePause
<1>30. ASSUME NEW w \in Workers, AwaitTask(w) PROVE CounterInv'
  BY <1>30, SameCounts DEF AwaitTask
<1>31. ASSUME NEW w \in Workers, Dequeue(w) PROVE CounterInv'
  BY <1>31, DequeueCounts
<1>32. ASSUME NEW w \in Workers, Execute(w) PROVE CounterInv'
  <2>1. held[w] \in Tasks /\ outcome[held[w]] = "running"
    BY <1>32 DEF Execute, Placed, EveryTaskInOnePlace
  <2> QED BY <1>32, <2>1, SameCounts DEF Execute
<1>33. ASSUME NEW w \in Workers, Record(w) PROVE CounterInv'
  BY <1>33, SameCounts DEF Record
<1>34. ASSUME NEW w \in Workers, Finish(w) PROVE CounterInv'
  BY <1>34, FinishCounts
<1>35. ASSUME NEW w \in Workers, WakeSpuriously(w) PROVE CounterInv'
  BY <1>35, SameCounts DEF WakeSpuriously
<1>36. CASE UNCHANGED vars
  BY <1>36, SameCounts DEF vars
<1> QED
  BY <1>1, <1>2, <1>3, <1>4, <1>5, <1>6, <1>7, <1>8, <1>9, <1>10,
     <1>11, <1>12, <1>13, <1>14, <1>15, <1>16, <1>17, <1>18, <1>19, <1>20,
     <1>21, <1>22, <1>23, <1>24, <1>25, <1>26, <1>27, <1>28, <1>29, <1>30,
     <1>31, <1>32, <1>33, <1>34, <1>35, <1>36
  DEF Next, SubmitStep, ControlStep, Call, WorkerLoop

\* The counters are right in every state.
LEMMA CounterAlways == Spec => []CounterInv
<1>1. Init => CounterInv
  <2> SUFFICES ASSUME Init PROVE CounterInv
    OBVIOUS
  <2>1. Busy = {} /\ Dropped = {} /\ Uncounted = {} /\ Len(task_queue) = 0
    BY DEF Init, Busy, Dropped, Uncounted, BusyStep
  <2>2. Cardinality({}) = 0 /\ IsFiniteSet({})
    BY FS_EmptySet
  <2>3. Owed = 0
    BY <2>1, <2>2 DEF Owed
  <2> QED BY PoolAssumption, <2>1, <2>2, <2>3 DEF Init, CounterInv
<1>2. IInv /\ CounterInv /\ [Next]_vars => CounterInv'
  BY CounterStep
<1> QED BY <1>1, <1>2, Invariance, PTL DEF Spec

\* pending_tasks_ is the number of tasks in the queue and with workers, of those
\* an OVERWRITE dropped, less those yet to be counted, and running_tasks_ the
\* number of workers with a task, up to the wrap of std::size_t, however submits,
\* workers and the drain of forceStop interleave.
THEOREM CountersAgree == Spec => []CountersMatch
<1>1. CounterInv => CountersMatch
  BY DEF CounterInv, CountersMatch, Owed, Busy, Dropped, Uncounted
<1> QED BY <1>1, CounterAlways, PTL

-----------------------------------------------------------------------------
(***************************************************************************)
(* The statistics                                                          *)
(***************************************************************************)

\* No worker has still to record the end of a task.
Told(t) == \A w \in Workers : held[w] = t => wpc[w] = "finish"
Recorded(o) == {t \in Tasks : outcome[t] = o /\ Told(t)}
Counted == {"succeeded", "failed", "abandoned"}

\* The statistics count what is recorded: drained tasks as failed ones.
StatsInv ==
  /\ \A o \in Counted : IsFiniteSet(Recorded(o))
  /\ tasks_succeeded = Cardinality(Recorded("succeeded"))
  /\ tasks_failed = Cardinality(Recorded("failed")) + Cardinality(Recorded("abandoned"))

\* A step that records nothing
LEMMA SameRecorded ==
  ASSUME StatsInv, UNCHANGED statusVars,
         \A t \in Tasks : \A o \in Counted :
           (outcome'[t] = o /\ Told(t)') <=> (outcome[t] = o /\ Told(t))
  PROVE  StatsInv'
<1>1. ASSUME NEW o \in Counted PROVE Recorded(o)' = Recorded(o)
  BY DEF Recorded
<1>2. /\ Recorded("succeeded")' = Recorded("succeeded")
      /\ Recorded("failed")' = Recorded("failed")
      /\ Recorded("abandoned")' = Recorded("abandoned")
  BY <1>1 DEF Counted
<1> QED BY <1>1, <1>2 DEF StatsInv

\* A step that neither settles a task nor moves a worker to or from recording
LEMMA SameStats ==
  ASSUME StatsInv, UNCHANGED <<statusVars, held>>,
         \A t \in Tasks : \/ outcome'[t] = outcome[t]
                          \/ outcome'[t] \notin Counted /\ outcome[t] \notin Counted,
         \A w \in Workers : wpc'[w] = "finish" <=> wpc[w] = "finish"
  PROVE  StatsInv'
<1>1. \A t : Told(t)' <=> Told(t)
  BY DEF Told
<1> QED BY <1>1, SameRecorded

\* A push settles no task.
LEMMA PushStats ==
  ASSUME IInv, StatsInv, NEW c \in Clients, cpc[c] \in QueueFullPolicy, Push(c),
         UNCHANGED <<statusVars, held, wpc>>
  PROVE  StatsInv'
<1>1. /\ arg[c] \in Tasks /\ outcome[arg[c]] = "submitting"
      /\ task_queue \in Seq(Tasks)
      /\ \A t \in Tasks : outcome[t] = "queued" <=> Holds(task_queue, t)
  BY DEF IInv, TypeOK, Placed, SubmitsOwnTask, EveryTaskInOnePlace, PrePush
<1>2. IsFull(task_queue, Capacity) =>
        Head(task_queue) \in Tasks /\ Holds(task_queue, Head(task_queue))
  <2> SUFFICES ASSUME IsFull(task_queue, Capacity)
      PROVE  Head(task_queue) \in Tasks /\ Holds(task_queue, Head(task_queue))
    OBVIOUS
  <2>1. task_queue # <<>>
    BY <1>1, PoolAssumption DEF IsFull
  <2> QED BY <1>1, <2>1, TailHolds
<1>3. \A t \in Tasks : \/ outcome'[t] = outcome[t]
                       \/ outcome'[t] \notin Counted /\ outcome[t] \notin Counted
  BY <1>1, <1>2 DEF Push, Counted
<1> QED BY <1>3, SameStats

\* The worker that took a task has yet to run it.
LEMMA DequeueStats ==
  ASSUME IInv, StatsInv, NEW w \in Workers, Dequeue(w)
  PROVE  StatsInv'
<1>1. /\ task_queue # <<>> /\ wpc[w] = "dequeue"
      /\ held' = [held EXCEPT ![w] = Head(task_queue)]
      /\ outcome' = [outcome EXCEPT ![Head(task_queue)] = "running"]
      /\ wpc' = [wpc EXCEPT ![w] = "execute"]
      /\ UNCHANGED statusVars
  BY DEF Dequeue, Becomes, WorkerGoes
<1>2. /\ Head(task_queue) \in Tasks /\ outcome[Head(task_queue)] = "queued"
      /\ held[w] = NoTask
      /\ held \in [Workers -> Tasks \cup {NoTask}] /\ wpc \in [Workers -> WorkerStep]
      /\ outcome \in [Tasks -> Outcome]
  BY <1>1, TailHolds DEF IInv, TypeOK, Placed, EveryTaskInOnePlace, BusyStep
<1>3. ASSUME NEW t \in Tasks, NEW o \in Counted
      PROVE  (outcome'[t] = o /\ Told(t)') <=> (outcome[t] = o /\ Told(t))
  <2>1. CASE t = Head(task_queue)
    BY <1>1, <1>2, <2>1 DEF Counted
  <2>2. CASE t # Head(task_queue)
    BY <1>1, <1>2, <2>2, PoolAssumption DEF Told
  <2> QED BY <2>1, <2>2
<1> QED BY <1>1, <1>3, SameRecorded

\* execute settles the task before the worker records it.
LEMMA ExecuteStats ==
  ASSUME IInv, StatsInv, NEW w \in Workers, Execute(w)
  PROVE  StatsInv'
<1>1. /\ wpc[w] = "execute" /\ held' = held
      /\ \E o \in {"succeeded", "failed"} : outcome' = [outcome EXCEPT ![held[w]] = o]
      /\ wpc' = [wpc EXCEPT ![w] = "record"]
      /\ UNCHANGED statusVars
  BY DEF Execute, Becomes, WorkerGoes
<1>2. /\ held[w] \in Tasks /\ outcome[held[w]] = "running"
      /\ wpc \in [Workers -> WorkerStep] /\ outcome \in [Tasks -> Outcome]
  BY <1>1 DEF IInv, TypeOK, Placed, EveryTaskInOnePlace, BusyStep
<1>3. ASSUME NEW t \in Tasks, NEW o \in Counted
      PROVE  (outcome'[t] = o /\ Told(t)') <=> (outcome[t] = o /\ Told(t))
  <2>1. CASE t = held[w]
    <3>1. ~Told(t)'
      BY <1>1, <1>2, <2>1 DEF Told
    <3> QED BY <1>2, <2>1, <3>1 DEF Counted
  <2>2. CASE t # held[w]
    <3>1. outcome'[t] = outcome[t]
      BY <1>1, <1>2, <2>2
    <3>2. Told(t)' <=> Told(t)
      BY <1>1, <1>2, <2>2 DEF Told
    <3> QED BY <3>1, <3>2
  <2> QED BY <2>1, <2>2
<1> QED BY <1>1, <1>3, SameRecorded

\* The worker's own record: one more task that succeeded, or one more that failed
LEMMA RecordStats ==
  ASSUME IInv, StatsInv, NEW w \in Workers, Record(w)
  PROVE  StatsInv'
<1> DEFINE x == held[w]
<1>1. /\ wpc[w] = "record"
      /\ held' = held /\ outcome' = outcome
      /\ wpc' = [wpc EXCEPT ![w] = "finish"]
  BY DEF Record, WorkerGoes
<1>2. /\ x \in Tasks /\ outcome[x] \in {"succeeded", "failed"}
      /\ \A v \in Workers : held[v] = x => v = w
      /\ wpc \in [Workers -> WorkerStep]
  BY <1>1, PoolAssumption
  DEF IInv, TypeOK, Placed, EveryTaskInOnePlace, HeldTaskSettled, BusyStep
<1>3. Told(x)' /\ ~Told(x)
  BY <1>1, <1>2 DEF Told
<1>4. ASSUME NEW t \in Tasks, t # x PROVE Told(t)' <=> Told(t)
  BY <1>1, <1>2, <1>4 DEF Told
<1>5. ASSUME NEW o \in Counted, o # outcome[x] PROVE Recorded(o)' = Recorded(o)
  BY <1>1, <1>4, <1>5 DEF Recorded
<1>6. Recorded(outcome[x])' = Recorded(outcome[x]) \cup {x} /\ x \notin Recorded(outcome[x])
  BY <1>1, <1>2, <1>3, <1>4 DEF Recorded
<1>7. \A o \in Counted : IsFiniteSet(Recorded(o)) /\ Cardinality(Recorded(o)) \in Nat
  BY FS_CardinalityType DEF StatsInv
<1>8. /\ IsFiniteSet(Recorded(outcome[x])')
      /\ Cardinality(Recorded(outcome[x])') = Cardinality(Recorded(outcome[x])) + 1
  BY <1>2, <1>6, <1>7, FS_AddElement DEF Counted
<1>9. CASE outcome[x] = "succeeded"
  <2>1. tasks_succeeded' = tasks_succeeded + 1 /\ tasks_failed' = tasks_failed
    BY <1>9 DEF Record
  <2>2. /\ Recorded("failed")' = Recorded("failed")
        /\ Recorded("abandoned")' = Recorded("abandoned")
    BY <1>5, <1>9 DEF Counted
  <2>3. /\ IsFiniteSet(Recorded("succeeded")')
        /\ Cardinality(Recorded("succeeded")') = Cardinality(Recorded("succeeded")) + 1
    BY <1>1, <1>8, <1>9
  <2> QED BY <1>7, <2>1, <2>2, <2>3 DEF StatsInv, Counted
<1>10. CASE outcome[x] = "failed"
  <2>1. tasks_failed' = tasks_failed + 1 /\ tasks_succeeded' = tasks_succeeded
    BY <1>10 DEF Record
  <2>2. /\ Recorded("succeeded")' = Recorded("succeeded")
        /\ Recorded("abandoned")' = Recorded("abandoned")
    BY <1>5, <1>10 DEF Counted
  <2>3. /\ IsFiniteSet(Recorded("failed")')
        /\ Cardinality(Recorded("failed")') = Cardinality(Recorded("failed")) + 1
    BY <1>1, <1>8, <1>10
  <2>4. /\ Cardinality(Recorded("failed")) \in Nat
        /\ Cardinality(Recorded("abandoned")) \in Nat
    BY <1>7 DEF Counted
  <2>5. tasks_failed' = Cardinality(Recorded("failed")') + Cardinality(Recorded("abandoned")')
    BY <2>1, <2>2, <2>3, <2>4 DEF StatsInv
  <2> QED BY <1>7, <2>1, <2>2, <2>3, <2>5 DEF StatsInv, Counted
<1> QED BY <1>2, <1>9, <1>10

\* The worker lets go of a task it has recorded.
LEMMA FinishStats ==
  ASSUME IInv, StatsInv, NEW w \in Workers, Finish(w)
  PROVE  StatsInv'
<1>1. /\ wpc[w] = "finish" /\ outcome' = outcome
      /\ held' = [held EXCEPT ![w] = NoTask]
      /\ wpc' = [wpc EXCEPT ![w] = "top"]
      /\ UNCHANGED statusVars
  BY DEF Finish, WorkerGoes
<1>2. /\ held \in [Workers -> Tasks \cup {NoTask}] /\ wpc \in [Workers -> WorkerStep]
  BY DEF IInv, TypeOK
<1>3. ASSUME NEW t \in Tasks PROVE Told(t)' <=> Told(t)
  BY <1>1, <1>2, PoolAssumption DEF Told
<1> QED BY <1>1, <1>3, SameRecorded

\* forceStop counts a drained task as failed.
LEMMA AbandonStats ==
  ASSUME IInv, StatsInv, NEW c \in Clients, Abandon(c)
  PROVE  StatsInv'
<1> DEFINE x == Head(task_queue)
<1>1. /\ task_queue # <<>>
      /\ held' = held /\ wpc' = wpc
      /\ outcome' = [outcome EXCEPT ![x] = "abandoned"]
      /\ tasks_failed' = tasks_failed + 1 /\ tasks_succeeded' = tasks_succeeded
  BY DEF Abandon, Becomes
<1>2. /\ x \in Tasks /\ outcome[x] = "queued" /\ outcome \in [Tasks -> Outcome]
  BY <1>1, TailHolds DEF IInv, TypeOK, Placed, EveryTaskInOnePlace
<1>3. \A v \in Workers : held[v] # x
  <2>1. ASSUME NEW v \in Workers, held[v] = x PROVE FALSE
    <3>1. wpc[v] \in {"execute", "record", "finish"}
      BY <1>2, <2>1, PoolAssumption DEF IInv, Placed, EveryTaskInOnePlace, BusyStep
    <3>2. outcome[x] \in {"running", "succeeded", "failed"}
      BY <1>2, <2>1, <3>1 DEF IInv, Placed, EveryTaskInOnePlace, HeldTaskSettled
    <3> QED BY <1>2, <3>2
  <2> QED BY <2>1
<1>4. Told(x) /\ \A t : Told(t)' <=> Told(t)
  BY <1>1, <1>3 DEF Told
<1> HIDE DEF x
<1>5. ASSUME NEW o \in {"succeeded", "failed"} PROVE Recorded(o)' = Recorded(o)
  BY <1>1, <1>2, <1>4 DEF Recorded
<1>6. /\ Recorded("abandoned")' = Recorded("abandoned") \cup {x}
      /\ x \notin Recorded("abandoned")
  BY <1>1, <1>2, <1>4 DEF Recorded
<1>7. \A o \in Counted : IsFiniteSet(Recorded(o)) /\ Cardinality(Recorded(o)) \in Nat
  BY FS_CardinalityType DEF StatsInv
<1>8. /\ Recorded("succeeded")' = Recorded("succeeded")
      /\ Recorded("failed")' = Recorded("failed")
  BY <1>5
<1>9. /\ IsFiniteSet(Recorded("abandoned")')
      /\ Cardinality(Recorded("abandoned")') = Cardinality(Recorded("abandoned")) + 1
  BY <1>6, <1>7, FS_AddElement DEF Counted
<1>10. /\ Cardinality(Recorded("failed")) \in Nat
       /\ Cardinality(Recorded("abandoned")) \in Nat
  BY <1>7 DEF Counted
<1>11. tasks_failed' = Cardinality(Recorded("failed")') + Cardinality(Recorded("abandoned")')
  BY <1>1, <1>8, <1>9, <1>10 DEF StatsInv
<1> QED BY <1>1, <1>7, <1>8, <1>9, <1>11 DEF StatsInv, Counted

\* Every step keeps the statistics true to what became of the tasks.
LEMMA StatsStep ==
  ASSUME IInv, StatsInv, [Next]_vars
  PROVE  StatsInv'
<1> USE PoolAssumption DEF Clients, Threads, WorkerGoes, ClientGoes, Becomes,
      AfterWait, WorkerStep, ClientStep, QueueFullPolicy, Counted
<1>a. TypeOK /\ Placed
  BY DEF IInv
<1> USE <1>a DEF TypeOK
<1>1. ASSUME NEW c \in Submitters, NEW t \in Tasks, Submit(c, t) PROVE StatsInv'
  BY <1>1, SameStats DEF Submit
<1>2. ASSUME NEW c \in Submitters, LoadPolicy(c) PROVE StatsInv'
  BY <1>2, SameStats DEF LoadPolicy
<1>3. ASSUME NEW c \in Submitters, EnqueueBlocking(c) PROVE StatsInv'
  BY <1>3, PushStats DEF EnqueueBlocking
<1>4. ASSUME NEW c \in Submitters, EnqueueOverwrite(c) PROVE StatsInv'
  BY <1>4, PushStats DEF EnqueueOverwrite
<1>5. ASSUME NEW c \in Submitters, EnqueueDiscard(c) PROVE StatsInv'
  <2>1. CASE IsFull(task_queue, Capacity)
    <3>1. arg[c] \in Tasks /\ outcome[arg[c]] = "submitting"
      BY <1>5 DEF EnqueueDiscard, Placed, SubmitsOwnTask, PrePush
    <3> QED BY <1>5, <2>1, <3>1, SameStats DEF EnqueueDiscard
  <2>2. CASE ~IsFull(task_queue, Capacity)
    BY <1>5, <2>2, PushStats DEF EnqueueDiscard
  <2> QED BY <2>1, <2>2
<1>6. ASSUME NEW c \in Submitters, CountPending(c) PROVE StatsInv'
  BY <1>6, SameStats DEF CountPending
<1>7. ASSUME NEW c \in Submitters, NotifyWorker(c) PROVE StatsInv'
  <2>1. \A w \in Workers : wpc'[w] = "finish" <=> wpc[w] = "finish"
    BY <1>7 DEF NotifyWorker, Waiting
  <2> QED BY <1>7, <2>1, SameStats DEF NotifyWorker
<1>8. ASSUME NEW c \in Controllers, WaitForAllTask(c) PROVE StatsInv'
  BY <1>8, SameStats DEF WaitForAllTask
<1>9. ASSUME NEW c \in Controllers, WaitForRunningTask(c) PROVE StatsInv'
  BY <1>9, SameStats DEF WaitForRunningTask
<1>10. ASSUME NEW c \in Controllers, Shutdown(c) PROVE StatsInv'
  BY <1>10, SameStats DEF Shutdown
<1>11. ASSUME NEW c \in Controllers, Stop(c) PROVE StatsInv'
  BY <1>11, SameStats DEF Stop
<1>12. ASSUME NEW c \in Controllers, Pause(c) PROVE StatsInv'
  BY <1>12, SameStats DEF Pause
<1>13. ASSUME NEW c \in Controllers, Resume(c) PROVE StatsInv'
  BY <1>13, SameStats DEF Resume
<1>14. ASSUME NEW c \in Controllers, SetQueueFullPolicy(c) PROVE StatsInv'
  BY <1>14, SameStats DEF SetQueueFullPolicy
<1>15. ASSUME NEW c \in Controllers, AwaitNoPending(c) PROVE StatsInv'
  BY <1>15, SameStats DEF AwaitNoPending
<1>16. ASSUME NEW c \in Controllers, ReadRunning(c) PROVE StatsInv'
  BY <1>16, SameStats DEF ReadRunning
<1>17. ASSUME NEW c \in Controllers, ReadPending(c) PROVE StatsInv'
  BY <1>17, SameStats DEF ReadPending
<1>18. ASSUME NEW c \in Controllers, PollAgain(c) PROVE StatsInv'
  BY <1>18, SameStats DEF PollAgain
<1>19. ASSUME NEW c \in Controllers, TimeOut(c) PROVE StatsInv'
  BY <1>19, SameStats DEF TimeOut
<1>20. ASSUME NEW c \in Controllers, ForceStop(c) PROVE StatsInv'
  BY <1>20, SameStats DEF ForceStop
<1>21. ASSUME NEW c \in Controllers, BeginDrain(c) PROVE StatsInv'
  BY <1>21, SameStats DEF BeginDrain
<1>22. ASSUME NEW c \in Controllers, Abandon(c) PROVE StatsInv'
  BY <1>22, AbandonStats
<1>23. ASSUME NEW c \in Controllers, EndDrain(c) PROVE StatsInv'
  BY <1>23, SameStats DEF EndDrain
<1>24. ASSUME NEW c \in Controllers, SetStopped(c) PROVE StatsInv'
  BY <1>24, SameStats DEF SetStopped
<1>25. ASSUME NEW c \in Controllers, JoinWorkers(c) PROVE StatsInv'
  BY <1>25, SameStats DEF JoinWorkers
<1>26. ASSUME NEW c \in Controllers, JoinFails(c) PROVE StatsInv'
  BY <1>26, SameStats DEF JoinFails
<1>27. ASSUME NEW c \in Controllers, WakeWaiterSpuriously(c) PROVE StatsInv'
  BY <1>27, SameStats DEF WakeWaiterSpuriously
<1>28. ASSUME NEW w \in Workers, TestPaused(w) PROVE StatsInv'
  BY <1>28, SameStats DEF TestPaused
<1>29. ASSUME NEW w \in Workers, LeavePause(w) PROVE StatsInv'
  BY <1>29, SameStats DEF LeavePause
<1>30. ASSUME NEW w \in Workers, AwaitTask(w) PROVE StatsInv'
  BY <1>30, SameStats DEF AwaitTask
<1>31. ASSUME NEW w \in Workers, Dequeue(w) PROVE StatsInv'
  BY <1>31, DequeueStats
<1>32. ASSUME NEW w \in Workers, Execute(w) PROVE StatsInv'
  BY <1>32, ExecuteStats
<1>33. ASSUME NEW w \in Workers, Record(w) PROVE StatsInv'
  BY <1>33, RecordStats
<1>34. ASSUME NEW w \in Workers, Finish(w) PROVE StatsInv'
  BY <1>34, FinishStats
<1>35. ASSUME NEW w \in Workers, WakeSpuriously(w) PROVE StatsInv'
  BY <1>35, SameStats DEF WakeSpuriously
<1>36. CASE UNCHANGED vars
  BY <1>36, SameStats DEF vars
<1> QED
  BY <1>1, <1>2, <1>3, <1>4, <1>5, <1>6, <1>7, <1>8, <1>9, <1>10,
     <1>11, <1>12, <1>13, <1>14, <1>15, <1>16, <1>17, <1>18, <1>19, <1>20,
     <1>21, <1>22, <1>23, <1>24, <1>25, <1>26, <1>27, <1>28, <1>29, <1>30,
     <1>31, <1>32, <1>33, <1>34, <1>35, <1>36
  DEF Next, SubmitStep, ControlStep, Call, WorkerLoop

\* The statistics count every task that was run and recorded, as succeeded or
\* failed by its own end, and every task forceStop drained, exactly once.
THEOREM StatsAgree == Spec => []StatsMatch
<1>1. Init => StatsInv
  <2> SUFFICES ASSUME Init PROVE StatsInv
    OBVIOUS
  <2>1. \A o \in Counted : Recorded(o) = {}
    BY DEF Init, Recorded, Counted
  <2>2. Cardinality({}) = 0 /\ IsFiniteSet({})
    BY FS_EmptySet
  <2>3. /\ Recorded("succeeded") = {} /\ Recorded("failed") = {}
        /\ Recorded("abandoned") = {}
    BY <2>1 DEF Counted
  <2>4. tasks_succeeded = 0 /\ tasks_failed = 0 + 0
    BY DEF Init
  <2>5. /\ tasks_succeeded = Cardinality(Recorded("succeeded"))
        /\ tasks_failed = Cardinality(Recorded("failed"))
                          + Cardinality(Recorded("abandoned"))
    BY <2>2, <2>3, <2>4
  <2> QED BY <2>1, <2>2, <2>5 DEF StatsInv
<1>2. IInv /\ StatsInv /\ [Next]_vars => StatsInv'
  BY StatsStep
<1>3. StatsInv => StatsMatch
  BY DEF StatsInv, StatsMatch, Recorded, Told
<1> QED BY <1>1, <1>2, <1>3, Invariance, PTL DEF Spec

-----------------------------------------------------------------------------
(***************************************************************************)
(* The wake-ups of queue_cv_                                               *)
(***************************************************************************)

\* Submits that are yet to notify, and workers that are yet to look at the queue
Announcing == {c \in Clients : cpc[c] \in {"count", "notify"}}
Looking == {w \in Workers : wpc[w] \in {"top", "paused", "lock", "dequeue"}}
\* Until then a queued task is to find a worker.
Open == state \notin {"FORCE_SHUTING", "STOPPED"}

\* Nobody sleeps once the pool is stopped; the rest is WakeupOwed.
WakeInv ==
  /\ stopped => Waiting = {}
  /\ Waiting # {} /\ Open =>
       Len(task_queue) <= Cardinality(Announcing) + Cardinality(Looking)

\* Threads are finite in number.
LEMMA ThreadsCounted ==
  ASSUME TRUE
  PROVE  /\ IsFiniteSet(Announcing) /\ IsFiniteSet(Looking)
         /\ Cardinality(Announcing) \in Nat /\ Cardinality(Looking) \in Nat
<1>1. Announcing \subseteq Threads /\ Looking \subseteq Threads
  BY DEF Announcing, Looking, Threads
<1>2. IsFiniteSet(Announcing) /\ IsFiniteSet(Looking)
  BY <1>1, FiniteThreads, FS_Subset
<1> QED BY <1>2, FS_CardinalityType

\* The same after a step
LEMMA ThreadsCountedAfter ==
  ASSUME TRUE
  PROVE  /\ IsFiniteSet(Announcing') /\ IsFiniteSet(Looking')
         /\ Cardinality(Announcing') \in Nat /\ Cardinality(Looking') \in Nat
<1>1. Announcing' \subseteq Threads /\ Looking' \subseteq Threads
  BY DEF Announcing, Looking, Threads
<1>2. IsFiniteSet(Announcing') /\ IsFiniteSet(Looking')
  BY <1>1, FiniteThreads, FS_Subset
<1> QED BY <1>2, FS_CardinalityType

\* A step that leaves no more tasks in the queue and as many threads to see to
\* them
LEMMA NoMoreOwed ==
  ASSUME TypeOK, WakeInv, UNCHANGED stopped, Len(task_queue') \in Nat,
         \A w \in Workers : wpc'[w] = "waiting" => wpc[w] = "waiting",
         Open' => Open,
         Waiting' # {} /\ Open' =>
           /\ Len(task_queue') <= Len(task_queue)
           /\ \A c \in Clients : cpc[c] \in {"count", "notify"} =>
                cpc'[c] \in {"count", "notify"}
           /\ \A w \in Workers : wpc[w] \in {"top", "paused", "lock", "dequeue"} =>
                wpc'[w] \in {"top", "paused", "lock", "dequeue"}
  PROVE  WakeInv'
<1>1. Waiting' \subseteq Waiting
  BY DEF Waiting
<1>2. ASSUME Waiting' # {}, Open'
      PROVE  Len(task_queue') <= Cardinality(Announcing') + Cardinality(Looking')
  <2>1. Announcing \subseteq Announcing' /\ Looking \subseteq Looking'
    BY <1>2 DEF Announcing, Looking
  <2>2. /\ Cardinality(Announcing) <= Cardinality(Announcing')
        /\ Cardinality(Looking) <= Cardinality(Looking')
    BY <2>1, ThreadsCountedAfter, FS_Subset
  <2>3. Len(task_queue) <= Cardinality(Announcing) + Cardinality(Looking)
    BY <1>1, <1>2 DEF WakeInv
  <2>4. Len(task_queue) \in Nat /\ Len(task_queue') <= Len(task_queue)
    BY <1>2 DEF TypeOK
  <2> QED
    BY <2>2, <2>3, <2>4, ThreadsCounted, ThreadsCountedAfter
<1> QED BY <1>1, <1>2 DEF WakeInv

\* A push owes one notification for its task.
LEMMA PushOwes ==
  ASSUME IInv, WakeInv, NEW c \in Clients, cpc[c] \in QueueFullPolicy, Push(c),
         UNCHANGED <<state, stopped, wpc>>
  PROVE  WakeInv'
<1>1. /\ arg[c] \in Tasks /\ task_queue \in Seq(Tasks)
  BY DEF IInv, TypeOK, Placed, SubmitsOwnTask, PrePush
<1>2. /\ c \notin Announcing
      /\ \A d : d \in Announcing' <=> d = c \/ d \in Announcing
  BY DEF Announcing, Push, ClientGoes, IInv, TypeOK, QueueFullPolicy
<1>3. Announcing' = Announcing \cup {c}
  BY <1>2
<1>4. Cardinality(Announcing') = Cardinality(Announcing) + 1
  BY <1>2, <1>3, ThreadsCounted, FS_AddElement
<1>5. Waiting' = Waiting /\ Looking' = Looking /\ (Open' <=> Open)
  BY DEF Waiting, Looking, Open
<1>6. Len(task_queue) \in Nat /\ Len(task_queue') \in Nat
      /\ Len(task_queue') <= Len(task_queue) + 1
  <2>1. CASE task_queue' = task_queue
    BY <1>1, <2>1
  <2>2. CASE task_queue' = Append(task_queue, arg[c])
    BY <1>1, <2>2, AppendHolds
  <2>3. CASE /\ task_queue # <<>>
             /\ task_queue' = Append(Tail(task_queue), arg[c])
    <3>1. Tail(task_queue) \in Seq(Tasks) /\ Len(Tail(task_queue)) = Len(task_queue) - 1
      BY <1>1, <2>3, TailHolds
    <3>2. Len(task_queue') = Len(Tail(task_queue)) + 1
      BY <1>1, <2>3, <3>1, AppendHolds
    <3> QED BY <1>1, <3>1, <3>2
  <2>4. IsFull(task_queue, Capacity) => task_queue # <<>>
    BY <1>1, PoolAssumption DEF IsFull
  <2>5. \/ task_queue' = task_queue \/ task_queue' = Append(task_queue, arg[c])
        \/ task_queue # <<>> /\ task_queue' = Append(Tail(task_queue), arg[c])
    BY <2>4 DEF Push, PushBack
  <2> QED BY <2>1, <2>2, <2>3, <2>5
<1>7. /\ Cardinality(Announcing) \in Nat /\ Cardinality(Looking) \in Nat
  BY ThreadsCounted
<1>8. ASSUME Waiting # {}, Open
      PROVE  Len(task_queue') <= Cardinality(Announcing') + Cardinality(Looking)
  <2>1. Len(task_queue) <= Cardinality(Announcing) + Cardinality(Looking)
    BY <1>8 DEF WakeInv
  <2> QED BY <1>4, <1>6, <1>7, <2>1
<1> QED BY <1>5, <1>8 DEF WakeInv

\* A notification goes to a sleeper, who looks at the queue, or nobody sleeps.
LEMMA NotifyPays ==
  ASSUME TypeOK, WakeInv, NEW c \in Clients, NotifyWorker(c)
  PROVE  WakeInv'
<1>1. /\ cpc[c] = "notify" /\ cpc' = [cpc EXCEPT ![c] = "idle"]
      /\ UNCHANGED <<state, stopped, task_queue>>
      /\ cpc \in [Clients -> ClientStep] /\ wpc \in [Workers -> WorkerStep]
  BY DEF NotifyWorker, ClientGoes, TypeOK
<1>2. CASE Waiting = {}
  <2>1. Waiting' = {}
    BY <1>2 DEF NotifyWorker, Waiting
  <2> QED BY <2>1 DEF WakeInv
<1>3. CASE Waiting # {}
  <2>1. PICK w \in Waiting : wpc' = [wpc EXCEPT ![w] = "lock"]
    BY <1>3 DEF NotifyWorker, WorkerGoes
  <2>2. w \in Workers /\ wpc[w] = "waiting"
    BY DEF Waiting
  <2>3. c \in Announcing /\ Announcing' = Announcing \ {c}
    BY <1>1 DEF Announcing
  <2>4. w \notin Looking /\ Looking' = Looking \cup {w}
    BY <1>1, <2>1, <2>2 DEF Looking
  <2>5. /\ Cardinality(Announcing') = Cardinality(Announcing) - 1
        /\ Cardinality(Looking') = Cardinality(Looking) + 1
    BY <2>3, <2>4, ThreadsCounted, FS_AddElement, FS_RemoveElement
  <2>6. Cardinality(Announcing') + Cardinality(Looking')
          = Cardinality(Announcing) + Cardinality(Looking)
    BY <2>5, ThreadsCounted
  <2>7. ~stopped
    BY <1>3 DEF WakeInv
  <2> QED BY <1>1, <1>3, <2>6, <2>7 DEF WakeInv, Open
<1> QED BY <1>2, <1>3

\* A worker goes to sleep on an empty queue only, and leaves for good a pool
\* that is stopped or drained.
LEMMA AwaitTaskOwes ==
  ASSUME TypeOK, WakeInv, NEW w \in Workers, AwaitTask(w)
  PROVE  WakeInv'
<1>1. /\ wpc[w] = "lock" /\ UNCHANGED <<state, stopped, task_queue, cpc>>
      /\ wpc \in [Workers -> WorkerStep] /\ Len(task_queue) \in Nat
  BY DEF AwaitTask, TypeOK
<1>2. CASE ~stopped /\ task_queue = <<>>
  <2>1. Len(task_queue') = 0
    BY <1>1, <1>2
  <2>2. Len(task_queue') <= Cardinality(Announcing') + Cardinality(Looking')
    BY <2>1, ThreadsCountedAfter
  <2> QED BY <1>1, <1>2, <2>2 DEF WakeInv
<1>3. CASE /\ ~(~stopped /\ task_queue = <<>>)
           /\ state = "FORCE_SHUTING" \/ (stopped /\ task_queue = <<>>)
  <2>1. wpc' = [wpc EXCEPT ![w] = "exited"]
    BY <1>3 DEF AwaitTask, WorkerGoes
  <2>2. Waiting' = Waiting
    BY <1>1, <2>1 DEF Waiting
  <2>3. Waiting' = {} \/ ~Open'
    BY <1>1, <1>3, <2>2 DEF WakeInv, Open
  <2> QED BY <1>1, <2>2, <2>3 DEF WakeInv
<1>4. CASE wpc' = [wpc EXCEPT ![w] = "dequeue"]
  BY <1>1, <1>4, NoMoreOwed DEF Open
<1> QED BY <1>2, <1>3, <1>4 DEF AwaitTask, WorkerGoes

\* A worker that takes a task need not look at the queue for it any more.
LEMMA DequeuePays ==
  ASSUME TypeOK, WakeInv, NEW w \in Workers, Dequeue(w)
  PROVE  WakeInv'
<1>1. /\ wpc[w] = "dequeue" /\ wpc' = [wpc EXCEPT ![w] = "execute"]
      /\ UNCHANGED <<state, stopped, cpc>>
      /\ wpc \in [Workers -> WorkerStep]
      /\ Len(task_queue) \in Nat /\ Len(task_queue') = Len(task_queue) - 1
  BY TailHolds DEF Dequeue, WorkerGoes, TypeOK
<1>2. Waiting' = Waiting /\ Announcing' = Announcing /\ (Open' <=> Open)
  BY <1>1 DEF Waiting, Announcing, Open
<1>3. w \in Looking /\ Looking' = Looking \ {w}
  BY <1>1 DEF Looking
<1>4. Cardinality(Looking') = Cardinality(Looking) - 1
  BY <1>3, ThreadsCounted, FS_RemoveElement
<1>5. ASSUME Waiting # {}, Open
      PROVE  Len(task_queue') <= Cardinality(Announcing) + Cardinality(Looking')
  <2>1. Len(task_queue) <= Cardinality(Announcing) + Cardinality(Looking)
    BY <1>5 DEF WakeInv
  <2> QED BY <1>1, <1>4, <2>1, ThreadsCounted
<1> QED BY <1>1, <1>2, <1>5 DEF WakeInv

\* Every step keeps a sleeping worker owed its wake-up.
LEMMA WakeStep ==
  ASSUME IInv, WakeInv, [Next]_vars
  PROVE  WakeInv'
<1> USE PoolAssumption DEF Clients, Threads, WorkerGoes, ClientGoes, Becomes,
      AfterWait, WorkerStep, ClientStep, QueueFullPolicy, Open
<1>a. TypeOK /\ Placed
  BY DEF IInv
<1> USE <1>a DEF TypeOK
<1>b. Len(task_queue) \in Nat
  OBVIOUS
<1> USE <1>b
<1>1. ASSUME NEW c \in Submitters, NEW t \in Tasks, Submit(c, t) PROVE WakeInv'
  BY <1>1, NoMoreOwed DEF Submit
<1>2. ASSUME NEW c \in Submitters, LoadPolicy(c) PROVE WakeInv'
  BY <1>2, NoMoreOwed DEF LoadPolicy
<1>3. ASSUME NEW c \in Submitters, EnqueueBlocking(c) PROVE WakeInv'
  BY <1>3, PushOwes DEF EnqueueBlocking
<1>4. ASSUME NEW c \in Submitters, EnqueueOverwrite(c) PROVE WakeInv'
  BY <1>4, PushOwes DEF EnqueueOverwrite
<1>5. ASSUME NEW c \in Submitters, EnqueueDiscard(c) PROVE WakeInv'
  <2>1. CASE IsFull(task_queue, Capacity)
    BY <1>5, <2>1, NoMoreOwed DEF EnqueueDiscard
  <2>2. CASE ~IsFull(task_queue, Capacity)
    BY <1>5, <2>2, PushOwes DEF EnqueueDiscard
  <2> QED BY <2>1, <2>2
<1>6. ASSUME NEW c \in Submitters, CountPending(c) PROVE WakeInv'
  BY <1>6, NoMoreOwed DEF CountPending
<1>7. ASSUME NEW c \in Submitters, NotifyWorker(c) PROVE WakeInv'
  BY <1>7, NotifyPays
<1>8. ASSUME NEW c \in Controllers, WaitForAllTask(c) PROVE WakeInv'
  BY <1>8, NoMoreOwed DEF WaitForAllTask
<1>9. ASSUME NEW c \in Controllers, WaitForRunningTask(c) PROVE WakeInv'
  BY <1>9, NoMoreOwed DEF WaitForRunningTask
<1>10. ASSUME NEW c \in Controllers, Shutdown(c) PROVE WakeInv'
  <2>1. PICK opt \in Options : cpc' = [cpc EXCEPT ![c] = FirstPhase[opt]]
    BY <1>10 DEF Shutdown
  <2>2. cpc[c] = "idle" /\ UNCHANGED <<stopped, task_queue, wpc>> /\ Open
    BY <1>10 DEF Shutdown
  <2> QED BY <2>1, <2>2, NoMoreOwed
<1>11. ASSUME NEW c \in Controllers, Stop(c) PROVE WakeInv'
  BY <1>11, NoMoreOwed DEF Stop
<1>12. ASSUME NEW c \in Controllers, Pause(c) PROVE WakeInv'
  BY <1>12, NoMoreOwed DEF Pause
<1>13. ASSUME NEW c \in Controllers, Resume(c) PROVE WakeInv'
  BY <1>13, NoMoreOwed DEF Resume
<1>14. ASSUME NEW c \in Controllers, SetQueueFullPolicy(c) PROVE WakeInv'
  BY <1>14, NoMoreOwed DEF SetQueueFullPolicy
<1>15. ASSUME NEW c \in Controllers, AwaitNoPending(c) PROVE WakeInv'
  BY <1>15, NoMoreOwed DEF AwaitNoPending
<1>16. ASSUME NEW c \in Controllers, ReadRunning(c) PROVE WakeInv'
  BY <1>16, NoMoreOwed DEF ReadRunning
<1>17. ASSUME NEW c \in Controllers, ReadPending(c) PROVE WakeInv'
  BY <1>17, NoMoreOwed DEF ReadPending
<1>18. ASSUME NEW c \in Controllers, PollAgain(c) PROVE WakeInv'
  BY <1>18, NoMoreOwed DEF PollAgain
<1>19. ASSUME NEW c \in Controllers, TimeOut(c) PROVE WakeInv'
  BY <1>19, NoMoreOwed DEF TimeOut
<1>20. ASSUME NEW c \in Controllers, ForceStop(c) PROVE WakeInv'
  BY <1>20, NoMoreOwed DEF ForceStop
<1>21. ASSUME NEW c \in Controllers, BeginDrain(c) PROVE WakeInv'
  BY <1>21, NoMoreOwed DEF BeginDrain
<1>22. ASSUME NEW c \in Controllers, Abandon(c) PROVE WakeInv'
  <2>1. Len(task_queue') = Len(task_queue) - 1 /\ Len(task_queue') \in Nat
    BY <1>22, TailHolds DEF Abandon
  <2> QED BY <1>22, <2>1, NoMoreOwed DEF Abandon
<1>23. ASSUME NEW c \in Controllers, EndDrain(c) PROVE WakeInv'
  BY <1>23, NoMoreOwed DEF EndDrain
<1>24. ASSUME NEW c \in Controllers, SetStopped(c) PROVE WakeInv'
  <2>1. Waiting' = {}
    BY <1>24 DEF SetStopped, Waiting
  <2> QED BY <2>1 DEF WakeInv
<1>25. ASSUME NEW c \in Controllers, JoinWorkers(c) PROVE WakeInv'
  BY <1>25, NoMoreOwed DEF JoinWorkers
<1>26. ASSUME NEW c \in Controllers, JoinFails(c) PROVE WakeInv'
  BY <1>26, NoMoreOwed DEF JoinFails
<1>27. ASSUME NEW c \in Controllers, WakeWaiterSpuriously(c) PROVE WakeInv'
  BY <1>27, NoMoreOwed DEF WakeWaiterSpuriously
<1>28. ASSUME NEW w \in Workers, TestPaused(w) PROVE WakeInv'
  BY <1>28, NoMoreOwed DEF TestPaused
<1>29. ASSUME NEW w \in Workers, LeavePause(w) PROVE WakeInv'
  <2>1. CASE stopped
    <3>1. Waiting' = {}
      BY <1>29, <2>1 DEF LeavePause, WakeInv, Waiting
    <3> QED BY <3>1 DEF WakeInv
  <2>2. CASE ~stopped
    BY <1>29, <2>2, NoMoreOwed DEF LeavePause
  <2> QED BY <2>1, <2>2
<1>30. ASSUME NEW w \in Workers, AwaitTask(w) PROVE WakeInv'
  BY <1>30, AwaitTaskOwes
<1>31. ASSUME NEW w \in Workers, Dequeue(w) PROVE WakeInv'
  BY <1>31, DequeuePays
<1>32. ASSUME NEW w \in Workers, Execute(w) PROVE WakeInv'
  BY <1>32, NoMoreOwed DEF Execute
<1>33. ASSUME NEW w \in Workers, Record(w) PROVE WakeInv'
  BY <1>33, NoMoreOwed DEF Record
<1>34. ASSUME NEW w \in Workers, Finish(w) PROVE WakeInv'
  <2>1. /\ UNCHANGED <<state, stopped, task_queue>>
        /\ \A c \in Clients : cpc[c] \in {"count", "notify"} => cpc'[c] = cpc[c]
        /\ wpc[w] = "finish" /\ wpc' = [wpc EXCEPT ![w] = "top"]
    BY <1>34 DEF Finish
  <2> QED BY <2>1, NoMoreOwed
<1>35. ASSUME NEW w \in Workers, WakeSpuriously(w) PROVE WakeInv'
  BY <1>35, NoMoreOwed DEF WakeSpuriously
<1>36. CASE UNCHANGED vars
  BY <1>36, NoMoreOwed DEF vars
<1> QED
  BY <1>1, <1>2, <1>3, <1>4, <1>5, <1>6, <1>7, <1>8, <1>9, <1>10,
     <1>11, <1>12, <1>13, <1>14, <1>15, <1>16, <1>17, <1>18, <1>19, <1>20,
     <1>21, <1>22, <1>23, <1>24, <1>25, <1>26, <1>27, <1>28, <1>29, <1>30,
     <1>31, <1>32, <1>33, <1>34, <1>35, <1>36
  DEF Next, SubmitStep, ControlStep, Call, WorkerLoop

\* No wake-up of queue_cv_ is lost: while a worker sleeps there in a pool that is
\* not stopped by force, each queued task has a submit that is yet to notify or
\* a worker that is yet to look at the queue.
THEOREM NoWakeupLost == Spec => []WakeupOwed
<1>1. Init => WakeInv
  BY DEF Init, WakeInv, Waiting
<1>2. IInv /\ WakeInv /\ [Next]_vars => WakeInv'
  BY WakeStep
<1>3. WakeInv => WakeupOwed
  BY DEF WakeInv, WakeupOwed, Open, Announcing, Looking
<1> QED BY <1>1, <1>2, <1>3, Invariance, PTL DEF Spec

-----------------------------------------------------------------------------
(***************************************************************************)
(* What a step may never do                                                *)
(***************************************************************************)

\* The rank of the state never falls.
LEMMA RankStep ==
  ASSUME TypeOK, [Next]_vars
  PROVE  Rank[state] <= Rank[state']
<1> USE DEF Rank, TypeOK, State
<1>1. ASSUME NEW c \in Submitters, NEW t \in Tasks, Submit(c, t) PROVE Rank[state] <= Rank[state']
  BY <1>1 DEF Submit
<1>2. ASSUME NEW c \in Submitters, LoadPolicy(c) PROVE Rank[state] <= Rank[state']
  BY <1>2 DEF LoadPolicy
<1>3. ASSUME NEW c \in Submitters, EnqueueBlocking(c) PROVE Rank[state] <= Rank[state']
  BY <1>3 DEF EnqueueBlocking
<1>4. ASSUME NEW c \in Submitters, EnqueueOverwrite(c) PROVE Rank[state] <= Rank[state']
  BY <1>4 DEF EnqueueOverwrite
<1>5. ASSUME NEW c \in Submitters, EnqueueDiscard(c) PROVE Rank[state] <= Rank[state']
  BY <1>5 DEF EnqueueDiscard
<1>6. ASSUME NEW c \in Submitters, CountPending(c) PROVE Rank[state] <= Rank[state']
  BY <1>6 DEF CountPending
<1>7. ASSUME NEW c \in Submitters, NotifyWorker(c) PROVE Rank[state] <= Rank[state']
  BY <1>7 DEF NotifyWorker
<1>8. ASSUME NEW c \in Controllers, WaitForAllTask(c) PROVE Rank[state] <= Rank[state']
  BY <1>8 DEF WaitForAllTask
<1>9. ASSUME NEW c \in Controllers, WaitForRunningTask(c) PROVE Rank[state] <= Rank[state']
  BY <1>9 DEF WaitForRunningTask
<1>10. ASSUME NEW c \in Controllers, Shutdown(c) PROVE Rank[state] <= Rank[state']
  BY <1>10 DEF Shutdown
<1>11. ASSUME NEW c \in Controllers, Stop(c) PROVE Rank[state] <= Rank[state']
  BY <1>11 DEF Stop
<1>12. ASSUME NEW c \in Controllers, Pause(c) PROVE Rank[state] <= Rank[state']
  BY <1>12 DEF Pause
<1>13. ASSUME NEW c \in Controllers, Resume(c) PROVE Rank[state] <= Rank[state']
  BY <1>13 DEF Resume
<1>14. ASSUME NEW c \in Controllers, SetQueueFullPolicy(c) PROVE Rank[state] <= Rank[state']
  BY <1>14 DEF SetQueueFullPolicy
<1>15. ASSUME NEW c \in Controllers, AwaitNoPending(c) PROVE Rank[state] <= Rank[state']
  BY <1>15 DEF AwaitNoPending
<1>16. ASSUME NEW c \in Controllers, ReadRunning(c) PROVE Rank[state] <= Rank[state']
  BY <1>16 DEF ReadRunning
<1>17. ASSUME NEW c \in Controllers, ReadPending(c) PROVE Rank[state] <= Rank[state']
  BY <1>17 DEF ReadPending
<1>18. ASSUME NEW c \in Controllers, PollAgain(c) PROVE Rank[state] <= Rank[state']
  BY <1>18 DEF PollAgain
<1>19. ASSUME NEW c \in Controllers, TimeOut(c) PROVE Rank[state] <= Rank[state']
  BY <1>19 DEF TimeOut
<1>20. ASSUME NEW c \in Controllers, ForceStop(c) PROVE Rank[state] <= Rank[state']
  BY <1>20 DEF ForceStop
<1>21. ASSUME NEW c \in Controllers, BeginDrain(c) PROVE Rank[state] <= Rank[state']
  BY <1>21 DEF BeginDrain
<1>22. ASSUME NEW c \in Controllers, Abandon(c) PROVE Rank[state] <= Rank[state']
  BY <1>22 DEF Abandon
<1>23. ASSUME NEW c \in Controllers, EndDrain(c) PROVE Rank[state] <= Rank[state']
  BY <1>23 DEF EndDrain
<1>24. ASSUME NEW c \in Controllers, SetStopped(c) PROVE Rank[state] <= Rank[state']
  BY <1>24 DEF SetStopped
<1>25. ASSUME NEW c \in Controllers, JoinWorkers(c) PROVE Rank[state] <= Rank[state']
  BY <1>25 DEF JoinWorkers
<1>26. ASSUME NEW c \in Controllers, JoinFails(c) PROVE Rank[state] <= Rank[state']
  BY <1>26 DEF JoinFails
<1>27. ASSUME NEW c \in Controllers, WakeWaiterSpuriously(c) PROVE Rank[state] <= Rank[state']
  BY <1>27 DEF WakeWaiterSpuriously
<1>28. ASSUME NEW w \in Workers, TestPaused(w) PROVE Rank[state] <= Rank[state']
  BY <1>28 DEF TestPaused
<1>29. ASSUME NEW w \in Workers, LeavePause(w) PROVE Rank[state] <= Rank[state']
  BY <1>29 DEF LeavePause
<1>30. ASSUME NEW w \in Workers, AwaitTask(w) PROVE Rank[state] <= Rank[state']
  BY <1>30 DEF AwaitTask
<1>31. ASSUME NEW w \in Workers, Dequeue(w) PROVE Rank[state] <= Rank[state']
  BY <1>31 DEF Dequeue
<1>32. ASSUME NEW w \in Workers, Execute(w) PROVE Rank[state] <= Rank[state']
  BY <1>32 DEF Execute
<1>33. ASSUME NEW w \in Workers, Record(w) PROVE Rank[state] <= Rank[state']
  BY <1>33 DEF Record
<1>34. ASSUME NEW w \in Workers, Finish(w) PROVE Rank[state] <= Rank[state']
  BY <1>34 DEF Finish
<1>35. ASSUME NEW w \in Workers, WakeSpuriously(w) PROVE Rank[state] <= Rank[state']
  BY <1>35 DEF WakeSpuriously
<1>36. CASE UNCHANGED vars
  BY <1>36 DEF vars
<1> QED
  BY <1>1, <1>2, <1>3, <1>4, <1>5, <1>6, <1>7, <1>8, <1>9, <1>10,
     <1>11, <1>12, <1>13, <1>14, <1>15, <1>16, <1>17, <1>18, <1>19, <1>20,
     <1>21, <1>22, <1>23, <1>24, <1>25, <1>26, <1>27, <1>28, <1>29, <1>30,
     <1>31, <1>32, <1>33, <1>34, <1>35, <1>36
  DEF Next, SubmitStep, ControlStep, Call, WorkerLoop

\* A pool that is shutting down never runs again, whichever pauses, resumes,
\* shutdowns and direct stops overlap.
THEOREM StateMovesOn == Spec => StatesMoveOn
<1>1. IInv /\ [Next]_vars => [Rank[state] <= Rank[state']]_vars
  BY RankStep DEF IInv
<1> QED BY <1>1, Invariance, PTL DEF Spec, StatesMoveOn

\* A wait ends only where it reads zero in pending_tasks_, but for a timeout.
LEMMA WaitEnds ==
  ASSUME TypeOK, [Next]_vars, NEW d \in Clients,
         cpc[d] \in {"waitAll", "readRunning", "readPending"},
         cpc'[d] \in {"idle", "stop"}
  PROVE  pending_tasks = 0
<1> USE PoolAssumption DEF Clients, ClientGoes, AfterWait, ClientStep, QueueFullPolicy,
      TypeOK
<1>1. ASSUME NEW c \in Submitters, NEW t \in Tasks, Submit(c, t) PROVE pending_tasks = 0
  BY <1>1 DEF Submit
<1>2. ASSUME NEW c \in Submitters, LoadPolicy(c) PROVE pending_tasks = 0
  BY <1>2 DEF LoadPolicy
<1>3. ASSUME NEW c \in Submitters, EnqueueBlocking(c) PROVE pending_tasks = 0
  BY <1>3 DEF EnqueueBlocking, Push
<1>4. ASSUME NEW c \in Submitters, EnqueueOverwrite(c) PROVE pending_tasks = 0
  BY <1>4 DEF EnqueueOverwrite, Push
<1>5. ASSUME NEW c \in Submitters, EnqueueDiscard(c) PROVE pending_tasks = 0
  BY <1>5 DEF EnqueueDiscard, Push
<1>6. ASSUME NEW c \in Submitters, CountPending(c) PROVE pending_tasks = 0
  BY <1>6 DEF CountPending
<1>7. ASSUME NEW c \in Submitters, NotifyWorker(c) PROVE pending_tasks = 0
  BY <1>7 DEF NotifyWorker
<1>8. ASSUME NEW c \in Controllers, WaitForAllTask(c) PROVE pending_tasks = 0
  BY <1>8 DEF WaitForAllTask
<1>9. ASSUME NEW c \in Controllers, WaitForRunningTask(c) PROVE pending_tasks = 0
  BY <1>9 DEF WaitForRunningTask
<1>10. ASSUME NEW c \in Controllers, Shutdown(c) PROVE pending_tasks = 0
  <2>1. PICK opt \in Options : cpc' = [cpc EXCEPT ![c] = FirstPhase[opt]]
    BY <1>10 DEF Shutdown
  <2>2. cpc[c] = "idle"
    BY <1>10 DEF Shutdown
  <2> QED BY <2>1, <2>2
<1>11. ASSUME NEW c \in Controllers, Stop(c) PROVE pending_tasks = 0
  BY <1>11 DEF Stop
<1>12. ASSUME NEW c \in Controllers, Pause(c) PROVE pending_tasks = 0
  BY <1>12 DEF Pause
<1>13. ASSUME NEW c \in Controllers, Resume(c) PROVE pending_tasks = 0
  BY <1>13 DEF Resume
<1>14. ASSUME NEW c \in Controllers, SetQueueFullPolicy(c) PROVE pending_tasks = 0
  BY <1>14 DEF SetQueueFullPolicy
<1>15. ASSUME NEW c \in Controllers, AwaitNoPending(c) PROVE pending_tasks = 0
  BY <1>15 DEF AwaitNoPending
<1>16. ASSUME NEW c \in Controllers, ReadRunning(c) PROVE pending_tasks = 0
  BY <1>16 DEF ReadRunning
<1>17. ASSUME NEW c \in Controllers, ReadPending(c) PROVE pending_tasks = 0
  BY <1>17 DEF ReadPending
<1>18. ASSUME NEW c \in Controllers, PollAgain(c) PROVE pending_tasks = 0
  BY <1>18 DEF PollAgain
<1>19. ASSUME NEW c \in Controllers, TimeOut(c) PROVE pending_tasks = 0
  BY <1>19 DEF TimeOut
<1>20. ASSUME NEW c \in Controllers, ForceStop(c) PROVE pending_tasks = 0
  BY <1>20 DEF ForceStop
<1>21. ASSUME NEW c \in Controllers, BeginDrain(c) PROVE pending_tasks = 0
  BY <1>21 DEF BeginDrain
<1>22. ASSUME NEW c \in Controllers, Abandon(c) PROVE pending_tasks = 0
  BY <1>22 DEF Abandon
<1>23. ASSUME NEW c \in Controllers, EndDrain(c) PROVE pending_tasks = 0
  BY <1>23 DEF EndDrain
<1>24. ASSUME NEW c \in Controllers, SetStopped(c) PROVE pending_tasks = 0
  BY <1>24 DEF SetStopped
<1>25. ASSUME NEW c \in Controllers, JoinWorkers(c) PROVE pending_tasks = 0
  BY <1>25 DEF JoinWorkers
<1>26. ASSUME NEW c \in Controllers, JoinFails(c) PROVE pending_tasks = 0
  BY <1>26 DEF JoinFails
<1>27. ASSUME NEW c \in Controllers, WakeWaiterSpuriously(c) PROVE pending_tasks = 0
  BY <1>27 DEF WakeWaiterSpuriously
<1>28. ASSUME NEW w \in Workers, TestPaused(w) PROVE pending_tasks = 0
  BY <1>28 DEF TestPaused
<1>29. ASSUME NEW w \in Workers, LeavePause(w) PROVE pending_tasks = 0
  BY <1>29 DEF LeavePause
<1>30. ASSUME NEW w \in Workers, AwaitTask(w) PROVE pending_tasks = 0
  BY <1>30 DEF AwaitTask
<1>31. ASSUME NEW w \in Workers, Dequeue(w) PROVE pending_tasks = 0
  BY <1>31 DEF Dequeue
<1>32. ASSUME NEW w \in Workers, Execute(w) PROVE pending_tasks = 0
  BY <1>32 DEF Execute
<1>33. ASSUME NEW w \in Workers, Record(w) PROVE pending_tasks = 0
  BY <1>33 DEF Record
<1>34. ASSUME NEW w \in Workers, Finish(w) PROVE pending_tasks = 0
  BY <1>34 DEF Finish
<1>35. ASSUME NEW w \in Workers, WakeSpuriously(w) PROVE pending_tasks = 0
  BY <1>35 DEF WakeSpuriously
<1>36. CASE UNCHANGED vars
  BY <1>36 DEF vars
<1> QED
  BY <1>1, <1>2, <1>3, <1>4, <1>5, <1>6, <1>7, <1>8, <1>9, <1>10,
     <1>11, <1>12, <1>13, <1>14, <1>15, <1>16, <1>17, <1>18, <1>19, <1>20,
     <1>21, <1>22, <1>23, <1>24, <1>25, <1>26, <1>27, <1>28, <1>29, <1>30,
     <1>31, <1>32, <1>33, <1>34, <1>35, <1>36
  DEF Next, SubmitStep, ControlStep, Call, WorkerLoop

\* When there is a single client thread, which then has no submit under way while
\* it waits, and the counters are wide enough, a wait that ends leaves none of its
\* tasks queued or running.  (With a second thread the late count of a submit can
\* hide a task from the wait: see run undercount_hang.)
THEOREM WaitsForItsTasks ==
  ASSUME NEW me, Clients = {me}, IsFiniteSet(Tasks),
         Capacity + Cardinality(Workers) + Cardinality(Tasks) < SizeMod
  PROVE  Spec => WaitMeansDone
<1>1. ASSUME IInv, CounterInv, [Next]_vars, NEW d \in Clients,
             cpc[d] \in {"waitAll", "readRunning", "readPending"},
             cpc'[d] \in {"idle", "stop"}, NEW t \in Tasks
      PROVE  ~Accepted(t)
  <2>1. pending_tasks = 0
    BY <1>1, WaitEnds DEF IInv
  <2>2. Uncounted = {}
    BY <1>1 DEF Uncounted
  <2>3. /\ Cardinality(Uncounted) = 0
        /\ Cardinality(Busy) \in Nat /\ Cardinality(Dropped) \in Nat
        /\ Len(task_queue) \in Nat /\ IsFiniteSet(Busy)
    BY <1>1, <2>2, CountedFinite, FS_EmptySet DEF IInv
  <2>4. /\ Cardinality(Workers) \in Nat /\ Cardinality(Busy) <= Cardinality(Workers)
    <3>1. Busy \subseteq Workers /\ Workers \subseteq Threads
      BY DEF Busy, Threads
    <3> QED BY <3>1, FiniteThreads, FS_Subset, FS_CardinalityType
  <2>5. /\ Cardinality(Tasks) \in Nat /\ Cardinality(Dropped) <= Cardinality(Tasks)
    <3>1. Dropped \subseteq Tasks
      BY DEF Dropped
    <3> QED BY <3>1, FS_Subset, FS_CardinalityType
  <2>6. Len(task_queue) <= Capacity
    BY <1>1 DEF IInv, Placed
  <2>7. /\ Owed = Len(task_queue) + Cardinality(Busy) + Cardinality(Dropped)
        /\ Owed \in 0 .. SizeMod - 1
    BY <2>3, <2>4, <2>5, <2>6, PoolAssumption DEF Owed
  <2>8. Owed % SizeMod = Owed
    BY <2>7, PoolAssumption
  <2>9. Owed = 0
    BY <1>1, <2>1, <2>8 DEF CounterInv
  <2>10. Len(task_queue) = 0 /\ Cardinality(Busy) = 0
    BY <2>3, <2>7, <2>9
  <2>11. Busy = {}
    BY <2>3, <2>10, FS_EmptySet
  <2>12. task_queue = <<>>
    BY <1>1, <2>10 DEF IInv, TypeOK
  <2>13. outcome[t] # "queued"
    BY <1>1, <2>12 DEF IInv, Placed, EveryTaskInOnePlace, Holds
  <2>14. outcome[t] # "running"
    BY <1>1, <2>11 DEF IInv, Placed, EveryTaskInOnePlace, Busy, BusyStep
  <2> QED BY <2>13, <2>14 DEF Accepted, InPool
<1>2. IInv /\ CounterInv /\ [Next]_vars =>
        [\A c \in Clients :
           (/\ cpc[c] \in {"waitAll", "readRunning", "readPending"}
            /\ cpc'[c] \in {"idle", "stop"})
             => \A t \in Tasks : ~Accepted(t)]_vars
  BY <1>1
<1>3. Spec => []CounterInv
  BY CounterAlways
<1> QED BY <1>2, <1>3, Invariance, PTL DEF Spec, WaitMeansDone
=============================================================================

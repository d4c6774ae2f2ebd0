-------------------------- MODULE ThreadPool_proofs --------------------------
(***************************************************************************)
(* Theorems about ThreadPool, for every set of threads and tasks, every    *)
(* capacity, and every choice of operations, options and policies.         *)
(***************************************************************************)
EXTENDS ThreadPool, Fifo_proofs, Counting_proofs

\* The groups of variables that the actions leave unchanged.
USE DEF modeVars, queueVars, statusVars, counterVars, workerVars, clientVars,
        historyVars, taskVars, WorkerMoves, ClientMoves

-----------------------------------------------------------------------------
\* The push of a submit keeps the queue well formed, whichever policy it is
\* for: its task enters, unless there is no room at all, and at most the front
\* leaves.
LEMMA PushPlaces ==
  ASSUME IInv, NEW c \in Clients, cpc[c] \in QueueFullPolicy, Push(c),
         UNCHANGED <<wpc, held, queue_mutex>>
  PROVE  /\ task_queue' \in Seq(Tasks)
         /\ cpc' \in [Clients -> ClientStep]
         /\ arg' \in [Clients -> Tasks \cup {NoTask}]
         /\ outcome' \in [Tasks -> Outcome]
         /\ Placed'
<1> DEFINE x == arg[c]
           q == task_queue
           lost == IF Capacity = 0 THEN {x} ELSE IF IsFull(q, Capacity) THEN {Head(q)} ELSE {}
<1>1. /\ x \in Tasks
      /\ outcome[x] = "submitting"
      /\ \A d \in Clients : cpc[d] \in PrePush /\ arg[d] = x => d = c
  BY DEF IInv, Placed, SubmitsOwnTask, PrePush
<1>2. /\ q \in Seq(Tasks)
      /\ Len(q) <= Capacity
      /\ Distinct(q)
      /\ \A t \in Tasks : outcome[t] = "queued" <=> Holds(q, t)
  BY DEF IInv, TypeOK, Placed, EveryTaskInOnePlace
<1>3. ~Holds(q, x)
  BY <1>1, <1>2
<1>4. /\ task_queue' \in Seq(Tasks)
      /\ Len(task_queue') <= Capacity
      /\ Distinct(task_queue')
      /\ Capacity # 0 => task_queue' # <<>>
      /\ \A e : Holds(task_queue', e) <=>
           /\ Capacity # 0
           /\ e = x \/ Holds(q, e)
           /\ ~(IsFull(q, Capacity) /\ e = Head(q))
  BY PoolAssumption, <1>1, <1>2, <1>3, PushBackHolds DEF Push
<1>5. IsFull(q, Capacity) => Holds(q, Head(q)) /\ Head(q) \in Tasks
  <2> SUFFICES ASSUME IsFull(q, Capacity) PROVE Holds(q, Head(q)) /\ Head(q) \in Tasks
    OBVIOUS
  <2>1. q # <<>>
    BY <1>2, PoolAssumption DEF IsFull
  <2> QED BY <1>2, <2>1, TailHolds
<1>6. /\ outcome' = [t \in Tasks |-> IF t \in lost THEN "overwritten"
                                    ELSE IF t = x THEN "queued"
                                    ELSE outcome[t]]
      /\ cpc' = [cpc EXCEPT ![c] = "count"]
      /\ arg' = arg
  BY DEF Push, ClientGoes
<1>7. /\ cpc \in [Clients -> ClientStep]
      /\ arg \in [Clients -> Tasks \cup {NoTask}]
      /\ outcome \in [Tasks -> Outcome]
  BY DEF IInv, TypeOK
<1>8. outcome' \in [Tasks -> Outcome]
  BY <1>6, <1>7 DEF Outcome
<1>9. cpc' \in [Clients -> ClientStep] /\ arg' \in [Clients -> Tasks \cup {NoTask}]
  BY <1>6, <1>7 DEF ClientStep
<1>10. \A t \in Tasks : t \in lost => outcome[t] = "submitting" \/ outcome[t] = "queued"
  BY <1>1, <1>2, <1>5
<1>11. \A t \in Tasks : outcome'[t] = "queued" <=> Holds(task_queue', t)
  BY <1>1, <1>2, <1>3, <1>4, <1>5, <1>6, <1>7
<1>12. \A t \in Tasks :
         outcome[t] \notin {"submitting", "queued"} => outcome'[t] = outcome[t]
  BY <1>1, <1>6, <1>10
<1>13. \A t \in Tasks : outcome'[t] = "running" <=> outcome[t] = "running"
  BY <1>1, <1>6, <1>10
<1>14. EveryTaskInOnePlace'
  BY <1>4, <1>11, <1>13 DEF IInv, Placed, EveryTaskInOnePlace
<1>15. MutexHeld'
  BY <1>6, <1>7 DEF IInv, Placed, MutexHeld, QueueFullPolicy
<1>16. DequeueNeverBlocks'
  <2>1. CASE Capacity = 0
    <3>1. Len(q) = 0
      BY <1>2, <2>1
    <3>2. q = <<>>
      BY <1>2, <3>1
    <3> QED BY <3>2 DEF IInv, Placed, DequeueNeverBlocks
  <2>2. CASE Capacity # 0
    BY <1>4, <2>2 DEF IInv, Placed, DequeueNeverBlocks
  <2> QED BY <2>1, <2>2
<1>17. SubmitsOwnTask'
  <2>1. \A d \in Clients : cpc'[d] \in PrePush => d # c /\ cpc[d] \in PrePush
    BY <1>6, <1>7 DEF PrePush, QueueFullPolicy
  <2>2. \A d \in Clients : cpc'[d] \in PrePush => outcome'[arg[d]] = "submitting"
    BY <1>1, <1>2, <1>5, <1>6, <2>1 DEF IInv, Placed, SubmitsOwnTask, PrePush
  <2> QED BY <1>6, <2>1, <2>2 DEF IInv, Placed, SubmitsOwnTask
<1>18. HeldTaskSettled'
  <2>1. \A w \in Workers : wpc[w] \in {"record", "finish"} => held[w] \in Tasks
    BY DEF IInv, TypeOK, Placed, EveryTaskInOnePlace, BusyStep
  <2> QED BY <1>12, <2>1 DEF IInv, Placed, HeldTaskSettled
<1> QED BY <1>4, <1>8, <1>9, <1>14, <1>15, <1>16, <1>17, <1>18 DEF Placed

-----------------------------------------------------------------------------
\* Clients are threads, and a program has finitely many of them.
LEMMA MayOverwriteFinite ==
  /\ IsFiniteSet(MayOverwrite)
  /\ Cardinality(MayOverwrite) \in Nat
<1>1. MayOverwrite \subseteq Threads
  BY DEF MayOverwrite, Threads
<1> QED BY <1>1, FiniteThreads, FS_Subset, FS_CardinalityType

\* Every step keeps the variables in their types.
LEMMA TypeStep == IInv /\ [Next]_vars => TypeOK'
<1> SUFFICES ASSUME IInv, [Next]_vars PROVE TypeOK'
  OBVIOUS
<1> USE PoolAssumption DEF Clients, Threads, WorkerGoes, ClientGoes, Becomes,
      AfterWait, Inc, Dec, State, WorkerStep, ClientStep, ControlCalls,
      ShutdownOption, QueueFullPolicy, Outcome
<1>a. TypeOK
  BY DEF IInv
<1> USE <1>a DEF TypeOK
<1>1. ASSUME NEW c \in Submitters, NEW t \in Tasks, Submit(c, t) PROVE TypeOK'
  BY <1>1 DEF Submit
<1>2. ASSUME NEW c \in Submitters, LoadPolicy(c) PROVE TypeOK'
  BY <1>2 DEF LoadPolicy
<1>3. ASSUME NEW c \in Submitters, EnqueueBlocking(c) PROVE TypeOK'
  BY <1>3, PushPlaces DEF EnqueueBlocking
<1>4. ASSUME NEW c \in Submitters, EnqueueOverwrite(c) PROVE TypeOK'
  BY <1>4, PushPlaces DEF EnqueueOverwrite
<1>5. ASSUME NEW c \in Submitters, EnqueueDiscard(c) PROVE TypeOK'
  <2>1. CASE IsFull(task_queue, Capacity)
    BY <1>5, <2>1 DEF EnqueueDiscard
  <2>2. CASE ~IsFull(task_queue, Capacity)
    BY <1>5, <2>2, PushPlaces DEF EnqueueDiscard
  <2> QED BY <2>1, <2>2
<1>6. ASSUME NEW c \in Submitters, CountPending(c) PROVE TypeOK'
  BY <1>6 DEF CountPending
<1>7. ASSUME NEW c \in Submitters, NotifyWorker(c) PROVE TypeOK'
  BY <1>7 DEF NotifyWorker
<1>8. ASSUME NEW c \in Controllers, WaitForAllTask(c) PROVE TypeOK'
  BY <1>8 DEF WaitForAllTask
<1>9. ASSUME NEW c \in Controllers, WaitForRunningTask(c) PROVE TypeOK'
  BY <1>9 DEF WaitForRunningTask
<1>10. ASSUME NEW c \in Controllers, Shutdown(c) PROVE TypeOK'
  <2>1. late' \in Nat
    BY <1>10, MayOverwriteFinite DEF Shutdown
  <2> QED BY <1>10, <2>1 DEF Shutdown, FirstPhase
<1>11. ASSUME NEW c \in Controllers, Stop(c) PROVE TypeOK'
  BY <1>11 DEF Stop
<1>12. ASSUME NEW c \in Controllers, Pause(c) PROVE TypeOK'
  BY <1>12 DEF Pause
<1>13. ASSUME NEW c \in Controllers, Resume(c) PROVE TypeOK'
  BY <1>13 DEF Resume
<1>14. ASSUME NEW c \in Controllers, SetQueueFullPolicy(c) PROVE TypeOK'
  BY <1>14 DEF SetQueueFullPolicy
<1>15. ASSUME NEW c \in Controllers, AwaitNoPending(c) PROVE TypeOK'
  BY <1>15 DEF AwaitNoPending
<1>16. ASSUME NEW c \in Controllers, ReadRunning(c) PROVE TypeOK'
  BY <1>16 DEF ReadRunning
<1>17. ASSUME NEW c \in Controllers, ReadPending(c) PROVE TypeOK'
  BY <1>17 DEF ReadPending
<1>18. ASSUME NEW c \in Controllers, PollAgain(c) PROVE TypeOK'
  BY <1>18 DEF PollAgain
<1>19. ASSUME NEW c \in Controllers, TimeOut(c) PROVE TypeOK'
  BY <1>19 DEF TimeOut
<1>20. ASSUME NEW c \in Controllers, ForceStop(c) PROVE TypeOK'
  BY <1>20 DEF ForceStop
<1>21. ASSUME NEW c \in Controllers, BeginDrain(c) PROVE TypeOK'
  BY <1>21 DEF BeginDrain
<1>22. ASSUME NEW c \in Controllers, Abandon(c) PROVE TypeOK'
  <2>1. Tail(task_queue) \in Seq(Tasks) /\ Head(task_queue) \in Tasks
    BY <1>22, TailHolds DEF Abandon
  <2> QED BY <1>22, <2>1 DEF Abandon
<1>23. ASSUME NEW c \in Controllers, EndDrain(c) PROVE TypeOK'
  BY <1>23 DEF EndDrain
<1>24. ASSUME NEW c \in Controllers, SetStopped(c) PROVE TypeOK'
  BY <1>24 DEF SetStopped
<1>25. ASSUME NEW c \in Controllers, JoinWorkers(c) PROVE TypeOK'
  BY <1>25 DEF JoinWorkers
<1>26. ASSUME NEW c \in Controllers, JoinFails(c) PROVE TypeOK'
  BY <1>26 DEF JoinFails
<1>27. ASSUME NEW c \in Controllers, WakeWaiterSpuriously(c) PROVE TypeOK'
  BY <1>27 DEF WakeWaiterSpuriously
<1>28. ASSUME NEW w \in Workers, TestPaused(w) PROVE TypeOK'
  BY <1>28 DEF TestPaused
<1>29. ASSUME NEW w \in Workers, LeavePause(w) PROVE TypeOK'
  BY <1>29 DEF LeavePause
<1>30. ASSUME NEW w \in Workers, AwaitTask(w) PROVE TypeOK'
  BY <1>30 DEF AwaitTask
<1>31. ASSUME NEW w \in Workers, Dequeue(w) PROVE TypeOK'
  <2>1. Tail(task_queue) \in Seq(Tasks) /\ Head(task_queue) \in Tasks
    BY <1>31, TailHolds DEF Dequeue
  <2> QED BY <1>31, <2>1 DEF Dequeue
<1>32. ASSUME NEW w \in Workers, Execute(w) PROVE TypeOK'
  <2>1. PICK o \in {"succeeded", "failed"} : outcome' = [outcome EXCEPT ![held[w]] = o]
    BY <1>32 DEF Execute
  <2>2. outcome' \in [Tasks -> Outcome]
    BY <2>1
  <2> QED BY <1>32, <2>2 DEF Execute
<1>33. ASSUME NEW w \in Workers, Record(w) PROVE TypeOK'
  BY <1>33 DEF Record
<1>34. ASSUME NEW w \in Workers, Finish(w) PROVE TypeOK'
  BY <1>34 DEF Finish
<1>35. ASSUME NEW w \in Workers, WakeSpuriously(w) PROVE TypeOK'
  BY <1>35 DEF WakeSpuriously
<1>36. CASE UNCHANGED vars
  BY <1>36 DEF vars
<1> QED
  BY <1>1, <1>2, <1>3, <1>4, <1>5, <1>6, <1>7, <1>8, <1>9, <1>10,
     <1>11, <1>12, <1>13, <1>14, <1>15, <1>16, <1>17, <1>18, <1>19, <1>20,
     <1>21, <1>22, <1>23, <1>24, <1>25, <1>26, <1>27, <1>28, <1>29, <1>30,
     <1>31, <1>32, <1>33, <1>34, <1>35, <1>36
  DEF Next, SubmitStep, ControlStep, Call, WorkerLoop
\* Every step keeps the tasks, the queue and queue_mutex_ consistent.
LEMMA PlacedStep == IInv /\ [Next]_vars => Placed'
<1> SUFFICES ASSUME IInv, [Next]_vars PROVE Placed'
  OBVIOUS
<1> USE PoolAssumption DEF Clients, Threads, WorkerGoes, ClientGoes, Becomes,
      AfterWait, WorkerStep, ClientStep, QueueFullPolicy, BusyStep, PrePush,
      MutexHeld, DequeueNeverBlocks, EveryTaskInOnePlace, SubmitsOwnTask,
      HeldTaskSettled, Placed
<1>a. TypeOK /\ Placed
  BY DEF IInv
<1> USE <1>a DEF TypeOK
<1>1. ASSUME NEW c \in Submitters, NEW t \in Tasks, Submit(c, t) PROVE Placed'
  BY <1>1 DEF Submit
<1>2. ASSUME NEW c \in Submitters, LoadPolicy(c) PROVE Placed'
  BY <1>2 DEF LoadPolicy
<1>3. ASSUME NEW c \in Submitters, EnqueueBlocking(c) PROVE Placed'
  BY <1>3, PushPlaces DEF EnqueueBlocking
<1>4. ASSUME NEW c \in Submitters, EnqueueOverwrite(c) PROVE Placed'
  BY <1>4, PushPlaces DEF EnqueueOverwrite
<1>5. ASSUME NEW c \in Submitters, EnqueueDiscard(c) PROVE Placed'
  <2>1. CASE IsFull(task_queue, Capacity)
    BY <1>5, <2>1 DEF EnqueueDiscard
  <2>2. CASE ~IsFull(task_queue, Capacity)
    BY <1>5, <2>2, PushPlaces DEF EnqueueDiscard
  <2> QED BY <2>1, <2>2
<1>6. ASSUME NEW c \in Submitters, CountPending(c) PROVE Placed'
  BY <1>6 DEF CountPending
<1>7. ASSUME NEW c \in Submitters, NotifyWorker(c) PROVE Placed'
  <2>1. CASE Waiting = {}
    BY <1>7, <2>1 DEF NotifyWorker
  <2>2. CASE Waiting # {}
    <3>1. PICK w \in Waiting : wpc' = [wpc EXCEPT ![w] = "lock"]
      BY <1>7, <2>2 DEF NotifyWorker
    <3>2. w \in Workers /\ wpc[w] = "waiting"
      BY <3>1 DEF Waiting
    <3>3. /\ UNCHANGED <<task_queue, held, queue_mutex, outcome>>
          /\ cpc[c] = "notify"
          /\ cpc' = [cpc EXCEPT ![c] = "idle"]
          /\ arg' = [arg EXCEPT ![c] = NoTask]
      BY <1>7 DEF NotifyWorker
    <3> QED BY <3>1, <3>2, <3>3
  <2> QED BY <2>1, <2>2
<1>8. ASSUME NEW c \in Controllers, WaitForAllTask(c) PROVE Placed'
  BY <1>8 DEF WaitForAllTask
<1>9. ASSUME NEW c \in Controllers, WaitForRunningTask(c) PROVE Placed'
  BY <1>9 DEF WaitForRunningTask
<1>10. ASSUME NEW c \in Controllers, Shutdown(c) PROVE Placed'
  <2>1. PICK opt \in Options : cpc' = [cpc EXCEPT ![c] = FirstPhase[opt]]
    BY <1>10 DEF Shutdown
  <2>2. FirstPhase[opt] \in {"waitAll", "readRunning", "force"}
    BY DEF FirstPhase, ShutdownOption
  <2>3. UNCHANGED <<task_queue, queue_mutex, wpc, held, arg, outcome>>
    BY <1>10 DEF Shutdown
  <2> QED BY <1>10, <2>1, <2>2, <2>3 DEF Shutdown
<1>11. ASSUME NEW c \in Controllers, Stop(c) PROVE Placed'
  BY <1>11 DEF Stop
<1>12. ASSUME NEW c \in Controllers, Pause(c) PROVE Placed'
  BY <1>12 DEF Pause
<1>13. ASSUME NEW c \in Controllers, Resume(c) PROVE Placed'
  BY <1>13 DEF Resume
<1>14. ASSUME NEW c \in Controllers, SetQueueFullPolicy(c) PROVE Placed'
  BY <1>14 DEF SetQueueFullPolicy
<1>15. ASSUME NEW c \in Controllers, AwaitNoPending(c) PROVE Placed'
  BY <1>15 DEF AwaitNoPending
<1>16. ASSUME NEW c \in Controllers, ReadRunning(c) PROVE Placed'
  BY <1>16 DEF ReadRunning
<1>17. ASSUME NEW c \in Controllers, ReadPending(c) PROVE Placed'
  BY <1>17 DEF ReadPending
<1>18. ASSUME NEW c \in Controllers, PollAgain(c) PROVE Placed'
  BY <1>18 DEF PollAgain
<1>19. ASSUME NEW c \in Controllers, TimeOut(c) PROVE Placed'
  BY <1>19 DEF TimeOut
<1>20. ASSUME NEW c \in Controllers, ForceStop(c) PROVE Placed'
  BY <1>20 DEF ForceStop
<1>21. ASSUME NEW c \in Controllers, BeginDrain(c) PROVE Placed'
  BY <1>21 DEF BeginDrain
<1>22. ASSUME NEW c \in Controllers, Abandon(c) PROVE Placed'
  <2>1. /\ task_queue # <<>>
        /\ task_queue' = Tail(task_queue)
        /\ outcome' = [outcome EXCEPT ![Head(task_queue)] = "abandoned"]
    BY <1>22 DEF Abandon
  <2>2. /\ Head(task_queue) \in Tasks
        /\ Tail(task_queue) \in Seq(Tasks)
        /\ Len(Tail(task_queue)) = Len(task_queue) - 1
        /\ Len(task_queue) \in Nat
        /\ outcome[Head(task_queue)] = "queued"
        /\ Distinct(Tail(task_queue))
        /\ ~Holds(Tail(task_queue), Head(task_queue))
        /\ \A t \in Tasks : t # Head(task_queue) =>
             (Holds(Tail(task_queue), t) <=> Holds(task_queue, t))
    BY <2>1, TailHolds
  <2>3. Len(task_queue') <= Capacity
    BY <2>1, <2>2, PoolAssumption
  <2>4. /\ Distinct(task_queue')
        /\ \A t \in Tasks : outcome'[t] = "queued" <=> Holds(task_queue', t)
    BY <2>1, <2>2
  <2>5. \A t \in Tasks : outcome[t] # "queued" =>
          outcome'[t] = outcome[t] /\ t # Head(task_queue)
    BY <2>1, <2>2
  <2>6. UNCHANGED <<wpc, held, cpc, arg, queue_mutex>>
    BY <1>22 DEF Abandon
  <2>7. \A t \in Tasks : outcome'[t] = "running" <=> outcome[t] = "running"
    BY <2>1, <2>2
  <2>8. EveryTaskInOnePlace'
    BY <2>4, <2>6, <2>7
  <2>9. MutexHeld' /\ DequeueNeverBlocks'
    BY <1>22, <2>6 DEF Abandon
  <2>10. SubmitsOwnTask'
    BY <2>5, <2>6
  <2>11. HeldTaskSettled'
    BY <2>5, <2>6
  <2> QED BY <1>22, <2>3, <2>8, <2>9, <2>10, <2>11 DEF Abandon
<1>23. ASSUME NEW c \in Controllers, EndDrain(c) PROVE Placed'
  BY <1>23 DEF EndDrain
<1>24. ASSUME NEW c \in Controllers, SetStopped(c) PROVE Placed'
  BY <1>24 DEF SetStopped
<1>25. ASSUME NEW c \in Controllers, JoinWorkers(c) PROVE Placed'
  BY <1>25 DEF JoinWorkers
<1>26. ASSUME NEW c \in Controllers, JoinFails(c) PROVE Placed'
  BY <1>26 DEF JoinFails
<1>27. ASSUME NEW c \in Controllers, WakeWaiterSpuriously(c) PROVE Placed'
  BY <1>27 DEF WakeWaiterSpuriously
<1>28. ASSUME NEW w \in Workers, TestPaused(w) PROVE Placed'
  BY <1>28 DEF TestPaused
<1>29. ASSUME NEW w \in Workers, LeavePause(w) PROVE Placed'
  BY <1>29 DEF LeavePause
<1>30. ASSUME NEW w \in Workers, AwaitTask(w) PROVE Placed'
  BY <1>30 DEF AwaitTask
<1>31. ASSUME NEW w \in Workers, Dequeue(w) PROVE Placed'
  <2>1. /\ task_queue # <<>>
        /\ task_queue' = Tail(task_queue)
        /\ outcome' = [outcome EXCEPT ![Head(task_queue)] = "running"]
    BY <1>31 DEF Dequeue
  <2>2. /\ Head(task_queue) \in Tasks
        /\ Tail(task_queue) \in Seq(Tasks)
        /\ Len(Tail(task_queue)) = Len(task_queue) - 1
        /\ Len(task_queue) \in Nat
        /\ outcome[Head(task_queue)] = "queued"
        /\ Distinct(Tail(task_queue))
        /\ ~Holds(Tail(task_queue), Head(task_queue))
        /\ \A t \in Tasks : t # Head(task_queue) =>
             (Holds(Tail(task_queue), t) <=> Holds(task_queue, t))
    BY <2>1, TailHolds
  <2>3. Len(task_queue') <= Capacity
    BY <2>1, <2>2, PoolAssumption
  <2>4. /\ Distinct(task_queue')
        /\ \A t \in Tasks : outcome'[t] = "queued" <=> Holds(task_queue', t)
    BY <2>1, <2>2
  <2>5. \A t \in Tasks : outcome[t] # "queued" =>
          outcome'[t] = outcome[t] /\ t # Head(task_queue)
    BY <2>1, <2>2
  <2>6. /\ wpc' = [wpc EXCEPT ![w] = "execute"]
        /\ held' = [held EXCEPT ![w] = Head(task_queue)]
        /\ UNCHANGED <<cpc, arg>>
    BY <1>31 DEF Dequeue
  <2>7. \A v \in Workers : held[v] # Head(task_queue)
    BY <2>2
  <2>8. EveryTaskInOnePlace'
    <3>1. \A v \in Workers : held'[v] # NoTask <=> wpc'[v] \in BusyStep
      BY <2>2, <2>6
    <3>2. \A u, v \in Workers : held'[u] = held'[v] /\ held'[u] # NoTask => u = v
      BY <2>6, <2>7
    <3>3. ASSUME NEW t \in Tasks
          PROVE  outcome'[t] = "running" <=>
                   \E v \in Workers : wpc'[v] = "execute" /\ held'[v] = t
      BY <1>31, <2>1, <2>2, <2>6, <2>7 DEF Dequeue
    <3> QED BY <2>4, <3>1, <3>2, <3>3
  <2>9. MutexHeld' /\ DequeueNeverBlocks'
    BY <1>31, <2>6 DEF Dequeue
  <2>10. SubmitsOwnTask'
    BY <2>5, <2>6
  <2>11. HeldTaskSettled'
    <3>1. \A v \in Workers : wpc'[v] \in {"record", "finish"} =>
            /\ wpc[v] \in {"record", "finish"}
            /\ held'[v] = held[v]
      BY <2>6
    <3>2. \A v \in Workers : wpc[v] \in {"record", "finish"} =>
            /\ held[v] \in Tasks
            /\ outcome[held[v]] \in {"succeeded", "failed"}
      OBVIOUS
    <3> QED BY <2>5, <3>1, <3>2
  <2> QED BY <1>31, <2>3, <2>8, <2>9, <2>10, <2>11 DEF Dequeue
<1>32. ASSUME NEW w \in Workers, Execute(w) PROVE Placed'
  BY <1>32 DEF Execute
<1>33. ASSUME NEW w \in Workers, Record(w) PROVE Placed'
  BY <1>33 DEF Record
<1>34. ASSUME NEW w \in Workers, Finish(w) PROVE Placed'
  BY <1>34 DEF Finish
<1>35. ASSUME NEW w \in Workers, WakeSpuriously(w) PROVE Placed'
  BY <1>35 DEF WakeSpuriously
<1>36. CASE UNCHANGED vars
  BY <1>36 DEF vars
<1> QED
  BY <1>1, <1>2, <1>3, <1>4, <1>5, <1>6, <1>7, <1>8, <1>9, <1>10,
     <1>11, <1>12, <1>13, <1>14, <1>15, <1>16, <1>17, <1>18, <1>19, <1>20,
     <1>21, <1>22, <1>23, <1>24, <1>25, <1>26, <1>27, <1>28, <1>29, <1>30,
     <1>31, <1>32, <1>33, <1>34, <1>35, <1>36
  DEF Next, SubmitStep, ControlStep, Call, WorkerLoop

\* IInv is inductive: it holds initially, every step keeps it.
THEOREM Invariance == Spec => []IInv
<1>1. Init => IInv
  <2> SUFFICES ASSUME Init PROVE IInv
    OBVIOUS
  <2> USE PoolAssumption
  <2>1. TypeOK
    <3>1. task_queue \in Seq(Tasks)
      BY DEF Init
    <3>2. 0 \in 0 .. SizeMod - 1
      OBVIOUS
    <3> QED
      BY <3>1, <3>2 DEF Init, TypeOK, State, WorkerStep, ClientStep, Outcome
  <2>2. Len(task_queue) <= Capacity /\ DOMAIN task_queue = {}
    BY DEF Init
  <2>3. Placed
    BY <2>2 DEF Init, Placed, MutexHeld, DequeueNeverBlocks,
      EveryTaskInOnePlace, SubmitsOwnTask, HeldTaskSettled, Distinct, Holds,
      BusyStep, PrePush, QueueFullPolicy, Threads, Clients
  <2> QED BY <2>1, <2>3 DEF IInv
<1>2. IInv /\ [Next]_vars => IInv'
  BY TypeStep, PlacedStep DEF IInv
<1> QED BY <1>1, <1>2, PTL DEF Spec

-----------------------------------------------------------------------------
\* One shutdown at a time, if nothing calls stop directly.
LEMMA OneShutdownStep ==
  ASSUME "stop" \notin Controls, TypeOK, OneShutdown, [Next]_vars
  PROVE  OneShutdown'
<1> USE PoolAssumption DEF Clients, WorkerGoes, ClientGoes, AfterWait, ClientStep,
      QueueFullPolicy, OneShutdown, TypeOK
<1>1. ASSUME NEW c \in Submitters, NEW t \in Tasks, Submit(c, t) PROVE OneShutdown'
  BY <1>1 DEF Submit
<1>2. ASSUME NEW c \in Submitters, LoadPolicy(c) PROVE OneShutdown'
  BY <1>2 DEF LoadPolicy
<1>3. ASSUME NEW c \in Submitters, EnqueueBlocking(c) PROVE OneShutdown'
  BY <1>3 DEF EnqueueBlocking, Push
<1>4. ASSUME NEW c \in Submitters, EnqueueOverwrite(c) PROVE OneShutdown'
  BY <1>4 DEF EnqueueOverwrite, Push
<1>5. ASSUME NEW c \in Submitters, EnqueueDiscard(c) PROVE OneShutdown'
  BY <1>5 DEF EnqueueDiscard, Push
<1>6. ASSUME NEW c \in Submitters, CountPending(c) PROVE OneShutdown'
  BY <1>6 DEF CountPending
<1>7. ASSUME NEW c \in Submitters, NotifyWorker(c) PROVE OneShutdown'
  BY <1>7 DEF NotifyWorker
<1>8. ASSUME NEW c \in Controllers, WaitForAllTask(c) PROVE OneShutdown'
  BY <1>8 DEF WaitForAllTask
<1>9. ASSUME NEW c \in Controllers, WaitForRunningTask(c) PROVE OneShutdown'
  BY <1>9 DEF WaitForRunningTask
<1>10. ASSUME NEW c \in Controllers, Shutdown(c) PROVE OneShutdown'
  <2>1. PICK opt \in Options : cpc' = [cpc EXCEPT ![c] = FirstPhase[opt]]
    BY <1>10 DEF Shutdown
  <2>2. in_shutdown = {} /\ in_shutdown' = {c} /\ state' = "SHUTING_DOWN"
    BY <1>10 DEF Shutdown
  <2> QED BY <2>1, <2>2
<1>11. ASSUME NEW c \in Controllers, Stop(c) PROVE OneShutdown'
  BY <1>11 DEF Stop
<1>12. ASSUME NEW c \in Controllers, Pause(c) PROVE OneShutdown'
  BY <1>12 DEF Pause
<1>13. ASSUME NEW c \in Controllers, Resume(c) PROVE OneShutdown'
  BY <1>13 DEF Resume
<1>14. ASSUME NEW c \in Controllers, SetQueueFullPolicy(c) PROVE OneShutdown'
  BY <1>14 DEF SetQueueFullPolicy
<1>15. ASSUME NEW c \in Controllers, AwaitNoPending(c) PROVE OneShutdown'
  BY <1>15 DEF AwaitNoPending
<1>16. ASSUME NEW c \in Controllers, ReadRunning(c) PROVE OneShutdown'
  BY <1>16 DEF ReadRunning
<1>17. ASSUME NEW c \in Controllers, ReadPending(c) PROVE OneShutdown'
  BY <1>17 DEF ReadPending
<1>18. ASSUME NEW c \in Controllers, PollAgain(c) PROVE OneShutdown'
  BY <1>18 DEF PollAgain
<1>19. ASSUME NEW c \in Controllers, TimeOut(c) PROVE OneShutdown'
  BY <1>19 DEF TimeOut
<1>20. ASSUME NEW c \in Controllers, ForceStop(c) PROVE OneShutdown'
  BY <1>20 DEF ForceStop
<1>21. ASSUME NEW c \in Controllers, BeginDrain(c) PROVE OneShutdown'
  BY <1>21 DEF BeginDrain
<1>22. ASSUME NEW c \in Controllers, Abandon(c) PROVE OneShutdown'
  BY <1>22 DEF Abandon
<1>23. ASSUME NEW c \in Controllers, EndDrain(c) PROVE OneShutdown'
  BY <1>23 DEF EndDrain
<1>24. ASSUME NEW c \in Controllers, SetStopped(c) PROVE OneShutdown'
  BY <1>24 DEF SetStopped
<1>25. ASSUME NEW c \in Controllers, JoinWorkers(c) PROVE OneShutdown'
  BY <1>25 DEF JoinWorkers
<1>26. ASSUME NEW c \in Controllers, JoinFails(c) PROVE OneShutdown'
  BY <1>26 DEF JoinFails
<1>27. ASSUME NEW c \in Controllers, WakeWaiterSpuriously(c) PROVE OneShutdown'
  BY <1>27 DEF WakeWaiterSpuriously
<1>28. ASSUME NEW w \in Workers, TestPaused(w) PROVE OneShutdown'
  BY <1>28 DEF TestPaused
<1>29. ASSUME NEW w \in Workers, LeavePause(w) PROVE OneShutdown'
  BY <1>29 DEF LeavePause
<1>30. ASSUME NEW w \in Workers, AwaitTask(w) PROVE OneShutdown'
  BY <1>30 DEF AwaitTask
<1>31. ASSUME NEW w \in Workers, Dequeue(w) PROVE OneShutdown'
  BY <1>31 DEF Dequeue
<1>32. ASSUME NEW w \in Workers, Execute(w) PROVE OneShutdown'
  BY <1>32 DEF Execute
<1>33. ASSUME NEW w \in Workers, Record(w) PROVE OneShutdown'
  BY <1>33 DEF Record
<1>34. ASSUME NEW w \in Workers, Finish(w) PROVE OneShutdown'
  BY <1>34 DEF Finish
<1>35. ASSUME NEW w \in Workers, WakeSpuriously(w) PROVE OneShutdown'
  BY <1>35 DEF WakeSpuriously
<1>36. CASE UNCHANGED vars
  BY <1>36 DEF vars
<1> QED
  BY <1>1, <1>2, <1>3, <1>4, <1>5, <1>6, <1>7, <1>8, <1>9, <1>10,
     <1>11, <1>12, <1>13, <1>14, <1>15, <1>16, <1>17, <1>18, <1>19, <1>20,
     <1>21, <1>22, <1>23, <1>24, <1>25, <1>26, <1>27, <1>28, <1>29, <1>30,
     <1>31, <1>32, <1>33, <1>34, <1>35, <1>36
  DEF Next, SubmitStep, ControlStep, Call, WorkerLoop

\* A push never makes a promised task a queued one.
LEMMA PushKeepsPromises ==
  ASSUME IInv, NoneLeftBehind, NEW c \in Clients, cpc[c] \in QueueFullPolicy,
         Push(c), UNCHANGED <<state, stopped, wpc, in_shutdown, promised>>
  PROVE  NoneLeftBehind'
<1>1. /\ arg[c] \in Tasks /\ outcome[arg[c]] = "submitting"
      /\ promised \subseteq Tasks
      /\ \A t \in promised : outcome[t] \in InPool \cup (Final \ {"refused"})
  BY DEF IInv, TypeOK, Placed, SubmitsOwnTask, PrePush, NoneLeftBehind
<1>2. \A t \in promised : t # arg[c]
  BY <1>1 DEF InPool, Final
<1>3. \A t \in promised : outcome'[t] = outcome[t] \/ outcome'[t] = "overwritten"
  BY <1>1, <1>2 DEF Push
<1>4. PromisedQueued' \subseteq PromisedQueued
  BY <1>3 DEF PromisedQueued
<1>5. \A t \in promised : outcome'[t] \in InPool \cup (Final \ {"refused"})
  BY <1>1, <1>3 DEF InPool, Final
<1>6. cpc' = [cpc EXCEPT ![c] = "count"] /\ cpc \in [Clients -> ClientStep]
  BY DEF Push, ClientGoes, IInv, TypeOK
<1>7. \A d \in Clients :
        /\ cpc'[d] = cpc[d] \/ (d = c /\ cpc'[d] = "count")
        /\ cpc[c] \notin {"lockDrain", "drain", "stop", "join"}
  BY <1>6 DEF QueueFullPolicy
<1>8. in_shutdown \subseteq Clients
  BY DEF IInv, TypeOK
<1> QED BY <1>4, <1>5, <1>7, <1>8 DEF NoneLeftBehind

\* Nothing is queued when the queue is empty.
LEMMA EmptyQueueHoldsNothing ==
  ASSUME IInv, task_queue = <<>>
  PROVE  PromisedQueued = {}
<1>1. \A t \in Tasks : ~Holds(task_queue, t)
  BY DEF Holds
<1> QED BY <1>1 DEF IInv, TypeOK, Placed, EveryTaskInOnePlace, PromisedQueued


\* A task that was promised does not enter the queue again, and workers leave
\* only a queue that holds no such task, or one that forceStop drains.
LEMMA NoneLeftBehindStep ==
  ASSUME "stop" \notin Controls, "pause" \notin Controls,
         IInv, OneShutdown, NoneLeftBehind, [Next]_vars
  PROVE  NoneLeftBehind'
<1> USE PoolAssumption DEF Clients, WorkerGoes, ClientGoes, Becomes, AfterWait,
      WorkerStep, ClientStep, QueueFullPolicy, InPool, Final, OneShutdown,
      NoneLeftBehind, PromisedQueued
<1>a. TypeOK /\ EveryTaskInOnePlace /\ SubmitsOwnTask
  BY DEF IInv, Placed
<1> USE <1>a DEF TypeOK
<1>1. ASSUME NEW c \in Submitters, NEW t \in Tasks, Submit(c, t) PROVE NoneLeftBehind'
  BY <1>1 DEF Submit
<1>2. ASSUME NEW c \in Submitters, LoadPolicy(c) PROVE NoneLeftBehind'
  BY <1>2 DEF LoadPolicy
<1>3. ASSUME NEW c \in Submitters, EnqueueBlocking(c) PROVE NoneLeftBehind'
  BY <1>3, PushKeepsPromises DEF EnqueueBlocking
<1>4. ASSUME NEW c \in Submitters, EnqueueOverwrite(c) PROVE NoneLeftBehind'
  BY <1>4, PushKeepsPromises DEF EnqueueOverwrite
<1>5. ASSUME NEW c \in Submitters, EnqueueDiscard(c) PROVE NoneLeftBehind'
  <2>1. CASE IsFull(task_queue, Capacity)
    <3>1. outcome[arg[c]] = "submitting" /\ arg[c] \notin promised
      BY <1>5 DEF EnqueueDiscard, SubmitsOwnTask, PrePush
    <3> QED BY <1>5, <2>1, <3>1 DEF EnqueueDiscard
  <2>2. CASE ~IsFull(task_queue, Capacity)
    BY <1>5, <2>2, PushKeepsPromises DEF EnqueueDiscard
  <2> QED BY <2>1, <2>2
<1>6. ASSUME NEW c \in Submitters, CountPending(c) PROVE NoneLeftBehind'
  BY <1>6 DEF CountPending
<1>7. ASSUME NEW c \in Submitters, NotifyWorker(c) PROVE NoneLeftBehind'
  <2>1. /\ \A w \in Workers : wpc'[w] = wpc[w] \/ wpc'[w] = "lock"
        /\ \A w \in Workers : wpc[w] = "exited" => wpc'[w] = "exited"
    BY <1>7 DEF NotifyWorker, Waiting
  <2>2. /\ cpc[c] = "notify" /\ cpc' = [cpc EXCEPT ![c] = "idle"]
        /\ UNCHANGED <<state, stopped, in_shutdown, outcome, promised>>
    BY <1>7 DEF NotifyWorker
  <2>3. \A d \in Clients : cpc'[d] = cpc[d] \/ (d = c /\ cpc'[d] = "idle")
    BY <2>2
  <2> QED BY <2>1, <2>2, <2>3
<1>8. ASSUME NEW c \in Controllers, WaitForAllTask(c) PROVE NoneLeftBehind'
  BY <1>8 DEF WaitForAllTask
<1>9. ASSUME NEW c \in Controllers, WaitForRunningTask(c) PROVE NoneLeftBehind'
  BY <1>9 DEF WaitForRunningTask
<1>10. ASSUME NEW c \in Controllers, Shutdown(c) PROVE NoneLeftBehind'
  <2>1. PICK opt \in Options : cpc' = [cpc EXCEPT ![c] = FirstPhase[opt]]
    BY <1>10 DEF Shutdown
  <2>2. /\ state = "RUNNING" /\ state' = "SHUTING_DOWN"
        /\ promised' = {t \in Tasks : Accepted(t)}
        /\ UNCHANGED <<stopped, wpc, outcome>>
    BY <1>10 DEF Shutdown
  <2>3. \A t \in promised' : outcome'[t] \in InPool
    BY <2>2 DEF Accepted
  <2> QED BY <2>2, <2>3
<1>11. ASSUME NEW c \in Controllers, Stop(c) PROVE NoneLeftBehind'
  BY <1>11 DEF Stop
<1>12. ASSUME NEW c \in Controllers, Pause(c) PROVE NoneLeftBehind'
  BY <1>12 DEF Pause
<1>13. ASSUME NEW c \in Controllers, Resume(c) PROVE NoneLeftBehind'
  BY <1>13 DEF Resume
<1>14. ASSUME NEW c \in Controllers, SetQueueFullPolicy(c) PROVE NoneLeftBehind'
  BY <1>14 DEF SetQueueFullPolicy
<1>15. ASSUME NEW c \in Controllers, AwaitNoPending(c) PROVE NoneLeftBehind'
  <2>1. /\ cpc[c] = "waitAll"
        /\ cpc' = [cpc EXCEPT ![c] = cpc'[c]]
        /\ cpc'[c] \in {"stop", "idle", "waitCv"}
        /\ cpc'[c] = "stop" => c \in in_shutdown
        /\ UNCHANGED <<state, stopped, wpc, in_shutdown, outcome, promised>>
    BY <1>15 DEF AwaitNoPending
  <2>2. state = "FORCE_SHUTING" => c \notin in_shutdown
    BY <2>1
  <2> QED BY <2>1, <2>2
<1>16. ASSUME NEW c \in Controllers, ReadRunning(c) PROVE NoneLeftBehind'
  BY <1>16 DEF ReadRunning
<1>17. ASSUME NEW c \in Controllers, ReadPending(c) PROVE NoneLeftBehind'
  <2>1. /\ cpc[c] = "readPending"
        /\ cpc' = [cpc EXCEPT ![c] = cpc'[c]]
        /\ cpc'[c] \in {"stop", "idle", "busy"}
        /\ cpc'[c] = "stop" => c \in in_shutdown
        /\ UNCHANGED <<state, stopped, wpc, in_shutdown, outcome, promised>>
    BY <1>17 DEF ReadPending
  <2>2. state = "FORCE_SHUTING" => c \notin in_shutdown
    BY <2>1
  <2> QED BY <2>1, <2>2
<1>18. ASSUME NEW c \in Controllers, PollAgain(c) PROVE NoneLeftBehind'
  BY <1>18 DEF PollAgain
<1>19. ASSUME NEW c \in Controllers, TimeOut(c) PROVE NoneLeftBehind'
  BY <1>19 DEF TimeOut
<1>20. ASSUME NEW c \in Controllers, ForceStop(c) PROVE NoneLeftBehind'
  BY <1>20 DEF ForceStop
<1>21. ASSUME NEW c \in Controllers, BeginDrain(c) PROVE NoneLeftBehind'
  BY <1>21 DEF BeginDrain
<1>22. ASSUME NEW c \in Controllers, Abandon(c) PROVE NoneLeftBehind'
  BY <1>22 DEF Abandon
<1>23. ASSUME NEW c \in Controllers, EndDrain(c) PROVE NoneLeftBehind'
  <2>1. PromisedQueued = {}
    BY <1>23, EmptyQueueHoldsNothing DEF EndDrain
  <2>2. /\ cpc[c] = "drain" /\ cpc' = [cpc EXCEPT ![c] = "stop"]
        /\ UNCHANGED <<state, stopped, wpc, in_shutdown, outcome, promised>>
    BY <1>23 DEF EndDrain
  <2> QED BY <2>1, <2>2
<1>24. ASSUME NEW c \in Controllers, SetStopped(c) PROVE NoneLeftBehind'
  BY <1>24 DEF SetStopped
<1>25. ASSUME NEW c \in Controllers, JoinWorkers(c) PROVE NoneLeftBehind'
  <2>1. /\ cpc[c] = "join" /\ c \in in_shutdown
        /\ state' = "STOPPED"
        /\ \A w \in Workers : wpc[w] = "exited"
        /\ UNCHANGED <<stopped, wpc, outcome, promised>>
    BY <1>25 DEF JoinWorkers
  <2>2. PromisedQueued = {}
    <3>1. \E w \in Workers : wpc[w] = "exited"
      BY <2>1
    <3>2. state \in {"SHUTING_DOWN", "FORCE_SHUTING", "STOPPED"}
      BY <2>1 DEF State
    <3> QED BY <2>1, <3>1, <3>2
  <2> QED BY <2>1, <2>2
<1>26. ASSUME NEW c \in Controllers, JoinFails(c) PROVE NoneLeftBehind'
  BY <1>26 DEF JoinFails
<1>27. ASSUME NEW c \in Controllers, WakeWaiterSpuriously(c) PROVE NoneLeftBehind'
  BY <1>27 DEF WakeWaiterSpuriously
<1>28. ASSUME NEW w \in Workers, TestPaused(w) PROVE NoneLeftBehind'
  BY <1>28 DEF TestPaused
<1>29. ASSUME NEW w \in Workers, LeavePause(w) PROVE NoneLeftBehind'
  BY <1>29 DEF LeavePause
<1>30. ASSUME NEW w \in Workers, AwaitTask(w) PROVE NoneLeftBehind'
  <2>1. /\ wpc[w] = "lock"
        /\ UNCHANGED <<state, stopped, cpc, in_shutdown, outcome, promised>>
    BY <1>30 DEF AwaitTask
  <2>2. CASE wpc' = [wpc EXCEPT ![w] = "exited"]
    <3>1. state = "FORCE_SHUTING" \/ (stopped /\ task_queue = <<>>)
      BY <1>30, <2>2 DEF AwaitTask
    <3>2. state = "SHUTING_DOWN" => PromisedQueued = {}
      BY <3>1, EmptyQueueHoldsNothing
    <3>3. state # "RUNNING"
      BY <3>1
    <3>4. state # "STOPPED"
      BY <2>1
    <3> QED BY <2>1, <2>2, <3>2, <3>3, <3>4
  <2>3. CASE \E s \in {"waiting", "dequeue"} : wpc' = [wpc EXCEPT ![w] = s]
    BY <2>1, <2>3
  <2> QED BY <1>30, <2>2, <2>3 DEF AwaitTask
<1>31. ASSUME NEW w \in Workers, Dequeue(w) PROVE NoneLeftBehind'
  BY <1>31 DEF Dequeue
<1>32. ASSUME NEW w \in Workers, Execute(w) PROVE NoneLeftBehind'
  BY <1>32 DEF Execute
<1>33. ASSUME NEW w \in Workers, Record(w) PROVE NoneLeftBehind'
  BY <1>33 DEF Record
<1>34. ASSUME NEW w \in Workers, Finish(w) PROVE NoneLeftBehind'
  <2>1. /\ wpc[w] = "finish" /\ wpc' = [wpc EXCEPT ![w] = "top"]
        /\ UNCHANGED <<state, stopped, in_shutdown, outcome, promised>>
    BY <1>34 DEF Finish
  <2>2. \A d \in Clients :
          \/ cpc'[d] = cpc[d]
          \/ cpc[d] = "waitCv" /\ cpc'[d] = "waitAll"
    BY <1>34 DEF Finish
  <2> QED BY <2>1, <2>2
<1>35. ASSUME NEW w \in Workers, WakeSpuriously(w) PROVE NoneLeftBehind'
  BY <1>35 DEF WakeSpuriously
<1>36. CASE UNCHANGED vars
  BY <1>36 DEF vars
<1> QED
  BY <1>1, <1>2, <1>3, <1>4, <1>5, <1>6, <1>7, <1>8, <1>9, <1>10,
     <1>11, <1>12, <1>13, <1>14, <1>15, <1>16, <1>17, <1>18, <1>19, <1>20,
     <1>21, <1>22, <1>23, <1>24, <1>25, <1>26, <1>27, <1>28, <1>29, <1>30,
     <1>31, <1>32, <1>33, <1>34, <1>35, <1>36
  DEF Next, SubmitStep, ControlStep, Call, WorkerLoop

-----------------------------------------------------------------------------
\* A step that drops no promised task, lets no submit in once the pool is
\* shutting down, and does not begin or end the time before.
LEMMA LateKept ==
  ASSUME LateInv, TypeOK, UNCHANGED historyVars,
         state \in {"RUNNING", "PAUSED"} <=> state' \in {"RUNNING", "PAUSED"},
         state \notin {"RUNNING", "PAUSED"} =>
           /\ \A t \in promised :
                outcome'[t] = "overwritten" <=> outcome[t] = "overwritten"
           /\ MayOverwrite' \subseteq MayOverwrite
  PROVE  LateInv'
<1>1. CASE state \in {"RUNNING", "PAUSED"}
  <2>1. promised' = {} /\ PromisedDropped' = {}
    BY <1>1 DEF LateInv, PromisedDropped
  <2> QED BY <1>1, <2>1, FS_EmptySet DEF LateInv
<1>2. CASE state \notin {"RUNNING", "PAUSED"}
  <2>1. PromisedDropped' = PromisedDropped
    BY <1>2 DEF PromisedDropped
  <2>2. /\ Cardinality(MayOverwrite') <= Cardinality(MayOverwrite)
        /\ Cardinality(MayOverwrite') \in Nat
        /\ Cardinality(MayOverwrite) \in Nat
    BY <1>2, MayOverwriteFinite, FS_Subset, FS_CardinalityType
  <2>3. /\ IsFiniteSet(PromisedDropped)
        /\ Cardinality(PromisedDropped) \in Nat
    BY FS_CardinalityType DEF LateInv
  <2>4. Cardinality(PromisedDropped) + Cardinality(MayOverwrite) <= late
    BY <1>2 DEF LateInv
  <2>5. late \in Nat /\ late' = late
    BY DEF TypeOK
  <2>6. Cardinality(PromisedDropped') + Cardinality(MayOverwrite') <= late'
    BY <2>1, <2>2, <2>3, <2>4, <2>5
  <2> QED BY <1>2, <2>1, <2>3, <2>6 DEF LateInv
<1> QED BY <1>1, <1>2

\* A push under OVERWRITE drops one task at most, and is then done.
LEMMA OverwriteKeepsLate ==
  ASSUME LateInv, IInv, NoneLeftBehind, NEW c \in Submitters, EnqueueOverwrite(c)
  PROVE  LateInv'
<1> DEFINE x == IF Capacity = 0 THEN arg[c] ELSE Head(task_queue)
<1>1. /\ cpc[c] = "OVERWRITE" /\ c \in Clients
      /\ cpc' = [cpc EXCEPT ![c] = "count"]
      /\ cpc \in [Clients -> ClientStep]
      /\ UNCHANGED <<state, promised, late>>
  BY DEF EnqueueOverwrite, Push, ClientGoes, Clients, IInv, TypeOK
<1>2. /\ promised \subseteq Tasks
      /\ outcome[arg[c]] = "submitting"
      /\ \A t \in promised : outcome[t] # "submitting"
  BY <1>1 DEF IInv, TypeOK, Placed, SubmitsOwnTask, PrePush, QueueFullPolicy,
    NoneLeftBehind, InPool, Final
<1>3. \A t \in promised : t # x => outcome'[t] = outcome[t]
  BY <1>2 DEF EnqueueOverwrite, Push
<1>4. CASE state \in {"RUNNING", "PAUSED"}
  BY <1>1, <1>4, LateKept DEF IInv
<1>5. CASE state \notin {"RUNNING", "PAUSED"}
  <2> DEFINE S == PromisedDropped
             T == PromisedDropped'
             M == MayOverwrite
             N == MayOverwrite'
  <2>1. \A y : y # x => (y \in S <=> y \in T)
    BY <1>1, <1>3 DEF PromisedDropped
  <2>2. IsFiniteSet(S)
    BY DEF LateInv
  <2> HIDE DEF x, S, T
  <2>3. /\ IsFiniteSet(T) /\ Cardinality(S) \in Nat /\ Cardinality(T) \in Nat
        /\ Cardinality(T) = Cardinality(S) + One(x \in T) - One(x \in S)
    BY <2>1, <2>2, CountMoves
  <2>4. Cardinality(T) <= Cardinality(S) + 1
    <3>1. One(x \in T) \in {0, 1} /\ One(x \in S) \in {0, 1}
      BY DEF One
    <3> QED BY <2>3, <3>1
  <2>5. c \in M /\ N = M \ {c}
    BY <1>1 DEF MayOverwrite
  <2>6. Cardinality(N) = Cardinality(M) - 1 /\ Cardinality(M) \in Nat
    <3> HIDE DEF M, N
    <3> QED BY <2>5, MayOverwriteFinite, FS_RemoveElement DEF M
  <2>7. Cardinality(S) + Cardinality(M) <= late
    BY <1>5 DEF LateInv, S
  <2>8. late \in Nat
    BY DEF IInv, TypeOK
  <2>9. Cardinality(N) \in Nat
    BY <2>5, <2>6, MayOverwriteFinite, FS_RemoveElement, FS_CardinalityType
  <2>10. Cardinality(T) + Cardinality(N) <= late
    <3> HIDE DEF M, N
    <3> QED BY <2>3, <2>4, <2>6, <2>7, <2>8, <2>9
  <2>11. /\ IsFiniteSet(PromisedDropped')
         /\ Cardinality(PromisedDropped') + Cardinality(MayOverwrite') <= late'
    BY <1>1, <2>3, <2>10 DEF T
  <2> QED BY <1>1, <1>5, <2>11 DEF LateInv
<1> QED BY <1>4, <1>5

\* No other step drops a promised task, and none lets a submit in after the
\* shutdown began.
LEMMA LateStep ==
  ASSUME "stop" \notin Controls, IInv, OneShutdown, NoneLeftBehind, LateInv,
         [Next]_vars
  PROVE  LateInv'
<1> USE DEF Clients, WorkerGoes, ClientGoes, Becomes, AfterWait, QueueFullPolicy,
      PrePush
<1>a. TypeOK /\ EveryTaskInOnePlace /\ SubmitsOwnTask
  BY DEF IInv, Placed
<1>b. /\ outcome \in [Tasks -> Outcome] /\ promised \subseteq Tasks
      /\ cpc \in [Clients -> ClientStep]
      /\ \A c \in Clients : cpc[c] \in PrePush => outcome[arg[c]] = "submitting"
      /\ \A w \in Workers : wpc[w] = "execute" => outcome[held[w]] = "running"
      /\ \A t \in promised : outcome[t] \notin {"unsubmitted", "submitting"}
  BY <1>a DEF TypeOK, SubmitsOwnTask, EveryTaskInOnePlace, NoneLeftBehind, InPool,
    Final, BusyStep
<1>c. task_queue # <<>> => outcome[Head(task_queue)] = "queued"
  BY <1>a, TailHolds DEF TypeOK, EveryTaskInOnePlace
<1>d. ASSUME UNCHANGED historyVars,
             state \in {"RUNNING", "PAUSED"} <=> state' \in {"RUNNING", "PAUSED"},
             state \notin {"RUNNING", "PAUSED"} =>
               /\ \A t \in promised :
                    outcome'[t] = "overwritten" <=> outcome[t] = "overwritten"
               /\ \A d \in Clients : cpc'[d] \in {"loadPolicy", "OVERWRITE"} =>
                                      cpc[d] \in {"loadPolicy", "OVERWRITE"}
      PROVE  LateInv'
  BY <1>a, <1>d, LateKept DEF MayOverwrite
<1>1. ASSUME NEW c \in Submitters, NEW t \in Tasks, Submit(c, t) PROVE LateInv'
  BY <1>1, <1>b, <1>d DEF Submit
<1>2. ASSUME NEW c \in Submitters, SubmitStep(c) PROVE LateInv'
  <2>1. CASE LoadPolicy(c)
    BY <2>1, <1>b, <1>d DEF LoadPolicy
  <2>2. CASE EnqueueBlocking(c)
    BY <2>2, <1>b, <1>d, PoolAssumption DEF EnqueueBlocking, Push, IsFull, TypeOK
  <2>3. CASE EnqueueOverwrite(c)
    BY <2>3, OverwriteKeepsLate
  <2>4. CASE EnqueueDiscard(c)
    BY <2>4, <1>b, <1>d DEF EnqueueDiscard, Push
  <2>5. CASE CountPending(c)
    BY <2>5, <1>b, <1>d DEF CountPending
  <2>6. CASE NotifyWorker(c)
    BY <2>6, <1>b, <1>d DEF NotifyWorker
  <2> QED BY <1>2, <2>1, <2>2, <2>3, <2>4, <2>5, <2>6 DEF SubmitStep
<1>3. ASSUME NEW c \in Controllers, Shutdown(c) PROVE LateInv'
  <2>1. /\ state' = "SHUTING_DOWN" /\ outcome' = outcome
        /\ promised' = {t \in Tasks : Accepted(t)}
        /\ late' = Cardinality(MayOverwrite)
    BY <1>3 DEF Shutdown
  <2>2. PromisedDropped' = {}
    BY <2>1 DEF PromisedDropped, Accepted, InPool
  <2>3. cpc[c] = "idle" /\ \E o \in Options : cpc' = [cpc EXCEPT ![c] = FirstPhase[o]]
    BY <1>3 DEF Shutdown
  <2>4. \A o \in Options : FirstPhase[o] \in {"waitAll", "readRunning", "force"}
    BY PoolAssumption DEF FirstPhase, ShutdownOption
  <2>5. MayOverwrite' = MayOverwrite
    BY <1>b, <2>3, <2>4 DEF MayOverwrite
  <2>6. Cardinality(PromisedDropped') = 0 /\ IsFiniteSet(PromisedDropped')
    BY <2>2, FS_EmptySet
  <2>7. Cardinality(PromisedDropped') + Cardinality(MayOverwrite') <= late'
    BY <2>1, <2>5, <2>6, MayOverwriteFinite
  <2> QED BY <2>1, <2>6, <2>7 DEF LateInv
<1>4. ASSUME NEW c \in Controllers, Call(c) PROVE LateInv'
  BY <1>3, <1>4, <1>b, <1>d DEF Call, WaitForAllTask, WaitForRunningTask, Stop,
    Pause, Resume, SetQueueFullPolicy
<1>5. ASSUME NEW c \in Controllers, JoinWorkers(c) PROVE LateInv'
  <2>1. state \notin {"RUNNING", "PAUSED"}
    BY <1>5 DEF JoinWorkers, OneShutdown
  <2> QED BY <1>5, <2>1, <1>b, <1>d DEF JoinWorkers
<1>6. ASSUME NEW c \in Controllers, ForceStop(c) PROVE LateInv'
  <2>1. state \notin {"RUNNING", "PAUSED"}
    BY <1>6 DEF ForceStop, OneShutdown
  <2> QED BY <1>6, <2>1, <1>b, <1>d DEF ForceStop
<1>7. ASSUME NEW c \in Controllers, ControlStep(c) PROVE LateInv'
  BY <1>5, <1>6, <1>7, <1>b, <1>c, <1>d DEF ControlStep, AwaitNoPending, ReadRunning,
    ReadPending, PollAgain, BeginDrain, Abandon, EndDrain, SetStopped
<1>8. ASSUME NEW c \in Controllers,
             TimeOut(c) \/ JoinFails(c) \/ WakeWaiterSpuriously(c)
      PROVE  LateInv'
  BY <1>8, <1>b, <1>d DEF TimeOut, JoinFails, WakeWaiterSpuriously
<1>9. ASSUME NEW w \in Workers, WorkerLoop(w) PROVE LateInv'
  BY <1>9, <1>b, <1>c, <1>d DEF WorkerLoop, TestPaused, LeavePause, AwaitTask,
    Dequeue, Execute, Record, Finish
<1>10. ASSUME NEW w \in Workers, WakeSpuriously(w) PROVE LateInv'
  BY <1>10, <1>b, <1>d DEF WakeSpuriously
<1>11. CASE UNCHANGED vars
  BY <1>11, <1>d DEF vars
<1> QED BY <1>1, <1>2, <1>4, <1>7, <1>8, <1>9, <1>10, <1>11 DEF Next

-----------------------------------------------------------------------------
(***************************************************************************)
(* The theorems                                                            *)
(***************************************************************************)

\* Every variable keeps its type: the counters stay values of std::size_t and
\* the queue holds tasks only.
THEOREM Typing == Spec => []TypeOK
<1>1. IInv => TypeOK
  BY DEF IInv
<1> QED BY Invariance, <1>1, PTL

\* A worker never waits inside dequeue while it holds queue_mutex_ (workerLoop).
THEOREM NoBlockedDequeue == Spec => []DequeueNeverBlocks
<1>1. IInv => DequeueNeverBlocks
  BY DEF IInv, Placed
<1> QED BY Invariance, <1>1, PTL

\* No task is run twice, run and drained, or lost on its way from the queue to
\* a worker, however submits, workers and a shutdown interleave.
THEOREM OnePlace == Spec => []EveryTaskInOnePlace
<1>1. IInv => EveryTaskInOnePlace
  BY DEF IInv, Placed
<1> QED BY Invariance, <1>1, PTL

\* A settled task is never settled again: execute or abandon set its promise
\* at most once.
THEOREM SettlesOnce == Spec => SettledOnce
<1>1. ASSUME IInv, [Next]_vars
      PROVE  [\A t \in Tasks : outcome[t] \in Final => outcome'[t] = outcome[t]]_vars
  <2> SUFFICES ASSUME NEW x \in Tasks, outcome[x] \in Final
               PROVE  outcome'[x] = outcome[x]
    OBVIOUS
  <2> USE DEF Clients, Final, Becomes, QueueFullPolicy, PrePush
  <2>a. TypeOK /\ EveryTaskInOnePlace /\ SubmitsOwnTask
    BY <1>1 DEF IInv, Placed
  <2>b. /\ outcome \in [Tasks -> Outcome]
        /\ \A c \in Clients : cpc[c] \in PrePush => x # arg[c]
        /\ \A w \in Workers : wpc[w] = "execute" => x # held[w]
    BY <2>a DEF TypeOK, SubmitsOwnTask, EveryTaskInOnePlace
  <2>c. task_queue # <<>> => x # Head(task_queue)
    BY <2>a, TailHolds DEF TypeOK, EveryTaskInOnePlace
  <2>d. ASSUME NEW c \in Clients, cpc[c] \in QueueFullPolicy, Push(c)
        PROVE  outcome'[x] = outcome[x]
    <3>1. IsFull(task_queue, Capacity) => task_queue # <<>>
      BY PoolAssumption, <2>a DEF IsFull, TypeOK
    <3> QED BY <2>b, <2>c, <2>d, <3>1 DEF Push
  <2>1. ASSUME NEW c \in Submitters, NEW t \in Tasks, Submit(c, t)
        PROVE  outcome'[x] = outcome[x]
    BY <2>1, <2>b DEF Submit
  <2>2. ASSUME NEW c \in Submitters, SubmitStep(c) PROVE outcome'[x] = outcome[x]
    BY <2>2, <2>b, <2>d DEF SubmitStep, LoadPolicy, EnqueueBlocking,
      EnqueueOverwrite, EnqueueDiscard, CountPending, NotifyWorker
  <2>3. ASSUME NEW c \in Controllers, Call(c) PROVE outcome'[x] = outcome[x]
    BY <2>3 DEF Call, WaitForAllTask, WaitForRunningTask, Shutdown, Stop,
      Pause, Resume, SetQueueFullPolicy
  <2>4. ASSUME NEW c \in Controllers, ControlStep(c) PROVE outcome'[x] = outcome[x]
    BY <2>4, <2>b, <2>c DEF ControlStep, AwaitNoPending, ReadRunning, ReadPending,
      PollAgain, ForceStop, BeginDrain, Abandon, EndDrain, SetStopped, JoinWorkers
  <2>5. ASSUME NEW c \in Controllers,
               TimeOut(c) \/ JoinFails(c) \/ WakeWaiterSpuriously(c)
        PROVE  outcome'[x] = outcome[x]
    BY <2>5 DEF TimeOut, JoinFails, WakeWaiterSpuriously
  <2>6. ASSUME NEW w \in Workers, WorkerLoop(w) PROVE outcome'[x] = outcome[x]
    BY <2>6, <2>b, <2>c DEF WorkerLoop, TestPaused, LeavePause, AwaitTask,
      Dequeue, Execute, Record, Finish
  <2>7. ASSUME NEW w \in Workers, WakeSpuriously(w) PROVE outcome'[x] = outcome[x]
    BY <2>7 DEF WakeSpuriously
  <2>8. CASE UNCHANGED vars
    BY <2>8 DEF vars
  <2> QED BY <1>1, <2>1, <2>2, <2>3, <2>4, <2>5, <2>6, <2>7, <2>8 DEF Next
<1> QED BY Invariance, <1>1, PTL DEF SettledOnce, Spec

\* The first test of shutdown lets one call through, so that no two threads
\* join the workers, as long as stop is not called directly.
THEOREM JoinsAlone == ASSUME "stop" \notin Controls PROVE Spec => []OneThreadJoins
<1>1. Init => OneShutdown
  BY DEF Init, OneShutdown
<1>2. TypeOK /\ OneShutdown /\ [Next]_vars => OneShutdown'
  BY OneShutdownStep
<1>3. OneShutdown => OneThreadJoins
  <2> DEFINE J == {c \in Clients : cpc[c] \in {"stop", "join"}}
  <2> SUFFICES ASSUME OneShutdown PROVE Cardinality(J) <= 1
    BY DEF OneThreadJoins
  <2>1. \A c, d \in J : c = d
    BY DEF OneShutdown
  <2>2. CASE J = {}
    BY <2>2, FS_EmptySet
  <2>3. CASE J # {}
    <3>1. PICK c \in J : J = {c}
      BY <2>1, <2>3
    <3>2. Cardinality({c}) = 1
      BY FS_Singleton
    <3> QED BY <3>1, <3>2
  <2> QED BY <2>2, <2>3
<1> QED BY Typing, <1>1, <1>2, <1>3, PTL DEF Spec

\* A shutdown keeps its word: once the pool is STOPPED, each task whose submit
\* had returned when shutdown began has run to its end or was abandoned, but for
\* at most one task per submit that the shutdown overtook on its way to a push
\* under OVERWRITE, as long as the pool is neither paused nor stopped directly.
\* A paused worker returns without a look at the queue, so that pauses must be
\* left out.
THEOREM SettlesPromised ==
  ASSUME "stop" \notin Controls, "pause" \notin Controls
  PROVE  Spec => []ShutdownSettlesPromised
<1> DEFINE Inv == OneShutdown /\ NoneLeftBehind /\ LateInv
<1>1. Init => Inv
  <2> SUFFICES ASSUME Init PROVE Inv
    OBVIOUS
  <2>1. OneShutdown /\ NoneLeftBehind
    BY DEF Init, OneShutdown, NoneLeftBehind
  <2>2. PromisedDropped = {}
    BY DEF Init, PromisedDropped
  <2> QED BY <2>1, <2>2, FS_EmptySet DEF Init, LateInv
<1>2. IInv /\ Inv /\ [Next]_vars => Inv'
  BY OneShutdownStep, NoneLeftBehindStep, LateStep DEF IInv
<1>3. IInv /\ Inv => ShutdownSettlesPromised
  <2> SUFFICES ASSUME IInv, Inv, state = "STOPPED"
               PROVE  /\ \A t \in promised \ PromisedDropped :
                           /\ outcome[t] \in {"succeeded", "failed", "abandoned"}
                           /\ \A w \in Workers : held[w] # t
                      /\ Cardinality(PromisedDropped) <= late
    BY DEF ShutdownSettlesPromised
  <2>1. \A w \in Workers : wpc[w] = "exited"
    BY DEF NoneLeftBehind
  <2>2. ASSUME NEW t \in promised \ PromisedDropped
        PROVE  /\ outcome[t] \in {"succeeded", "failed", "abandoned"}
               /\ \A w \in Workers : held[w] # t
    <3>1. t \in Tasks /\ t # NoTask /\ outcome[t] # "overwritten"
      BY PoolAssumption DEF IInv, TypeOK, PromisedDropped
    <3>2. \A w \in Workers : held[w] # t
      BY <2>1, <3>1 DEF IInv, Placed, EveryTaskInOnePlace, BusyStep
    <3>3. outcome[t] # "running"
      BY <2>1, <3>1 DEF IInv, Placed, EveryTaskInOnePlace
    <3>4. outcome[t] # "queued"
      BY DEF NoneLeftBehind, PromisedQueued
    <3> QED BY <3>1, <3>2, <3>3, <3>4 DEF NoneLeftBehind, InPool, Final
  <2>3. /\ Cardinality(PromisedDropped) + Cardinality(MayOverwrite) <= late
        /\ IsFiniteSet(PromisedDropped) /\ late \in Nat
    BY DEF LateInv, IInv, TypeOK
  <2>4. Cardinality(PromisedDropped) <= late
    BY <2>3, MayOverwriteFinite, FS_CardinalityType
  <2> QED BY <2>2, <2>4
<1> QED BY Invariance, <1>1, <1>2, <1>3, PTL DEF Spec

=============================================================================

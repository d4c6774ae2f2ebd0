----------------------------- MODULE ThreadPool -----------------------------
(***************************************************************************)
(* The task path of threadpool::ThreadPool (src/thread_pool.cpp): client   *)
(* threads submit tasks, wait for them and pause, resume or shut the pool  *)
(* down, while a fixed set of workers runs workerLoop.                     *)
(*                                                                         *)
(* Every section that runs under queue_mutex_ and that no other thread can *)
(* look into is one action, enabled while the mutex is free; the two       *)
(* sections that other threads do look into (a worker between its checks   *)
(* and its dequeue, the drain loop of forceStop) hold queue_mutex over     *)
(* several actions.  The atomics state_, stopped_, pending_tasks_ and      *)
(* running_tasks_ are read and written in the order of the source.         *)
(* Operations of task_queue_ lock their own mutex: each is atomic, and     *)
(* blocking is a guard (module MPMCBlockingQueue has its wake-ups).        *)
(***************************************************************************)
EXTENDS Fifo, FiniteSets

CONSTANTS
  Capacity,     \* max_queue_size
  Workers,      \* the worker threads
  Submitters,   \* client threads that call submit
  Controllers,  \* client threads that call the other operations
  Controls,     \* the operations controllers call
  Options,      \* the ShutdownOptions passed to shutdown
  Policies,     \* the QueueFullPolicies the program uses
  Tasks,        \* the tasks, each submitted at most once
  NoTask,       \* an empty unique_ptr<TaskBase>
  NoThread,     \* queue_mutex_ is free
  SizeMod       \* number of values of std::size_t

Clients == Submitters \cup Controllers
Threads == Workers \cup Clients

ControlCalls == {"waitForAllTask", "waitForRunningTask", "stop", "shutdown",
                 "pause", "resume", "setQueueFullPolicy"}
ShutdownOption == {"WAIT_ALL", "FORCE", "WAIT_FOR"}
QueueFullPolicy == {"BLOCKING", "OVERWRITE", "DISCARD"}
State == {"RUNNING", "PAUSED", "SHUTING_DOWN", "FORCE_SHUTING", "STOPPED"}

ASSUME PoolAssumption ==
  /\ Capacity \in Nat
  /\ Workers # {}
  /\ Workers \cap Clients = {}
  /\ NoThread \notin Threads
  /\ NoTask \notin Tasks
  /\ Controls \subseteq ControlCalls
  /\ Options \subseteq ShutdownOption
  /\ Policies \subseteq QueueFullPolicy
  /\ Policies # {}
  /\ SizeMod \in Nat \ {0, 1}

\* A program has finitely many threads.
ASSUME FiniteThreads == IsFiniteSet(Threads)

\* What became of a task: the last five are final.
Outcome == {"unsubmitted", "submitting", "queued", "running",
            "succeeded", "failed", "abandoned", "overwritten", "refused"}
Final == {"succeeded", "failed", "abandoned", "overwritten", "refused"}
InPool == {"queued", "running"}

WorkerStep == {"top", "paused", "lock", "waiting", "dequeue", "execute",
               "record", "finish", "exited"}
ClientStep == {"idle", "loadPolicy", "count", "notify", "waitAll", "waitCv",
               "readRunning", "readPending", "busy", "force", "lockDrain",
               "drain", "stop", "join"} \cup QueueFullPolicy

VARIABLES
  state,            \* state_
  stopped,          \* stopped_
  queue_policy,     \* queue_policy_
  task_queue,       \* task_queue_
  queue_mutex,      \* the thread holding queue_mutex_ over several actions
  pending_tasks,    \* pending_tasks_
  running_tasks,    \* running_tasks_ (active_threads_ moves with it)
  tasks_succeeded,  \* status_.tasks_succeeded
  tasks_failed,     \* status_.tasks_failed
  wpc,              \* where each worker is in workerLoop
  held,             \* the task a worker took
  cpc,              \* where each client is
  arg,              \* the task a client is submitting
  in_shutdown,      \* clients whose call is shutdown
  outcome,          \* what became of each task
  promised,         \* history: tasks accepted when shutdown took effect
  late              \* history: the submits that could then still drop a task

modeVars == <<state, stopped, queue_policy>>
queueVars == <<task_queue, queue_mutex>>
statusVars == <<tasks_succeeded, tasks_failed>>
counterVars == <<pending_tasks, running_tasks, statusVars>>
workerVars == <<wpc, held>>
clientVars == <<cpc, arg, in_shutdown>>
historyVars == <<promised, late>>
taskVars == <<outcome, historyVars>>
vars == <<modeVars, queueVars, counterVars, workerVars, clientVars, taskVars>>

-----------------------------------------------------------------------------
Init ==
  /\ state = "RUNNING"
  /\ stopped = FALSE
  /\ queue_policy \in Policies
  /\ task_queue = <<>>
  /\ queue_mutex = NoThread
  /\ pending_tasks = 0
  /\ running_tasks = 0
  /\ tasks_succeeded = 0
  /\ tasks_failed = 0
  /\ wpc = [w \in Workers |-> "top"]
  /\ held = [w \in Workers |-> NoTask]
  /\ cpc = [c \in Clients |-> "idle"]
  /\ arg = [c \in Clients |-> NoTask]
  /\ in_shutdown = {}
  /\ outcome = [t \in Tasks |-> "unsubmitted"]
  /\ promised = {}
  /\ late = 0

\* size_t arithmetic of the counters.  (A definition with an underscore in its
\* name, here and below, is a mutant: a plausible slip in the definition that
\* follows it, which no specification uses.  See README.md.)
Inc(n) == (n + 1) % SizeMod
Dec_Signed(n) == n - 1
Dec(n) == (n + SizeMod - 1) % SizeMod

WorkerGoes(w, step) == wpc' = [wpc EXCEPT ![w] = step]
ClientGoes(c, step) == cpc' = [cpc EXCEPT ![c] = step]
Becomes(t, o) == outcome' = [outcome EXCEPT ![t] = o]

\* Steps that only move a thread on
WorkerMoves(w, step) ==
  /\ WorkerGoes(w, step)
  /\ UNCHANGED <<modeVars, queueVars, counterVars, held, clientVars, taskVars>>

ClientMoves(c, step) ==
  /\ ClientGoes(c, step)
  /\ UNCHANGED <<modeVars, queueVars, counterVars, workerVars, arg,
                 in_shutdown, taskVars>>

\* The waits of shutdown go on to its next phase, the others return.
AfterWait(c, step) == IF c \in in_shutdown THEN step ELSE "idle"

\* A task whose submit returned true (or stored it and is done with it).
Accepted(t) == outcome[t] \in InPool /\ \A c \in Clients : arg[c] # t

\* The submits that may yet drop a task: past the test of isRunning(), they have
\* still to load the policy, or to push under OVERWRITE.
MayOverwrite == {c \in Clients : cpc[c] \in {"loadPolicy", "OVERWRITE"}}

Waiting == {w \in Workers : wpc[w] = "waiting"}

-----------------------------------------------------------------------------
(***************************************************************************)
(* submit                                                                  *)
(***************************************************************************)

\* isRunning() is tested once, before anything else; otherwise submit throws.
Submit(c, t) ==
  /\ cpc[c] = "idle"
  /\ outcome[t] = "unsubmitted"
  /\ IF state = "RUNNING"
     THEN /\ ClientGoes(c, "loadPolicy")
          /\ arg' = [arg EXCEPT ![c] = t]
          /\ Becomes(t, "submitting")
     ELSE /\ Becomes(t, "refused")
          /\ UNCHANGED <<cpc, arg>>
  /\ UNCHANGED <<modeVars, queueVars, counterVars, workerVars, in_shutdown,
                 historyVars>>

LoadPolicy(c) ==
  /\ cpc[c] = "loadPolicy"
  /\ ClientMoves(c, queue_policy)

\* The push common to the three policies.  Overflow costs the oldest task; a
\* queue without room keeps nothing, and the new task dies with its pointer.
Push(c) ==
  LET lost == IF Capacity = 0 THEN {arg[c]}
              ELSE IF IsFull(task_queue, Capacity) THEN {Head(task_queue)} ELSE {}
  IN /\ task_queue' = PushBack(task_queue, arg[c], Capacity)
     /\ outcome' = [t \in Tasks |-> IF t \in lost THEN "overwritten"
                                    ELSE IF t = arg[c] THEN "queued"
                                    ELSE outcome[t]]
     /\ ClientGoes(c, "count")
     /\ UNCHANGED arg

\* enqueue: blocks while the queue is full
EnqueueBlocking(c) ==
  /\ cpc[c] = "BLOCKING"
  /\ ~IsFull(task_queue, Capacity)
  /\ Push(c)
  /\ UNCHANGED <<modeVars, queue_mutex, counterVars, workerVars, in_shutdown,
                 historyVars>>

\* enqueueNoWait
EnqueueOverwrite(c) ==
  /\ cpc[c] = "OVERWRITE"
  /\ Push(c)
  /\ UNCHANGED <<modeVars, queue_mutex, counterVars, workerVars, in_shutdown,
                 historyVars>>

\* enqueueIfNotFull: a full queue makes submit return false
EnqueueDiscard(c) ==
  /\ cpc[c] = "DISCARD"
  /\ IF IsFull(task_queue, Capacity)
     THEN /\ Becomes(arg[c], "refused")
          /\ ClientGoes(c, "idle")
          /\ arg' = [arg EXCEPT ![c] = NoTask]
          /\ UNCHANGED task_queue
     ELSE Push(c)
  /\ UNCHANGED <<modeVars, queue_mutex, counterVars, workerVars, in_shutdown,
                 historyVars>>

\* The task is counted only after it can be taken.
CountPending(c) ==
  /\ cpc[c] = "count"
  /\ pending_tasks' = Inc(pending_tasks)
  /\ ClientGoes(c, "notify")
  /\ UNCHANGED <<modeVars, queueVars, running_tasks, statusVars, workerVars,
                 arg, in_shutdown, taskVars>>

\* Notifying only the first task of a batch
NotifyWorker_FirstOnly(c) ==
  /\ cpc[c] = "notify"
  /\ queue_mutex = NoThread
  /\ IF Waiting = {} \/ Len(task_queue) # 1 THEN UNCHANGED wpc
     ELSE \E w \in Waiting : WorkerGoes(w, "lock")
  /\ ClientGoes(c, "idle")
  /\ arg' = [arg EXCEPT ![c] = NoTask]
  /\ UNCHANGED <<modeVars, queueVars, counterVars, held, in_shutdown,
                 taskVars>>

\* queue_cv_.notify_one() under queue_mutex_
NotifyWorker(c) ==
  /\ cpc[c] = "notify"
  /\ queue_mutex = NoThread
  /\ IF Waiting = {} THEN UNCHANGED wpc
     ELSE \E w \in Waiting : WorkerGoes(w, "lock")
  /\ ClientGoes(c, "idle")
  /\ arg' = [arg EXCEPT ![c] = NoTask]
  /\ UNCHANGED <<modeVars, queueVars, counterVars, held, in_shutdown,
                 taskVars>>

-----------------------------------------------------------------------------
(***************************************************************************)
(* workerLoop                                                              *)
(***************************************************************************)

TestPaused(w) ==
  /\ wpc[w] = "top"
  /\ WorkerMoves(w, IF state = "PAUSED" THEN "paused" ELSE "lock")

\* A worker that nothing but the end of the pool gets out of the pause
LeavePause_Deaf(w) ==
  /\ wpc[w] = "paused"
  /\ stopped
  /\ WorkerMoves(w, "exited")

\* The polling loop ends when the pool is no longer paused or is stopped, and
\* a worker that finds it stopped returns without a look at the queue.
LeavePause(w) ==
  /\ wpc[w] = "paused"
  /\ state # "PAUSED" \/ stopped
  /\ WorkerMoves(w, IF stopped THEN "exited" ELSE "lock")

\* Letting go of queue_mutex_ before the dequeue
AwaitTask_Unlocked(w) ==
  /\ wpc[w] = "lock"
  /\ queue_mutex = NoThread
  /\ WorkerMoves(w, IF ~stopped /\ task_queue = <<>> THEN "waiting"
                   ELSE IF state = "FORCE_SHUTING" \/ task_queue = <<>>
                        THEN "exited" ELSE "dequeue")

\* Exiting as soon as the pool is stopped, whatever is in the queue
AwaitTask_StopsAtOnce(w) ==
  /\ wpc[w] = "lock"
  /\ queue_mutex = NoThread
  /\ IF stopped THEN WorkerGoes(w, "exited") /\ UNCHANGED queue_mutex
     ELSE IF task_queue = <<>>
     THEN WorkerGoes(w, "waiting") /\ UNCHANGED queue_mutex
     ELSE WorkerGoes(w, "dequeue") /\ queue_mutex' = w
  /\ UNCHANGED <<modeVars, task_queue, counterVars, held, clientVars,
                 taskVars>>

\* queue_cv_.wait and the tests after it
AwaitTask(w) ==
  /\ wpc[w] = "lock"
  /\ queue_mutex = NoThread
  /\ IF ~stopped /\ task_queue = <<>>
     THEN WorkerGoes(w, "waiting") /\ UNCHANGED queue_mutex
     ELSE IF state = "FORCE_SHUTING" \/ (stopped /\ task_queue = <<>>)
     THEN WorkerGoes(w, "exited") /\ UNCHANGED queue_mutex
     ELSE WorkerGoes(w, "dequeue") /\ queue_mutex' = w
  /\ UNCHANGED <<modeVars, task_queue, counterVars, held, clientVars,
                 taskVars>>

\* Taking the front without popFront
Dequeue_KeepsFront(w) ==
  /\ wpc[w] = "dequeue"
  /\ task_queue # <<>>
  /\ held' = [held EXCEPT ![w] = Head(task_queue)]
  /\ Becomes(Head(task_queue), "running")
  /\ running_tasks' = Inc(running_tasks)
  /\ queue_mutex' = NoThread
  /\ WorkerGoes(w, "execute")
  /\ UNCHANGED <<modeVars, task_queue, pending_tasks, statusVars, clientVars,
                 historyVars>>

\* task_queue_.dequeue would block on an empty queue, with queue_mutex_ held.
Dequeue(w) ==
  /\ wpc[w] = "dequeue"
  /\ task_queue # <<>>
  /\ held' = [held EXCEPT ![w] = Head(task_queue)]
  /\ Becomes(Head(task_queue), "running")
  /\ task_queue' = Tail(task_queue)
  /\ running_tasks' = Inc(running_tasks)
  /\ queue_mutex' = NoThread
  /\ WorkerGoes(w, "execute")
  /\ UNCHANGED <<modeVars, pending_tasks, statusVars, clientVars, historyVars>>

\* execute() settles the future before the pool knows that the task ended.
Execute(w) ==
  /\ wpc[w] = "execute"
  /\ \E o \in {"succeeded", "failed"} : Becomes(held[w], o)
  /\ WorkerGoes(w, "record")
  /\ UNCHANGED <<modeVars, queueVars, counterVars, held, clientVars, historyVars>>

Record(w) ==
  /\ wpc[w] = "record"
  /\ IF outcome[held[w]] = "succeeded"
     THEN tasks_succeeded' = tasks_succeeded + 1 /\ UNCHANGED tasks_failed
     ELSE tasks_failed' = tasks_failed + 1 /\ UNCHANGED tasks_succeeded
  /\ WorkerGoes(w, "finish")
  /\ UNCHANGED <<modeVars, queueVars, pending_tasks, running_tasks, held,
                 clientVars, taskVars>>

\* Leaving out the notification
Finish_Silent(w) ==
  /\ wpc[w] = "finish"
  /\ queue_mutex = NoThread
  /\ pending_tasks' = Dec(pending_tasks)
  /\ running_tasks' = Dec(running_tasks)
  /\ held' = [held EXCEPT ![w] = NoTask]
  /\ WorkerGoes(w, "top")
  /\ UNCHANGED <<modeVars, queueVars, statusVars, clientVars, taskVars>>

\* The counters and wait_cv_.notify_all(), under queue_mutex_
Finish(w) ==
  /\ wpc[w] = "finish"
  /\ queue_mutex = NoThread
  /\ pending_tasks' = Dec(pending_tasks)
  /\ running_tasks' = Dec(running_tasks)
  /\ held' = [held EXCEPT ![w] = NoTask]
  /\ cpc' = [c \in Clients |-> IF cpc[c] = "waitCv" THEN "waitAll" ELSE cpc[c]]
  /\ WorkerGoes(w, "top")
  /\ UNCHANGED <<modeVars, queueVars, statusVars, arg, in_shutdown, taskVars>>

\* Condition variables may wake their waiters without a notification.
WakeSpuriously(w) ==
  /\ wpc[w] = "waiting"
  /\ WorkerMoves(w, "lock")

-----------------------------------------------------------------------------
(***************************************************************************)
(* waitForAllTask and waitForRunningTask                                   *)
(***************************************************************************)

WaitForAllTask(c) ==
  /\ "waitForAllTask" \in Controls
  /\ cpc[c] = "idle"
  /\ ClientMoves(c, "waitAll")

\* wait_cv_.wait: the predicate is tested with queue_mutex_ held.
AwaitNoPending(c) ==
  /\ cpc[c] = "waitAll"
  /\ queue_mutex = NoThread
  /\ ClientMoves(c, IF pending_tasks = 0 THEN AfterWait(c, "stop") ELSE "waitCv")

WakeWaiterSpuriously(c) ==
  /\ cpc[c] = "waitCv"
  /\ ClientMoves(c, "waitAll")

WaitForRunningTask(c) ==
  /\ "waitForRunningTask" \in Controls
  /\ cpc[c] = "idle"
  /\ ClientMoves(c, "readRunning")

\* Taking "no task runs" for "no task is left"
ReadRunning_Only(c) ==
  /\ cpc[c] = "readRunning"
  /\ ClientMoves(c, IF running_tasks = 0 THEN AfterWait(c, "stop") ELSE "busy")

\* The two counters are read one after the other, without a lock.
ReadRunning(c) ==
  /\ cpc[c] = "readRunning"
  /\ ClientMoves(c, IF running_tasks = 0 THEN "readPending" ELSE "busy")

ReadPending(c) ==
  /\ cpc[c] = "readPending"
  /\ ClientMoves(c, IF pending_tasks = 0 THEN AfterWait(c, "stop") ELSE "busy")

\* Not idle: poll again after a sleep, or give up once wait_time has passed.
PollAgain(c) ==
  /\ cpc[c] = "busy"
  /\ ClientMoves(c, "readRunning")

TimeOut(c) ==
  /\ cpc[c] = "busy"
  /\ ClientMoves(c, AfterWait(c, "force"))

-----------------------------------------------------------------------------
(***************************************************************************)
(* shutdown, forceStop and stop                                            *)
(***************************************************************************)

FirstPhase == [WAIT_ALL |-> "waitAll", WAIT_FOR |-> "readRunning",
               FORCE |-> "force"]

\* Testing only for a pool that has already stopped
Shutdown_Reentered(c) ==
  /\ "shutdown" \in Controls
  /\ cpc[c] = "idle"
  /\ state # "STOPPED"
  /\ state' = "SHUTING_DOWN"
  /\ \E opt \in Options : ClientGoes(c, FirstPhase[opt])
  /\ in_shutdown' = in_shutdown \cup {c}
  /\ promised' = {t \in Tasks : Accepted(t)}
  /\ late' = Cardinality(MayOverwrite)
  /\ UNCHANGED <<stopped, queue_policy, queueVars, counterVars, workerVars,
                 arg, outcome>>

\* Any other state makes shutdown return at once, so only one call gets here.
Shutdown(c) ==
  /\ "shutdown" \in Controls
  /\ cpc[c] = "idle"
  /\ state \in {"RUNNING", "PAUSED"}
  /\ state' = "SHUTING_DOWN"
  /\ \E opt \in Options : ClientGoes(c, FirstPhase[opt])
  /\ in_shutdown' = in_shutdown \cup {c}
  /\ promised' = {t \in Tasks : Accepted(t)}
  /\ late' = Cardinality(MayOverwrite)
  /\ UNCHANGED <<stopped, queue_policy, queueVars, counterVars, workerVars,
                 arg, outcome>>

ForceStop(c) ==
  /\ cpc[c] = "force"
  /\ IF state \in {"FORCE_SHUTING", "STOPPED"}
     THEN /\ ClientGoes(c, "idle")
          /\ in_shutdown' = in_shutdown \ {c}
          /\ UNCHANGED state
     ELSE /\ state' = "FORCE_SHUTING"
          /\ ClientGoes(c, "lockDrain")
          /\ UNCHANGED in_shutdown
  /\ UNCHANGED <<stopped, queue_policy, queueVars, counterVars, workerVars,
                 arg, taskVars>>

BeginDrain(c) ==
  /\ cpc[c] = "lockDrain"
  /\ queue_mutex = NoThread
  /\ queue_mutex' = c
  /\ ClientGoes(c, "drain")
  /\ UNCHANGED <<modeVars, task_queue, counterVars, workerVars, arg,
                 in_shutdown, taskVars>>

\* Draining without the counters
Abandon_Uncounted(c) ==
  /\ cpc[c] = "drain"
  /\ task_queue # <<>>
  /\ task_queue' = Tail(task_queue)
  /\ Becomes(Head(task_queue), "abandoned")
  /\ UNCHANGED <<modeVars, queue_mutex, counterVars, workerVars, clientVars,
                 historyVars>>

\* One turn of the loop; a blocked submit may refill the queue between turns.
Abandon(c) ==
  /\ cpc[c] = "drain"
  /\ task_queue # <<>>
  /\ task_queue' = Tail(task_queue)
  /\ Becomes(Head(task_queue), "abandoned")
  /\ pending_tasks' = Dec(pending_tasks)
  /\ tasks_failed' = tasks_failed + 1
  /\ UNCHANGED <<modeVars, queue_mutex, running_tasks, tasks_succeeded,
                 workerVars, clientVars, historyVars>>

EndDrain(c) ==
  /\ cpc[c] = "drain"
  /\ task_queue = <<>>
  /\ queue_mutex' = NoThread
  /\ ClientGoes(c, "stop")
  /\ UNCHANGED <<modeVars, task_queue, counterVars, workerVars, arg,
                 in_shutdown, taskVars>>

\* stop is public too: called alone it leaves state_ as it is until the end.
Stop(c) ==
  /\ "stop" \in Controls
  /\ cpc[c] = "idle"
  /\ ClientMoves(c, "stop")

\* notify_one where every worker must hear
SetStopped_NotifyOne(c) ==
  /\ cpc[c] = "stop"
  /\ queue_mutex = NoThread
  /\ stopped' = TRUE
  /\ IF Waiting = {} THEN UNCHANGED wpc
     ELSE \E w \in Waiting : WorkerGoes(w, "lock")
  /\ ClientGoes(c, "join")
  /\ UNCHANGED <<state, queue_policy, queueVars, counterVars, held, arg,
                 in_shutdown, taskVars>>

\* stopped_ and queue_cv_.notify_all(), under queue_mutex_
SetStopped(c) ==
  /\ cpc[c] = "stop"
  /\ queue_mutex = NoThread
  /\ stopped' = TRUE
  /\ wpc' = [w \in Workers |-> IF wpc[w] = "waiting" THEN "lock" ELSE wpc[w]]
  /\ ClientGoes(c, "join")
  /\ UNCHANGED <<state, queue_policy, queueVars, counterVars, held, arg,
                 in_shutdown, taskVars>>

Joining == {c \in Clients : cpc[c] = "join"}

JoinWorkers(c) ==
  /\ cpc[c] = "join"
  /\ \A w \in Workers : wpc[w] = "exited"
  /\ state' = "STOPPED"
  /\ ClientGoes(c, "idle")
  /\ in_shutdown' = in_shutdown \ {c}
  /\ UNCHANGED <<stopped, queue_policy, queueVars, counterVars, workerVars,
                 arg, taskVars>>

\* Two threads that join one std::thread: undefined, and with glibc the later
\* one gets EINVAL, a std::system_error that leaves stop before its last step.
JoinFails(c) ==
  /\ cpc[c] = "join"
  /\ Joining # {c}
  /\ ClientGoes(c, "idle")
  /\ in_shutdown' = in_shutdown \ {c}
  /\ UNCHANGED <<modeVars, queueVars, counterVars, workerVars, arg, taskVars>>

-----------------------------------------------------------------------------
(***************************************************************************)
(* pause, resume and setQueueFullPolicy                                    *)
(***************************************************************************)

Pause(c) ==
  /\ "pause" \in Controls
  /\ cpc[c] = "idle"
  /\ state = "RUNNING"
  /\ state' = "PAUSED"
  /\ UNCHANGED <<stopped, queue_policy, queueVars, counterVars, workerVars,
                 clientVars, taskVars>>

\* Resuming whatever the state
Resume_Unguarded(c) ==
  /\ "resume" \in Controls
  /\ cpc[c] = "idle"
  /\ state' = "RUNNING"
  /\ UNCHANGED <<stopped, queue_policy, queueVars, counterVars, workerVars,
                 clientVars, taskVars>>

Resume(c) ==
  /\ "resume" \in Controls
  /\ cpc[c] = "idle"
  /\ state = "PAUSED"
  /\ state' = "RUNNING"
  /\ UNCHANGED <<stopped, queue_policy, queueVars, counterVars, workerVars,
                 clientVars, taskVars>>

SetQueueFullPolicy(c) ==
  /\ "setQueueFullPolicy" \in Controls
  /\ cpc[c] = "idle"
  /\ \E p \in Policies : queue_policy' = p
  /\ UNCHANGED <<state, stopped, queueVars, counterVars, workerVars,
                 clientVars, taskVars>>

-----------------------------------------------------------------------------
\* The steps a call takes once it has begun, but for its timeout.
SubmitStep(c) ==
  \/ LoadPolicy(c)
  \/ EnqueueBlocking(c) \/ EnqueueOverwrite(c) \/ EnqueueDiscard(c)
  \/ CountPending(c) \/ NotifyWorker(c)

ControlStep(c) ==
  \/ AwaitNoPending(c)
  \/ ReadRunning(c) \/ ReadPending(c) \/ PollAgain(c)
  \/ ForceStop(c) \/ BeginDrain(c) \/ Abandon(c) \/ EndDrain(c)
  \/ SetStopped(c) \/ JoinWorkers(c)

Call(c) ==
  \/ WaitForAllTask(c) \/ WaitForRunningTask(c)
  \/ Shutdown(c) \/ Stop(c)
  \/ Pause(c) \/ Resume(c) \/ SetQueueFullPolicy(c)

WorkerLoop(w) ==
  \/ TestPaused(w) \/ LeavePause(w)
  \/ AwaitTask(w) \/ Dequeue(w)
  \/ Execute(w) \/ Record(w) \/ Finish(w)

Next ==
  \/ \E c \in Submitters : (\E t \in Tasks : Submit(c, t)) \/ SubmitStep(c)
  \/ \E c \in Controllers :
       \/ Call(c) \/ ControlStep(c)
       \/ TimeOut(c) \/ JoinFails(c) \/ WakeWaiterSpuriously(c)
  \/ \E w \in Workers : WorkerLoop(w) \/ WakeSpuriously(w)

Spec == Init /\ [][Next]_vars

(***************************************************************************)
(* Every thread that can run does run, tasks end, and the clock of a       *)
(* waitForRunningTask moves on however often it polls (TimeOut is          *)
(* disabled while the counters are read, hence SF).  Nothing makes a       *)
(* client start a call, and no waiter counts on a spurious wake-up.        *)
(***************************************************************************)
Fairness ==
  /\ \A w \in Workers : WF_vars(WorkerLoop(w))
  /\ \A c \in Submitters : WF_vars(SubmitStep(c))
  /\ \A c \in Controllers : WF_vars(ControlStep(c)) /\ SF_vars(TimeOut(c))

FairSpec == Spec /\ Fairness

-----------------------------------------------------------------------------
(***************************************************************************)
(* Safety                                                                  *)
(***************************************************************************)

BusyStep == {"execute", "record", "finish"}

\* The types of the variables (workerLoop, submit, shutdown and the counters).
TypeOK ==
  /\ state \in State
  /\ stopped \in BOOLEAN
  /\ queue_policy \in Policies
  /\ task_queue \in Seq(Tasks)
  /\ queue_mutex \in Threads \cup {NoThread}
  /\ pending_tasks \in 0 .. SizeMod - 1
  /\ running_tasks \in 0 .. SizeMod - 1
  /\ tasks_succeeded \in Nat
  /\ tasks_failed \in Nat
  /\ wpc \in [Workers -> WorkerStep]
  /\ held \in [Workers -> Tasks \cup {NoTask}]
  /\ cpc \in [Clients -> ClientStep]
  /\ arg \in [Clients -> Tasks \cup {NoTask}]
  /\ in_shutdown \subseteq Clients
  /\ outcome \in [Tasks -> Outcome]
  /\ promised \subseteq Tasks
  /\ late \in Nat

\* queue_mutex_ is held over several steps exactly by a worker on its way to
\* dequeue or by a forceStop that drains, so one thread at a time.
MutexHeld ==
  /\ \A w \in Workers : wpc[w] = "dequeue" <=> queue_mutex = w
  /\ \A c \in Clients : cpc[c] = "drain" <=> queue_mutex = c

\* A worker calls the blocking dequeue with queue_mutex_ held: were the queue
\* empty then, that worker, every other one and the threads that notify would
\* be stuck.  What its tests saw still holds when it gets there.
DequeueNeverBlocks ==
  \A w \in Workers : wpc[w] = "dequeue" => task_queue # <<>>

\* A task is in one place: stored once in the queue and only while it is
\* queued, or with the one worker that runs it.  No task is run twice, lost on
\* its way from the queue to a worker, or both drained and run.
EveryTaskInOnePlace ==
  /\ \A t \in Tasks : outcome[t] = "queued" <=> Holds(task_queue, t)
  /\ Distinct(task_queue)
  /\ \A w \in Workers : held[w] # NoTask <=> wpc[w] \in BusyStep
  /\ \A v, w \in Workers : held[v] = held[w] /\ held[v] # NoTask => v = w
  /\ \A t \in Tasks :
       outcome[t] = "running" <=>
         \E w \in Workers : wpc[w] = "execute" /\ held[w] = t

\* pending_tasks_ counts the tasks in the queue and with a worker, but for
\* those not counted yet (it may wrap below zero on their account) and with
\* those an OVERWRITE threw away, which nothing takes out of the count.
\* running_tasks_ counts the workers that have a task.
CountersMatch ==
  LET Busy == {w \in Workers : wpc[w] \in BusyStep}
      Dropped == {t \in Tasks : outcome[t] = "overwritten"}
      Uncounted == {c \in Clients : cpc[c] = "count"}
  IN /\ pending_tasks =
          (Len(task_queue) + Cardinality(Busy) + Cardinality(Dropped)
             - Cardinality(Uncounted)) % SizeMod
     /\ running_tasks = Cardinality(Busy) % SizeMod

\* No lost wake-up: while a worker sleeps on queue_cv_, each queued task has a
\* submit that is yet to notify or a worker that is yet to look at the queue
\* (a worker it cannot count on, asleep or executing, does not pay for it).
WakeupOwed ==
  Waiting # {} /\ state \notin {"FORCE_SHUTING", "STOPPED"} =>
    Len(task_queue) <=
      Cardinality({c \in Clients : cpc[c] \in {"count", "notify"}})
      + Cardinality({w \in Workers :
                       wpc[w] \in {"top", "paused", "lock", "dequeue"}})

\* At most one thread joins the workers, whichever way the calls of shutdown
\* overlap: two joins of one std::thread are undefined.
OneThreadJoins == Cardinality({c \in Clients : cpc[c] \in {"stop", "join"}}) <= 1

\* A shutdown that left the pool STOPPED has settled every task whose submit
\* had returned when it began: it was run to its end, or abandoned by forceStop,
\* and no worker has it.  The exception are tasks that the overflow of a full
\* queue dropped, as OVERWRITE does at any time: after the shutdown began they
\* are no more than the submits it overtook between their test of isRunning()
\* and their push, for nobody is admitted any more and each drops one task.
PromisedDropped == {t \in promised : outcome[t] = "overwritten"}
ShutdownSettlesPromised ==
  state = "STOPPED" =>
    /\ \A t \in promised \ PromisedDropped :
         /\ outcome[t] \in {"succeeded", "failed", "abandoned"}
         /\ \A w \in Workers : held[w] # t
    /\ Cardinality(PromisedDropped) <= late

\* At every step the statistics agree with what became of the tasks: a task is in
\* them from the moment its worker has recorded it, or the drain has.
StatsMatch ==
  LET Recorded(o) == {t \in Tasks :
        outcome[t] = o /\ \A w \in Workers : held[w] = t => wpc[w] = "finish"}
  IN /\ tasks_succeeded = Cardinality(Recorded("succeeded"))
     /\ tasks_failed = Cardinality(Recorded("failed"))
                       + Cardinality(Recorded("abandoned"))

\* A pool that was shut down by force has thrown away every task (the option
\* FORCE of shutdown), so that none is left in the queue.
ForceDiscardsAll == state = "STOPPED" => task_queue = <<>>

-----------------------------------------------------------------------------
(***************************************************************************)
(* The inductive invariant behind the safety properties above              *)
(***************************************************************************)

\* Until it has pushed it, a submit has its task to itself.
PrePush == {"loadPolicy"} \cup QueueFullPolicy
SubmitsOwnTask ==
  /\ \A c \in Clients : cpc[c] \in PrePush =>
       arg[c] \in Tasks /\ outcome[arg[c]] = "submitting"
  /\ \A c, d \in Clients :
       cpc[c] \in PrePush /\ cpc[d] \in PrePush /\ arg[c] = arg[d] => c = d

\* A worker that has executed its task has settled it.
HeldTaskSettled ==
  \A w \in Workers : wpc[w] \in {"record", "finish"} =>
    outcome[held[w]] \in {"succeeded", "failed"}

Placed ==
  /\ Len(task_queue) <= Capacity
  /\ MutexHeld
  /\ DequeueNeverBlocks
  /\ EveryTaskInOnePlace
  /\ SubmitsOwnTask
  /\ HeldTaskSettled

IInv == TypeOK /\ Placed

\* Without direct calls of stop: one shutdown gets past its first test, and
\* the steps of forceStop and stop are its own.
OneShutdown ==
  /\ state \in {"RUNNING", "PAUSED"} => in_shutdown = {}
  /\ \A c, d \in in_shutdown : c = d
  /\ \A c \in Clients :
       cpc[c] \in {"force", "lockDrain", "drain", "stop", "join"} =>
         c \in in_shutdown

\* Without pauses either: workers exit only once no promised task is queued,
\* unless forceStop has still to drain the queue.
PromisedQueued == {t \in promised : outcome[t] = "queued"}
NoneLeftBehind ==
  /\ state # "PAUSED"
  /\ \A w \in Workers : wpc[w] # "paused"
  /\ \A t \in promised : outcome[t] \in InPool \cup (Final \ {"refused"})
  /\ state = "RUNNING" => ~stopped /\ \A w \in Workers : wpc[w] # "exited"
  /\ state = "SHUTING_DOWN" /\ (\E w \in Workers : wpc[w] = "exited") =>
       PromisedQueued = {}
  /\ state = "FORCE_SHUTING" =>
       /\ \A c \in in_shutdown : cpc[c] \in {"lockDrain", "drain", "stop", "join"}
       /\ (\E c \in Clients : cpc[c] \in {"stop", "join"}) => PromisedQueued = {}
  /\ state = "STOPPED" =>
       PromisedQueued = {} /\ \A w \in Workers : wpc[w] = "exited"

\* No task is promised before a shutdown.  From then on each submit that may
\* drop a task does so once at most, and no other comes after it.
LateInv ==
  /\ IsFiniteSet(PromisedDropped)
  /\ IF state \in {"RUNNING", "PAUSED"} THEN promised = {}
     ELSE Cardinality(PromisedDropped) + Cardinality(MayOverwrite) <= late

-----------------------------------------------------------------------------
(***************************************************************************)
(* What a step may never do                                                *)
(***************************************************************************)

\* A task that was settled is never settled again: its promise is set once,
\* by execute or by abandon.
SettledOnce ==
  [][\A t \in Tasks : outcome[t] \in Final => outcome'[t] = outcome[t]]_vars

Rank == [RUNNING |-> 0, PAUSED |-> 0, SHUTING_DOWN |-> 1, FORCE_SHUTING |-> 2,
         STOPPED |-> 3]

\* The state only moves on: a pool that is shutting down never runs again.
StatesMoveOn == [][Rank[state] <= Rank[state']]_vars

\* When waitForAllTask, or a waitForRunningTask that found the pool idle,
\* ends, none of the tasks submitted before is queued or running.
WaitMeansDone ==
  [][\A c \in Clients :
       (/\ cpc[c] \in {"waitAll", "readRunning", "readPending"}
        /\ cpc'[c] \in {"idle", "stop"})
         => \A t \in Tasks : ~Accepted(t)]_vars

-----------------------------------------------------------------------------
(***************************************************************************)
(* Progress, under FairSpec                                                *)
(***************************************************************************)

\* A queued task leaves the queue, unless the pool stops running.
QueuedTaskRuns ==
  \A t \in Tasks : outcome[t] = "queued" ~>
                     outcome[t] # "queued" \/ state # "RUNNING"

\* shutdown returns.
ShutdownReturns ==
  \A c \in Controllers : c \in in_shutdown ~> c \notin in_shutdown

\* waitForAllTask returns, unless the pool is paused (the number of tasks is
\* finite, so no stream of submits starves it).
WaitReturns(c) == cpc[c] = "waitAll" ~>
                    cpc[c] \notin {"waitAll", "waitCv"} \/ state = "PAUSED"
WaitForAllTaskReturns == \A c \in Controllers : WaitReturns(c)

\* A submit that waits for room gets its task in while the pool runs.
BlockedSubmitEnters ==
  \A c \in Submitters : cpc[c] = "BLOCKING" ~>
                          cpc[c] # "BLOCKING" \/ state # "RUNNING"

=============================================================================

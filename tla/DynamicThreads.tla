--------------------------- MODULE DynamicThreads ---------------------------
(***************************************************************************)
(* Dynamic thread management of threadpool::ThreadPool: the constructor,   *)
(* the load balancer, loadCheck from outside, and stop, over the vector    *)
(* workers_ and the exit flags of its slots (src/thread_pool.cpp).         *)
(*                                                                         *)
(* The task path is the one of module ThreadPool, reduced to the number of *)
(* queued tasks, to the policy BLOCKING and to one submitter step per      *)
(* point where a worker may come first.  A section under queue_mutex_ or   *)
(* state_mutex_ is one action; worker_access_mutex_ is held over several.  *)
(* Time is not kept: whether a worker has been idle for long enough is a   *)
(* free choice of each check, as is the moment at which a wait of shutdown *)
(* gives up.                                                               *)
(***************************************************************************)
EXTENDS Config, FiniteSets, FiniteSetsExt

CONSTANTS
  config,       \* config_
  Submitters,   \* client threads that call submit
  Controllers,  \* client threads that call the other operations
  Controls,     \* the operations controllers call
  Builder,      \* the controller that constructs the pool
  Balancer,     \* load_balancer_
  NoThread      \* worker_access_mutex_ is free

Callers == Submitters \cup Controllers \cup {Balancer}
core_threads == config.core_threads
max_threads == config.max_threads

\* A pool whose balancer filled max_threads slots before the constructor got
\* to its own would have this many.
Slots == 0 .. core_threads + max_threads - 1

ControlCalls == {"loadCheck", "stop", "shutdown", "pause", "resume"}
State == {"RUNNING", "PAUSED", "SHUTING_DOWN", "FORCE_SHUTING", "STOPPED"}

ASSUME ThreadsAssumption ==
  /\ {core_threads, max_threads, config.max_queue_size, config.task_limit,
      config.consecutive_idle_count} \subseteq Size
  /\ {config.expand_factor, config.remove_factor, config.avg_task_threshold} \subseteq Int
  /\ config.enable_dynamic_thread \in BOOLEAN
  /\ validateConfigBasic(config)
  /\ Builder \in Controllers
  /\ Balancer \notin Submitters \cup Controllers
  /\ Submitters \cap Controllers = {}
  /\ NoThread \notin Callers
  /\ Controls \subseteq ControlCalls

\* "none": no std::thread object yet, or one that runs nothing; "exited":
\* workerLoop has returned, nobody has joined; "joined": not joinable again.
WorkerStep == {"none", "top", "state", "paused", "lock", "waiting", "busy",
               "exited", "joined"}
CheckStep == {"lockCheck", "create", "reap", "start", "enter", "emplace",
              "remove", "mark"}
BalancerStep == {"loop", "pauseTest", "asleep", "sleep", "lockClean", "clean",
                 "exited"} \cup CheckStep
ClientStep == {"construct", "countCore", "idle", "push", "count", "notify",
               "waitAll", "waitCv", "readRunning", "readPending", "busy",
               "force", "drain", "stopBalancer", "stopWorkers", "joinBalancer",
               "joinWorkers"} \cup CheckStep

VARIABLES
  state,               \* state_
  stopped,             \* stopped_
  load_balancer_exit,  \* load_balancer_exit_
  queued,              \* task_queue_.size()
  size,                \* workers_.size()
  wpc,                 \* where the thread of each slot of workers_ is
  index,               \* the thread_index that thread was started with
  should_exit,         \* thread_should_exit_
  idle_count,          \* thread_idle_count_
  thread_count,        \* thread_count_
  worker_access,       \* who holds worker_access_mutex_
  pc,                  \* where each caller is
  slot,                \* thread_index or i in the section worker_access guards
  next,                \* loop variable of the constructor and of stop, per caller
  last                 \* workers_.end() as the loop of stop took it

stateVars == <<state, stopped, load_balancer_exit>>
slotVars == <<size, index, should_exit, idle_count>>
callVars == <<worker_access, slot, next, last>>
vars == <<stateVars, queued, slotVars, wpc, thread_count, callVars, pc>>

-----------------------------------------------------------------------------
\* The balancer is started before the workers, the flags before the balancer.
Init ==
  /\ state = "RUNNING"
  /\ stopped = FALSE
  /\ load_balancer_exit = FALSE
  /\ queued = 0
  /\ size = 0
  /\ wpc = [i \in Slots |-> "none"]
  /\ index = [i \in Slots |-> i]
  /\ should_exit = [i \in Slots |-> FALSE]
  /\ idle_count = [i \in Slots |-> 0]
  /\ thread_count = 0
  /\ worker_access = NoThread
  /\ pc = [b \in Callers |->
             IF b = Builder THEN "construct"
             ELSE IF b # Balancer THEN "idle"
             ELSE IF config.enable_dynamic_thread THEN "loop" ELSE "exited"]
  /\ slot = 0
  /\ next = [c \in Controllers |-> 0]
  /\ last = 0

Goes(b, step) == pc' = [pc EXCEPT ![b] = step]
WorkerGoes(i, step) == wpc' = [wpc EXCEPT ![i] = step]

Moves(b, step) ==
  /\ Goes(b, step)
  /\ UNCHANGED <<stateVars, queued, slotVars, wpc, thread_count, callVars>>

WorkerMoves(i, step) ==
  /\ WorkerGoes(i, step)
  /\ UNCHANGED <<stateVars, queued, slotVars, thread_count, callVars, pc>>

Built == pc[Builder] \notin {"construct", "countCore"}
Joinable(i) == wpc[i] \notin {"none", "joined"}

\* queue_cv_.notify_all() and pause_cv_'s notifications
WakeWorkers == [i \in Slots |-> IF wpc[i] = "waiting" THEN "lock" ELSE wpc[i]]
BalancerWoken(p) ==
  IF p[Balancer] = "asleep" THEN [p EXCEPT ![Balancer] = "pauseTest"] ELSE p

\* active_threads_, and pending_tasks_, which lags behind submit and is
\* then one below zero: a huge size_t
Active == Cardinality({i \in Slots : wpc[i] = "busy"})
Pending == queued + Active - Cardinality({s \in Submitters : pc[s] = "count"})
PendingExceeds(n) == Pending < 0 \/ Pending > n

-----------------------------------------------------------------------------
(***************************************************************************)
(* Constructor and submit                                                  *)
(***************************************************************************)

\* workers_.emplace_back of a thread that runs workerLoop(j)
Emplace(j) ==
  /\ WorkerGoes(size, "top")
  /\ index' = [index EXCEPT ![size] = j]
  /\ size' = size + 1

ConstructWorker(c) ==
  /\ pc[c] = "construct"
  /\ worker_access = NoThread
  /\ Emplace(next[c])
  /\ Goes(c, "countCore")
  /\ UNCHANGED <<stateVars, queued, should_exit, idle_count, thread_count, callVars>>

CountCoreWorker(c) ==
  LET done == next[c] + 1 = core_threads
  IN /\ pc[c] = "countCore"
     /\ thread_count' = thread_count + 1
     /\ next' = [next EXCEPT ![c] = IF done THEN 0 ELSE @ + 1]
     /\ Goes(c, IF done THEN "idle" ELSE "construct")
     /\ UNCHANGED <<stateVars, queued, slotVars, wpc, worker_access, slot, last>>

Submit(s) ==
  /\ pc[s] = "idle"
  /\ Built
  /\ state = "RUNNING"
  /\ Moves(s, "push")

Push(s) ==
  /\ pc[s] = "push"
  /\ queued < config.max_queue_size
  /\ queued' = queued + 1
  /\ Goes(s, "count")
  /\ UNCHANGED <<stateVars, slotVars, wpc, thread_count, callVars>>

CountPending(s) ==
  /\ pc[s] = "count"
  /\ Moves(s, "notify")

NotifyWorker(s) ==
  /\ pc[s] = "notify"
  /\ IF \E i \in Slots : wpc[i] = "waiting"
     THEN \E i \in Slots : wpc[i] = "waiting" /\ WorkerGoes(i, "lock")
     ELSE UNCHANGED wpc
  /\ Goes(s, "idle")
  /\ UNCHANGED <<stateVars, queued, slotVars, thread_count, callVars>>

-----------------------------------------------------------------------------
(***************************************************************************)
(* workerLoop, for the thread in slot i                                    *)
(***************************************************************************)

TestExit(i) ==
  /\ wpc[i] = "top"
  /\ WorkerMoves(i, IF should_exit[index[i]] THEN "exited" ELSE "state")

TestPaused(i) ==
  /\ wpc[i] = "state"
  /\ WorkerMoves(i, IF state = "PAUSED" THEN "paused" ELSE "lock")

\* The polling loop does not look at the exit flag.
LeavePause(i) ==
  /\ wpc[i] = "paused"
  /\ state # "PAUSED" \/ stopped
  /\ WorkerMoves(i, IF stopped THEN "exited" ELSE "lock")

\* queue_cv_.wait, the tests after it and dequeue.  A worker that is to exit
\* takes a task all the same if there is one, and goes round otherwise.
AwaitTask(i) ==
  /\ wpc[i] = "lock"
  /\ IF ~stopped /\ queued = 0 /\ ~should_exit[index[i]]
     THEN WorkerGoes(i, "waiting") /\ UNCHANGED <<queued, idle_count>>
     ELSE IF state = "FORCE_SHUTING" \/ (stopped /\ queued = 0)
     THEN WorkerGoes(i, "exited") /\ UNCHANGED <<queued, idle_count>>
     ELSE IF queued > 0
     THEN /\ queued' = queued - 1
          /\ idle_count' = [idle_count EXCEPT ![index[i]] = 0]
          /\ WorkerGoes(i, "busy")
     ELSE WorkerGoes(i, "top") /\ UNCHANGED <<queued, idle_count>>
  /\ UNCHANGED <<stateVars, size, index, should_exit, thread_count, callVars, pc>>

\* The end of a task wakes the waits on wait_cv_.
Finish(i) ==
  /\ wpc[i] = "busy"
  /\ WorkerGoes(i, "top")
  /\ pc' = [b \in Callers |-> IF pc[b] = "waitCv" THEN "waitAll" ELSE pc[b]]
  /\ UNCHANGED <<stateVars, queued, slotVars, thread_count, callVars>>

WakeSpuriously(i) ==
  /\ wpc[i] = "waiting"
  /\ WorkerMoves(i, "lock")

-----------------------------------------------------------------------------
(***************************************************************************)
(* loadCheck, called by the balancer or by a controller                    *)
(***************************************************************************)

\* Where the caller goes on after loadCheck
AfterCheck(b) == IF b = Balancer THEN "lockClean" ELSE "idle"

\* Returning lets go of worker_access_mutex_ and of the local variable.
Returns(b, step) ==
  /\ worker_access' = NoThread
  /\ slot' = 0
  /\ Goes(b, step)

LoadCheck(c) ==
  /\ "loadCheck" \in Controls
  /\ pc[c] = "idle"
  /\ Built
  /\ state = "RUNNING"
  /\ Moves(c, "lockCheck")

\* Taking a pool without threads for a loaded one
LoadReaches_NoThreads(percent) == Active * 100 >= percent * thread_count

\* calLoadFactor against a threshold in percent; no threads, no load
LoadReaches(percent) ==
  thread_count > 0 /\ Active * 100 >= percent * thread_count

\* Room for one thread more than there is
ShouldExpand_OneMore ==
  thread_count <= max_threads /\ LoadReaches(config.expand_factor)

ShouldExpand ==
  /\ thread_count < max_threads
  /\ \/ LoadReaches(config.expand_factor)
     \/ PendingExceeds(config.task_limit - 1)
     \/ thread_count > 0 /\ PendingExceeds(config.avg_task_threshold * thread_count)

\* The load is read in one step, and may be stale when it is acted on.
MeasureLoad(b) ==
  /\ pc[b] = "lockCheck"
  /\ worker_access = NoThread
  /\ IF ShouldExpand
     THEN Goes(b, "create") /\ worker_access' = b
     ELSE IF thread_count > core_threads /\ ~LoadReaches(config.remove_factor)
     THEN Goes(b, "remove") /\ worker_access' = b
     ELSE Goes(b, AfterCheck(b)) /\ UNCHANGED worker_access
  /\ UNCHANGED <<stateVars, queued, slotVars, wpc, thread_count, slot, next, last>>

\* tryCreateNewThread looks for the first flagged slot after the core ones;
\* with none it takes the next index, or core_threads while the constructor
\* has not yet got that far.
Refillable == {i \in core_threads .. size - 1 : i < max_threads /\ should_exit[i]}
ThreadIndex ==
  IF Refillable # {} THEN Min(Refillable)
  ELSE Max({core_threads, Min({size, max_threads})})

TryCreateNewThread(b) ==
  /\ pc[b] = "create"
  /\ IF stopped \/ ThreadIndex >= max_threads
     THEN Returns(b, AfterCheck(b))
     ELSE /\ slot' = ThreadIndex
          /\ Goes(b, IF ThreadIndex >= size THEN "emplace"
                     ELSE IF Joinable(ThreadIndex) THEN "reap" ELSE "start")
          /\ UNCHANGED worker_access
  /\ UNCHANGED <<stateVars, queued, slotVars, wpc, thread_count, next, last>>

\* join() returns once the thread has exited.
Join(i) ==
  /\ wpc[i] = "exited"
  /\ WorkerGoes(i, "joined")
  /\ thread_count' = thread_count - 1

\* Joining the old thread without taking it off the count
ReapOld_Uncounted(b) ==
  /\ pc[b] = "reap"
  /\ wpc[slot] = "exited"
  /\ WorkerGoes(slot, "joined")
  /\ Goes(b, "start")
  /\ UNCHANGED <<stateVars, queued, slotVars, thread_count, callVars>>

ReapOld(b) ==
  /\ pc[b] = "reap"
  /\ Join(slot)
  /\ Goes(b, "start")
  /\ UNCHANGED <<stateVars, queued, slotVars, callVars>>

\* The new thread runs while the flag of the slot is still set.
StartThread(b) ==
  /\ pc[b] = "start"
  /\ WorkerGoes(slot, "top")
  /\ index' = [index EXCEPT ![slot] = slot]
  /\ Goes(b, "enter")
  /\ UNCHANGED <<stateVars, queued, size, should_exit, idle_count, thread_count, callVars>>

\* Leaving the new thread the idle count of the old one
EnterThread_KeepsIdle(b) ==
  /\ pc[b] = "enter"
  /\ should_exit' = [should_exit EXCEPT ![slot] = FALSE]
  /\ thread_count' = thread_count + 1
  /\ Returns(b, AfterCheck(b))
  /\ UNCHANGED <<stateVars, queued, size, index, idle_count, wpc, next, last>>

EnterThread(b) ==
  /\ pc[b] = "enter"
  /\ idle_count' = [idle_count EXCEPT ![slot] = 0]
  /\ should_exit' = [should_exit EXCEPT ![slot] = FALSE]
  /\ thread_count' = thread_count + 1
  /\ Returns(b, AfterCheck(b))
  /\ UNCHANGED <<stateVars, queued, size, index, wpc, next, last>>

EmplaceThread(b) ==
  /\ pc[b] = "emplace"
  /\ Emplace(slot)
  /\ thread_count' = thread_count + 1
  /\ Returns(b, AfterCheck(b))
  /\ UNCHANGED <<stateVars, queued, should_exit, idle_count, next, last>>

\* std::thread cannot be started: the exception ends tryCreateNewThread.
CreateFails(b) ==
  /\ pc[b] \in {"start", "emplace"}
  /\ Returns(b, AfterCheck(b))
  /\ UNCHANGED <<stateVars, queued, slotVars, wpc, thread_count, next, last>>

\* Counting the core slots as removable
TryRemoveIdleThread_AnySlot(b) ==
  LET due == {i \in 0 .. size - 1 : ~should_exit[i]}
  IN /\ pc[b] = "remove"
     /\ IF thread_count <= core_threads \/ due = {}
        THEN Returns(b, AfterCheck(b))
        ELSE /\ slot' = Min(due)
             /\ Goes(b, "mark")
             /\ UNCHANGED worker_access
     /\ UNCHANGED <<stateVars, queued, slotVars, wpc, thread_count, next, last>>

\* tryRemoveIdleThread goes through the slots after the core ones and stops
\* at the first worker that was idle often enough.
TryRemoveIdleThread(b) ==
  LET open == {i \in core_threads .. size - 1 : ~should_exit[i]}
  IN /\ pc[b] = "remove"
     /\ IF thread_count <= core_threads
        THEN Returns(b, AfterCheck(b)) /\ UNCHANGED idle_count
        ELSE \E idle \in SUBSET open :
          LET counted(i) == idle_count[i] + (IF i \in idle THEN 1 ELSE 0)
              due == {i \in open : counted(i) >= config.consecutive_idle_count}
              seen == {i \in open : \A j \in due : i <= j}
          IN /\ idle_count' = [i \in Slots |-> IF i \in seen THEN counted(i)
                                               ELSE idle_count[i]]
             /\ IF due = {}
                THEN Returns(b, AfterCheck(b))
                ELSE /\ slot' = Min(due)
                     /\ Goes(b, "mark")
                     /\ UNCHANGED worker_access
     /\ UNCHANGED <<stateVars, queued, size, index, should_exit, wpc, thread_count,
                    next, last>>

\* Setting the flag without waking the worker
MarkThread_Silent(b) ==
  /\ pc[b] = "mark"
  /\ should_exit' = [should_exit EXCEPT ![slot] = TRUE]
  /\ Returns(b, AfterCheck(b))
  /\ UNCHANGED <<stateVars, queued, size, index, idle_count, wpc, thread_count,
                 next, last>>

MarkThread(b) ==
  /\ pc[b] = "mark"
  /\ should_exit' = [should_exit EXCEPT ![slot] = TRUE]
  /\ wpc' = WakeWorkers
  /\ Returns(b, AfterCheck(b))
  /\ UNCHANGED <<stateVars, queued, size, index, idle_count, thread_count, next, last>>

-----------------------------------------------------------------------------
(***************************************************************************)
(* loadBalancerLoop and cleanFinishedThread                                *)
(***************************************************************************)

BalancerLoop(b) ==
  /\ pc[b] = "loop"
  /\ Moves(b, IF load_balancer_exit THEN "exited" ELSE "pauseTest")

\* pause_cv_.wait under state_mutex_
AwaitResume(b) ==
  /\ pc[b] = "pauseTest"
  /\ Moves(b, IF state = "PAUSED" /\ ~load_balancer_exit THEN "asleep"
              ELSE IF state # "RUNNING" THEN "exited" ELSE "sleep")

\* The sleep is over; the first thing loadCheck does is test isRunning().
EndSleep(b) ==
  /\ pc[b] = "sleep"
  /\ Moves(b, IF load_balancer_exit THEN "exited"
              ELSE IF state = "RUNNING" THEN "lockCheck" ELSE "lockClean")

LockClean(b) ==
  /\ pc[b] = "lockClean"
  /\ worker_access = NoThread
  /\ worker_access' = b
  /\ Goes(b, "clean")
  /\ UNCHANGED <<stateVars, queued, slotVars, wpc, thread_count, slot, next, last>>

Finished == {i \in 0 .. size - 1 : should_exit[i] /\ Joinable(i)}

\* A join may take as long as the last task of the thread.
CleanFinishedThread(b) ==
  /\ pc[b] = "clean"
  /\ IF Finished = {}
     THEN Returns(b, "loop") /\ UNCHANGED <<wpc, thread_count>>
     ELSE Join(Min(Finished)) /\ UNCHANGED <<worker_access, slot, pc>>
  /\ UNCHANGED <<stateVars, queued, slotVars, next, last>>

-----------------------------------------------------------------------------
(***************************************************************************)
(* pause, resume, shutdown and stop                                        *)
(***************************************************************************)

Begins(c, call) == call \in Controls /\ pc[c] = "idle" /\ Built

\* Threads that stop a pool at once may join one std::thread twice, which is
\* undefined: programs here do not (module ThreadPool looks at it).
Stopping == {"waitAll", "waitCv", "readRunning", "readPending", "busy", "force",
             "drain", "stopBalancer", "stopWorkers", "joinBalancer", "joinWorkers"}
NobodyStops == \A c \in Controllers : pc[c] \notin Stopping

Pause(c) ==
  /\ Begins(c, "pause")
  /\ state = "RUNNING"
  /\ state' = "PAUSED"
  /\ UNCHANGED <<stopped, load_balancer_exit, queued, slotVars, wpc, thread_count,
                 callVars, pc>>

\* Leaving the balancer asleep
Resume_Silent(c) ==
  /\ Begins(c, "resume")
  /\ state = "PAUSED"
  /\ state' = "RUNNING"
  /\ UNCHANGED <<stopped, load_balancer_exit, queued, slotVars, wpc, thread_count,
                 callVars, pc>>

Resume(c) ==
  /\ Begins(c, "resume")
  /\ state = "PAUSED"
  /\ state' = "RUNNING"
  /\ pc' = BalancerWoken(pc)
  /\ UNCHANGED <<stopped, load_balancer_exit, queued, slotVars, wpc, thread_count,
                 callVars>>

\* The options WAIT_ALL, WAIT_FOR and FORCE
Shutdown(c) ==
  /\ Begins(c, "shutdown")
  /\ NobodyStops
  /\ state \in {"RUNNING", "PAUSED"}
  /\ state' = "SHUTING_DOWN"
  /\ \E step \in {"waitAll", "readRunning", "force"} : Goes(c, step)
  /\ UNCHANGED <<stopped, load_balancer_exit, queued, slotVars, wpc, thread_count,
                 callVars>>

\* waitForAllTask: a wait on wait_cv_
AwaitNoPending(c) ==
  /\ pc[c] = "waitAll"
  /\ Moves(c, IF Pending = 0 THEN "stopBalancer" ELSE "waitCv")

WakeWaiterSpuriously(c) ==
  /\ pc[c] = "waitCv"
  /\ Moves(c, "waitAll")

\* waitForRunningTask: two reads without a lock, again and again until a timeout
ReadRunning(c) ==
  /\ pc[c] = "readRunning"
  /\ Moves(c, IF Active = 0 THEN "readPending" ELSE "busy")

ReadPending(c) ==
  /\ pc[c] = "readPending"
  /\ Moves(c, IF Pending = 0 THEN "stopBalancer" ELSE "busy")

PollAgain(c) ==
  /\ pc[c] = "busy"
  /\ Moves(c, "readRunning")

TimeOut(c) ==
  /\ pc[c] = "busy"
  /\ Moves(c, "force")

\* forceStop; it returns if a concurrent stop was faster.
ForceStop(c) ==
  /\ pc[c] = "force"
  /\ IF state \in {"FORCE_SHUTING", "STOPPED"}
     THEN Goes(c, "idle") /\ UNCHANGED state
     ELSE Goes(c, "drain") /\ state' = "FORCE_SHUTING"
  /\ UNCHANGED <<stopped, load_balancer_exit, queued, slotVars, wpc, thread_count,
                 callVars>>

Drain(c) ==
  /\ pc[c] = "drain"
  /\ queued' = 0
  /\ Goes(c, "stopBalancer")
  /\ UNCHANGED <<stateVars, slotVars, wpc, thread_count, callVars>>

Stop(c) ==
  /\ Begins(c, "stop")
  /\ NobodyStops
  /\ Moves(c, "stopBalancer")

\* Setting the flag without waking the balancer of a paused pool
StopBalancer_Silent(c) ==
  /\ pc[c] = "stopBalancer"
  /\ load_balancer_exit' = TRUE
  /\ Goes(c, "stopWorkers")
  /\ UNCHANGED <<state, stopped, queued, slotVars, wpc, thread_count, callVars>>

StopBalancer(c) ==
  /\ pc[c] = "stopBalancer"
  /\ load_balancer_exit' = TRUE
  /\ pc' = [BalancerWoken(pc) EXCEPT ![c] = "stopWorkers"]
  /\ UNCHANGED <<state, stopped, queued, slotVars, wpc, thread_count, callVars>>

StopWorkers(c) ==
  /\ pc[c] = "stopWorkers"
  /\ stopped' = TRUE
  /\ wpc' = WakeWorkers
  /\ Goes(c, "joinBalancer")
  /\ UNCHANGED <<state, load_balancer_exit, queued, slotVars, thread_count, callVars>>

\* Going on to the workers while the balancer may still add some
JoinBalancer_Skipped(c) ==
  /\ pc[c] = "joinBalancer"
  /\ last' = size
  /\ Goes(c, "joinWorkers")
  /\ UNCHANGED <<stateVars, queued, slotVars, wpc, thread_count, worker_access, slot,
                 next>>

\* The loop that comes next takes the end of workers_ once.
JoinBalancer(c) ==
  /\ pc[c] = "joinBalancer"
  /\ pc[Balancer] = "exited"
  /\ last' = size
  /\ Goes(c, "joinWorkers")
  /\ UNCHANGED <<stateVars, queued, slotVars, wpc, thread_count, worker_access, slot,
                 next>>

\* The walk through workers_ holds no mutex and moves no counter.
JoinWorker(c) ==
  LET i == next[c]
  IN /\ pc[c] = "joinWorkers"
     /\ i < last
     /\ wpc[i] \in {"exited", "joined"}
     /\ WorkerGoes(i, "joined")
     /\ next' = [next EXCEPT ![c] = i + 1]
     /\ UNCHANGED <<stateVars, queued, slotVars, thread_count, worker_access, slot,
                    last, pc>>

EndStop(c) ==
  /\ pc[c] = "joinWorkers"
  /\ next[c] >= last
  /\ state' = "STOPPED"
  /\ next' = [next EXCEPT ![c] = 0]
  /\ Goes(c, "idle")
  /\ UNCHANGED <<stopped, load_balancer_exit, queued, slotVars, wpc, thread_count,
                 worker_access, slot, last>>

-----------------------------------------------------------------------------
SubmitStep(s) == Push(s) \/ CountPending(s) \/ NotifyWorker(s)

CheckStepOf(b) ==
  \/ TryCreateNewThread(b) \/ ReapOld(b)
  \/ StartThread(b) \/ EnterThread(b) \/ EmplaceThread(b) \/ CreateFails(b)
  \/ TryRemoveIdleThread(b) \/ MarkThread(b)

BalancerRuns ==
  \/ BalancerLoop(Balancer) \/ AwaitResume(Balancer) \/ EndSleep(Balancer)
  \/ CleanFinishedThread(Balancer) \/ CheckStepOf(Balancer)

ControlStep(c) ==
  \/ ConstructWorker(c) \/ CountCoreWorker(c) \/ CheckStepOf(c)
  \/ AwaitNoPending(c) \/ ReadRunning(c) \/ ReadPending(c) \/ PollAgain(c)
  \/ ForceStop(c) \/ Drain(c) \/ StopBalancer(c) \/ StopWorkers(c)
  \/ JoinBalancer(c) \/ JoinWorker(c) \/ EndStop(c)

Call(c) ==
  \/ LoadCheck(c) \/ Pause(c) \/ Resume(c) \/ Shutdown(c) \/ Stop(c)

WorkerLoop(i) ==
  TestExit(i) \/ TestPaused(i) \/ LeavePause(i) \/ AwaitTask(i) \/ Finish(i)

Next ==
  \/ \E s \in Submitters : Submit(s) \/ SubmitStep(s)
  \/ \E c \in Controllers :
       \/ Call(c) \/ ControlStep(c) \/ MeasureLoad(c)
       \/ TimeOut(c) \/ WakeWaiterSpuriously(c)
  \/ BalancerRuns \/ MeasureLoad(Balancer) \/ LockClean(Balancer)
  \/ \E i \in Slots : WorkerLoop(i) \/ WakeSpuriously(i)

Spec == Init /\ [][Next]_vars

(***************************************************************************)
(* Threads that can run do run, tasks end, and the sleep of the balancer   *)
(* ends.  A std::mutex is not fair, but the balancer sleeps between its    *)
(* checks and calls of loadCheck are finite, hence SF for taking           *)
(* worker_access_mutex_.  The clock of a waitForRunningTask moves on       *)
(* however often it polls (SF, as TimeOut is disabled during the reads).   *)
(* Nothing makes a client start a call, and no waiter counts on a spurious *)
(* wake-up.                                                                *)
(***************************************************************************)
Fairness ==
  /\ \A i \in Slots : WF_vars(WorkerLoop(i))
  /\ \A s \in Submitters : WF_vars(SubmitStep(s))
  /\ \A c \in Controllers :
       WF_vars(ControlStep(c)) /\ SF_vars(MeasureLoad(c)) /\ SF_vars(TimeOut(c))
  /\ WF_vars(BalancerRuns)
  /\ SF_vars(MeasureLoad(Balancer) \/ LockClean(Balancer))

FairSpec == Spec /\ Fairness

-----------------------------------------------------------------------------
(***************************************************************************)
(* Safety                                                                  *)
(***************************************************************************)

\* The types of the variables (constructor, workerLoop, loadCheck, stop).
TypeOK ==
  /\ state \in State
  /\ stopped \in BOOLEAN
  /\ load_balancer_exit \in BOOLEAN
  /\ queued \in 0 .. config.max_queue_size
  /\ size \in 0 .. core_threads + max_threads
  /\ wpc \in [Slots -> WorkerStep]
  /\ index \in [Slots -> Slots]
  /\ should_exit \in [Slots -> BOOLEAN]
  /\ idle_count \in [Slots -> 0 .. Max({1, config.consecutive_idle_count})]
  /\ thread_count \in Nat
  /\ worker_access \in Callers \cup {NoThread}
  /\ pc \in [Callers -> BalancerStep \cup ClientStep]
  /\ slot \in Slots
  /\ next \in [Controllers -> Slots \cup {core_threads + max_threads}]
  /\ last \in Slots \cup {core_threads + max_threads}

\* thread_index is the index of the slot, as workerLoop's comment has it, and
\* workers_ stays within the capacity it reserved and the flags it has: only
\* then do flags, joins and reused slots concern the thread they are meant
\* for.  (The balancer runs while the constructor still fills the core slots.)
IndexIsSlot ==
  /\ size <= max_threads
  /\ \A i \in 0 .. size - 1 : index[i] = i

\* Until stop joins the workers, thread_count_ counts the threads that were
\* not joined yet, but for one whose creator has still to count it.
CountsMatch ==
  (\A c \in Controllers : pc[c] # "joinWorkers") /\ state # "STOPPED" =>
    thread_count + Cardinality({b \in Callers : pc[b] \in {"countCore", "enter"}})
      = Cardinality({i \in Slots : Joinable(i)})

\* Whenever the count leaves room, there is a slot for one more thread (the
\* case tryCreateNewThread says it should not get into).
ExpandFindsSlot ==
  \A b \in Callers : pc[b] = "create" => ThreadIndex < max_threads

\* A worker of a core slot runs until the pool is stopped, whatever becomes of
\* the others: a thread that is started in a reused slot may see the flag of the
\* thread before it and leave at once, but only beyond the core slots.
CoreWorkersStay ==
  \A i \in 0 .. core_threads - 1 :
    wpc[i] \in {"exited", "joined"} => stopped \/ state = "FORCE_SHUTING"

\* Whoever joins the thread of a flagged slot, with worker_access_mutex_ held,
\* may count on it not being asleep on queue_cv_.
FlaggedNeverSleeps ==
  \A i \in Slots : should_exit[index[i]] => wpc[i] # "waiting"

\* stop leaves no thread behind, in programs that do not call loadCheck while
\* another thread stops the pool: a pool whose balancer or worker is still
\* joinable when it is destroyed ends the program.
StopJoinsAll ==
  state = "STOPPED" =>
    /\ pc[Balancer] = "exited"
    /\ \A i \in Slots : ~Joinable(i)

-----------------------------------------------------------------------------
(***************************************************************************)
(* Progress, under FairSpec                                                *)
(***************************************************************************)

\* The thread of a flagged slot is joined, unless the pool is paused or stops,
\* or the flag was that of the thread before it.
FlaggedThreadReaped ==
  \A i \in core_threads .. max_threads - 1 :
    should_exit[i] /\ Joinable(i) ~>
      ~(should_exit[i] /\ Joinable(i)) \/ state # "RUNNING" \/ stopped

\* loadCheck returns, unless the pool is paused: it waits for a mutex under
\* which others wait for workers to end.
LoadCheckReturns ==
  \A c \in Controllers :
    pc[c] \in CheckStep ~> pc[c] \notin CheckStep \/ state = "PAUSED"

\* stop returns, and so does shutdown, from a paused pool too: with FORCE and
\* WAIT_FOR whatever the submits do, with WAIT_ALL if none is under way when it
\* tests pending_tasks_ (one that has pushed and not yet counted its task can
\* make that wait miss its wake-up, as the run undercount_hang of ThreadPool
\* shows).  A direct stop leaves state_ RUNNING, and with it the door open for
\* submits that can keep a worker busy for ever.
StopReturns ==
  \A c \in Controllers :
    /\ pc[c] \in Stopping \ {"waitCv"}
    /\ state # "RUNNING"
    /\ pc[c] = "waitAll" => \A s \in Submitters : pc[s] = "idle"
    ~> pc[c] = "idle" \/ state = "RUNNING"

=============================================================================

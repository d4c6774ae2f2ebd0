# A TLA+ model of mpmcthreadpool

This directory holds a specification of the thread pool in `src/` (C++17): TLA+
modules translated from the source, TLC configurations that check them on small
instances, and theorems that TLAPS checks for all values of the constants.
Paths such as `thread_pool.cpp:162` are under `src/src/`, `src/include/` or
`src/test/unit/`. `PROJECT.json` has the mapping from definitions to source
lines, the list of runs, mutants, findings, hazards and theorems.

## 1. Inventory

| Component | State | Operations | Hard behaviour |
|---|---|---|---|
| Task path of `ThreadPool` (`thread_pool.cpp`) | `state_`, `stopped_`, `queue_policy_`, `task_queue_`, `queue_mutex_`, `queue_cv_`, `wait_cv_`, `pending_tasks_`, `running_tasks_`, `status_` | `submit`, `workerLoop`, `waitForAllTask`, `waitForRunningTask`, `pause`, `resume`, `setQueueFullPolicy`, `stop`, `shutdown`, `forceStop`, destructor (a `shutdown(WAIT_FOR)`) | atomics read outside the lock that guards their waiters; a blocking call under a lock; counters updated after the fact; overlapping shutdowns; a timeout that turns into a forced stop |
| `MPMCBlockingQueue` | mutex, `push_cv_`, `pop_cv_`, ring, `discard_count_` | `enqueue`, `enqueueNoWait`, `enqueueIfNotFull`, `dequeue`, `dequeueWaitFor` | lost wake-ups, stolen elements, timeouts that swallow a notification |
| `CircularQueue` | `capacity_`, `head_`, `end_`, `overrun_count_`, `elems_` | `pushBack`, `emplaceBack`, `popFront`, `front`, `at`, `[]`, `clear`, `resetCounter`, moves | spare slot, wrap-around, `size_t` edge of the constructor, use after a move |
| Dynamic thread management | `workers_`, `thread_should_exit_`, `thread_last_active_`, `thread_idle_count_`, `thread_count_`, `load_balancer_` | `loadBalancerLoop`, `loadCheck`, `tryCreateNewThread`, `tryRemoveIdleThread`, `cleanFinishedThread`, `stop` | slots reused while their thread still runs, races with `stop` and the constructor |
| Tasks (`example_tasks.h`) | promise, `task_success_` | `execute`, `abandon`, `taskSuccess` | the future is settled before the pool knows |
| Configuration | `Config` | loading from JSON, writing, `validateConfigBasic`, the constructor with counts | precedence of defaults and keys, limits that pass validation |
| `Logger` | `logger_`, `config_`, `initialized_`, spdlog's registry | `initialize`, `shutdown`, destructor, log calls | lifecycle raced by log calls of the balancer, steps that throw half way |

Interaction: clients call the pool; the pool owns a `MPMCBlockingQueue` of
tasks, which owns a `CircularQueue`. The queue has a mutex of its own, and the
pool's `queue_mutex_` is held by everyone who takes from it but not by those
who put into it. Workers sleep on `queue_cv_`, `waitForAllTask` on `wait_cv_`,
both with `queue_mutex_`; `state_`, `stopped_` and the counters are atomics.
The balancer sleeps between its checks, or on `pause_cv_` with `state_mutex_`
while the pool is paused; `loadCheck` and `cleanFinishedThread` hold
`worker_access_mutex_`, also while they join threads; `stop` joins without it.
All of the pool logs to the one `Logger`; the threads that do so by themselves
are the balancer and callers of the pool, never a worker.

What makes each component correct:

- Task path: a task is executed or abandoned once, or reported as refused; the
  counters say how many tasks there are; a queued task gets a worker; waits end
  when and only when the work is done; after a shutdown nothing accepted is
  left over in the pool; one thread joins the workers.
- Blocking queue: first in first out, no wake-up lost, each element accounted for.
- Ring: it is a bounded queue, whatever the positions of its pointers.
- Dynamic threads: slots and threads match, counts agree with live threads, core
  workers stay, flagged ones are joined, no thread outlives `stop`.
- Configuration: what is accepted has the types and limits the pool relies on,
  and survives being saved and loaded.
- Logger: no log call on a logger that was reset (the code gives that only once the
  balancer was joined); what `shutdown` drops is what `initialize` registered.

## 2. Modules

| Module | Models | Used by |
|---|---|---|
| `Fifo` | what the ring holds, as a sequence: full, push with overflow | `BoundedFifo`, `ThreadPool`, `MPMCBlockingQueue` |
| `BoundedFifo` | abstract specification of `CircularQueue` | `CircularQueue` |
| `CircularQueue` | the ring of slots; refines `BoundedFifo` | `MCCircularQueue` |
| `MPMCBlockingQueue` | the blocking queue between producers and consumers | |
| `ThreadPool` | the task path with a fixed set of workers | `MCThreadPool` |
| `Config` | defaults, JSON and validation of a configuration, as operators | `DynamicThreads`, `Startup` |
| `DynamicThreads` | workers that come and go: constructor, balancer, `loadCheck`, `stop` | `MCDynamicThreads` |
| `Logger` | the life of the logger and the calls of it | `Startup` |
| `Startup` | composition: a program that configures, builds and destroys pools and the logger | `MCStartup` |
| `Fifo_proofs`, `Counting_proofs` | lemmas on queues without repetition and on counting a set that one member enters or leaves | the modules below |
| `ThreadPool_proofs`, `ThreadPoolCounts_proofs` | theorems about `ThreadPool`: the places of tasks and threads; counters, statistics, wake-ups and waits | |
| `MPMCBlockingQueue_proofs`, `CircularQueue_proofs`, `DynamicThreads_proofs`, `Startup_proofs` | theorems about the module each is named for | |

The layers are stacked: the ring implements `BoundedFifo`, whose `Push` and
`Pop` are the operators of `Fifo` that the blocking queue uses as its contents;
the pool uses the same operators, with the wake-ups of the blocking queue
abstracted to a guard. That is sound because `MPMCBlockingQueue` is shown to
lose no wake-up: a producer that may push, or a consumer that may pop, does.

A definition with an underscore in its name (`Dec_Signed`) is a *mutant*: a
plausible slip in the definition that follows it. No specification uses it;
substituted for the definition, it makes TLC find the property named in
`PROJECT.json` violated, which shows that the property can fail in that run.

### ThreadPool

`wpc` says where a worker is in `workerLoop`: `top` (350-358), `paused` (359),
`lock` (368, about to evaluate the predicate of `queue_cv_`), `waiting` (asleep
in 370), `dequeue` (381, with `queue_mutex_`), `execute` (401), `record` (406),
`finish` (422), `exited`. `cpc` says the same of a client: `loadPolicy`, the
three policies, `count` and `notify` are `submit`; `waitAll` and `waitCv` are
`waitForAllTask`; `readRunning`, `readPending` and `busy` are one turn of
`waitForRunningTask`; `force`, `lockDrain` and `drain` are `forceStop`; `stop`
and `join` are `stop`. A client in `in_shutdown` came from `shutdown` and goes
on to the next phase where another caller would return.

Granularity. A section under `queue_mutex_` whose inside nobody can observe is
one action. Two sections can be observed, because a push needs only the
queue's own mutex: a worker between its tests and `dequeue`, and the drain loop
of `forceStop`; they hold `queue_mutex` over several actions. An access to
an atomic outside the mutex is an action of its own. In `AwaitTask` the tests of
`stopped_` and `state_` in lines 370-376 are one step: `stopped_` changes only
under `queue_mutex_`, and the result depends on one reading of `state_`. The
counters are `size_t`: they wrap at `SizeMod`.

`outcome`, `promised` and `late` are history: `outcome[t]` is what became of a task,
in which the value or exception of its future is `succeeded`, `failed` or
`abandoned`, and a task that OVERWRITE dropped, whose future nobody settles, is
`overwritten`; `promised` holds the tasks whose `submit` had returned when
`shutdown` set `SHUTING_DOWN`, and `late` the number of submits that could still
drop one then: they had passed the test of `isRunning()` and not yet pushed.

`stop` without `shutdown` leaves `state_` as it was until its end, and
two threads that stop at once join one `std::thread`, which is undefined: the
model lets either of them fail with an exception (`JoinFails`, what glibc does).

### DynamicThreads

The slots of `workers_` are `0 .. size - 1`; `wpc[i]` is where the thread of slot
`i` is, from `none` (no thread yet) over the steps of `workerLoop` to `exited`
(it returned) and `joined`. `index[i]` is the `thread_index` that thread was
started with, so that a thread in the wrong slot would read another's flag.
`pc` is where a client or the balancer is: `lockCheck` to `mark` are the
sections of `loadCheck` (`create` the search of `tryCreateNewThread`, `reap` line
480, `start` 486, `enter` 487-503, `emplace` 492, `remove` and `mark`
`tryRemoveIdleThread`), `loop` to `clean` those of `loadBalancerLoop` (435, 437,
445, 558), `stopBalancer` to `joinWorkers` those of `stop`; a shutdown goes through
`waitAll` and `waitCv` (asleep on `wait_cv_`) with WAIT_ALL, through `readRunning`,
`readPending` and `busy` with WAIT_FOR, and through `force` and `drain` with FORCE
or a timeout, as in `ThreadPool`. Only a worker that finishes with `pending_tasks_`
zero wakes `waitCv`. `last` is the `end()` of `workers_` that the loop of `stop`
took once. `worker_access` holds the owner of `worker_access_mutex_`.

The module is composed with the task path by abstraction: of `ThreadPool` it
keeps the number of queued tasks, whether a worker is busy, and the points of
`submit` at which a worker may come first, `pending_tasks_` being derived from
them (it lags behind `submit`, and is then a huge `size_t`). It is composed with
the configuration directly: `config` is a record of module `Config` and is
assumed to pass `validateConfigBasic`. The clock is abstracted: `idle` in
`TryRemoveIdleThread` is any set of workers, so that every outcome of the two
time points is there, and the sleeps end at any time. Lines 317-342
read the load at one moment; that the answer is stale when it is acted on is
kept, because creating and marking are later steps. Creating a thread may
fail (`CreateFails`).

`NobodyStops`: two threads that stop a pool at once join one `std::thread`
twice, which is undefined and looked at in `ThreadPool`; programs here do not.

### Config, Logger, Startup

A JSON object is a function from the keys it has to values, so that missing
keys, unknown policies, values of another type (`Wrong`) and text that is no
JSON (`Garbage`) are told apart; factors are in percent, a negative size wraps
at `SizeMod`. `Loads` says whether `loadConfigFromString` gives a `Config` or
throws.

A log call is three accesses to `logger_` without a lock (`TestLogger`,
`TestLevel`, `Write`). `initialize` and `shutdown` are one action up to each
point where they may throw or another thread may look; `registry` is the part
of spdlog they rely on. `Startup` puts a program around both: `Main` loads
texts, builds and destroys pools and touches the logger in any order, while the
balancer of a dynamic pool logs. Nothing in the code keeps `initialize` and
`shutdown` away from a balancer that logs, and the fixtures of the unit tests do
not either: `DynamicThreadTest` (`thread_pool_test.cpp:119-132`) has a pool with a
balancer for a member, which is constructed before `SetUp` initializes the
logger and destroyed after `TearDown` shuts it down; `SubmitTest` (43-55) does
the same with a pool without one. The model has those programs. A log call that
lost its logger is undefined behaviour; the model lets it go on, and
`NoLogCallLosesLogger` says when it cannot come to that.

### MPMCBlockingQueue

A section under `queue_mutex_` is one action; falling asleep releases the
mutex in the same step; `notify_one` is a step after the unlock, and picks any
sleeper. `wait_for` is three steps: the test, the end of the time (`TimeOut`,
whenever the consumer waits or was just woken), and the last test of the
predicate that the standard library makes (`LastLook`). `enqueueIfNotFull`
moves its discard counter after the unlock. Both condition variables wake
spuriously.

### CircularQueue

The vector is a function from `0 .. n-1` that may be shorter than `capacity_`
says (a moved-from queue has no slots). The constructor's `capacity + 1` wraps:
the largest request gives `capacity_` 0 and a queue without room. `at` adds in
`size_t` before it reduces; `RingAssumption` says that a vector takes at most
half of the address space, so that this sum does not wrap. Calls that throw
change nothing and are not steps.

## 3. Runs

| Run | Instance | Shows |
|---|---|---|
| `pool_safety` | 2 workers, 2 submitters, 2 controllers, 2 tasks, capacity 1, all policies and options, every operation that changes the state of the pool | one place per task, settled once, counters, statistics, no blocked dequeue, also with direct and overlapping `stop` |
| `pool_shutdown` | 2 workers, 2 submitters, 2 controllers, 3 tasks, capacity 2, BLOCKING and OVERWRITE | no lost worker wake-up, one joiner, accepted tasks run or abandoned, but for a bounded number that OVERWRITE drops |
| `pool_progress` | 2 workers, 1 submitter, 1 controller, 2 tasks, capacity 1, fairness | queued tasks run, blocked submits enter, `shutdown` returns |
| `pool_sequential` | 2 workers, 1 client that does everything, 3 tasks, capacity 1, fairness | waits end, and end only when the work is done |
| `queue` | 2 producers, 2 consumers, 4 elements, capacity 2, every operation, fairness | no lost wake-up, every element accounted for, nobody sleeps on, timed waits end |
| `ring` | 2 queues, capacities 0, 2 and the wrapping one, `size_t` of 8 values | the ring implements a `BoundedFifo` with room for what was asked; its queries agree with it |
| `threads` | 1 core and 2 dynamic slots, 1 submitter, 1 controller with `loadCheck`, `stop` and `shutdown`, queue of 1 | slots, threads, flags and the count agree at every step from constructor to last join; `stop` leaves no thread |
| `threads_progress` | 1 core and 1 dynamic slot, the same clients with `pause` and `resume` too, fairness | flagged workers do not sleep and are joined; `loadCheck`, `stop` and `shutdown` return, the latter with WAIT_ALL if no submit is under way |
| `startup` | about two thousand configuration texts of at most two keys, thread counts 0 and 5, 2 logger names of which spdlog knows one, 1 balancer | accepted configurations are well typed and survive saving; the logger agrees with spdlog; no log call loses its logger, but those of a balancer that still runs |
| `overwrite_hang`, `undercount_hang`, `force_strands` | 1 worker, 1 or 2 tasks | the disagreements of section 4 |

Bounds. Two workers and two submitters give every race of two threads of a
kind, and a second sleeper that a lost notification would leave asleep, or
that steals. Four elements in `queue` let its ring of two fill up twice.
Capacity 1 makes the queue of the pool full at once (blocking, overflow, discarding); capacity 2 with three tasks lets two
pushes happen before the first notification, and leaves one task blocked or
overflowing. Two controllers let two shutdowns, or a `stop` and a shutdown,
overlap; a third would find what the second finds. `SizeMod = 8` exceeds every
count in these instances, so that a wrapped counter is told from a real one. In
`ring`, three slots let the pointers go round in every relative position, two
values tell the order of the elements, and the counter wraps too. Its requests
leave gaps (no 1 and no 3), so that a room one off from the request is not a
room another request could have asked for; rings of two slots are left to
the theorems.
In `threads`, one core slot and two dynamic ones let one thread be wanted while
another is still to be joined, and one be reused before or after the other; one
busy worker is load enough to expand (80 percent of one), `task_limit` 2 and a
queue of one make the other conditions true at times, and one idle check is
enough to remove. The second client beside the balancer is the `loadCheck`
from outside. `threads_progress` has one dynamic slot, because its properties
are about one flag at a time, and is the one with pauses: they keep the balancer
and the workers from getting on, and touch no slot. In `startup`, the values of each key lie on and
next to the limits of the validation, and two keys are all that a rule of it
or of the units relates, with the others at their defaults. There are no
state constraints: every counter is bounded by the number of tasks or by `SizeMod`.

Symmetry: workers, tasks and clients of one role are interchangeable in the
safety runs of the pool; the runs with liveness properties use no symmetry.
In `queue`, the elements are numbered in the order in which they are offered, so
that orders which differ by names only are not told apart.

Deadlock is checked except in `pool_progress` and `force_strands`, where the
pool really may come to a stop: a submit blocked on the full queue of a pool
that was shut down by force has no next step, which is observation (b) of
section 4; and in `startup`, where the program ends.

Fairness (`FairSpec`). Threads that can run do run (`WF` of each worker's loop
and of the steps inside a call, which an operating system gives), a task
ends, and the time of a timed wait passes (`SF` of `TimeOut`, because the
poll of `waitForRunningTask`, or a wake-up, disables it for moments; in
`DynamicThreads` too). No
fairness makes a client begin a call, resume a paused pool, or a condition
variable wake without a notification. In `DynamicThreads`, taking
`worker_access_mutex_` has `SF`: a `std::mutex` promises nothing, but the balancer
sleeps between its sections, far longer than a waiter needs, and clients
call `loadCheck` now and then. A failing thread creation is never forced.

What the liveness properties exclude is what the code does not give: a queued
task waits while the pool is paused; `waitForAllTask` returns in
`pool_sequential`, where its caller is the one who submits, and does not return
in general (section 4). For the same reason `shutdown(WAIT_ALL)` is left out of
`ShutdownReturns` in `pool_progress` and is in `pool_sequential`, and
`StopReturns` promises its return only if no submit is under way when it tests
`pending_tasks_`: one that has pushed and not yet counted its task hangs it, as
finding 2 shows, in `DynamicThreads` too.

## 4. Findings

Each has a run that shows it.

1. `overwrite_hang`: a task dropped by OVERWRITE is never taken out of
   `pending_tasks_`; `waitForAllTask` then never returns, nor does
   `shutdown(WAIT_ALL)`, and `waitForRunningTask` always times out.
2. `undercount_hang`: `submit` counts a task after it can be taken. A worker
   that is faster makes the counter wrap; a waiter that sees the wrapped value
   sleeps, and the increment that restores zero does not notify `wait_cv_`. The
   waiter may be a `shutdown(WAIT_ALL)`.
3. `force_strands`: a `submit` admitted before a forced shutdown stores its task
   after the drain. It returns true, and nobody runs or abandons the task.

Observed in the model on the way, with the same causes or outside any promise
of the documentation:

- (a) The late count also lets `waitForAllTask` return early: `pending_tasks_`
  is still zero while the task of a concurrent `submit` is queued.
- (b) A submit blocked on a full queue when the pool is stopped by force stays
  blocked once nothing takes tasks any more.
- (c) `forceStop` brings `pending_tasks_` to zero without `wait_cv_`; a waiter
  hears of it only if a worker still finishes a task.
- (d) A worker in the pause loop exits when the pool is stopped without a look
  at the queue. With the undercount of (a), `shutdown(WAIT_ALL)` of a paused pool
  can leave an accepted task in the queue.
- (e) A pool constructed with room for nothing accepts every task and drops it
  (a validated configuration excludes it, the other constructor does not).
- (f) After a direct `stop` the state stays RUNNING until the joins are over,
  and submits are accepted that no worker will see. For the same reason a
  steady stream of submits may keep a directly stopped pool from ever ending
  its joins; `StopReturns` leaves that state out.
- (g) A thread that fills a slot is started (`thread_pool.cpp:486`) before the
  slot's exit flag is cleared (489). It may see the flag and leave, after which
  the slot looks alive: it is counted until it has been found idle, flagged
  and joined. Core slots are never concerned (`CoreWorkersStay`).
- (h) `stop` walks `workers_` without `worker_access_mutex_`. A `loadCheck` of
  another client that is past its tests can then start a worker that nobody
  joins. `StopJoinsAll` is stated for programs that do not do that.
- (i) With `task_limit` 0, which passes the validation, the balancer finds the
  pool loaded while the constructor still adds core workers; if the first check
  comes that early, a worker takes the slot of a core worker, whose thread
  then has an index that is not its slot. `ThreadsAssumption` allows such a
  configuration, `IndexIsSlot` is checked for one with a real limit; its mutant,
  a load found where there are no threads, has the same effect.
- (j) A flagged worker that is in the pause loop does not look at its flag. While
  the pool is paused, a `loadCheck` from outside that reuses its slot waits for
  it with `worker_access_mutex_` held, as long as the pause lasts.
- (k) `thread_last_active_` is set when a task is taken, and not by `emplace_back`
  of a new worker: long tasks and young workers look idle. A flagged worker
  that finds a task takes it first.
- (l) `max_queue_size: -1` in JSON becomes `SIZE_MAX`, passes the validation and
  asks for a ring with `SIZE_MAX + 1 = 0` slots. On a machine with fewer than
  four threads the default configuration does not pass the validation.
- (m) `config/low_latency.json` sets `load_check_interval`, a key nobody reads.
- (n) If `register_logger` throws because the name is taken, `logger_` stays:
  log calls write although `initialized_` is false, and `Logger::shutdown` returns
  true without a change. A shutdown also drops the loggers the application
  registered with spdlog itself.
- (o) Logger has no lock, and a pool with a balancer may live through
  `initialize` and `shutdown`, as the one of `DynamicThreadTest` does. With
  the invariant "a log call that is past its test of `logger_` finds a logger"
  in place of the properties of `startup`, TLC gives: the pool is there, its
  balancer running; `initialize` sets `logger_`; the balancer's log call tests it
  (`logger.h:106`) and is about to ask for the level; `shutdown` flushes, drops
  and resets `logger_` (`logger.cpp:211-213`); the call goes on through an empty
  pointer. A `logger_` left by a failed `initialize` may in the same way be
  replaced by the next. The window is small, and in the tests the balancer has
  to log just then; `NoLogCallLosesLogger` says that this is the only case. It is
  a data race on a `shared_ptr` besides.
- (p) A submit that passed `isRunning()` before a shutdown may push after it, under
  OVERWRITE into a full queue, and drop a task that was accepted before. That
  task is neither run nor abandoned, and its future gets no value from the pool.
  `ShutdownSettlesPromised` bounds their number by `late`.

## 5. Proofs

Every safety invariant and every action property that a run checks is a theorem,
and so is the refinement of the ring. The theorems hold for any number of
threads, tasks, queues and elements, every capacity including zero, every choice
of operations, options and policies, and every width of `size_t`. The
assumptions on constants are those the modules state (section *Assumptions*
below); what a theorem assumes besides is in the third column.

| Module | Theorem: property | Assumes besides |
|---|---|---|
| `ThreadPool_proofs` | `Typing`: `TypeOK` | |
| | `NoBlockedDequeue`: `DequeueNeverBlocks` | |
| | `OnePlace`: `EveryTaskInOnePlace` | |
| | `SettlesOnce`: `SettledOnce` | |
| | `JoinsAlone`: `OneThreadJoins` | nobody calls `stop` directly |
| | `SettlesPromised`: `ShutdownSettlesPromised` | nobody calls `stop` or `pause` |
| `ThreadPoolCounts_proofs` | `CountersAgree`: `CountersMatch` | |
| | `StatsAgree`: `StatsMatch` | |
| | `NoWakeupLost`: `WakeupOwed` | |
| | `StateMovesOn`: `StatesMoveOn` | |
| | `WaitsForItsTasks`: `WaitMeansDone` | one client thread; tasks fit the counters |
| `MPMCBlockingQueue_proofs` | `Typing`: `TypeOK` | |
| | `Accounting`: `EveryElementAccounted` | |
| | `NoWakeUpLostOnPush`: `ConsumersOwed` | |
| | `NoWakeUpLostOnPop`: `ProducersOwed` | |
| `CircularQueue_proofs` | `Typing`: `TypeOK` | |
| | `ViewsTellTheTruth`: `ViewsAgree` | |
| | `RingImplementsFifo`: `RingIsFifo` | |
| `DynamicThreads_proofs` | `Typing`: `TypeOK` | `QuietStart` |
| | `SlotsKeepTheirIndex`: `IndexIsSlot` | `QuietStart` |
| | `CountIsExact`: `CountsMatch` | `QuietStart` |
| | `SlotIsFound`: `ExpandFindsSlot` | `QuietStart` |
| | `CoreIsKept`: `CoreWorkersStay` | `QuietStart` |
| | `StopLeavesNoThread`: `StopJoinsAll` | `QuietStart`, `[]NoRace` |
| | `StopLeavesNoThreadOfOneClient`, `StopLeavesNoThreadWithoutLoadCheck`: `StopJoinsAll` | `QuietStart`; one client, or only the balancer calls `loadCheck` |
| | `FlaggedAreAwake`: `FlaggedNeverSleeps` | |
| `Startup_proofs` | `Typing`: `TypeOK` | |
| | `LoggerIsThere`: `NoLogCallLosesLogger` | |
| | `InitializedMeansRegistered`: `InitializedIsRegistered` | |
| | `SavingLosesNothing`: `SavedConfigLoads` | |

Each module also has a theorem `Invariance` with its inductive invariant.

### Why the extra hypotheses

- `JoinsAlone` and `SettlesPromised`: with their hypotheses dropped, TLC finds
  two joiners, and the behaviour (d) of section 4.
- `WaitsForItsTasks`: with a second thread the late count of a `submit` hides its
  task from a waiter (observation (a)). The bound on the number of tasks is there
  because a zero could otherwise be a multiple of `SizeMod`; real programs have
  fewer than 2^64 tasks.
- `QuietStart`: `task_limit` is not 0 and `avg_task_threshold` not negative, if the
  pool is dynamic. The balancer starts before the core workers do
  (`thread_pool.cpp:76`). With `task_limit` 0, `0 >= 0` is load enough to add a thread
  to a pool without tasks, and with a negative threshold an average of 0 is. The
  balancer then fills a slot the constructor has yet to come to, and the thread
  of the core worker has an index that is not its slot: `IndexIsSlot` fails, and
  with it what rests on it (observation (i)). The validation accepts both values.
- `NoRace`: no client is in `loadCheck` while another stops the pool (observation
  (h)). It is a condition on the behaviour, and the two corollaries name classes
  of programs that meet it.

`FlaggedAreAwake` needs none of these: that a flag is set, and sleepers are woken, in
one section under `queue_mutex_` does not depend on which slot the flag is for.

### Assumptions

Beside types and disjointness of sets: there are finitely many threads
(`FiniteThreads`; the tasks may be infinitely many), `validateConfigBasic` accepts
the configuration of `DynamicThreads`, a `size_t` has 16 bits or more in `Config`
(the defaults have to fit) and any width elsewhere, a vector takes at most half of
the address space (`RingAssumption`), and the tokens that stand for a wrong type,
no JSON and no pool are not values of the things they are told from (`Wrong`,
`Garbage`, `NoPool` in `ConfigAssumption`, `TextAssumption`, `TokenAssumption`).

### The arguments

`ThreadPool_proofs`. `DequeueNeverBlocks` is not inductive: a drain, or a second
worker, could empty the queue under a worker about to dequeue. `IInv` adds
`MutexHeld` (the two sections that span several actions exclude each other),
and for `EveryTaskInOnePlace` that a submit has its task to itself until it
pushes it (`SubmitsOwnTask`), that the queue is no longer than its capacity, and
that a worker past `execute` has settled its task (`HeldTaskSettled`).
`TypeStep` and `PlacedStep` show that each action preserves `IInv`; the push,
common to three actions, is the lemma `PushPlaces`, which rests on the lemmas of
`Fifo_proofs` about `Tail`, `Append` and `PushBack` on sequences without
repetition. `SettlesOnce` needs only `IInv` in each state: what a step settles
was not settled. `JoinsAlone` adds `OneShutdown`: one shutdown gets past its
first test. `SettlesPromised` adds `NoneLeftBehind`: workers exit only when no
promised task is queued, or when the drain is still to come. The bound on
the dropped ones is `LateInv`: what they and the submits that may still drop one make
together never grows, since nobody is admitted after the shutdown (`LateStep`).

`ThreadPoolCounts_proofs`. `CounterInv` says that `pending_tasks_` is the remainder of
`Owed`, an integer that can be negative (`submit` counts late); each action moves
`Owed` by what it moves the counter, and `IncMod` and `DecMod` carry that through the
wrap. For the statistics, `StatsInv` counts the tasks that no worker has still to
record; the drain and `record` each add one task to one such set, because `IInv`
gives a task to one worker. For `WakeupOwed`, `WakeInv` adds that nobody sleeps in a
stopped pool; its hard step is a worker that goes to sleep, which found the
queue empty under the mutex. `WaitsForItsTasks` turns the counters around: with
one client that waits nothing is uncounted, so a zero is a real zero.

`MPMCBlockingQueue_proofs`. `Accounted` and `Owed` are the properties over named sets,
and `FinitelyMany` says that the sets they count are finite although elements and
threads may be infinitely many. A consumer that falls asleep found the queue empty;
one that is woken, or times out, looks again before it leaves (`lastLook`),
so that a notification it took is paid for. Each step moves at most two threads
between the counted sets (`ProducerMoves`, `ConsumerMoves`).

`CircularQueue_proofs`. `Ring(c, h, e, f)` is the sequence between two pointers;
`RingItems` gives its elements without the `%`, by `Wraps` (a pointer that is moved by
less than a round wraps at most once). That one slot stays free is what makes
the overflow test of `pushBack` the test for a full `BoundedFifo` (`PushRefines`).
The refinement maps `Items(q)` and the room of each queue, which is what was asked
for (`Rooming`); every operation maps to one step of `BoundedFifo` or a stutter.

`DynamicThreads_proofs`. The parts of `IInv`: who may be where (`Kinds`); who holds
`worker_access_mutex_` (`Access`); that nobody adds a slot before the constructor is
done (`Construction`, which is where `QuietStart` enters); that the slots below `size` are
those with a thread and only those beyond the core have a flag (`Filled`); what
a section may rely on for the slot it has chosen (`Chosen`); that a slot without a flag has a thread until `stop` joins (`Live`); that `thread_count_` and the
threads about to be counted make up the kept slots (`Counted`); who may join
(`Stops`); that an idle count at its limit is a flag (`IdleBound`). Most steps
touch none of this (`CalmStep`); the rest are inside a section (`Section` and one
lemma per step). `SlotIsFound` needs `Counted`: `loadCheck` compares
`thread_count_` with `max_threads`, `tryCreateNewThread` looks at slots. `StopLeavesNoThread`
adds `Joined`: under `NoRace` nobody starts a thread once the joins have begun, so
that `last` is still the end of `workers_` when the loop gets there.
`FlaggedAreAwake` has an invariant of its own, `Awake`.

`Startup_proofs`. `LogInv` adds to `InitializedIsRegistered` that only the program's thread
is ever in a call that changes the logger, and that a balancer that has exited is in no
log call (`Exclusive`), and what each step of `initialize` and `shutdown` finds
(`StepsInOrder`). `LoggerIsThere` follows from it and from who assigns `logger_`
(`MovesLogger`). `PoolInv` adds that a pool's
configuration was validated and has its types; `RoundTrip` follows each key through
`to_json` and `from_json`, with the keys in two units.

### Model-checked only

All liveness: `QueuedTaskRuns`, `BlockedSubmitEnters`, `ShutdownReturns`,
`WaitForAllTaskReturns`, `ElementsReachSleepers`, `RoomReachesSleepers`,
`TimedWaitEnds`, `FlaggedThreadReaped`, `LoadCheckReturns` and `StopReturns`. Liveness under
fairness is out of the prover's reach, as are `ENABLED` and induction over
recursive definitions. No module declares a RECURSIVE operator. That the pool's
task queue may be taken for a `Fifo` whose operations wait rests on the theorems
about `MPMCBlockingQueue`, and on the reading of the two modules together: the composition itself is
not a theorem.

## 6. Not modelled

- In `ThreadPool` the set of workers is fixed and they have no exit flag (lines
  355 and 371), and `active_threads_` moves with `running_tasks_`; in
  `DynamicThreads`, the policies other than BLOCKING, what becomes of each task,
  and two threads that stop a pool at once. No run has both in full: the
  product is out of TLC's reach, and workers that come and go affect tasks only
  through the exit flag, after which a worker has no task.
- Clock readings: idle times, check intervals and timeouts end at any moment.
- `thread_created`, `thread_destroyed`, `peak_thread` and `avg_tasks_time`, which
  nothing reads but `getStatus`.
- Tasks that call back into the pool: a client is never a worker. A task that
  submits to a full queue, waits for the pool or shuts it down blocks itself.
- Exceptions of `execute` other than `std::exception`, which end the program;
  allocation failures.
- Of the configuration: files, JSON parsing, the change of case of policy names,
  and `validateConfigExtra`, which prints warnings. Of the logger: `LoggerConfig`
  and its JSON, sinks, patterns, levels, the directory of the log file.
- `submitWithResult` beyond the outcome of its task, the moves of `FutureTask`,
  text formatting.
- Data races on memory that is not atomic and of which the model keeps nothing
  (`thread_last_active_`, read at line 534 while a worker writes it at 390). Of the
  race on `logger_`, what a torn `shared_ptr` or a call through an empty one does:
  the model ends at the question whether it can happen (observation (o)).

## 7. Plan

Done: the components of section 1 as far as section 6 does not exclude them,
their runs, and the theorems of section 5. Left:

1. An abstract pool (a task is accepted, runs, settles) that `ThreadPool`
   implements, with the refinement proved from `EveryTaskInOnePlace` and
   `SettledOnce`.
2. `BoundedFifo` as the abstract specification of `MPMCBlockingQueue` too, so that
   ring, blocking queue and pool form one chain.
3. `SettlesPromised` for programs with `pause`, in the form the code supports:
   what was accepted is settled unless a shutdown found a wrapped counter and
   the pool paused (observation (d)).

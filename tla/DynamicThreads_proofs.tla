------------------------- MODULE DynamicThreads_proofs -------------------------
(***************************************************************************)
(* Theorems about DynamicThreads, for every configuration that             *)
(* validateConfigBasic accepts, and any number of clients.  All but the    *)
(* last of them are about pools whose balancer finds nothing to do while   *)
(* the constructor starts the core workers.                                *)
(***************************************************************************)
EXTENDS DynamicThreads, Counting_proofs, WellFoundedInduction

\* A pool without tasks is no reason to create a thread.  With a task_limit of
\* 0 or a negative avg_task_threshold it is one, and the balancer may fill
\* slots the constructor has yet to come to (see README.md).
QuietStart ==
  config.enable_dynamic_thread =>
    config.task_limit # 0 /\ config.avg_task_threshold >= 0

-----------------------------------------------------------------------------
(***************************************************************************)
(* The inductive invariant                                                 *)
(***************************************************************************)

\* Steps with worker_access_mutex_ held, steps of the constructor, steps of submit;
\* and the number of idle checks after which a worker is flagged
SectionStep == {"create", "reap", "start", "enter", "emplace", "remove", "mark", "clean"}
BuildStep == {"construct", "countCore"}
SubmitterStep == {"push", "count", "notify"}
MaxIdle == Max({1, config.consecutive_idle_count})

\* Who may be where
Kinds ==
  /\ pc[Balancer] \in BalancerStep
  /\ config.enable_dynamic_thread \/ pc[Balancer] = "exited"
  /\ \A s \in Submitters : pc[s] \in SubmitterStep \cup {"idle"}
  /\ \A c \in Controllers : pc[c] \in ClientStep \ SubmitterStep

\* worker_access_mutex_ is held in the sections of loadCheck and
\* cleanFinishedThread, and by one thread.
Access == \A b \in Callers : pc[b] \in SectionStep <=> worker_access = b

\* Until the constructor is done, nobody else adds a slot or counts a thread.
Construction ==
  /\ \A c \in Controllers : pc[c] \in BuildStep => c = Builder
  /\ \A c \in Controllers : pc[c] \notin BuildStep \cup {"joinWorkers"} => next[c] = 0
  /\ Built => core_threads <= size
  /\ ~Built =>
       /\ thread_count = next[Builder] /\ next[Builder] < core_threads
       /\ size = next[Builder] + One(pc[Builder] = "countCore")
       /\ queued = 0 /\ ~stopped /\ state = "RUNNING"
       /\ \A b \in Submitters \cup Controllers : b = Builder \/ pc[b] = "idle"
       /\ pc[Balancer] \notin SectionStep \ {"clean"}
       /\ \A i \in Slots : ~should_exit[i] /\ wpc[i] # "busy"

\* The slots below size have a thread, and only those beyond the core a flag.
Filled ==
  /\ IndexIsSlot
  /\ \A i \in Slots : wpc[i] = "none" <=> i >= size
  /\ \A i \in Slots : should_exit[i] => core_threads <= i /\ i < size

\* What a section may rely on for the slot it has chosen
ChosenAt(b) ==
  /\ pc[b] \in {"reap", "start", "enter", "mark"} => core_threads <= slot /\ slot < size
  /\ pc[b] \in {"reap", "start", "enter"} => should_exit[slot]
  /\ pc[b] = "start" => ~Joinable(slot)
  /\ pc[b] = "emplace" => slot = size /\ size < max_threads
  /\ pc[b] = "create" => ThreadIndex < max_threads
Chosen == \A b \in Callers : ChosenAt(b)

\* stop has come to joining the workers, which moves no counter.
Joining == state = "STOPPED" \/ \E c \in Controllers : pc[c] = "joinWorkers"

\* The slot whose new thread is not counted yet
Entering(i) == i = slot /\ \E b \in Callers : pc[b] = "enter"

\* Until then a slot without a flag has a thread.
Live ==
  ~Joining => \A i \in Slots : i < size /\ (~should_exit[i] \/ Entering(i)) => Joinable(i)

\* thread_count_ and the threads that have still to be counted make up the slots
\* that are not waiting to be filled again.
Counting == {b \in Callers : pc[b] \in {"countCore", "enter"}}
Kept == {i \in Slots : i < size /\ (~should_exit[i] \/ Joinable(i) \/ Entering(i))}
Counted ==
  /\ IsFiniteSet(Counting) /\ IsFiniteSet(Kept)
  /\ thread_count + Cardinality(Counting) >= Cardinality(Kept)
  /\ ~Joining => thread_count + Cardinality(Counting) = Cardinality(Kept)

\* Nobody joins a worker before stopped_ is set and the balancer has ended.
Stops ==
  /\ \A c \in Controllers : pc[c] \in {"joinBalancer", "joinWorkers"} => stopped
  /\ state = "STOPPED" => stopped
  /\ Joining => pc[Balancer] = "exited"

\* A worker that was idle for as often as it may be is flagged at once.
IdleBound ==
  \A i \in Slots : idle_count[i] < MaxIdle \/ should_exit[i]
                   \/ (i = slot /\ \E b \in Callers : pc[b] = "mark")

\* The invariant; CoreWorkersStay is one of the properties the runs check.
IInv == /\ TypeOK /\ Kinds /\ Access /\ Construction /\ Filled /\ Chosen
        /\ Live /\ Counted /\ Stops /\ CoreWorkersStay /\ IdleBound

-----------------------------------------------------------------------------
\* The smallest of some naturals is one of them.
LEMMA MinOfNaturals ==
  ASSUME NEW S, S \subseteq Nat, S # {}
  PROVE  Min(S) \in S /\ \A y \in S : Min(S) <= y
<1>1. PICK m \in S : \A k \in S : <<k, m>> \notin OpToRel(<, Nat)
  BY WFMin, NatLessThanWellFounded
<1>2. \A k \in S : ~(k < m)
  BY <1>1, Zenon DEF OpToRel
<1>3. \A k \in S : m <= k
  BY <1>2
<1> QED BY <1>3 DEF Min

\* Of two integers, the larger and the smaller
LEMMA MaxOfTwo ==
  ASSUME NEW a \in Int, NEW b \in Int
  PROVE  /\ Max({a, b}) = IF a >= b THEN a ELSE b
         /\ Min({a, b}) = IF a <= b THEN a ELSE b
<1>1. \E x \in {a, b} : \A y \in {a, b} : x >= y
  OBVIOUS
<1>2. \E x \in {a, b} : \A y \in {a, b} : x <= y
  OBVIOUS
<1>3. Max({a, b}) \in {a, b} /\ \A y \in {a, b} : Max({a, b}) >= y
  BY <1>1 DEF Max
<1>4. Min({a, b}) \in {a, b} /\ \A y \in {a, b} : Min({a, b}) <= y
  BY <1>2 DEF Min
<1> QED BY <1>3, <1>4

\* What validateConfigBasic lets through
LEMMA Consts ==
  /\ core_threads \in Nat /\ core_threads >= 1
  /\ max_threads \in Nat /\ max_threads >= core_threads
  /\ config.max_queue_size \in Nat
  /\ config.task_limit \in Nat
  /\ config.consecutive_idle_count \in Nat
  /\ config.expand_factor \in Int /\ config.remove_factor \in Int
  /\ config.avg_task_threshold \in Int
  /\ config.enable_dynamic_thread \in BOOLEAN
  /\ config.enable_dynamic_thread => config.expand_factor > 0
  /\ MaxIdle \in Nat /\ MaxIdle >= 1 /\ MaxIdle >= config.consecutive_idle_count
  /\ \A i \in Slots : i \in Nat
  /\ \A i \in Nat : i < core_threads + max_threads => i \in Slots
<1>1. /\ {core_threads, max_threads, config.max_queue_size, config.task_limit,
          config.consecutive_idle_count} \subseteq Size
      /\ {config.expand_factor, config.remove_factor, config.avg_task_threshold} \subseteq Int
      /\ config.enable_dynamic_thread \in BOOLEAN
      /\ validateConfigBasic(config)
  BY ThreadsAssumption
<1>2. \A x \in Size : x \in Nat
  BY ConfigAssumption DEF Size
<1>3. /\ core_threads \in Nat /\ max_threads \in Nat /\ config.max_queue_size \in Nat
      /\ config.task_limit \in Nat /\ config.consecutive_idle_count \in Nat
  BY <1>1, <1>2
<1>4. /\ core_threads # 0 /\ max_threads >= core_threads
      /\ config.enable_dynamic_thread => config.expand_factor > 0
  BY <1>1 DEF validateConfigBasic, core_threads, max_threads
<1>5. MaxIdle = IF 1 >= config.consecutive_idle_count THEN 1
                ELSE config.consecutive_idle_count
  BY <1>3, MaxOfTwo DEF MaxIdle
<1>6. /\ \A i \in Slots : i \in Nat
      /\ \A i \in Nat : i < core_threads + max_threads => i \in Slots
  BY <1>3 DEF Slots
<1> QED BY <1>1, <1>3, <1>4, <1>5, <1>6

-----------------------------------------------------------------------------
(***************************************************************************)
(* Steps outside the sections of worker_access_mutex_ and the constructor  *)
(***************************************************************************)

\* Where slots, flags and counts change
Critical == SectionStep \cup BuildStep

\* No slot, flag or count changes, and no thread starts or is joined.
Calm ==
  /\ UNCHANGED <<size, index, should_exit, thread_count, worker_access, slot>>
  /\ \A i \in Slots : /\ wpc'[i] = "none" <=> wpc[i] = "none"
                      /\ wpc'[i] = "joined" <=> wpc[i] = "joined"
                      /\ idle_count'[i] = idle_count[i] \/ idle_count'[i] = 0
  /\ \A b \in Callers :
       pc'[b] = pc[b] \/ (pc[b] \notin Critical /\ pc'[b] \notin Critical)

\* What a step does while the constructor is still at work
Early ==
  ~Built =>
    /\ UNCHANGED <<queued, stopped, state>>
    /\ \A b \in Submitters \cup Controllers : pc'[b] = pc[b]
    /\ \A i \in Slots : wpc'[i] # "busy"

\* The loop variable of stop
Loops ==
  \A c \in Controllers :
    \/ next'[c] = next[c] /\ (pc[c] = "joinWorkers" => pc'[c] = "joinWorkers")
    \/ next'[c] = 0 /\ pc[c] = "joinWorkers"

\* A step outside the sections and the constructor keeps what IInv says of slots,
\* flags, counts and of who is in a section.
LEMMA CalmStep ==
  ASSUME IInv, TypeOK', Calm, Early, Loops, Joining => Joining'
  PROVE  Access' /\ Construction' /\ Filled' /\ Chosen' /\ Live' /\ Counted' /\ IdleBound'
<1>1. /\ size' = size /\ index' = index /\ should_exit' = should_exit
      /\ thread_count' = thread_count /\ worker_access' = worker_access /\ slot' = slot
      /\ \A i \in Slots : /\ wpc'[i] = "none" <=> wpc[i] = "none"
                          /\ wpc'[i] = "joined" <=> wpc[i] = "joined"
                          /\ Joinable(i)' <=> Joinable(i)
  BY DEF Calm, Joinable
<1>2. ASSUME NEW b \in Callers
      PROVE  /\ pc'[b] = pc[b] \/ (pc[b] \notin Critical /\ pc'[b] \notin Critical)
             /\ pc'[b] \in SectionStep <=> pc[b] \in SectionStep
             /\ \A s \in Critical : pc'[b] = s <=> pc[b] = s
  BY DEF Calm, Critical
<1>3. Access'
  BY <1>1, <1>2 DEF IInv, Access
<1>4. Filled'
  BY <1>1 DEF IInv, Filled, IndexIsSlot
<1>5. Refillable' = Refillable /\ ThreadIndex' = ThreadIndex
  BY <1>1 DEF Refillable, ThreadIndex
<1>6. \A b \in Callers : /\ pc'[b] = "create" <=> pc[b] = "create"
                         /\ pc'[b] = "reap" <=> pc[b] = "reap"
                         /\ pc'[b] = "start" <=> pc[b] = "start"
                         /\ pc'[b] = "enter" <=> pc[b] = "enter"
                         /\ pc'[b] = "emplace" <=> pc[b] = "emplace"
                         /\ pc'[b] = "mark" <=> pc[b] = "mark"
                         /\ pc'[b] = "construct" <=> pc[b] = "construct"
                         /\ pc'[b] = "countCore" <=> pc[b] = "countCore"
  BY <1>2 DEF Critical, SectionStep, BuildStep
<1>7. slot \in Slots
  BY DEF IInv, TypeOK
<1>8. Chosen'
  BY <1>1, <1>5, <1>6, <1>7 DEF IInv, Chosen, ChosenAt
<1>9. \A i \in Slots : Entering(i)' <=> Entering(i)
  BY <1>1, <1>6 DEF Entering
<1>10. Live'
  BY <1>1, <1>9 DEF IInv, Live
<1>11. Counting' = Counting /\ Kept' = Kept
  BY <1>1, <1>6, <1>9 DEF Counting, Kept
<1>12. Counted'
  BY <1>1, <1>11 DEF IInv, Counted
<1>13. IdleBound'
  BY <1>1, <1>6, Consts DEF IInv, IdleBound, Calm
<1>14. Construction'
  <2>1. Builder \in Controllers /\ Controllers \subseteq Callers /\ Balancer \in Callers
    BY ThreadsAssumption DEF Callers
  <2>2. Built' <=> Built
    BY <1>6, <2>1 DEF Built
  <2>3. \A c \in Controllers : pc'[c] \in BuildStep => c = Builder
    BY <1>6, <2>1 DEF BuildStep, IInv, Construction
  <2>4. \A c \in Controllers : pc'[c] \notin BuildStep \cup {"joinWorkers"} => next'[c] = 0
    BY <1>6, <2>1 DEF BuildStep, IInv, Construction, Loops
  <2>5. CASE Built
    BY <1>1, <2>2, <2>3, <2>4, <2>5 DEF IInv, Construction
  <2>6. CASE ~Built
    <3>1. pc[Builder] \in BuildStep /\ pc'[Builder] = pc[Builder]
      BY <2>1, <2>6 DEF Early, Built, BuildStep
    <3>2. next'[Builder] = next[Builder]
      BY <2>1, <3>1 DEF Loops, BuildStep
    <3>3. pc'[Balancer] \notin SectionStep \ {"clean"}
      BY <2>1, <2>6, <1>2 DEF IInv, Construction, Critical, SectionStep
    <3> QED
      BY <1>1, <2>2, <2>3, <2>4, <2>6, <3>1, <3>2, <3>3 DEF IInv, Construction, Early
  <2> QED BY <2>5, <2>6
<1> QED BY <1>3, <1>4, <1>8, <1>10, <1>12, <1>13, <1>14

-----------------------------------------------------------------------------
\* The steps a caller may go to
Allowed(b, s) ==
  /\ b = Balancer => s \in BalancerStep /\ config.enable_dynamic_thread
  /\ b \in Submitters => s \in SubmitterStep \cup {"idle"}
  /\ b \in Controllers => s \in ClientStep \ SubmitterStep

\* A caller that goes to a step of its kind leaves everyone where they may be.
LEMMA GoesTyped ==
  ASSUME IInv, NEW b \in Callers, NEW s, Goes(b, s), Allowed(b, s)
  PROVE  /\ pc' \in [Callers -> BalancerStep \cup ClientStep]
         /\ Kinds'
         /\ pc'[b] = s
         /\ \A d \in Callers : d # b => pc'[d] = pc[d]
<1>1. /\ pc \in [Callers -> BalancerStep \cup ClientStep]
      /\ pc' = [pc EXCEPT ![b] = s]
  BY DEF IInv, TypeOK, Goes
<1>2. pc'[b] = s /\ \A d \in Callers : d # b => pc'[d] = pc[d]
  BY <1>1
<1>3. b = Balancer \/ b \in Submitters \/ b \in Controllers
  BY DEF Callers
<1>4. s \in BalancerStep \cup ClientStep
  BY <1>3 DEF Allowed, SubmitterStep, ClientStep
<1>5. /\ Balancer \in Callers /\ Submitters \subseteq Callers /\ Controllers \subseteq Callers
      /\ Balancer \notin Submitters \cup Controllers /\ Submitters \cap Controllers = {}
  BY ThreadsAssumption DEF Callers
<1>6. Kinds'
  BY <1>2, <1>3, <1>5 DEF IInv, Kinds, Allowed
<1> QED BY <1>1, <1>2, <1>4, <1>6

\* Steps that move one caller and nothing else
LEMMA MovesCalm ==
  ASSUME IInv, NEW b \in Callers, NEW s, Moves(b, s), Allowed(b, s),
         pc[b] \notin Critical \cup {"joinWorkers"}, s \notin Critical,
         Built \/ b = Balancer
  PROVE  TypeOK' /\ Kinds' /\ Calm /\ Early /\ Loops
<1>1. /\ Goes(b, s)
      /\ UNCHANGED <<stateVars, queued, slotVars, wpc, thread_count, callVars>>
  BY DEF Moves
<1>2. /\ pc' \in [Callers -> BalancerStep \cup ClientStep] /\ Kinds'
      /\ pc'[b] = s /\ \A d \in Callers : d # b => pc'[d] = pc[d]
  BY <1>1, GoesTyped
<1>3. TypeOK'
  BY <1>1, <1>2 DEF IInv, TypeOK, stateVars, slotVars, callVars
<1>4. Calm
  BY <1>1, <1>2 DEF Calm, slotVars, callVars
<1>5. /\ Balancer \notin Submitters \cup Controllers
      /\ Submitters \subseteq Callers /\ Controllers \subseteq Callers
  BY ThreadsAssumption DEF Callers
<1>6. ~Built => \A i \in Slots : wpc[i] # "busy"
  BY DEF IInv, Construction
<1>7. Early
  BY <1>1, <1>2, <1>5, <1>6 DEF Early, stateVars
<1>8. Loops
  BY <1>1, <1>2, <1>5 DEF Loops, callVars
<1> QED BY <1>2, <1>3, <1>4, <1>7, <1>8

\* The end of a task may wake the waits on wait_cv_.
WaitersWoken ==
  /\ pc' \in [Callers -> BalancerStep \cup ClientStep]
  /\ \A b \in Callers : pc'[b] = pc[b] \/ (pc[b] = "waitCv" /\ pc'[b] = "waitAll")

\* That is all a worker does to the callers.
LEMMA WorkersWake ==
  ASSUME pc \in [Callers -> BalancerStep \cup ClientStep],
         NEW i \in Slots, WorkerLoop(i) \/ WakeSpuriously(i)
  PROVE  /\ WaitersWoken
         /\ UNCHANGED <<stateVars, size, index, should_exit, thread_count, callVars>>
<1>1. pc' = pc \/ pc' = [b \in Callers |-> IF pc[b] = "waitCv" THEN "waitAll" ELSE pc[b]]
  BY DEF WorkerLoop, TestExit, TestPaused, LeavePause, AwaitTask, Finish, WakeSpuriously, WorkerMoves
<1>2. "waitAll" \in ClientStep
  BY DEF ClientStep
<1>3. WaitersWoken
  BY <1>1, <1>2 DEF WaitersWoken
<1>4. UNCHANGED <<stateVars, size, index, should_exit, thread_count, callVars>>
  BY DEF WorkerLoop, TestExit, TestPaused, LeavePause, AwaitTask, Finish, WakeSpuriously,
         WorkerMoves, slotVars
<1> QED BY <1>3, <1>4

\* Steps of a worker
LEMMA WorkerCalm ==
  ASSUME IInv, NEW i \in Slots, NEW s \in WorkerStep \ {"none", "joined"},
         wpc[i] \notin {"none", "joined"}, WorkerGoes(i, s),
         s = "busy" => queued > 0,
         queued' \in 0 .. config.max_queue_size, Built \/ queued' = queued,
         idle_count' = idle_count \/ idle_count' = [idle_count EXCEPT ![index[i]] = 0],
         WaitersWoken,
         UNCHANGED <<stateVars, size, index, should_exit, thread_count, callVars>>
  PROVE  TypeOK' /\ Kinds' /\ Calm /\ Early /\ Loops
<1>1. /\ wpc \in [Slots -> WorkerStep] /\ wpc' = [wpc EXCEPT ![i] = s]
      /\ idle_count \in [Slots -> 0 .. Max({1, config.consecutive_idle_count})]
      /\ index[i] \in Slots
  BY DEF IInv, TypeOK, WorkerGoes
<1>2. wpc' \in [Slots -> WorkerStep] /\ wpc'[i] = s /\ \A j \in Slots : j # i => wpc'[j] = wpc[j]
  BY <1>1
<1>3. 0 \in 0 .. Max({1, config.consecutive_idle_count})
  BY Consts DEF MaxIdle
<1>4. /\ idle_count' \in [Slots -> 0 .. Max({1, config.consecutive_idle_count})]
      /\ \A j \in Slots : idle_count'[j] = idle_count[j] \/ idle_count'[j] = 0
  BY <1>1, <1>3
<1>5. TypeOK'
  BY <1>2, <1>4 DEF IInv, TypeOK, stateVars, callVars, WaitersWoken
<1>6. /\ Balancer \in Callers /\ Submitters \subseteq Callers /\ Controllers \subseteq Callers
      /\ Builder \in Controllers
  BY ThreadsAssumption DEF Callers
<1>7. /\ "waitCv" \notin BalancerStep \cup SubmitterStep \cup Critical \cup {"idle", "joinWorkers"}
      /\ "waitAll" \notin Critical \cup SubmitterStep /\ "waitAll" \in ClientStep
  BY DEF BalancerStep, CheckStep, ClientStep, SubmitterStep, Critical, SectionStep, BuildStep
<1>8. Kinds'
  BY <1>6, <1>7 DEF IInv, Kinds, WaitersWoken
<1>9. Calm
  BY <1>2, <1>4, <1>7 DEF Calm, callVars, WaitersWoken
<1>10. Early
  <2>1. ~Built => \A b \in Submitters \cup Controllers : pc[b] \in BuildStep \cup {"idle"}
    BY DEF IInv, Construction, Built, BuildStep
  <2>2. ~Built => \A b \in Submitters \cup Controllers : pc'[b] = pc[b]
    BY <1>6, <1>7, <2>1 DEF WaitersWoken, Critical
  <2>3. ~Built => queued' = queued /\ s # "busy" /\ \A j \in Slots : wpc[j] # "busy"
    BY DEF IInv, Construction
  <2> QED BY <1>2, <2>2, <2>3 DEF Early, stateVars
<1>11. Loops
  BY <1>6, <1>7 DEF Loops, callVars, WaitersWoken
<1> QED BY <1>5, <1>8, <1>9, <1>10, <1>11

\* What a worker does by itself changes no slot, flag or count.
LEMMA WorkerSteps ==
  ASSUME IInv, NEW i \in Slots, WorkerLoop(i) \/ WakeSpuriously(i)
  PROVE  TypeOK' /\ Kinds' /\ Calm /\ Early /\ Loops
<1>0. /\ WaitersWoken
      /\ UNCHANGED <<stateVars, size, index, should_exit, thread_count, callVars>>
  BY WorkersWake DEF IInv, TypeOK
<1>1. ASSUME NEW s \in WorkerStep \ {"none", "joined", "busy"},
             wpc[i] \notin {"none", "joined"}, WorkerGoes(i, s),
             queued' = queued, idle_count' = idle_count
      PROVE  TypeOK' /\ Kinds' /\ Calm /\ Early /\ Loops
  <2>1. queued \in 0 .. config.max_queue_size
    BY DEF IInv, TypeOK
  <2> QED BY <1>0, <1>1, <2>1, WorkerCalm
<1>2. CASE TestExit(i)
  <2>1. PICK s \in {"exited", "state"} : wpc[i] = "top" /\ WorkerMoves(i, s)
    BY <1>2 DEF TestExit
  <2> QED BY <2>1, <1>1 DEF WorkerStep, WorkerMoves, slotVars
<1>3. CASE TestPaused(i)
  <2>1. PICK s \in {"paused", "lock"} : wpc[i] = "state" /\ WorkerMoves(i, s)
    BY <1>3 DEF TestPaused
  <2> QED BY <2>1, <1>1 DEF WorkerStep, WorkerMoves, slotVars
<1>4. CASE LeavePause(i)
  <2>1. PICK s \in {"exited", "lock"} : wpc[i] = "paused" /\ WorkerMoves(i, s)
    BY <1>4 DEF LeavePause
  <2> QED BY <2>1, <1>1 DEF WorkerStep, WorkerMoves, slotVars
<1>5. CASE AwaitTask(i)
  <2>1. wpc[i] = "lock"
    BY <1>5 DEF AwaitTask
  <2>2. queued \in 0 .. config.max_queue_size /\ (~Built => queued = 0)
        /\ config.max_queue_size \in Nat
    BY Consts DEF IInv, TypeOK, Construction
  <2>3. \/ /\ WorkerGoes(i, "waiting") \/ WorkerGoes(i, "exited") \/ WorkerGoes(i, "top")
           /\ queued' = queued /\ idle_count' = idle_count
        \/ /\ WorkerGoes(i, "busy") /\ queued > 0 /\ queued' = queued - 1
           /\ idle_count' = [idle_count EXCEPT ![index[i]] = 0]
    BY <1>5 DEF AwaitTask
  <2>4. ASSUME NEW s \in WorkerStep \ {"none", "joined", "busy"}, WorkerGoes(i, s),
               queued' = queued, idle_count' = idle_count
        PROVE  TypeOK' /\ Kinds' /\ Calm /\ Early /\ Loops
    BY <1>1, <2>1, <2>4
  <2>5. CASE WorkerGoes(i, "busy") /\ queued > 0 /\ queued' = queued - 1
             /\ idle_count' = [idle_count EXCEPT ![index[i]] = 0]
    <3>1. queued' \in 0 .. config.max_queue_size /\ Built
      BY <2>2, <2>5
    <3> QED BY <1>0, <2>1, <2>5, <3>1, WorkerCalm DEF WorkerStep
  <2> QED BY <2>3, <2>4, <2>5 DEF WorkerStep
<1>6. CASE Finish(i)
  <2>1. /\ wpc[i] = "busy" /\ WorkerGoes(i, "top") /\ queued' = queued
        /\ idle_count' = idle_count
    BY <1>6 DEF Finish, slotVars
  <2> QED BY <2>1, <1>1 DEF WorkerStep, WorkerMoves, slotVars
<1>7. CASE WakeSpuriously(i)
  <2>1. wpc[i] = "waiting" /\ WorkerMoves(i, "lock")
    BY <1>7 DEF WakeSpuriously
  <2> QED BY <2>1, <1>1 DEF WorkerStep, WorkerMoves, slotVars
<1> QED BY <1>2, <1>3, <1>4, <1>5, <1>6, <1>7 DEF WorkerLoop

-----------------------------------------------------------------------------
\* A step of caller b to s, which may wake the balancer or workers
Steps(b, s) ==
  /\ pc' \in [Callers -> BalancerStep \cup ClientStep]
  /\ pc'[b] = s
  /\ \A d \in Callers : \/ d = b
                        \/ pc'[d] = pc[d]
                        \/ d = Balancer /\ pc[d] = "asleep" /\ pc'[d] = "pauseTest"

\* Sleeping workers are woken, and nothing else happens to a worker.
Wakes ==
  /\ wpc' \in [Slots -> WorkerStep]
  /\ \A i \in Slots : wpc'[i] = wpc[i] \/ (wpc[i] = "waiting" /\ wpc'[i] = "lock")

\* The ways in which the actions move a caller, with or without waking the balancer
LEMMA Stepping ==
  ASSUME IInv, NEW b \in Callers, NEW s, Allowed(b, s)
  PROVE  /\ Goes(b, s) => Steps(b, s)
         /\ pc' = pc /\ pc[b] = s => Steps(b, s)
         /\ pc' = [BalancerWoken(pc) EXCEPT ![b] = s] => Steps(b, s)
         /\ pc' = BalancerWoken(pc) /\ pc[b] = s /\ b # Balancer => Steps(b, s)
<1>1. pc \in [Callers -> BalancerStep \cup ClientStep]
  BY DEF IInv, TypeOK
<1>2. Goes(b, s) => Steps(b, s)
  BY GoesTyped DEF Steps
<1>3. pc' = pc /\ pc[b] = s => Steps(b, s)
  BY <1>1 DEF Steps
<1> DEFINE w == BalancerWoken(pc)
<1>4. /\ w \in [Callers -> BalancerStep \cup ClientStep]
      /\ \A d \in Callers : \/ w[d] = pc[d]
                            \/ d = Balancer /\ pc[d] = "asleep" /\ w[d] = "pauseTest"
  <2>1. "pauseTest" \in BalancerStep /\ Balancer \in Callers
    BY DEF BalancerStep, Callers
  <2> QED BY <1>1, <2>1 DEF BalancerWoken
<1>5. s \in BalancerStep \cup ClientStep
  BY DEF Allowed, Callers, SubmitterStep, ClientStep
<1> HIDE DEF w
<1>6. pc' = [w EXCEPT ![b] = s] => Steps(b, s)
  BY <1>4, <1>5 DEF Steps
<1>7. pc' = w /\ pc[b] = s /\ b # Balancer => Steps(b, s)
  BY <1>4 DEF Steps
<1> QED BY <1>2, <1>3, <1>6, <1>7 DEF w

\* The ways in which the actions wake workers: none, all, or one
LEMMA Waking ==
  ASSUME IInv
  PROVE  /\ wpc' = wpc => Wakes
         /\ wpc' = WakeWorkers => Wakes
         /\ \A i \in Slots : wpc[i] = "waiting" /\ WorkerGoes(i, "lock") => Wakes
<1>1. wpc \in [Slots -> WorkerStep] /\ "lock" \in WorkerStep
  BY DEF IInv, TypeOK, WorkerStep
<1> QED BY <1>1 DEF Wakes, WakeWorkers, WorkerGoes

\* The same for a step of a client outside the sections that may wake others.
LEMMA CallerCalm ==
  ASSUME IInv, NEW b \in Submitters \cup Controllers, NEW s, Allowed(b, s), Steps(b, s),
         pc[b] \notin Critical \cup {"joinWorkers"}, s \notin Critical, Built,
         Wakes, queued' \in 0 .. config.max_queue_size, state' \in State,
         stopped' \in BOOLEAN, load_balancer_exit' \in BOOLEAN,
         UNCHANGED <<slotVars, thread_count, worker_access, slot, next>>,
         last' \in Slots \cup {core_threads + max_threads}
  PROVE  TypeOK' /\ Kinds' /\ Calm /\ Early /\ Loops
<1>1. /\ pc' \in [Callers -> BalancerStep \cup ClientStep] /\ pc'[b] = s
      /\ \A d \in Callers : \/ d = b
                            \/ pc'[d] = pc[d]
                            \/ d = Balancer /\ pc[d] = "asleep" /\ pc'[d] = "pauseTest"
  BY DEF Steps
<1>2. /\ wpc' \in [Slots -> WorkerStep]
      /\ \A i \in Slots : wpc'[i] = wpc[i] \/ (wpc[i] = "waiting" /\ wpc'[i] = "lock")
  BY DEF Wakes
<1>3. /\ Balancer \in Callers /\ Submitters \subseteq Callers /\ Controllers \subseteq Callers
      /\ Balancer \notin Submitters \cup Controllers /\ Submitters \cap Controllers = {}
  BY ThreadsAssumption DEF Callers
<1>4. TypeOK'
  BY <1>1, <1>2 DEF IInv, TypeOK, slotVars
<1>5. "asleep" \notin Critical /\ "pauseTest" \notin Critical /\ "pauseTest" \in BalancerStep
  BY DEF Critical, SectionStep, BuildStep, BalancerStep
<1>6. Kinds'
  BY <1>1, <1>3, <1>5 DEF IInv, Kinds, Allowed
<1>7. Calm
  BY <1>1, <1>2, <1>5 DEF Calm, slotVars
<1>8. Early
  BY DEF Early
<1>9. Loops
  BY <1>1, <1>3 DEF Loops
<1> QED BY <1>4, <1>6, <1>7, <1>8, <1>9

\* submit changes no slot, flag or count, and waits for the constructor.
LEMMA SubmitterSteps ==
  ASSUME IInv, NEW s \in Submitters, Submit(s) \/ SubmitStep(s)
  PROVE  TypeOK' /\ Kinds' /\ Calm /\ Early /\ Loops
<1>1. /\ s \in Callers /\ s # Balancer /\ s \notin Controllers /\ s \in Submitters \cup Controllers
      /\ \A step \in SubmitterStep \cup {"idle"} : Allowed(s, step)
  BY ThreadsAssumption DEF Callers, Allowed
<1>2. Built
  <2>1. pc[s] # "idle" => Built
    BY <1>1, ThreadsAssumption DEF IInv, Construction
  <2> QED BY <2>1 DEF Submit, SubmitStep, Push, CountPending, NotifyWorker
<1>3. /\ queued \in 0 .. config.max_queue_size /\ state \in State
      /\ stopped \in BOOLEAN /\ load_balancer_exit \in BOOLEAN
      /\ last \in Slots \cup {core_threads + max_threads}
  BY DEF IInv, TypeOK
<1>4. SubmitterStep \cup {"idle"} = {"push", "count", "notify", "idle"}
  BY DEF SubmitterStep
<1>5. \A step \in SubmitterStep \cup {"idle"} : step \notin Critical \cup {"joinWorkers"}
  BY <1>4 DEF Critical, SectionStep, BuildStep
<1>6. CASE Submit(s)
  <2>1. pc[s] = "idle" /\ Moves(s, "push")
    BY <1>6 DEF Submit
  <2> QED BY <1>1, <1>2, <1>4, <1>5, <2>1, MovesCalm
<1>7. CASE Push(s)
  <2>1. /\ pc[s] = "push" /\ Goes(s, "count") /\ wpc' = wpc
        /\ queued' \in 0 .. config.max_queue_size
        /\ UNCHANGED <<stateVars, slotVars, thread_count, callVars>>
    BY <1>3, <1>7, Consts DEF Push
  <2>2. Allowed(s, "count")
    BY <1>1, <1>4
  <2>3. Steps(s, "count") /\ Wakes
    BY <1>1, <2>1, <2>2, Stepping, Waking
  <2> QED BY <1>1, <1>2, <1>3, <1>4, <1>5, <2>1, <2>2, <2>3, CallerCalm DEF stateVars, callVars
<1>8. CASE CountPending(s)
  <2>1. pc[s] = "count" /\ Moves(s, "notify")
    BY <1>8 DEF CountPending
  <2> QED BY <1>1, <1>2, <1>4, <1>5, <2>1, MovesCalm
<1>9. CASE NotifyWorker(s)
  <2>1. /\ pc[s] = "notify" /\ Goes(s, "idle")
        /\ UNCHANGED <<stateVars, queued, slotVars, thread_count, callVars>>
    BY <1>9 DEF NotifyWorker
  <2>2. wpc' = wpc \/ \E i \in Slots : wpc[i] = "waiting" /\ WorkerGoes(i, "lock")
    BY <1>9 DEF NotifyWorker
  <2>3. Allowed(s, "idle")
    BY <1>1, <1>4
  <2>4. Steps(s, "idle") /\ Wakes
    BY <1>1, <2>1, <2>2, <2>3, Stepping, Waking
  <2> QED BY <1>1, <1>2, <1>3, <1>4, <1>5, <2>1, <2>3, <2>4, CallerCalm DEF stateVars, callVars
<1> QED BY <1>6, <1>7, <1>8, <1>9 DEF SubmitStep

-----------------------------------------------------------------------------
\* The waits of shutdown
WaitPhase == {"waitAll", "waitCv", "readRunning", "readPending", "busy", "force"}
WaitStep(c) ==
  \/ AwaitNoPending(c) \/ WakeWaiterSpuriously(c) \/ ReadRunning(c) \/ ReadPending(c)
  \/ PollAgain(c) \/ TimeOut(c)

\* They move their caller and nothing else.
LEMMA Waits ==
  ASSUME NEW c, WaitStep(c)
  PROVE  /\ pc[c] \in WaitPhase
         /\ \E s \in WaitPhase \cup {"stopBalancer"} : Moves(c, s)
BY DEF WaitStep, WaitPhase, AwaitNoPending, WakeWaiterSpuriously, ReadRunning, ReadPending,
       PollAgain, TimeOut

\* The steps of a controller outside the sections, up to the joins
ControlCalm(c) ==
  \/ Call(c) \/ WaitStep(c) \/ ForceStop(c) \/ Drain(c) \/ StopBalancer(c)
  \/ StopWorkers(c) \/ JoinBalancer(c)

\* Nor do the calls of pause, resume, shutdown and stop up to the joins.
LEMMA ControlSteps ==
  ASSUME IInv, NEW c \in Controllers, ControlCalm(c)
  PROVE  TypeOK' /\ Kinds' /\ Calm /\ Early /\ Loops
<1> DEFINE Steady == TypeOK' /\ Kinds' /\ Calm /\ Early /\ Loops
<1>1. /\ c \in Callers /\ c # Balancer /\ c \in Submitters \cup Controllers
      /\ \A s \in ClientStep \ SubmitterStep : Allowed(c, s)
  BY ThreadsAssumption DEF Callers, Allowed
<1>2. /\ queued \in 0 .. config.max_queue_size /\ 0 \in 0 .. config.max_queue_size
      /\ state \in State /\ stopped \in BOOLEAN /\ load_balancer_exit \in BOOLEAN
      /\ last \in Slots \cup {core_threads + max_threads}
  BY Consts DEF IInv, TypeOK
<1>3. State = {"RUNNING", "PAUSED", "SHUTING_DOWN", "FORCE_SHUTING", "STOPPED"}
  BY DEF State
<1> DEFINE Plain == WaitPhase \cup {"idle", "drain", "stopBalancer", "stopWorkers", "joinBalancer"}
<1>4. /\ \A s \in Plain \cup {"lockCheck", "joinWorkers"} : s \in ClientStep \ SubmitterStep /\ s \notin Critical
      /\ "joinWorkers" \notin Plain
  BY DEF WaitPhase, ClientStep, CheckStep, SubmitterStep, Critical, SectionStep, BuildStep
<1>5. pc[c] \in Plain => Built \/ pc[c] = "idle"
  <2>1. ~Built => c = Builder \/ pc[c] = "idle"
    BY <1>1 DEF IInv, Construction
  <2> QED BY <2>1 DEF Built, WaitPhase
<1> HIDE DEF Plain
<1>6. ASSUME NEW s \in Plain \cup {"lockCheck", "joinWorkers"}, pc[c] \in Plain, Built, Moves(c, s)
      PROVE  Steady
  BY <1>1, <1>4, <1>6, MovesCalm
<1>7. ASSUME NEW s \in Plain, pc[c] \in Plain, Built, Steps(c, s), Wakes,
             queued' \in {0, queued}, state' \in State, stopped' \in BOOLEAN,
             load_balancer_exit' \in BOOLEAN,
             UNCHANGED <<slotVars, thread_count, callVars>>
      PROVE  Steady
  <2>1. queued' \in 0 .. config.max_queue_size
    BY <1>2, <1>7
  <2> QED BY <1>1, <1>2, <1>4, <1>7, <2>1, CallerCalm DEF callVars
<1>8. \A s \in Plain : Allowed(c, s)
  BY <1>1, <1>4
<1>9. CASE LoadCheck(c)
  <2>1. pc[c] = "idle" /\ Built /\ Moves(c, "lockCheck")
    BY <1>9 DEF LoadCheck
  <2>2. pc[c] \in Plain /\ "lockCheck" \in Plain \cup {"lockCheck", "joinWorkers"}
    BY <2>1 DEF Plain
  <2> QED BY <1>6, <2>1, <2>2
<1>10. CASE WaitStep(c)
  <2>1. PICK s \in WaitPhase \cup {"stopBalancer"} : Moves(c, s)
    BY <1>10, Waits
  <2>2. pc[c] \in Plain /\ pc[c] # "idle" /\ s \in Plain \cup {"lockCheck", "joinWorkers"}
    BY <1>10, Waits DEF Plain, WaitPhase
  <2> QED BY <1>5, <1>6, <2>1, <2>2
<1>11. CASE Stop(c)
  <2>1. pc[c] = "idle" /\ Built /\ Moves(c, "stopBalancer")
    BY <1>11 DEF Stop, Begins
  <2>2. pc[c] \in Plain /\ "stopBalancer" \in Plain \cup {"lockCheck", "joinWorkers"}
    BY <2>1 DEF Plain
  <2> QED BY <1>6, <2>1, <2>2
<1>12. CASE JoinBalancer(c)
  <2>1. /\ pc[c] = "joinBalancer" /\ Goes(c, "joinWorkers") /\ wpc' = wpc /\ last' = size
        /\ UNCHANGED <<stateVars, queued, slotVars, thread_count, worker_access, slot, next>>
    BY <1>12 DEF JoinBalancer
  <2>2. pc[c] \in Plain /\ Built
    BY <1>5, <2>1 DEF Plain
  <2>3. Allowed(c, "joinWorkers") /\ "joinWorkers" \notin Critical
    BY <1>1, <1>4
  <2>4. Steps(c, "joinWorkers") /\ Wakes
    BY <1>1, <2>1, <2>3, Stepping, Waking
  <2>5. last' \in Slots \cup {core_threads + max_threads}
    <3>1. size \in 0 .. core_threads + max_threads /\ core_threads \in Nat /\ max_threads \in Nat
      BY Consts DEF IInv, TypeOK
    <3>2. size \in Nat /\ (size < core_threads + max_threads \/ size = core_threads + max_threads)
      BY <3>1
    <3> QED BY <2>1, <3>2, Consts
  <2> QED BY <1>1, <1>2, <1>4, <2>1, <2>2, <2>3, <2>4, <2>5, CallerCalm DEF stateVars
<1>13. CASE Pause(c)
  <2>1. /\ pc[c] = "idle" /\ Built
        /\ pc' = pc
        /\ wpc' = wpc
        /\ queued' \in {0, queued} /\ state' \in State /\ stopped' \in BOOLEAN
        /\ load_balancer_exit' \in BOOLEAN
        /\ UNCHANGED <<slotVars, thread_count, callVars>>
    BY <1>2, <1>3, <1>13 DEF Pause, Begins
  <2>2. pc[c] \in Plain /\ "idle" \in Plain
    BY <2>1 DEF Plain
  <2>3. Steps(c, "idle") /\ Wakes
    BY <1>1, <1>8, <2>1, <2>2, Stepping, Waking
  <2> QED BY <1>5, <1>7, <2>1, <2>2, <2>3
<1>14. CASE Resume(c)
  <2>1. /\ pc[c] = "idle" /\ Built
        /\ pc' = BalancerWoken(pc)
        /\ wpc' = wpc
        /\ queued' \in {0, queued} /\ state' \in State /\ stopped' \in BOOLEAN
        /\ load_balancer_exit' \in BOOLEAN
        /\ UNCHANGED <<slotVars, thread_count, callVars>>
    BY <1>2, <1>3, <1>14 DEF Resume, Begins
  <2>2. pc[c] \in Plain /\ "idle" \in Plain
    BY <2>1 DEF Plain
  <2>3. Steps(c, "idle") /\ Wakes
    BY <1>1, <1>8, <2>1, <2>2, Stepping, Waking
  <2> QED BY <1>5, <1>7, <2>1, <2>2, <2>3
<1>15. CASE Shutdown(c)
  <2>0. PICK step \in {"waitAll", "readRunning", "force"} : Goes(c, step)
    BY <1>15 DEF Shutdown
  <2>1. /\ pc[c] = "idle" /\ Built
        /\ wpc' = wpc
        /\ queued' \in {0, queued} /\ state' \in State /\ stopped' \in BOOLEAN
        /\ load_balancer_exit' \in BOOLEAN
        /\ UNCHANGED <<slotVars, thread_count, callVars>>
    BY <1>2, <1>3, <1>15 DEF Shutdown, Begins
  <2>2. pc[c] \in Plain /\ step \in Plain
    BY <2>1 DEF Plain, WaitPhase
  <2>3. Steps(c, step) /\ Wakes
    BY <1>1, <1>8, <2>0, <2>1, <2>2, Stepping, Waking
  <2> QED BY <1>5, <1>7, <2>1, <2>2, <2>3
<1>16. CASE Drain(c)
  <2>1. /\ pc[c] = "drain"
        /\ Goes(c, "stopBalancer")
        /\ wpc' = wpc
        /\ queued' \in {0, queued} /\ state' \in State /\ stopped' \in BOOLEAN
        /\ load_balancer_exit' \in BOOLEAN
        /\ UNCHANGED <<slotVars, thread_count, callVars>>
    BY <1>2, <1>3, <1>16 DEF Drain, stateVars
  <2>2. pc[c] \in Plain /\ "stopBalancer" \in Plain
    BY <2>1 DEF Plain
  <2>3. Steps(c, "stopBalancer") /\ Wakes
    BY <1>1, <1>8, <2>1, <2>2, Stepping, Waking
  <2> QED BY <1>5, <1>7, <2>1, <2>2, <2>3
<1>17. CASE StopBalancer(c)
  <2>1. /\ pc[c] = "stopBalancer"
        /\ pc' = [BalancerWoken(pc) EXCEPT ![c] = "stopWorkers"]
        /\ wpc' = wpc
        /\ queued' \in {0, queued} /\ state' \in State /\ stopped' \in BOOLEAN
        /\ load_balancer_exit' \in BOOLEAN
        /\ UNCHANGED <<slotVars, thread_count, callVars>>
    BY <1>2, <1>3, <1>17 DEF StopBalancer
  <2>2. pc[c] \in Plain /\ "stopWorkers" \in Plain
    BY <2>1 DEF Plain
  <2>3. Steps(c, "stopWorkers") /\ Wakes
    BY <1>1, <1>8, <2>1, <2>2, Stepping, Waking
  <2> QED BY <1>5, <1>7, <2>1, <2>2, <2>3
<1>18. CASE StopWorkers(c)
  <2>1. /\ pc[c] = "stopWorkers"
        /\ Goes(c, "joinBalancer")
        /\ wpc' = WakeWorkers
        /\ queued' \in {0, queued} /\ state' \in State /\ stopped' \in BOOLEAN
        /\ load_balancer_exit' \in BOOLEAN
        /\ UNCHANGED <<slotVars, thread_count, callVars>>
    BY <1>2, <1>3, <1>18 DEF StopWorkers
  <2>2. pc[c] \in Plain /\ "joinBalancer" \in Plain
    BY <2>1 DEF Plain
  <2>3. Steps(c, "joinBalancer") /\ Wakes
    BY <1>1, <1>8, <2>1, <2>2, Stepping, Waking
  <2> QED BY <1>5, <1>7, <2>1, <2>2, <2>3
<1>19. CASE ForceStop(c)
  <2>1. /\ pc[c] = "force" /\ wpc' = wpc
        /\ Goes(c, "idle") \/ Goes(c, "drain")
        /\ queued' \in {0, queued} /\ state' \in State /\ stopped' \in BOOLEAN
        /\ load_balancer_exit' \in BOOLEAN
        /\ UNCHANGED <<slotVars, thread_count, callVars>>
    BY <1>2, <1>3, <1>19 DEF ForceStop
  <2>2. pc[c] \in Plain /\ "idle" \in Plain /\ "drain" \in Plain /\ Built
    BY <1>5, <2>1 DEF Plain, WaitPhase
  <2>3. Wakes
    BY <2>1, Waking
  <2>4. CASE Goes(c, "idle")
    BY <1>1, <1>7, <1>8, <2>1, <2>2, <2>3, <2>4, Stepping
  <2>5. CASE Goes(c, "drain")
    BY <1>1, <1>7, <1>8, <2>1, <2>2, <2>3, <2>5, Stepping
  <2> QED BY <2>1, <2>4, <2>5
<1> QED BY <1>9, <1>10, <1>11, <1>12, <1>13, <1>14, <1>15, <1>16, <1>17, <1>18, <1>19 DEF ControlCalm, Call

\* Nor does the end of stop, after the last join.
LEMMA EndStopCalm ==
  ASSUME IInv, NEW c \in Controllers, EndStop(c)
  PROVE  TypeOK' /\ Kinds' /\ Calm /\ Early /\ Loops
<1>1. /\ pc[c] = "joinWorkers" /\ Goes(c, "idle")
      /\ state' = "STOPPED" /\ next' = [next EXCEPT ![c] = 0]
      /\ UNCHANGED <<stopped, load_balancer_exit, queued, slotVars, wpc, thread_count,
                     worker_access, slot, last>>
  BY DEF EndStop
<1>2. c \in Callers /\ Allowed(c, "idle") /\ Controllers \subseteq Callers
  BY ThreadsAssumption DEF Callers, Allowed, ClientStep, SubmitterStep
<1>3. /\ pc' \in [Callers -> BalancerStep \cup ClientStep] /\ Kinds'
      /\ pc'[c] = "idle" /\ \A d \in Callers : d # c => pc'[d] = pc[d]
  BY <1>1, <1>2, GoesTyped
<1>4. 0 \in Slots \cup {core_threads + max_threads}
  BY Consts
<1>5. /\ next' \in [Controllers -> Slots \cup {core_threads + max_threads}]
      /\ next'[c] = 0 /\ \A d \in Controllers : d # c => next'[d] = next[d]
  BY <1>1, <1>4 DEF IInv, TypeOK
<1>6. TypeOK'
  BY <1>1, <1>3, <1>5 DEF IInv, TypeOK, slotVars, State
<1>7. "idle" \notin Critical /\ "joinWorkers" \notin Critical
  BY DEF Critical, SectionStep, BuildStep
<1>8. Calm
  BY <1>1, <1>3, <1>7 DEF Calm, slotVars
<1>9. Built
  BY <1>1, <1>2 DEF IInv, Construction, Built
<1>10. Loops
  BY <1>1, <1>2, <1>3, <1>5 DEF Loops
<1> QED BY <1>3, <1>6, <1>8, <1>9, <1>10 DEF Early

\* The balancer outside its sections
LEMMA BalancerCalm ==
  ASSUME IInv, BalancerLoop(Balancer) \/ AwaitResume(Balancer) \/ EndSleep(Balancer)
  PROVE  TypeOK' /\ Kinds' /\ Calm /\ Early /\ Loops
<1> DEFINE Outside == {"loop", "pauseTest", "asleep", "sleep", "lockClean", "lockCheck", "exited"}
<1>1. Balancer \in Callers /\ Balancer \notin Submitters \cup Controllers
  BY ThreadsAssumption DEF Callers
<1>2. PICK s \in Outside : pc[Balancer] \in {"loop", "pauseTest", "sleep"} /\ Moves(Balancer, s)
  BY DEF BalancerLoop, AwaitResume, EndSleep
<1>3. config.enable_dynamic_thread
  BY <1>2 DEF IInv, Kinds
<1>4. Allowed(Balancer, s)
  BY <1>1, <1>3 DEF Allowed, BalancerStep, CheckStep
<1>5. pc[Balancer] \notin Critical \cup {"joinWorkers"} /\ s \notin Critical
  BY <1>2 DEF Critical, SectionStep, BuildStep
<1> QED BY <1>1, <1>2, <1>4, <1>5, MovesCalm

-----------------------------------------------------------------------------
(***************************************************************************)
(* The sections of worker_access_mutex_                                    *)
(***************************************************************************)

\* b holds the mutex or takes it while it is free, and is to hold it at s or
\* has let go of it.
Holds(b, s) ==
  /\ worker_access = NoThread \/ pc[b] \in SectionStep
  /\ \/ worker_access' = b /\ s \in SectionStep
     \/ worker_access' = NoThread /\ s \notin SectionStep

\* A caller that goes into a section, on within it or out of it: the mutex says so,
\* the chosen slot is its own, and only its own step can change which threads are
\* to be counted and which slot is about to be.
LEMMA Section ==
  ASSUME IInv, NEW b \in Callers, NEW s, Goes(b, s), Allowed(b, s), Holds(b, s),
         pc[b] \notin BuildStep \cup {"joinWorkers"}, s \notin BuildStep \cup {"joinWorkers"}
  PROVE  /\ pc' \in [Callers -> BalancerStep \cup ClientStep]
         /\ worker_access' \in Callers \cup {NoThread}
         /\ Kinds' /\ Access'
         /\ ChosenAt(b)' => Chosen'
         /\ \A i : /\ Entering(i) <=> i = slot /\ pc[b] = "enter"
                   /\ Entering(i)' <=> i = slot' /\ s = "enter"
         /\ (\E d \in Callers : pc[d] = "mark") <=> pc[b] = "mark"
         /\ (\E d \in Callers : pc'[d] = "mark") <=> s = "mark"
         /\ IsFiniteSet(Counting')
         /\ Cardinality(Counting) \in Nat
         /\ Cardinality(Counting') = Cardinality(Counting) + One(s = "enter") - One(pc[b] = "enter")
         /\ Built => Cardinality(Counting) = One(pc[b] = "enter")
         /\ pc'[b] = s
         /\ Built /\ next' = next /\ size' \in Nat /\ core_threads <= size' => Construction'
         /\ state' = state => (Joining' <=> Joining)
<1>1. /\ pc' \in [Callers -> BalancerStep \cup ClientStep] /\ Kinds'
      /\ pc'[b] = s /\ \A d \in Callers : d # b => pc'[d] = pc[d]
  BY GoesTyped
<1>2. \A d \in Callers : d # b => pc[d] \notin SectionStep
  BY ThreadsAssumption DEF IInv, Access, Holds
<1>3. worker_access' \in Callers \cup {NoThread}
  BY DEF Holds
<1>4. Access'
  BY <1>1, <1>2, ThreadsAssumption DEF Access, Holds
<1>5. \A d \in Callers : d # b => pc'[d] \notin SectionStep
  BY <1>1, <1>2
<1>6. ChosenAt(b)' => Chosen'
  BY <1>5 DEF Chosen, ChosenAt, SectionStep
<1>7. "enter" \in SectionStep /\ "mark" \in SectionStep /\ "countCore" \in BuildStep
  BY DEF SectionStep, BuildStep
<1>8. \A i : /\ Entering(i) <=> i = slot /\ pc[b] = "enter"
             /\ Entering(i)' <=> i = slot' /\ s = "enter"
  BY <1>1, <1>2, <1>5, <1>7 DEF Entering
<1>9. /\ (\E d \in Callers : pc[d] = "mark") <=> pc[b] = "mark"
      /\ (\E d \in Callers : pc'[d] = "mark") <=> s = "mark"
  BY <1>1, <1>2, <1>5, <1>7
<1>10. /\ IsFiniteSet(Counting') /\ Cardinality(Counting) \in Nat
       /\ Cardinality(Counting') = Cardinality(Counting) + One(s = "enter") - One(pc[b] = "enter")
  <2>1. \A d : d # b => (d \in Counting <=> d \in Counting')
    BY <1>1 DEF Counting
  <2>2. /\ b \in Counting <=> pc[b] = "enter"
        /\ b \in Counting' <=> s = "enter"
    BY <1>1, <1>7 DEF Counting
  <2>3. IsFiniteSet(Counting)
    BY DEF IInv, Counted
  <2> QED BY <2>1, <2>2, <2>3, CountMoves DEF One
<1>11. Builder \in Controllers /\ Controllers \subseteq Callers /\ Balancer \in Callers
  BY ThreadsAssumption DEF Callers
<1>12. Built => Cardinality(Counting) = One(pc[b] = "enter")
  <2>1. Built => \A d \in Callers : pc[d] # "countCore"
    BY <1>11, ThreadsAssumption
       DEF Callers, IInv, Construction, Built, BuildStep, Kinds, BalancerStep, CheckStep, SubmitterStep
  <2>2. CASE Built /\ pc[b] = "enter"
    <3>1. Counting = {b}
      BY <1>2, <1>7, <2>1, <2>2 DEF Counting
    <3> QED BY <2>2, <3>1, FS_Singleton DEF One
  <2>3. CASE Built /\ pc[b] # "enter"
    <3>1. Counting = {}
      BY <1>2, <1>7, <2>1, <2>3 DEF Counting
    <3> QED BY <2>3, <3>1, FS_EmptySet DEF One
  <2> QED BY <2>2, <2>3
<1>13. Built /\ next' = next /\ size' \in Nat /\ core_threads <= size' => Construction'
  <2> SUFFICES ASSUME Built, next' = next, size' \in Nat, core_threads <= size'
               PROVE  Construction'
    OBVIOUS
  <2>1. Built'
    BY <1>1, <1>11 DEF Built, BuildStep
  <2>2. \A c \in Controllers : /\ pc'[c] \in BuildStep => c = Builder
                               /\ pc'[c] \notin BuildStep \cup {"joinWorkers"} => next'[c] = 0
    BY <1>1, <1>11 DEF IInv, Construction
  <2> QED BY <2>1, <2>2 DEF Construction
<1>14. \A c \in Controllers : pc'[c] = "joinWorkers" <=> pc[c] = "joinWorkers"
  BY <1>1, <1>11
<1>15. state' = state => (Joining' <=> Joining)
  BY <1>14 DEF Joining
<1> QED BY <1>1, <1>3, <1>4, <1>6, <1>8, <1>9, <1>10, <1>12, <1>13, <1>15

\* A section that is about the slots begins after the constructor is done.
LEMMA SectionBuilt ==
  ASSUME IInv, NEW b \in Callers, pc[b] \in SectionStep \ {"clean"}
  PROVE  Built
BY ThreadsAssumption DEF Callers, IInv, Construction, Built, SectionStep

-----------------------------------------------------------------------------
\* All of the invariant but what is about stopping
Main == /\ TypeOK /\ Kinds /\ Access /\ Construction /\ Filled /\ Chosen
        /\ Live /\ Counted /\ IdleBound

\* Where a caller of loadCheck may go
LEMMA CheckAllowed ==
  ASSUME IInv, NEW b \in Controllers \cup {Balancer}, pc[b] \in CheckStep \cup {"clean", "lockClean"}
  PROVE  /\ b \in Callers
         /\ \A s \in CheckStep : Allowed(b, s)
         /\ Allowed(b, AfterCheck(b))
         /\ b = Balancer => Allowed(b, "loop") /\ Allowed(b, "clean")
         /\ AfterCheck(b) \notin SectionStep \cup BuildStep \cup {"joinWorkers", "enter", "mark"}
         /\ pc[b] \notin BuildStep \cup {"joinWorkers"}
<1>1. b \in Callers
  BY DEF Callers
<1>2. b = Balancer => config.enable_dynamic_thread
  BY DEF IInv, Kinds, CheckStep
<1>3. b \notin Submitters /\ (b \in Controllers <=> b # Balancer)
  BY ThreadsAssumption
<1>4. \A s \in CheckStep : Allowed(b, s)
  BY <1>2, <1>3 DEF Allowed, BalancerStep, ClientStep, SubmitterStep, CheckStep
<1>5. Allowed(b, AfterCheck(b))
  BY <1>2, <1>3 DEF Allowed, BalancerStep, ClientStep, SubmitterStep, CheckStep, AfterCheck
<1>6. b = Balancer => Allowed(b, "loop") /\ Allowed(b, "clean")
  BY <1>2, <1>3 DEF Allowed, BalancerStep
<1>7. AfterCheck(b) \notin SectionStep \cup BuildStep \cup {"joinWorkers", "enter", "mark"}
  BY DEF AfterCheck, SectionStep, BuildStep
<1>8. pc[b] \notin BuildStep \cup {"joinWorkers"}
  BY DEF BuildStep, CheckStep
<1> QED BY <1>1, <1>4, <1>5, <1>6, <1>7, <1>8

\* Steps that change no flag and no thread
LEMMA SectionIdle ==
  ASSUME IInv, NEW b \in Callers, NEW s, Goes(b, s), Allowed(b, s), Holds(b, s),
         pc[b] \notin BuildStep \cup {"joinWorkers"}, s \notin BuildStep \cup {"joinWorkers"},
         pc[b] \notin {"enter", "mark"}, s # "enter",
         UNCHANGED <<stateVars, queued, size, index, should_exit, wpc, thread_count, next, last>>,
         \/ idle_count' = idle_count
         \/ idle_count' \in [Slots -> 0 .. MaxIdle] /\ IdleBound',
         slot' \in Slots, ChosenAt(b)',
         Built \/ (b = Balancer /\ s \notin SectionStep \ {"clean"})
  PROVE  Main'
<1>1. /\ state' = state /\ stopped' = stopped /\ load_balancer_exit' = load_balancer_exit
      /\ queued' = queued /\ size' = size /\ index' = index /\ should_exit' = should_exit
      /\ wpc' = wpc /\ thread_count' = thread_count /\ next' = next /\ last' = last
  BY DEF stateVars
<1>2. /\ pc' \in [Callers -> BalancerStep \cup ClientStep]
      /\ worker_access' \in Callers \cup {NoThread}
      /\ Kinds' /\ Access' /\ Chosen'
      /\ \A i : ~Entering(i) /\ ~Entering(i)'
      /\ ~\E d \in Callers : pc[d] = "mark"
      /\ IsFiniteSet(Counting')
      /\ Cardinality(Counting) \in Nat /\ Cardinality(Counting') = Cardinality(Counting)
      /\ pc'[b] = s
      /\ Joining' <=> Joining
  BY <1>1, Section DEF One
<1>3. TypeOK'
  BY <1>1, <1>2 DEF IInv, TypeOK, MaxIdle
<1>4. Construction'
  <2>1. size \in Nat /\ (Built => core_threads <= size)
    BY Consts DEF IInv, Construction, TypeOK
  <2>2. CASE Built
    BY <1>1, <2>1, <2>2, Section
  <2>3. CASE ~Built /\ b = Balancer /\ s \notin SectionStep \ {"clean"}
    <3>1. \A d \in Callers : d # b => pc'[d] = pc[d]
      BY GoesTyped
    <3>2. /\ Builder \in Controllers /\ Controllers \subseteq Callers /\ Submitters \subseteq Callers
          /\ Balancer \notin Controllers \cup Submitters
      BY ThreadsAssumption DEF Callers
    <3>3. /\ \A d \in Submitters \cup Controllers : pc'[d] = pc[d]
          /\ pc'[Balancer] \notin SectionStep \ {"clean"}
      BY <1>2, <2>3, <3>1, <3>2
    <3>4. Built' <=> Built
      BY <3>2, <3>3 DEF Built
    <3> QED BY <1>1, <2>3, <3>2, <3>3, <3>4 DEF IInv, Construction
  <2> QED BY <2>2, <2>3
<1>5. Filled'
  BY <1>1 DEF IInv, Filled, IndexIsSlot
<1>6. \A i : Joinable(i)' <=> Joinable(i)
  BY <1>1 DEF Joinable
<1>7. Live'
  BY <1>1, <1>2, <1>6 DEF IInv, Live
<1>8. Kept' = Kept
  BY <1>1, <1>2, <1>6 DEF Kept
<1>9. Counted'
  BY <1>1, <1>2, <1>8 DEF IInv, Counted
<1>10. IdleBound'
  BY <1>1, <1>2 DEF IInv, IdleBound
<1> QED BY <1>2, <1>3, <1>4, <1>5, <1>7, <1>9, <1>10 DEF Main

\* Steps that leave the slots alone
LEMMA SectionPlain ==
  ASSUME IInv, NEW b \in Callers, NEW s, Goes(b, s), Allowed(b, s), Holds(b, s),
         pc[b] \notin BuildStep \cup {"joinWorkers"}, s \notin BuildStep \cup {"joinWorkers"},
         pc[b] \notin {"enter", "mark"}, s # "enter",
         UNCHANGED <<stateVars, queued, slotVars, wpc, thread_count, next, last>>,
         slot' \in Slots, ChosenAt(b)',
         Built \/ (b = Balancer /\ s \notin SectionStep \ {"clean"})
  PROVE  Main'
<1>1. /\ idle_count' = idle_count
      /\ UNCHANGED <<stateVars, queued, size, index, should_exit, wpc, thread_count, next, last>>
  BY DEF slotVars
<1> QED BY <1>1, SectionIdle

\* A thread that cannot be created leaves its slot as the section found it.
LEMMA CreateFailsStep ==
  ASSUME IInv, NEW b \in Controllers \cup {Balancer}, CreateFails(b)
  PROVE  Main'
<1>1. /\ pc[b] \in {"start", "emplace"} /\ Goes(b, AfterCheck(b))
      /\ worker_access' = NoThread /\ slot' = 0
      /\ UNCHANGED <<stateVars, queued, slotVars, wpc, thread_count, next, last>>
  BY DEF CreateFails, Returns
<1>2. /\ pc[b] \in CheckStep /\ pc[b] \in SectionStep \ {"clean"}
      /\ pc[b] \notin {"enter", "mark"}
  BY <1>1 DEF CheckStep, SectionStep
<1>3. /\ b \in Callers /\ Allowed(b, AfterCheck(b))
      /\ AfterCheck(b) \notin SectionStep \cup BuildStep \cup {"joinWorkers", "enter", "mark"}
      /\ pc[b] \notin BuildStep \cup {"joinWorkers"}
  BY <1>2, CheckAllowed
<1>4. Holds(b, AfterCheck(b)) /\ Built
  BY <1>1, <1>2, <1>3, SectionBuilt DEF Holds
<1>5. pc'[b] = AfterCheck(b)
  BY <1>1, <1>3, GoesTyped
<1>6. ChosenAt(b)' /\ slot' \in Slots
  BY <1>1, <1>3, <1>5, Consts DEF ChosenAt, SectionStep
<1> QED BY <1>1, <1>2, <1>3, <1>4, <1>6, SectionPlain

\* The search chooses a flagged slot beyond the core or, if there is none, the slot
\* after the last.
LEMMA TryCreateStep ==
  ASSUME IInv, NEW b \in Controllers \cup {Balancer}, TryCreateNewThread(b)
  PROVE  Main'
<1>1. /\ pc[b] = "create"
      /\ UNCHANGED <<stateVars, queued, slotVars, wpc, thread_count, next, last>>
  BY DEF TryCreateNewThread
<1>2. /\ pc[b] \in CheckStep /\ pc[b] \in SectionStep \ {"clean"}
      /\ pc[b] \notin {"enter", "mark"}
  BY <1>1 DEF CheckStep, SectionStep
<1>3. /\ b \in Callers /\ Allowed(b, AfterCheck(b)) /\ \A s \in CheckStep : Allowed(b, s)
      /\ AfterCheck(b) \notin SectionStep \cup BuildStep \cup {"joinWorkers", "enter", "mark"}
      /\ pc[b] \notin BuildStep \cup {"joinWorkers"}
  BY <1>2, CheckAllowed
<1>4. Built
  BY <1>2, <1>3, SectionBuilt
<1>5. CASE stopped \/ ThreadIndex >= max_threads
  <2>1. Goes(b, AfterCheck(b)) /\ worker_access' = NoThread /\ slot' = 0
    BY <1>5 DEF TryCreateNewThread, Returns
  <2>2. Holds(b, AfterCheck(b))
    BY <1>2, <1>3, <2>1 DEF Holds
  <2>3. pc'[b] = AfterCheck(b)
    BY <1>3, <2>1, GoesTyped
  <2>4. ChosenAt(b)' /\ slot' \in Slots
    BY <1>3, <2>1, <2>3, Consts DEF ChosenAt, SectionStep
  <2> QED BY <1>1, <1>2, <1>3, <1>4, <2>1, <2>2, <2>4, SectionPlain
<1>6. CASE ~(stopped \/ ThreadIndex >= max_threads)
  <2> DEFINE s == IF ThreadIndex >= size THEN "emplace"
                  ELSE IF Joinable(ThreadIndex) THEN "reap" ELSE "start"
  <2>1. /\ slot' = ThreadIndex /\ Goes(b, s) /\ worker_access' = worker_access
        /\ ~(ThreadIndex >= max_threads)
    BY <1>6 DEF TryCreateNewThread
  <2>2. s \in CheckStep /\ s \in SectionStep /\ s \notin BuildStep \cup {"joinWorkers"}
        /\ s # "enter"
    BY DEF CheckStep, SectionStep, BuildStep
  <2>3. /\ size \in Nat /\ core_threads <= size /\ size <= max_threads
        /\ core_threads \in Nat /\ max_threads \in Nat
        /\ \A i \in Slots : should_exit[i] => core_threads <= i /\ i < size
    BY <1>4, Consts DEF IInv, Construction, TypeOK, Filled, IndexIsSlot
  <2>4. CASE Refillable # {}
    <3>1. Refillable \subseteq Nat /\ \A i \in Refillable : i < size /\ should_exit[i] /\ core_threads <= i
      BY <2>3 DEF Refillable
    <3>2. ThreadIndex \in Refillable
      BY <2>4, <3>1, MinOfNaturals DEF ThreadIndex
    <3>3. /\ ThreadIndex \in Nat /\ ThreadIndex < size /\ should_exit[ThreadIndex]
          /\ core_threads <= ThreadIndex
      BY <3>1, <3>2
    <3> HIDE DEF s
    <3>4. s = "reap" \/ (s = "start" /\ ~Joinable(ThreadIndex))
      BY <2>3, <3>3 DEF s
    <3>5. slot' \in Slots
      BY <2>1, <2>3, <3>3, Consts
    <3>6. pc'[b] = s /\ size' = size /\ should_exit' = should_exit /\ wpc' = wpc
      BY <1>1, <1>3, <2>1, <2>2, GoesTyped DEF slotVars
    <3>7. ChosenAt(b)'
      BY <2>1, <3>3, <3>4, <3>6 DEF ChosenAt, Joinable
    <3>8. Holds(b, s)
      BY <1>2, <1>3, <2>1, <2>2 DEF IInv, Access, Holds
    <3> QED BY <1>1, <1>2, <1>3, <1>4, <2>1, <2>2, <3>5, <3>7, <3>8, SectionPlain
  <2>5. CASE Refillable = {}
    <3>1. Min({size, max_threads}) = size
      BY <2>3, MaxOfTwo
    <3>2. Max({core_threads, size}) = size
      BY <2>3, MaxOfTwo
    <3>3. ThreadIndex = size
      BY <2>5, <3>1, <3>2 DEF ThreadIndex
    <3>4. s = "emplace" /\ size < max_threads
      BY <2>1, <2>3, <3>3
    <3> HIDE DEF s
    <3>5. slot' \in Slots
      BY <2>1, <2>3, <3>3, <3>4, Consts
    <3>6. pc'[b] = s /\ size' = size
      BY <1>1, <1>3, <2>1, <2>2, GoesTyped DEF slotVars
    <3>7. ChosenAt(b)'
      BY <2>1, <3>3, <3>4, <3>6 DEF ChosenAt
    <3>8. Holds(b, s)
      BY <1>2, <1>3, <2>1, <2>2 DEF IInv, Access, Holds
    <3> QED BY <1>1, <1>2, <1>3, <1>4, <2>1, <2>2, <3>5, <3>7, <3>8, SectionPlain
  <2> QED BY <2>4, <2>5
<1> QED BY <1>5, <1>6

-----------------------------------------------------------------------------
\* Whenever the count is below max_threads there is a slot to fill: the slots
\* that neither have a thread nor wait for one are not counted.
LEMMA RoomToExpand ==
  ASSUME IInv, Built, worker_access = NoThread, thread_count < max_threads
  PROVE  ThreadIndex < max_threads
<1>1. /\ size \in Nat /\ core_threads <= size /\ size <= max_threads
      /\ core_threads \in Nat /\ max_threads \in Nat
      /\ \A i \in Slots : should_exit[i] => core_threads <= i /\ i < size
      /\ thread_count \in Nat
  BY Consts DEF IInv, Construction, TypeOK, Filled, IndexIsSlot
<1>2. CASE Refillable # {}
  <2>1. Refillable \subseteq Nat /\ \A i \in Refillable : i < max_threads
    BY <1>1 DEF Refillable
  <2>2. ThreadIndex \in Refillable
    BY <1>2, <2>1, MinOfNaturals DEF ThreadIndex
  <2> QED BY <2>1, <2>2
<1>3. CASE Refillable = {}
  <2>0. size \in Int /\ max_threads \in Int /\ core_threads \in Int
    BY <1>1
  <2>1. Min({size, max_threads}) = size
    BY <1>1, <2>0, MaxOfTwo
  <2>2. Max({core_threads, size}) = size
    BY <1>1, <2>0, MaxOfTwo
  <2>3. ThreadIndex = size
    BY <1>3, <2>1, <2>2 DEF ThreadIndex
  <2>4. ASSUME size = max_threads PROVE FALSE
    <3>1. ASSUME NEW i \in 0 .. max_threads - 1 PROVE i \in Slots /\ ~should_exit[i]
      <4>1. i \in Slots /\ i \in Nat /\ i < size
        BY <1>1, <2>4, Consts
      <4>2. should_exit[i] => i \in Refillable
        BY <1>1, <2>4, <4>1 DEF Refillable
      <4> QED BY <1>3, <4>1, <4>2
    <3>2. \A i \in 0 .. max_threads - 1 : i \in Kept
      BY <1>1, <2>4, <3>1 DEF Kept
    <3>3. \A i \in Kept : i \in 0 .. max_threads - 1
      BY <1>1, <2>4, Consts DEF Kept
    <3>4. Kept = 0 .. max_threads - 1
      BY <3>2, <3>3
    <3>5. Cardinality(Kept) = max_threads
      BY <1>1, <3>4, FS_Interval, Consts
    <3>6. \A d \in Callers : pc[d] \notin {"enter", "countCore"}
      <4>1. Builder \in Controllers
        BY ThreadsAssumption
      <4> QED BY <4>1, ThreadsAssumption
            DEF Callers, IInv, Access, Construction, Built, BuildStep, SectionStep, Kinds,
                BalancerStep, CheckStep, SubmitterStep
    <3>7. Counting = {}
      BY <3>6 DEF Counting
    <3>8. Cardinality(Counting) = 0
      BY <3>7, FS_EmptySet
    <3> QED BY <1>1, <3>5, <3>8 DEF IInv, Counted
  <2> QED BY <1>1, <2>3, <2>4
<1> QED BY <1>2, <1>3

\* A pool that is still being constructed has no load.
LEMMA QuietWhileBuilding ==
  ASSUME QuietStart, IInv, ~Built, pc[Balancer] # "exited"
  PROVE  ~ShouldExpand /\ ~(thread_count > core_threads)
<1>1. config.enable_dynamic_thread
  BY DEF IInv, Kinds
<1>2. /\ config.expand_factor \in Int /\ config.expand_factor > 0
      /\ config.task_limit \in Nat /\ config.task_limit # 0
      /\ config.avg_task_threshold \in Int /\ config.avg_task_threshold >= 0
  BY <1>1, Consts DEF QuietStart
<1>3. /\ thread_count = next[Builder] /\ next[Builder] < core_threads
      /\ thread_count \in Nat /\ core_threads \in Nat /\ queued = 0
      /\ \A s \in Submitters : s = Builder \/ pc[s] = "idle"
      /\ \A i \in Slots : wpc[i] # "busy"
  BY Consts DEF IInv, Construction, TypeOK
<1>4. {i \in Slots : wpc[i] = "busy"} = {}
  BY <1>3
<1>5. {s \in Submitters : pc[s] = "count"} = {}
  BY <1>3, ThreadsAssumption
<1>6. Active = 0 /\ Pending = 0
  <2>1. Active = 0
    BY <1>4, FS_EmptySet, Zenon DEF Active
  <2>2. Cardinality({s \in Submitters : pc[s] = "count"}) = 0
    BY <1>5, FS_EmptySet, Zenon
  <2>3. Pending = 0 + 0 - 0
    BY <1>3, <2>1, <2>2, Zenon DEF Pending
  <2> QED BY <2>1, <2>3
<1>7. ~LoadReaches(config.expand_factor)
  <2>1. thread_count > 0 => config.expand_factor * thread_count > 0
    BY <1>2, <1>3
  <2>2. config.expand_factor * thread_count \in Int
    BY <1>2, <1>3
  <2> QED BY <1>6, <2>1, <2>2 DEF LoadReaches
<1>8. ~PendingExceeds(config.task_limit - 1)
  BY <1>2, <1>6 DEF PendingExceeds
<1>9. ~PendingExceeds(config.avg_task_threshold * thread_count)
  <2>1. config.avg_task_threshold * thread_count \in Nat
    BY <1>2, <1>3
  <2> QED BY <1>6, <2>1 DEF PendingExceeds
<1> QED BY <1>3, <1>7, <1>8, <1>9 DEF ShouldExpand

\* A check that finds the pool loaded finds room as well, and comes after the
\* constructor: until then there are no tasks, which QuietStart says is no load.
LEMMA MeasureLoadStep ==
  ASSUME QuietStart, IInv, NEW b \in Controllers \cup {Balancer}, MeasureLoad(b)
  PROVE  Main'
<1>1. /\ pc[b] = "lockCheck" /\ worker_access = NoThread /\ slot' = slot
      /\ UNCHANGED <<stateVars, queued, slotVars, wpc, thread_count, next, last>>
  BY DEF MeasureLoad
<1>2. /\ pc[b] \in CheckStep
      /\ pc[b] \notin {"enter", "mark"} /\ slot \in Slots
  BY <1>1 DEF CheckStep, IInv, TypeOK
<1>3. /\ b \in Callers /\ Allowed(b, AfterCheck(b)) /\ \A s \in CheckStep : Allowed(b, s)
      /\ AfterCheck(b) \notin SectionStep \cup BuildStep \cup {"joinWorkers", "enter", "mark"}
      /\ pc[b] \notin BuildStep \cup {"joinWorkers"}
  BY <1>2, CheckAllowed
<1>4. Built \/ (b = Balancer /\ ~ShouldExpand /\ ~(thread_count > core_threads))
  <2>1. Built \/ b = Balancer
    BY <1>1, ThreadsAssumption DEF IInv, Construction, Built
  <2> QED BY <1>1, <2>1, QuietWhileBuilding
<1>5. /\ "create" \in CheckStep /\ "create" \in SectionStep /\ "remove" \in CheckStep
      /\ "remove" \in SectionStep /\ {"create", "remove"} \cap (BuildStep \cup {"joinWorkers"}) = {}
  BY DEF CheckStep, SectionStep, BuildStep
<1>6. CASE ShouldExpand
  <2>1. Goes(b, "create") /\ worker_access' = b /\ Built
    BY <1>4, <1>6 DEF MeasureLoad
  <2>2. Allowed(b, "create") /\ Holds(b, "create")
    BY <1>1, <1>3, <1>5, <2>1 DEF Holds
  <2>3. ThreadIndex < max_threads
    BY <1>1, <1>6, <2>1, RoomToExpand DEF ShouldExpand
  <2>4. ThreadIndex' = ThreadIndex
    BY <1>1 DEF slotVars, ThreadIndex, Refillable
  <2>5. pc'[b] = "create"
    BY <1>3, <2>1, <2>2, GoesTyped
  <2>6. ChosenAt(b)'
    BY <2>3, <2>4, <2>5 DEF ChosenAt
  <2> QED BY <1>1, <1>2, <1>3, <1>5, <2>1, <2>2, <2>6, SectionPlain
<1>7. CASE ~ShouldExpand /\ thread_count > core_threads /\ ~LoadReaches(config.remove_factor)
  <2>1. Goes(b, "remove") /\ worker_access' = b /\ Built
    BY <1>4, <1>7 DEF MeasureLoad
  <2>2. Allowed(b, "remove") /\ Holds(b, "remove")
    BY <1>1, <1>3, <1>5, <2>1 DEF Holds
  <2>3. pc'[b] = "remove"
    BY <1>3, <2>1, <2>2, GoesTyped
  <2>4. ChosenAt(b)'
    BY <2>3 DEF ChosenAt
  <2> QED BY <1>1, <1>2, <1>3, <1>5, <2>1, <2>2, <2>4, SectionPlain
<1>8. CASE ~ShouldExpand /\ ~(thread_count > core_threads /\ ~LoadReaches(config.remove_factor))
  <2>1. Goes(b, AfterCheck(b)) /\ worker_access' = worker_access
    BY <1>8 DEF MeasureLoad
  <2>2. Holds(b, AfterCheck(b))
    BY <1>1, <1>3, <2>1 DEF Holds
  <2>3. pc'[b] = AfterCheck(b)
    BY <1>3, <2>1, GoesTyped
  <2>4. ChosenAt(b)'
    BY <1>3, <2>3 DEF ChosenAt, SectionStep
  <2> QED BY <1>1, <1>2, <1>3, <1>4, <2>1, <2>2, <2>4, SectionPlain
<1> QED BY <1>6, <1>7, <1>8

\* cleanFinishedThread takes the mutex; nothing else changes.
LEMMA LockCleanStep == ASSUME IInv, LockClean(Balancer) PROVE Main'
<1>1. /\ pc[Balancer] = "lockClean" /\ worker_access = NoThread /\ worker_access' = Balancer
      /\ Goes(Balancer, "clean") /\ slot' = slot /\ slot \in Slots
      /\ UNCHANGED <<stateVars, queued, slotVars, wpc, thread_count, next, last>>
  BY DEF LockClean, IInv, TypeOK
<1>2. Balancer \in Callers /\ Allowed(Balancer, "clean")
  BY <1>1, CheckAllowed
<1>3. "clean" \in SectionStep /\ "clean" \notin BuildStep
  BY DEF SectionStep, BuildStep
<1>4. Holds(Balancer, "clean")
  BY <1>1, <1>3 DEF Holds
<1>5. pc'[Balancer] = "clean"
  BY <1>1, <1>2, GoesTyped
<1>6. ChosenAt(Balancer)'
  BY <1>5 DEF ChosenAt
<1> QED BY <1>1, <1>2, <1>3, <1>4, <1>6, SectionPlain DEF BuildStep

-----------------------------------------------------------------------------
\* Joining the thread of a flagged slot: the slot is empty and not counted.
LEMMA JoinSlot ==
  ASSUME IInv, NEW b \in Callers, NEW s, Goes(b, s), Allowed(b, s), Holds(b, s),
         pc[b] \in SectionStep \ {"enter", "mark"}, s \notin BuildStep \cup {"joinWorkers"},
         s # "enter", Built, NEW x \in Slots, x < size, should_exit[x], Join(x),
         slot' = slot, ChosenAt(b)', UNCHANGED <<stateVars, queued, slotVars, next, last>>
  PROVE  Main'
<1>1. /\ state' = state /\ stopped' = stopped /\ load_balancer_exit' = load_balancer_exit
      /\ queued' = queued /\ size' = size /\ index' = index /\ should_exit' = should_exit
      /\ idle_count' = idle_count /\ next' = next /\ last' = last
      /\ wpc[x] = "exited" /\ thread_count' = thread_count - 1
      /\ wpc' = [wpc EXCEPT ![x] = "joined"]
  BY DEF stateVars, slotVars, Join, WorkerGoes
<1>2. pc[b] \notin BuildStep \cup {"joinWorkers"} /\ "joined" \in WorkerStep
  BY DEF SectionStep, BuildStep, WorkerStep
<1>3. /\ pc' \in [Callers -> BalancerStep \cup ClientStep]
      /\ worker_access' \in Callers \cup {NoThread}
      /\ Kinds' /\ Access' /\ Chosen'
      /\ \A i : ~Entering(i) /\ ~Entering(i)'
      /\ ~\E d \in Callers : pc[d] = "mark"
      /\ IsFiniteSet(Counting') /\ Cardinality(Counting) = 0 /\ Cardinality(Counting') = 0
      /\ Joining' <=> Joining
  BY <1>1, <1>2, Section DEF One
<1>4. /\ wpc' \in [Slots -> WorkerStep] /\ wpc'[x] = "joined"
      /\ \A i \in Slots : i # x => wpc'[i] = wpc[i]
  BY <1>1, <1>2 DEF IInv, TypeOK
<1>5. /\ \A i \in Slots : i # x => (Joinable(i)' <=> Joinable(i))
      /\ Joinable(x) /\ ~Joinable(x)'
  BY <1>1, <1>4 DEF Joinable
<1>6. /\ IsFiniteSet(Kept') /\ Cardinality(Kept) \in Nat /\ Cardinality(Kept) >= 1
      /\ Cardinality(Kept') = Cardinality(Kept) - 1
  <2>1. \A i : i # x => (i \in Kept <=> i \in Kept')
    BY <1>1, <1>3, <1>5 DEF Kept
  <2>2. x \in Kept /\ x \notin Kept'
    BY <1>1, <1>3, <1>5 DEF Kept
  <2>3. IsFiniteSet(Kept)
    BY DEF IInv, Counted
  <2> QED BY <2>1, <2>2, <2>3, CountMoves, CountPositive DEF One
<1>7. thread_count \in Nat /\ thread_count >= Cardinality(Kept)
      /\ (~Joining => thread_count = Cardinality(Kept))
  BY <1>3, <1>6 DEF IInv, Counted, TypeOK
<1>8. Counted'
  BY <1>1, <1>3, <1>6, <1>7 DEF Counted
<1>9. thread_count' \in Nat
  BY <1>1, <1>6, <1>7
<1>10. TypeOK'
  BY <1>1, <1>3, <1>4, <1>9 DEF IInv, TypeOK
<1>11. Construction'
  <2>1. size' \in Nat /\ core_threads <= size'
    BY <1>1, Consts DEF IInv, Construction, TypeOK
  <2> QED BY <1>1, <1>2, <2>1, Section
<1>12. Filled'
  BY <1>1, <1>4, Consts DEF IInv, TypeOK, Filled, IndexIsSlot
<1>13. Live'
  BY <1>1, <1>3, <1>5 DEF IInv, Live
<1>14. IdleBound'
  BY <1>1, <1>3 DEF IInv, IdleBound
<1> QED BY <1>3, <1>8, <1>10, <1>11, <1>12, <1>13, <1>14 DEF Main

\* The old thread of a slot that is to be filled again is joined; the slot, whose
\* flag is set, is then neither kept nor counted.
LEMMA ReapOldStep ==
  ASSUME IInv, NEW b \in Controllers \cup {Balancer}, ReapOld(b)
  PROVE  Main'
<1>1. /\ pc[b] = "reap" /\ Join(slot) /\ Goes(b, "start")
      /\ worker_access' = worker_access /\ slot' = slot
      /\ UNCHANGED <<stateVars, queued, slotVars, next, last>>
  BY DEF ReapOld, callVars
<1>2. /\ pc[b] \in CheckStep /\ "start" \in CheckStep /\ "start" \in SectionStep
      /\ pc[b] \in SectionStep \ {"clean"}
      /\ pc[b] \in SectionStep \ {"enter", "mark"} /\ "start" \notin BuildStep
  BY <1>1 DEF CheckStep, SectionStep, BuildStep
<1>3. b \in Callers /\ Allowed(b, "start")
  BY <1>2, CheckAllowed
<1>4. Holds(b, "start") /\ Built
  BY <1>1, <1>2, <1>3, SectionBuilt DEF IInv, Access, Holds
<1>5. slot \in Slots /\ core_threads <= slot /\ slot < size /\ should_exit[slot]
  BY <1>1, <1>3 DEF IInv, Chosen, ChosenAt, TypeOK
<1>6. pc'[b] = "start" /\ size' = size /\ should_exit' = should_exit
  BY <1>1, <1>3, GoesTyped DEF slotVars
<1>7. ~Joinable(slot)'
  BY <1>1, <1>5 DEF Join, WorkerGoes, Joinable, IInv, TypeOK
<1>8. ChosenAt(b)'
  BY <1>1, <1>5, <1>6, <1>7 DEF ChosenAt
<1> QED BY <1>1, <1>2, <1>3, <1>4, <1>5, <1>8, JoinSlot

\* cleanFinishedThread joins a flagged thread that has ended, or ends its section.
LEMMA CleanStep == ASSUME IInv, CleanFinishedThread(Balancer) PROVE Main'
<1>1. pc[Balancer] = "clean" /\ UNCHANGED <<stateVars, queued, slotVars, next, last>>
  BY DEF CleanFinishedThread
<1>2. /\ Balancer \in Callers /\ Allowed(Balancer, "loop") /\ Allowed(Balancer, "clean")
  BY <1>1, CheckAllowed
<1>3. /\ "clean" \in SectionStep \ {"enter", "mark"} /\ "clean" \notin BuildStep \cup {"joinWorkers"}
      /\ "loop" \notin SectionStep \cup BuildStep \cup {"joinWorkers"}
  BY DEF SectionStep, BuildStep
<1>4. CASE Finished = {}
  <2>1. /\ Goes(Balancer, "loop") /\ worker_access' = NoThread /\ slot' = 0
        /\ UNCHANGED <<stateVars, queued, slotVars, wpc, thread_count, next, last>>
    BY <1>1, <1>4 DEF CleanFinishedThread, Returns
  <2>2. Holds(Balancer, "loop")
    BY <1>1, <1>3, <2>1 DEF Holds
  <2>3. pc'[Balancer] = "loop"
    BY <1>2, <2>1, GoesTyped
  <2>4. ChosenAt(Balancer)' /\ slot' \in Slots
    BY <2>1, <2>3, Consts DEF ChosenAt
  <2> QED BY <1>1, <1>2, <1>3, <2>1, <2>2, <2>4, SectionPlain
<1>5. CASE Finished # {}
  <2> DEFINE x == Min(Finished)
  <2>1. /\ Join(x) /\ worker_access' = worker_access /\ slot' = slot /\ pc' = pc
    BY <1>5 DEF CleanFinishedThread
  <2>2. size \in Nat /\ size <= max_threads /\ max_threads \in Nat /\ core_threads \in Nat
    BY Consts DEF IInv, TypeOK, Filled, IndexIsSlot
  <2>3. Finished \subseteq Nat
    BY <2>2 DEF Finished
  <2>4. x \in Finished
    BY <1>5, <2>3, MinOfNaturals
  <2> HIDE DEF x
  <2>5. x \in Nat /\ x < size /\ should_exit[x] /\ x \in Slots
    BY <2>2, <2>4, Consts DEF Finished
  <2>6. Built
    BY <2>5 DEF IInv, Construction
  <2>7. Goes(Balancer, "clean")
    BY <1>1, <1>2, <2>1 DEF IInv, TypeOK, Goes
  <2>8. Holds(Balancer, "clean")
    BY <1>1, <1>2, <1>3, <2>1 DEF IInv, Access, Holds
  <2>9. ChosenAt(Balancer)'
    BY <1>1, <2>1 DEF ChosenAt
  <2> QED BY <1>1, <1>2, <1>3, <2>1, <2>5, <2>6, <2>7, <2>8, <2>9, JoinSlot
<1> QED BY <1>4, <1>5

-----------------------------------------------------------------------------
\* A caller that works on a slot, and where it goes when it is done with it
LEMMA AtSlot ==
  ASSUME IInv, NEW b \in Controllers \cup {Balancer},
         pc[b] \in {"start", "enter", "emplace", "mark", "remove"}
  PROVE  /\ b \in Callers /\ Built
         /\ pc[b] \in SectionStep /\ pc[b] \notin BuildStep \cup {"joinWorkers"}
         /\ \A s \in {"enter", "mark"} : Allowed(b, s) /\ s \in SectionStep /\ s \notin BuildStep
         /\ Allowed(b, AfterCheck(b))
         /\ AfterCheck(b) \notin SectionStep \cup BuildStep \cup {"joinWorkers", "enter", "mark"}
         /\ worker_access = b
         /\ slot \in Slots /\ size \in Nat /\ core_threads <= size /\ size <= max_threads
         /\ Returns(b, AfterCheck(b)) =>
              /\ Goes(b, AfterCheck(b)) /\ Holds(b, AfterCheck(b)) /\ ChosenAt(b)'
              /\ slot' = 0 /\ slot' \in Slots
<1>1. /\ pc[b] \in CheckStep /\ pc[b] \in SectionStep /\ pc[b] \in SectionStep \ {"clean"}
      /\ \A s \in {"enter", "mark"} : s \in CheckStep /\ s \in SectionStep /\ s \notin BuildStep
  BY DEF CheckStep, SectionStep, BuildStep
<1>2. /\ b \in Callers /\ Allowed(b, AfterCheck(b)) /\ \A s \in CheckStep : Allowed(b, s)
      /\ AfterCheck(b) \notin SectionStep \cup BuildStep \cup {"joinWorkers", "enter", "mark"}
      /\ pc[b] \notin BuildStep \cup {"joinWorkers"}
  BY <1>1, CheckAllowed
<1>3. Built
  BY <1>1, <1>2, SectionBuilt
<1>4. worker_access = b
  BY <1>1, <1>2 DEF IInv, Access
<1>5. /\ slot \in Slots /\ size \in Nat /\ core_threads <= size /\ size <= max_threads
      /\ 0 \in Slots
  BY <1>3, Consts DEF IInv, TypeOK, Construction, Filled, IndexIsSlot
<1>6. ASSUME Returns(b, AfterCheck(b))
      PROVE  /\ Goes(b, AfterCheck(b)) /\ Holds(b, AfterCheck(b)) /\ ChosenAt(b)'
             /\ slot' = 0
  <2>1. Goes(b, AfterCheck(b)) /\ worker_access' = NoThread /\ slot' = 0
    BY <1>6 DEF Returns
  <2>2. pc'[b] = AfterCheck(b)
    BY <1>2, <2>1, GoesTyped
  <2> QED BY <1>1, <1>2, <2>1, <2>2 DEF Holds, ChosenAt, SectionStep
<1> QED BY <1>1, <1>2, <1>3, <1>4, <1>5, <1>6

\* The new thread in a slot that was waiting for one is counted with its creator.
LEMMA StartStep ==
  ASSUME IInv, NEW b \in Controllers \cup {Balancer}, StartThread(b)
  PROVE  Main'
<1>1. /\ pc[b] = "start" /\ Goes(b, "enter") /\ WorkerGoes(slot, "top")
      /\ index' = [index EXCEPT ![slot] = slot]
      /\ UNCHANGED <<stateVars, queued, size, should_exit, idle_count, thread_count, callVars>>
  BY DEF StartThread
<1>2. /\ state' = state /\ stopped' = stopped /\ load_balancer_exit' = load_balancer_exit
      /\ queued' = queued /\ size' = size /\ should_exit' = should_exit
      /\ idle_count' = idle_count /\ thread_count' = thread_count
      /\ worker_access' = worker_access /\ slot' = slot /\ next' = next /\ last' = last
      /\ wpc' = [wpc EXCEPT ![slot] = "top"]
  BY <1>1 DEF stateVars, callVars, WorkerGoes
<1>3. /\ b \in Callers /\ Built /\ pc[b] \in SectionStep
      /\ pc[b] \notin BuildStep \cup {"joinWorkers"}
      /\ Allowed(b, "enter") /\ "enter" \in SectionStep /\ "enter" \notin BuildStep
      /\ worker_access = b
      /\ slot \in Slots /\ size \in Nat /\ core_threads <= size /\ size <= max_threads
  BY <1>1, AtSlot
<1>4. /\ core_threads <= slot /\ slot < size /\ should_exit[slot] /\ ~Joinable(slot)
  BY <1>1, <1>3 DEF IInv, Chosen, ChosenAt
<1>5. Holds(b, "enter")
  BY <1>2, <1>3 DEF Holds
<1>6. pc'[b] = "enter"
  BY <1>1, <1>3, GoesTyped
<1>7. ChosenAt(b)'
  BY <1>2, <1>4, <1>6 DEF ChosenAt
<1>8. /\ pc' \in [Callers -> BalancerStep \cup ClientStep]
      /\ worker_access' \in Callers \cup {NoThread}
      /\ Kinds' /\ Access' /\ Chosen' /\ Construction'
      /\ \A i : ~Entering(i) /\ (Entering(i)' <=> i = slot)
      /\ ~(\E d \in Callers : pc[d] = "mark")
      /\ IsFiniteSet(Counting') /\ Cardinality(Counting) = 0 /\ Cardinality(Counting') = 1
      /\ Joining' <=> Joining
  BY <1>1, <1>2, <1>3, <1>5, <1>7, Section DEF One
<1>9. /\ wpc' \in [Slots -> WorkerStep] /\ wpc'[slot] = "top"
      /\ \A i \in Slots : i # slot => wpc'[i] = wpc[i]
      /\ index' \in [Slots -> Slots] /\ index'[slot] = slot
      /\ \A i \in Slots : i # slot => index'[i] = index[i]
  BY <1>1, <1>2, <1>3 DEF IInv, TypeOK, WorkerStep
<1>10. /\ \A i \in Slots : i # slot => (Joinable(i)' <=> Joinable(i))
       /\ Joinable(slot)'
  BY <1>2, <1>9 DEF Joinable
<1>11. /\ IsFiniteSet(Kept') /\ Cardinality(Kept) \in Nat
       /\ Cardinality(Kept') = Cardinality(Kept) + 1
  <2>1. \A i : i # slot => (i \in Kept <=> i \in Kept')
    BY <1>2, <1>8, <1>10 DEF Kept
  <2>2. slot \notin Kept /\ slot \in Kept'
    BY <1>2, <1>3, <1>4, <1>8, <1>10 DEF Kept
  <2>3. IsFiniteSet(Kept)
    BY DEF IInv, Counted
  <2> QED BY <2>1, <2>2, <2>3, CountMoves DEF One
<1>12. thread_count \in Nat /\ thread_count >= Cardinality(Kept)
       /\ (~Joining => thread_count = Cardinality(Kept))
  BY <1>8, <1>11 DEF IInv, Counted, TypeOK
<1>13. Counted'
  BY <1>2, <1>8, <1>11, <1>12 DEF Counted
<1>14. TypeOK'
  BY <1>2, <1>8, <1>9 DEF IInv, TypeOK
<1>15. Filled'
  <2>1. IndexIsSlot'
    BY <1>2, <1>3, <1>9, Consts DEF IInv, Filled, IndexIsSlot
  <2>2. \A i \in Slots : wpc'[i] = "none" <=> i >= size
    BY <1>3, <1>4, <1>9, Consts DEF IInv, Filled
  <2> QED BY <1>2, <2>1, <2>2 DEF IInv, Filled
<1>16. Live'
  BY <1>2, <1>8, <1>10 DEF IInv, Live
<1>17. IdleBound'
  BY <1>2, <1>8 DEF IInv, IdleBound
<1> QED BY <1>8, <1>13, <1>14, <1>15, <1>16, <1>17 DEF Main

\* Clearing the flag and counting the new thread
LEMMA EnterStep ==
  ASSUME IInv, NEW b \in Controllers \cup {Balancer}, EnterThread(b)
  PROVE  Main'
<1>1. /\ pc[b] = "enter" /\ Returns(b, AfterCheck(b))
      /\ idle_count' = [idle_count EXCEPT ![slot] = 0]
      /\ should_exit' = [should_exit EXCEPT ![slot] = FALSE]
      /\ thread_count' = thread_count + 1
      /\ UNCHANGED <<stateVars, queued, size, index, wpc, next, last>>
  BY DEF EnterThread
<1>2. /\ state' = state /\ stopped' = stopped /\ load_balancer_exit' = load_balancer_exit
      /\ queued' = queued /\ size' = size /\ index' = index /\ wpc' = wpc /\ next' = next /\ last' = last
  BY <1>1 DEF stateVars
<1>3. /\ b \in Callers /\ Built /\ pc[b] \in SectionStep
      /\ pc[b] \notin BuildStep \cup {"joinWorkers"}
      /\ Allowed(b, AfterCheck(b))
      /\ AfterCheck(b) \notin BuildStep \cup {"joinWorkers"} /\ AfterCheck(b) # "enter"
      /\ slot \in Slots /\ size \in Nat /\ core_threads <= size
      /\ Goes(b, AfterCheck(b)) /\ Holds(b, AfterCheck(b)) /\ ChosenAt(b)' /\ slot' \in Slots
  BY <1>1, AtSlot
<1>4. slot < size
  BY <1>1, <1>3 DEF IInv, Chosen, ChosenAt
<1>5. /\ pc' \in [Callers -> BalancerStep \cup ClientStep]
      /\ worker_access' \in Callers \cup {NoThread}
      /\ Kinds' /\ Access' /\ Chosen' /\ Construction'
      /\ \A i : (Entering(i) <=> i = slot) /\ ~Entering(i)'
      /\ ~(\E d \in Callers : pc[d] = "mark")
      /\ IsFiniteSet(Counting') /\ Cardinality(Counting) = 1 /\ Cardinality(Counting') = 0
      /\ Joining' <=> Joining
  BY <1>1, <1>2, <1>3, Section DEF One
<1>6. /\ should_exit' \in [Slots -> BOOLEAN] /\ ~should_exit'[slot]
      /\ \A i \in Slots : i # slot => should_exit'[i] = should_exit[i]
  BY <1>1, <1>3 DEF IInv, TypeOK
<1>7. 0 \in 0 .. MaxIdle /\ MaxIdle \in Nat /\ 0 < MaxIdle
  BY Consts
<1>8. /\ idle_count' \in [Slots -> 0 .. MaxIdle] /\ idle_count'[slot] = 0
      /\ \A i \in Slots : i # slot => idle_count'[i] = idle_count[i]
  BY <1>1, <1>3, <1>7 DEF IInv, TypeOK, MaxIdle
<1>9. \A i : Joinable(i)' <=> Joinable(i)
  BY <1>2 DEF Joinable
<1>10. IsFiniteSet(Kept') /\ Cardinality(Kept) \in Nat /\ Cardinality(Kept') = Cardinality(Kept)
  <2>1. \A i : i \in Kept <=> i \in Kept'
    BY <1>2, <1>3, <1>4, <1>5, <1>6, <1>9 DEF Kept
  <2>2. IsFiniteSet(Kept)
    BY DEF IInv, Counted
  <2> QED BY <2>1, <2>2, CountStays
<1>11. thread_count \in Nat /\ thread_count + 1 >= Cardinality(Kept)
       /\ (~Joining => thread_count + 1 = Cardinality(Kept))
  BY <1>5, <1>10 DEF IInv, Counted, TypeOK
<1>12. Counted'
  BY <1>1, <1>5, <1>10, <1>11 DEF Counted
<1>13. TypeOK'
  <2>1. thread_count' \in Nat
    BY <1>1, <1>11
  <2> QED BY <1>2, <1>3, <1>5, <1>6, <1>8, <2>1 DEF IInv, TypeOK, MaxIdle
<1>14. Filled'
  BY <1>2, <1>6 DEF IInv, Filled, IndexIsSlot
<1>15. Live'
  BY <1>2, <1>5, <1>6, <1>9 DEF IInv, Live
<1>16. IdleBound'
  BY <1>5, <1>6, <1>7, <1>8 DEF IInv, IdleBound
<1> QED BY <1>5, <1>12, <1>13, <1>14, <1>15, <1>16 DEF Main

\* A worker in a slot of its own is counted at once.
LEMMA EmplaceStep ==
  ASSUME IInv, NEW b \in Controllers \cup {Balancer}, EmplaceThread(b)
  PROVE  Main'
<1>1. /\ pc[b] = "emplace" /\ Returns(b, AfterCheck(b)) /\ Emplace(slot)
      /\ thread_count' = thread_count + 1
      /\ UNCHANGED <<stateVars, queued, should_exit, idle_count, next, last>>
  BY DEF EmplaceThread
<1>2. /\ b \in Callers /\ Built /\ pc[b] \in SectionStep
      /\ pc[b] \notin BuildStep \cup {"joinWorkers"}
      /\ Allowed(b, AfterCheck(b))
      /\ AfterCheck(b) \notin BuildStep \cup {"joinWorkers"} /\ AfterCheck(b) # "enter"
      /\ slot \in Slots /\ size \in Nat /\ core_threads <= size /\ size <= max_threads
      /\ Goes(b, AfterCheck(b)) /\ Holds(b, AfterCheck(b)) /\ ChosenAt(b)' /\ slot' \in Slots
  BY <1>1, AtSlot
<1>3. slot = size /\ size < max_threads /\ max_threads \in Nat /\ core_threads \in Nat
  BY <1>1, <1>2, Consts DEF IInv, Chosen, ChosenAt
<1>4. /\ state' = state /\ stopped' = stopped /\ load_balancer_exit' = load_balancer_exit
      /\ queued' = queued /\ should_exit' = should_exit /\ idle_count' = idle_count
      /\ next' = next /\ last' = last /\ size' = size + 1
      /\ wpc' = [wpc EXCEPT ![slot] = "top"] /\ index' = [index EXCEPT ![slot] = slot]
  BY <1>1, <1>3 DEF stateVars, Emplace, WorkerGoes
<1>5. size' \in Nat /\ core_threads <= size' /\ size' <= max_threads
      /\ size' \in 0 .. core_threads + max_threads
  BY <1>2, <1>3, <1>4
<1>6. /\ pc' \in [Callers -> BalancerStep \cup ClientStep]
      /\ worker_access' \in Callers \cup {NoThread}
      /\ Kinds' /\ Access' /\ Chosen' /\ Construction'
      /\ \A i : ~Entering(i) /\ ~Entering(i)'
      /\ ~(\E d \in Callers : pc[d] = "mark")
      /\ IsFiniteSet(Counting') /\ Cardinality(Counting) = 0 /\ Cardinality(Counting') = 0
      /\ Joining' <=> Joining
  BY <1>1, <1>2, <1>4, <1>5, Section DEF One
<1>7. /\ wpc' \in [Slots -> WorkerStep] /\ wpc'[slot] = "top"
      /\ \A i \in Slots : i # slot => wpc'[i] = wpc[i]
      /\ index' \in [Slots -> Slots] /\ index'[slot] = slot
      /\ \A i \in Slots : i # slot => index'[i] = index[i]
  BY <1>2, <1>4 DEF IInv, TypeOK, WorkerStep
<1>8. \A i \in Slots : Joinable(i)' <=> i = slot \/ Joinable(i)
  BY <1>7 DEF Joinable
<1>9. \A i \in Slots : i # slot => (i < size' <=> i < size)
  BY <1>2, <1>3, <1>4, Consts
<1>10. slot < size' /\ ~(slot < size)
  BY <1>2, <1>3, <1>4
<1>11. /\ IsFiniteSet(Kept') /\ Cardinality(Kept) \in Nat
       /\ Cardinality(Kept') = Cardinality(Kept) + 1
  <2>1. \A i : i # slot => (i \in Kept <=> i \in Kept')
    BY <1>4, <1>6, <1>8, <1>9 DEF Kept
  <2>2. slot \notin Kept /\ slot \in Kept'
    BY <1>2, <1>8, <1>10 DEF Kept
  <2>3. IsFiniteSet(Kept)
    BY DEF IInv, Counted
  <2> QED BY <2>1, <2>2, <2>3, CountMoves DEF One
<1>12. thread_count \in Nat /\ thread_count >= Cardinality(Kept)
       /\ (~Joining => thread_count = Cardinality(Kept))
  BY <1>6, <1>11 DEF IInv, Counted, TypeOK
<1>13. Counted'
  BY <1>1, <1>6, <1>11, <1>12 DEF Counted
<1>14. TypeOK'
  <2>1. thread_count' \in Nat
    BY <1>1, <1>12
  <2> QED BY <1>2, <1>4, <1>5, <1>6, <1>7, <2>1 DEF IInv, TypeOK
<1>15. Filled'
  <2>1. \A i \in 0 .. size' - 1 : i \in Slots /\ (i = slot \/ i \in 0 .. size - 1)
    BY <1>2, <1>3, <1>4, <1>5, Consts
  <2>2. IndexIsSlot'
    BY <1>5, <1>7, <2>1 DEF IInv, Filled, IndexIsSlot
  <2>3. \A i \in Slots : wpc'[i] = "none" <=> i >= size'
    BY <1>2, <1>3, <1>4, <1>7, Consts DEF IInv, Filled
  <2>4. \A i \in Slots : should_exit'[i] => core_threads <= i /\ i < size'
    BY <1>2, <1>4, Consts DEF IInv, Filled
  <2> QED BY <2>2, <2>3, <2>4 DEF Filled
<1>16. Live'
  BY <1>4, <1>6, <1>8, <1>9 DEF IInv, Live
<1>17. IdleBound'
  BY <1>4, <1>6 DEF IInv, IdleBound
<1> QED BY <1>6, <1>13, <1>14, <1>15, <1>16, <1>17 DEF Main

\* Setting the flag of a slot and waking its thread
LEMMA MarkStep ==
  ASSUME IInv, NEW b \in Controllers \cup {Balancer}, MarkThread(b)
  PROVE  Main'
<1>1. /\ pc[b] = "mark" /\ Returns(b, AfterCheck(b)) /\ wpc' = WakeWorkers
      /\ should_exit' = [should_exit EXCEPT ![slot] = TRUE]
      /\ UNCHANGED <<stateVars, queued, size, index, idle_count, thread_count, next, last>>
  BY DEF MarkThread
<1>2. /\ state' = state /\ stopped' = stopped /\ load_balancer_exit' = load_balancer_exit
      /\ queued' = queued /\ size' = size /\ index' = index /\ idle_count' = idle_count
      /\ thread_count' = thread_count /\ next' = next /\ last' = last
  BY <1>1 DEF stateVars
<1>3. /\ b \in Callers /\ Built /\ pc[b] \in SectionStep
      /\ pc[b] \notin BuildStep \cup {"joinWorkers"}
      /\ Allowed(b, AfterCheck(b))
      /\ AfterCheck(b) \notin BuildStep \cup {"joinWorkers"} /\ AfterCheck(b) # "enter"
      /\ AfterCheck(b) # "mark"
      /\ slot \in Slots /\ size \in Nat /\ core_threads <= size
      /\ Goes(b, AfterCheck(b)) /\ Holds(b, AfterCheck(b)) /\ ChosenAt(b)' /\ slot' \in Slots
  BY <1>1, AtSlot
<1>4. core_threads <= slot /\ slot < size
  BY <1>1, <1>3 DEF IInv, Chosen, ChosenAt
<1>5. /\ pc' \in [Callers -> BalancerStep \cup ClientStep]
      /\ worker_access' \in Callers \cup {NoThread}
      /\ Kinds' /\ Access' /\ Chosen' /\ Construction'
      /\ \A i : ~Entering(i) /\ ~Entering(i)'
      /\ IsFiniteSet(Counting') /\ Cardinality(Counting) = 0 /\ Cardinality(Counting') = 0
      /\ Joining' <=> Joining
  BY <1>1, <1>2, <1>3, Section DEF One
<1>6. /\ should_exit' \in [Slots -> BOOLEAN] /\ should_exit'[slot]
      /\ \A i \in Slots : i # slot => should_exit'[i] = should_exit[i]
  BY <1>1, <1>3 DEF IInv, TypeOK
<1>7. Wakes
  BY <1>1, Waking
<1>8. \A i \in Slots : (Joinable(i)' <=> Joinable(i)) /\ (wpc'[i] = "none" <=> wpc[i] = "none")
  BY <1>7 DEF Joinable, Wakes
<1>9. /\ IsFiniteSet(Kept') /\ Cardinality(Kept) \in Nat /\ Cardinality(Kept') \in Nat
      /\ Cardinality(Kept) >= Cardinality(Kept')
      /\ ~Joining => Cardinality(Kept') = Cardinality(Kept)
  <2>1. \A i : i # slot => (i \in Kept <=> i \in Kept')
    BY <1>2, <1>5, <1>6, <1>8 DEF Kept
  <2>2. slot \in Kept' => slot \in Kept
    BY <1>2, <1>5, <1>6, <1>8 DEF Kept
  <2>3. ~Joining /\ slot \in Kept => slot \in Kept'
    BY <1>2, <1>4, <1>5, <1>6, <1>8 DEF IInv, Live, Kept
  <2>4. IsFiniteSet(Kept)
    BY DEF IInv, Counted
  <2>5. /\ IsFiniteSet(Kept') /\ Cardinality(Kept) \in Nat /\ Cardinality(Kept') \in Nat
        /\ Cardinality(Kept') = Cardinality(Kept) + One(slot \in Kept') - One(slot \in Kept)
    BY <2>1, <2>4, CountMoves
  <2> QED BY <2>2, <2>3, <2>5 DEF One
<1>10. thread_count \in Nat /\ thread_count >= Cardinality(Kept)
       /\ (~Joining => thread_count = Cardinality(Kept))
  BY <1>5, <1>9 DEF IInv, Counted, TypeOK
<1>11. Counted'
  BY <1>2, <1>5, <1>9, <1>10 DEF Counted
<1>12. TypeOK'
  BY <1>2, <1>3, <1>5, <1>6, <1>7 DEF IInv, TypeOK, Wakes
<1>13. Filled'
  BY <1>2, <1>4, <1>6, <1>8 DEF IInv, Filled, IndexIsSlot
<1>14. Live'
  BY <1>2, <1>5, <1>6, <1>8 DEF IInv, Live
<1>15. IdleBound'
  BY <1>2, <1>6 DEF IInv, IdleBound
<1> QED BY <1>5, <1>11, <1>12, <1>13, <1>14, <1>15 DEF Main

\* Looking for a worker to remove: the idle counts may reach their limit in the
\* slot that was chosen.
LEMMA RemoveStep ==
  ASSUME IInv, NEW b \in Controllers \cup {Balancer}, TryRemoveIdleThread(b)
  PROVE  Main'
<1> DEFINE open == {i \in core_threads .. size - 1 : ~should_exit[i]}
<1>1. /\ pc[b] = "remove"
      /\ UNCHANGED <<stateVars, queued, size, index, should_exit, wpc, thread_count, next, last>>
  BY DEF TryRemoveIdleThread
<1>2. /\ b \in Callers /\ Built /\ pc[b] \in SectionStep
      /\ pc[b] \notin BuildStep \cup {"joinWorkers"}
      /\ Allowed(b, AfterCheck(b)) /\ Allowed(b, "mark")
      /\ AfterCheck(b) \notin BuildStep \cup {"joinWorkers"}
      /\ AfterCheck(b) # "enter" /\ AfterCheck(b) # "mark"
      /\ "mark" \in SectionStep /\ "mark" \notin BuildStep
      /\ worker_access = b /\ size \in Nat /\ core_threads <= size /\ size <= max_threads
      /\ Returns(b, AfterCheck(b)) =>
           /\ Goes(b, AfterCheck(b)) /\ Holds(b, AfterCheck(b)) /\ ChosenAt(b)' /\ slot' \in Slots
  BY <1>1, AtSlot
<1>3. CASE thread_count <= core_threads
  <2>1. Returns(b, AfterCheck(b)) /\ idle_count' = idle_count
    BY <1>3 DEF TryRemoveIdleThread
  <2> QED BY <1>1, <1>2, <2>1, SectionIdle
<1>4. CASE ~(thread_count <= core_threads)
  <2>1. PICK idle \in SUBSET open :
          LET counted(i) == idle_count[i] + (IF i \in idle THEN 1 ELSE 0)
              due == {i \in open : counted(i) >= config.consecutive_idle_count}
              seen == {i \in open : \A j \in due : i <= j}
          IN /\ idle_count' = [i \in Slots |-> IF i \in seen THEN counted(i) ELSE idle_count[i]]
             /\ IF due = {}
                THEN Returns(b, AfterCheck(b))
                ELSE /\ slot' = Min(due)
                     /\ Goes(b, "mark")
                     /\ UNCHANGED worker_access
    BY <1>4 DEF TryRemoveIdleThread
  <2> DEFINE counted(i) == idle_count[i] + (IF i \in idle THEN 1 ELSE 0)
             due == {i \in open : counted(i) >= config.consecutive_idle_count}
             seen == {i \in open : \A j \in due : i <= j}
  <2>2. /\ idle_count' = [i \in Slots |-> IF i \in seen THEN counted(i) ELSE idle_count[i]]
        /\ IF due = {} THEN Returns(b, AfterCheck(b))
           ELSE slot' = Min(due) /\ Goes(b, "mark") /\ UNCHANGED worker_access
    BY <2>1
  <2>3. /\ core_threads \in Nat /\ max_threads \in Nat /\ MaxIdle \in Nat
        /\ config.consecutive_idle_count \in Nat /\ config.consecutive_idle_count <= MaxIdle
        /\ \A i \in Slots : i \in Nat
    BY Consts
  <2>4. \A i \in open : i \in Slots /\ i \in Nat /\ core_threads <= i /\ i < size /\ ~should_exit[i]
    BY <1>2, <2>3, Consts
  <2>5. \A i \in Slots : idle_count[i] \in Nat /\ idle_count[i] <= MaxIdle
    <3>1. idle_count \in [Slots -> 0 .. MaxIdle]
      BY DEF IInv, TypeOK, MaxIdle
    <3> QED BY <2>3, <3>1
  <2>6. \A i \in open : idle_count[i] < MaxIdle
    <3>1. \A d \in Callers : pc[d] # "mark"
      BY <1>1, <1>2 DEF IInv, Access
    <3> QED BY <2>4, <3>1 DEF IInv, IdleBound
  <2>7. \A i \in open : /\ counted(i) \in Nat /\ counted(i) <= MaxIdle
                        /\ i \notin due => counted(i) < MaxIdle
    BY <2>3, <2>4, <2>5, <2>6
  <2>8. \A i \in Slots : /\ idle_count'[i] \in Nat /\ idle_count'[i] <= MaxIdle
                         /\ i \notin seen => idle_count'[i] = idle_count[i]
                         /\ i \in seen => i \in open /\ idle_count'[i] = counted(i)
    BY <2>2, <2>5, <2>7
  <2>9. /\ idle_count' \in [Slots -> 0 .. MaxIdle]
        /\ \A i \in Slots : idle_count'[i] < MaxIdle \/ should_exit[i] \/ i \in seen \cap due
    <3>1. \A i \in Slots : idle_count'[i] < MaxIdle \/ should_exit[i] \/ i \in seen \cap due
      <4>1. \A d \in Callers : pc[d] # "mark"
        BY <1>1, <1>2 DEF IInv, Access
      <4>2. \A i \in Slots : idle_count[i] < MaxIdle \/ should_exit[i]
        BY <4>1 DEF IInv, IdleBound
      <4> HIDE DEF open, counted, due, seen
      <4> QED BY <2>7, <2>8, <4>2
    <3>2. \A i \in Slots : idle_count'[i] \in 0 .. MaxIdle
      BY <2>3, <2>8
    <3>3. idle_count' \in [Slots -> 0 .. MaxIdle]
      BY <2>2, <3>2
    <3> QED BY <3>1, <3>3
  <2>10. due \subseteq Nat /\ due \subseteq open /\ seen \cap due \subseteq {Min(due)}
    <3>1. due \subseteq Nat /\ due \subseteq open
      BY <2>4
    <3>2. \A i \in seen \cap due : i \in due /\ \A j \in due : i <= j
      OBVIOUS
    <3>3. ASSUME NEW i \in seen \cap due PROVE i = Min(due)
      <4>1. i \in due /\ \A j \in due : i <= j
        BY <3>2, <3>3
      <4> HIDE DEF due, seen
      <4>2. Min(due) \in due /\ \A j \in due : Min(due) <= j
        BY <3>1, <4>1, MinOfNaturals
      <4>3. i \in Nat /\ Min(due) \in Nat /\ i <= Min(due) /\ Min(due) <= i
        BY <3>1, <4>1, <4>2
      <4> QED BY <4>3
    <3> QED BY <3>1, <3>3
  <2>11. CASE due = {}
    <3> HIDE DEF counted, due, seen
    <3>1. Returns(b, AfterCheck(b))
      BY <2>2, <2>11
    <3>2. IdleBound'
      BY <1>1, <2>9, <2>11 DEF IdleBound
    <3> QED BY <1>1, <1>2, <2>9, <3>1, <3>2, SectionIdle
  <2>12. CASE due # {}
    <3> HIDE DEF open, counted, due, seen
    <3>1. slot' = Min(due) /\ Goes(b, "mark") /\ worker_access' = worker_access
      BY <2>2, <2>12
    <3>2. Min(due) \in open
      BY <2>10, <2>12, MinOfNaturals
    <3>3. slot' \in Slots /\ core_threads <= slot' /\ slot' < size
      BY <2>4, <3>1, <3>2
    <3>4. pc'[b] = "mark" /\ size' = size
      BY <1>1, <1>2, <3>1, GoesTyped
    <3>5. ChosenAt(b)' /\ Holds(b, "mark")
      BY <1>2, <3>1, <3>3, <3>4 DEF ChosenAt, Holds
    <3>6. IdleBound'
      BY <1>1, <1>2, <2>9, <2>10, <3>1, <3>4 DEF IdleBound
    <3> QED BY <1>1, <1>2, <2>9, <3>1, <3>3, <3>5, <3>6, SectionIdle
  <2> QED BY <2>11, <2>12
<1> QED BY <1>3, <1>4

-----------------------------------------------------------------------------
(***************************************************************************)
(* The constructor, and the joins of stop                                  *)
(***************************************************************************)

\* What a step of the constructor may rely on
LEMMA AtBuild ==
  ASSUME IInv, NEW c \in Controllers, pc[c] \in BuildStep
  PROVE  /\ c = Builder /\ c \in Callers /\ ~Built /\ c # Balancer
         /\ thread_count = next[c] /\ next[c] \in Nat /\ next[c] < core_threads
         /\ core_threads \in Nat /\ max_threads \in Nat /\ core_threads <= max_threads
         /\ size = next[c] + One(pc[c] = "countCore") /\ size \in Nat
         /\ queued = 0 /\ ~stopped /\ state = "RUNNING"
         /\ \A d \in Callers \ {c} : pc[d] \notin BuildStep \cup (SectionStep \ {"clean"})
         /\ \A d \in Submitters \cup Controllers : d = c \/ pc[d] = "idle"
         /\ pc[Balancer] \notin SectionStep \ {"clean"}
         /\ \A i \in Slots : ~should_exit[i] /\ wpc[i] # "busy"
         /\ \A s \in BuildStep \cup {"idle"} : Allowed(c, s) /\ s \notin SectionStep
<1>1. /\ Builder \in Controllers /\ c \in Callers /\ c # Balancer /\ c \notin Submitters
      /\ Callers = Submitters \cup Controllers \cup {Balancer}
  BY ThreadsAssumption DEF Callers
<1>2. c = Builder /\ ~Built
  BY <1>1 DEF IInv, Construction, Built, BuildStep
<1>3. /\ thread_count = next[c] /\ next[c] < core_threads
      /\ size = next[c] + One(pc[c] = "countCore")
      /\ queued = 0 /\ ~stopped /\ state = "RUNNING"
      /\ \A d \in Submitters \cup Controllers : d = c \/ pc[d] = "idle"
      /\ pc[Balancer] \notin SectionStep \ {"clean"}
      /\ \A i \in Slots : ~should_exit[i] /\ wpc[i] # "busy"
  BY <1>2 DEF IInv, Construction
<1>4. thread_count \in Nat /\ core_threads \in Nat /\ max_threads \in Nat
      /\ core_threads <= max_threads
  BY Consts DEF IInv, TypeOK
<1>5. pc[Balancer] \notin BuildStep
  BY DEF IInv, Kinds, BalancerStep, CheckStep, BuildStep
<1>6. \A d \in Callers \ {c} : pc[d] \notin BuildStep \cup (SectionStep \ {"clean"})
  BY <1>1, <1>3, <1>5 DEF BuildStep, SectionStep
<1>7. size \in Nat
  BY <1>3, <1>4 DEF One
<1>8. \A s \in BuildStep \cup {"idle"} : Allowed(c, s) /\ s \notin SectionStep
  BY <1>1 DEF Allowed, BuildStep, SectionStep, ClientStep, SubmitterStep
<1> QED BY <1>1, <1>2, <1>3, <1>4, <1>6, <1>7, <1>8

\* The next core worker: the slot was empty, and nobody works on a slot.
LEMMA ConstructStep ==
  ASSUME IInv, NEW c \in Controllers, ConstructWorker(c)
  PROVE  Main'
<1>1. /\ pc[c] = "construct" /\ worker_access = NoThread /\ Emplace(next[c])
      /\ Goes(c, "countCore")
      /\ UNCHANGED <<stateVars, queued, should_exit, idle_count, thread_count, callVars>>
  BY DEF ConstructWorker
<1>2. pc[c] \in BuildStep /\ "countCore" \in BuildStep
  BY <1>1 DEF BuildStep
<1>3. /\ c = Builder /\ c \in Callers /\ ~Built
      /\ thread_count = next[c] /\ next[c] \in Nat /\ next[c] < core_threads
      /\ core_threads \in Nat /\ max_threads \in Nat /\ core_threads <= max_threads
      /\ size = next[c] + One(pc[c] = "countCore") /\ size \in Nat
      /\ queued = 0 /\ ~stopped /\ state = "RUNNING"
      /\ \A d \in Callers \ {c} : pc[d] \notin BuildStep \cup (SectionStep \ {"clean"})
      /\ \A d \in Submitters \cup Controllers : d = c \/ pc[d] = "idle"
      /\ pc[Balancer] \notin SectionStep \ {"clean"} /\ c # Balancer
      /\ \A i \in Slots : ~should_exit[i] /\ wpc[i] # "busy"
      /\ Allowed(c, "countCore")
  BY <1>2, AtBuild
<1>4. size = next[c] /\ size < core_threads /\ size \in Slots
  <2>1. size = next[c]
    BY <1>1, <1>3 DEF One
  <2> QED BY <1>3, <2>1, Consts
<1>5. /\ state' = state /\ stopped' = stopped /\ load_balancer_exit' = load_balancer_exit
      /\ queued' = queued /\ should_exit' = should_exit /\ idle_count' = idle_count
      /\ thread_count' = thread_count /\ next' = next /\ last' = last /\ size' = size + 1
      /\ worker_access' = worker_access /\ slot' = slot
      /\ wpc' = [wpc EXCEPT ![size] = "top"] /\ index' = [index EXCEPT ![size] = size]
  BY <1>1, <1>4 DEF stateVars, callVars, Emplace, WorkerGoes
<1>6. /\ pc' \in [Callers -> BalancerStep \cup ClientStep] /\ Kinds'
      /\ pc'[c] = "countCore" /\ \A d \in Callers : d # c => pc'[d] = pc[d]
  BY <1>1, <1>3, GoesTyped
<1>7. /\ wpc' \in [Slots -> WorkerStep] /\ index' \in [Slots -> Slots]
      /\ \A i \in Slots : wpc'[i] = IF i = size THEN "top" ELSE wpc[i]
      /\ \A i \in Slots : index'[i] = IF i = size THEN size ELSE index[i]
  BY <1>4, <1>5 DEF IInv, TypeOK, WorkerStep
<1>8. size' \in Nat /\ size' <= core_threads /\ size' \in 0 .. core_threads + max_threads
      /\ size' <= max_threads
  BY <1>3, <1>4, <1>5
<1>9. TypeOK'
  BY <1>5, <1>6, <1>7, <1>8 DEF IInv, TypeOK
<1>10. \A d \in Callers : pc[d] \notin SectionStep /\ pc'[d] \notin SectionStep
  <2>1. \A d \in Callers : pc[d] \notin SectionStep
    BY <1>1, ThreadsAssumption DEF IInv, Access
  <2> QED BY <1>6, <2>1 DEF SectionStep
<1>11. Access'
  BY <1>1, <1>5, <1>10, ThreadsAssumption DEF Access
<1>12. Chosen'
  BY <1>10 DEF Chosen, ChosenAt, SectionStep
<1>13. \A i : ~Entering(i) /\ ~Entering(i)'
  BY <1>10 DEF Entering, SectionStep
<1>14. Construction'
  <2>1. Controllers \subseteq Callers /\ Submitters \subseteq Callers /\ Balancer \in Callers
    BY DEF Callers
  <2>2. /\ ~Built'
        /\ \A d \in Controllers : pc'[d] \in BuildStep => d = Builder
    BY <1>2, <1>3, <1>6, <2>1 DEF Built
  <2>3. \A d \in Controllers : pc'[d] \notin BuildStep \cup {"joinWorkers"} => next'[d] = 0
    BY <1>2, <1>5, <1>6, <2>1 DEF IInv, Construction
  <2>4. size' = next'[Builder] + One(pc'[Builder] = "countCore")
    BY <1>3, <1>4, <1>5, <1>6 DEF One
  <2>5. \A d \in Submitters \cup Controllers : d = Builder \/ pc'[d] = "idle"
    BY <1>3, <1>6, <2>1
  <2>6. pc'[Balancer] \notin SectionStep \ {"clean"}
    BY <1>10, <2>1
  <2>7. \A i \in Slots : ~should_exit'[i] /\ wpc'[i] # "busy"
    BY <1>3, <1>5, <1>7
  <2> QED BY <1>3, <1>5, <2>2, <2>3, <2>4, <2>5, <2>6, <2>7 DEF Construction
<1>15. Filled'
  <2>1. \A i \in 0 .. size' - 1 : i \in Slots /\ (i = size \/ i \in 0 .. size - 1)
    BY <1>3, <1>4, <1>5, <1>8, Consts
  <2>2. IndexIsSlot'
    BY <1>7, <1>8, <2>1 DEF IInv, Filled, IndexIsSlot
  <2>3. \A i \in Slots : wpc'[i] = "none" <=> i >= size'
    BY <1>3, <1>5, <1>7, Consts DEF IInv, Filled
  <2> QED BY <1>3, <1>5, <2>2, <2>3 DEF Filled
<1>16. \A i \in Slots : Joinable(i)' <=> i = size \/ Joinable(i)
  BY <1>7 DEF Joinable
<1>17. \A i \in Slots : i < size' <=> i < size \/ i = size
  BY <1>3, <1>5, Consts
<1>18. state' = state /\ ~Joining /\ ~Joining'
  <2>1. \A d \in Controllers : pc[d] # "joinWorkers" /\ pc'[d] # "joinWorkers"
    BY <1>1, <1>3, <1>6 DEF Callers
  <2> QED BY <1>3, <1>5, <2>1 DEF Joining
<1>19. Live'
  BY <1>5, <1>13, <1>16, <1>17, <1>18 DEF IInv, Live
<1>20. /\ IsFiniteSet(Kept') /\ Cardinality(Kept) \in Nat
       /\ Cardinality(Kept') = Cardinality(Kept) + 1
  <2>1. \A i : i # size => (i \in Kept <=> i \in Kept')
    BY <1>5, <1>13, <1>16, <1>17 DEF Kept
  <2>2. size \notin Kept /\ size \in Kept'
    BY <1>3, <1>4, <1>16, <1>17 DEF Kept
  <2>3. IsFiniteSet(Kept)
    BY DEF IInv, Counted
  <2> QED BY <2>1, <2>2, <2>3, CountMoves DEF One
<1>21. /\ IsFiniteSet(Counting') /\ Cardinality(Counting) \in Nat
       /\ Cardinality(Counting') = Cardinality(Counting) + 1
  <2>1. \A d : d # c => (d \in Counting <=> d \in Counting')
    BY <1>6 DEF Counting
  <2>2. c \notin Counting /\ c \in Counting'
    BY <1>1, <1>3, <1>6 DEF Counting
  <2>3. IsFiniteSet(Counting)
    BY DEF IInv, Counted
  <2> QED BY <2>1, <2>2, <2>3, CountMoves DEF One
<1>22. Counted'
  <2>1. thread_count + Cardinality(Counting) = Cardinality(Kept)
    BY <1>18 DEF IInv, Counted
  <2>2. thread_count' + Cardinality(Counting') = Cardinality(Kept')
    BY <1>3, <1>5, <1>20, <1>21, <2>1
  <2>3. Cardinality(Kept') \in Nat
    BY <1>20
  <2> QED BY <1>20, <1>21, <2>2, <2>3 DEF Counted
<1>23. IdleBound'
  <2>1. \A d \in Callers : pc[d] # "mark"
    BY <1>10 DEF SectionStep
  <2> QED BY <1>5, <2>1 DEF IInv, IdleBound
<1> QED BY <1>6, <1>9, <1>11, <1>12, <1>14, <1>15, <1>19, <1>22, <1>23 DEF Main

\* Counting it; after the last one the pool is built.
LEMMA CountCoreStep ==
  ASSUME IInv, NEW c \in Controllers, CountCoreWorker(c)
  PROVE  Main'
<1> DEFINE done == next[c] + 1 = core_threads
           s == IF done THEN "idle" ELSE "construct"
<1>1. /\ pc[c] = "countCore" /\ thread_count' = thread_count + 1
      /\ next' = [next EXCEPT ![c] = IF done THEN 0 ELSE @ + 1] /\ Goes(c, s)
      /\ UNCHANGED <<stateVars, queued, slotVars, wpc, worker_access, slot, last>>
  BY DEF CountCoreWorker
<1>2. pc[c] \in BuildStep /\ s \in BuildStep \cup {"idle"} /\ (s \in BuildStep <=> ~done)
      /\ s \notin {"countCore", "enter", "joinWorkers", "mark"}
  BY <1>1 DEF BuildStep
<1>3. /\ c = Builder /\ c \in Callers /\ ~Built /\ c # Balancer
      /\ thread_count = next[c] /\ next[c] \in Nat /\ next[c] < core_threads
      /\ core_threads \in Nat /\ max_threads \in Nat
      /\ size = next[c] + One(pc[c] = "countCore") /\ size \in Nat
      /\ queued = 0 /\ ~stopped /\ state = "RUNNING"
      /\ \A d \in Callers \ {c} : pc[d] \notin BuildStep \cup (SectionStep \ {"clean"})
      /\ \A d \in Submitters \cup Controllers : d = c \/ pc[d] = "idle"
      /\ pc[Balancer] \notin SectionStep \ {"clean"}
      /\ \A i \in Slots : ~should_exit[i] /\ wpc[i] # "busy"
      /\ Allowed(c, s) /\ s \notin SectionStep /\ pc[c] \notin SectionStep
  BY <1>2, AtBuild
<1> HIDE DEF s
<1>4. size = next[c] + 1
  BY <1>1, <1>3 DEF One
<1>5. /\ state' = state /\ stopped' = stopped /\ load_balancer_exit' = load_balancer_exit
      /\ queued' = queued /\ should_exit' = should_exit /\ idle_count' = idle_count
      /\ size' = size /\ index' = index /\ wpc' = wpc
      /\ worker_access' = worker_access /\ slot' = slot /\ last' = last
  BY <1>1 DEF stateVars, slotVars
<1>6. /\ pc' \in [Callers -> BalancerStep \cup ClientStep] /\ Kinds'
      /\ pc'[c] = s /\ \A d \in Callers : d # c => pc'[d] = pc[d]
  BY <1>1, <1>3, GoesTyped
<1>7. /\ next' \in [Controllers -> Slots \cup {core_threads + max_threads}]
      /\ next'[c] = IF done THEN 0 ELSE next[c] + 1
      /\ \A d \in Controllers : d # c => next'[d] = next[d]
  <2>1. next \in [Controllers -> Slots \cup {core_threads + max_threads}]
    BY DEF IInv, TypeOK
  <2>2. (IF done THEN 0 ELSE next[c] + 1) \in Slots
    BY <1>3, Consts
  <2> QED BY <1>1, <2>1, <2>2
<1>8. TypeOK'
  <2>1. thread_count' \in Nat
    BY <1>1, <1>3
  <2> QED BY <1>5, <1>6, <1>7, <2>1 DEF IInv, TypeOK
<1>9. Access'
  BY <1>3, <1>5, <1>6 DEF IInv, Access
<1>10. \A d \in Callers : pc[d] \notin SectionStep \ {"clean"} /\ pc'[d] \notin SectionStep \ {"clean"}
  BY <1>3, <1>6
<1>11. Chosen'
  BY <1>10 DEF Chosen, ChosenAt, SectionStep
<1>12. \A i : ~Entering(i) /\ ~Entering(i)'
  BY <1>10 DEF Entering, SectionStep
<1>13. Construction'
  <2>1. Controllers \subseteq Callers /\ Submitters \subseteq Callers /\ Balancer \in Callers
    BY DEF Callers
  <2>2. \A d \in Controllers : pc'[d] \in BuildStep => d = Builder
    BY <1>3, <1>6, <2>1
  <2>3. \A d \in Controllers : pc'[d] \notin BuildStep \cup {"joinWorkers"} => next'[d] = 0
    BY <1>2, <1>6, <1>7, <2>1 DEF IInv, Construction
  <2>4. Built' <=> done
    BY <1>2, <1>3, <1>6 DEF Built, BuildStep
  <2>5. Built' => core_threads <= size'
    BY <1>3, <1>4, <1>5, <2>4
  <2>6. ~Built' => /\ thread_count' = next'[Builder] /\ next'[Builder] < core_threads
                   /\ size' = next'[Builder] + One(pc'[Builder] = "countCore")
    BY <1>1, <1>2, <1>3, <1>4, <1>5, <1>6, <1>7, <2>4 DEF One
  <2>7. \A d \in Submitters \cup Controllers : d = Builder \/ pc'[d] = "idle"
    BY <1>3, <1>6, <2>1
  <2>8. pc'[Balancer] \notin SectionStep \ {"clean"}
    BY <1>10, <2>1
  <2> QED BY <1>3, <1>5, <2>2, <2>3, <2>5, <2>6, <2>7, <2>8 DEF Construction
<1>14. Filled'
  BY <1>5 DEF IInv, Filled, IndexIsSlot
<1>15. \A i : Joinable(i)' <=> Joinable(i)
  BY <1>5 DEF Joinable
<1>16. ~Joining /\ ~Joining'
  <2>1. \A d \in Controllers : pc[d] # "joinWorkers" /\ pc'[d] # "joinWorkers"
    BY <1>1, <1>2, <1>3, <1>6 DEF Callers
  <2> QED BY <1>3, <1>5, <2>1 DEF Joining
<1>17. Live'
  BY <1>5, <1>12, <1>15, <1>16 DEF IInv, Live
<1>18. Kept' = Kept
  BY <1>5, <1>12, <1>15 DEF Kept
<1>19. /\ IsFiniteSet(Counting') /\ Cardinality(Counting) \in Nat
       /\ Cardinality(Counting') = Cardinality(Counting) - 1
  <2>1. \A d : d # c => (d \in Counting <=> d \in Counting')
    BY <1>6 DEF Counting
  <2>2. c \in Counting /\ c \notin Counting'
    BY <1>1, <1>2, <1>3, <1>6 DEF Counting
  <2>3. IsFiniteSet(Counting)
    BY DEF IInv, Counted
  <2> QED BY <2>1, <2>2, <2>3, CountMoves DEF One
<1>20. Counted'
  <2>1. thread_count + Cardinality(Counting) = Cardinality(Kept) /\ IsFiniteSet(Kept)
    BY <1>16 DEF IInv, Counted
  <2>2. Cardinality(Kept) \in Nat
    BY <2>1, CountPositive
  <2>3. thread_count' + Cardinality(Counting') = Cardinality(Kept)
    BY <1>1, <1>3, <1>19, <2>1
  <2> QED BY <1>18, <1>19, <2>1, <2>2, <2>3 DEF Counted
<1>21. IdleBound'
  <2>1. \A d \in Callers : pc[d] # "mark"
    BY <1>10 DEF SectionStep
  <2> QED BY <1>5, <2>1 DEF IInv, IdleBound
<1> QED BY <1>6, <1>8, <1>9, <1>11, <1>13, <1>14, <1>17, <1>20, <1>21 DEF Main

\* stop joins the thread of the next slot, which changes no counter.
LEMMA JoinWorkerStep ==
  ASSUME IInv, NEW c \in Controllers, JoinWorker(c)
  PROVE  Main' /\ Joining'
<1> DEFINE x == next[c]
<1>1. /\ pc[c] = "joinWorkers" /\ x < last /\ wpc[x] \in {"exited", "joined"}
      /\ wpc' = [wpc EXCEPT ![x] = "joined"] /\ next' = [next EXCEPT ![c] = x + 1]
      /\ state' = state /\ stopped' = stopped /\ load_balancer_exit' = load_balancer_exit
      /\ queued' = queued /\ size' = size /\ index' = index /\ should_exit' = should_exit
      /\ idle_count' = idle_count /\ thread_count' = thread_count
      /\ worker_access' = worker_access /\ slot' = slot /\ last' = last /\ pc' = pc
  BY DEF JoinWorker, stateVars, slotVars, WorkerGoes
<1>2. /\ x \in Slots \cup {core_threads + max_threads}
      /\ last \in Slots \cup {core_threads + max_threads}
      /\ core_threads \in Nat /\ max_threads \in Nat
  BY Consts DEF IInv, TypeOK
<1>3. x \in Nat /\ x \in Slots /\ x + 1 \in Slots \cup {core_threads + max_threads}
  <2>1. x \in Nat
    BY <1>2, Consts
  <2>2. x < core_threads + max_threads
    BY <1>1, <1>2, <2>1 DEF Slots
  <2>3. x + 1 = core_threads + max_threads \/ x + 1 < core_threads + max_threads
    BY <1>2, <2>1, <2>2
  <2> QED BY <2>1, <2>2, <2>3, Consts
<1> HIDE DEF x
<1>4. /\ next' \in [Controllers -> Slots \cup {core_threads + max_threads}]
      /\ \A d \in Controllers : d # c => next'[d] = next[d]
      /\ wpc' \in [Slots -> WorkerStep] /\ wpc'[x] = "joined"
      /\ \A i \in Slots : i # x => wpc'[i] = wpc[i]
  BY <1>1, <1>3 DEF IInv, TypeOK, WorkerStep
<1>5. TypeOK'
  BY <1>1, <1>4 DEF IInv, TypeOK
<1>6. Kinds' /\ Access' /\ IdleBound'
  BY <1>1 DEF IInv, Kinds, Access, IdleBound
<1>7. Builder \in Controllers
  BY ThreadsAssumption
<1>8. Built /\ Built'
  <2>1. Built
    BY <1>1, <1>7 DEF IInv, Construction, Built
  <2> QED BY <1>1, <2>1 DEF Built
<1>9. Construction'
  BY <1>1, <1>4, <1>8 DEF IInv, Construction
<1>10. Filled'
  BY <1>1, <1>4 DEF IInv, Filled, IndexIsSlot
<1>11. \A i \in Slots : Joinable(i)' => Joinable(i)
  BY <1>1, <1>4 DEF Joinable
<1>12. Chosen'
  <2>1. ThreadIndex' = ThreadIndex
    BY <1>1 DEF ThreadIndex, Refillable
  <2>2. slot \in Slots
    BY DEF IInv, TypeOK
  <2> QED BY <1>1, <1>11, <2>1, <2>2 DEF IInv, Chosen, ChosenAt
<1>13. Joining /\ Joining'
  BY <1>1 DEF Joining
<1>14. Live'
  BY <1>13 DEF Live
<1>15. \A i : Entering(i)' <=> Entering(i)
  BY <1>1 DEF Entering
<1>16. /\ IsFiniteSet(Kept') /\ Cardinality(Kept) \in Nat /\ Cardinality(Kept') \in Nat
       /\ Cardinality(Kept') <= Cardinality(Kept)
  <2>1. \A i : i # x => (i \in Kept <=> i \in Kept')
    <3>1. \A i \in Slots : i # x => (Joinable(i)' <=> Joinable(i))
      BY <1>4 DEF Joinable
    <3> QED BY <1>1, <1>15, <3>1 DEF Kept
  <2>2. x \in Kept' => x \in Kept
    BY <1>1, <1>11, <1>15 DEF Kept
  <2>3. IsFiniteSet(Kept)
    BY DEF IInv, Counted
  <2> QED BY <2>1, <2>2, <2>3, CountMoves DEF One
<1>17. Counted'
  <2>1. Counting' = Counting
    BY <1>1 DEF Counting
  <2>2. /\ IsFiniteSet(Counting) /\ Cardinality(Counting) \in Nat /\ thread_count \in Nat
        /\ thread_count + Cardinality(Counting) >= Cardinality(Kept)
    BY CountPositive DEF IInv, Counted, TypeOK
  <2>3. thread_count + Cardinality(Counting) >= Cardinality(Kept')
    BY <1>16, <2>2
  <2> QED BY <1>1, <1>13, <1>16, <2>1, <2>2, <2>3 DEF Counted
<1> QED BY <1>5, <1>6, <1>9, <1>10, <1>12, <1>13, <1>14, <1>17 DEF Main

-----------------------------------------------------------------------------
(***************************************************************************)
(* Stopping                                                                *)
(***************************************************************************)

\* A worker that has left
Gone == {"exited", "joined"}

\* A worker of a core slot leaves only when the pool is given up.
CoreRuns ==
  \A i \in 0 .. core_threads - 1 :
    wpc'[i] \in Gone => wpc[i] \in Gone \/ stopped \/ state = "FORCE_SHUTING"

\* What no step takes back, and who may join workers
Onward ==
  /\ stopped => stopped'
  /\ state = "STOPPED" => state' = "STOPPED"
  /\ state = "FORCE_SHUTING" => state' \in {"FORCE_SHUTING", "STOPPED"}
  /\ state' = "STOPPED" => state = "STOPPED" \/ \E c \in Controllers : pc[c] = "joinWorkers"
  /\ pc[Balancer] = "exited" => pc'[Balancer] = "exited"
  /\ last' \in {last, size}
  /\ \A c \in Controllers :
       /\ pc'[c] = "joinBalancer" => pc[c] = "joinBalancer" \/ stopped'
       /\ pc'[c] = "joinWorkers" =>
            \/ pc[c] = "joinWorkers"
            \/ pc[c] = "joinBalancer" /\ pc[Balancer] = "exited" /\ last' = size
       /\ pc[c] = "joinWorkers" => pc'[c] = "joinWorkers" \/ state' = "STOPPED"
  /\ CoreRuns

\* Such a step keeps who may join and that core workers stay; and once joins have
\* begun they have begun for good.
LEMMA OnwardStep ==
  ASSUME IInv, Onward
  PROVE  Stops' /\ CoreWorkersStay' /\ (Joining => Joining')
<1>1. /\ \A c \in Controllers : pc[c] \in {"joinBalancer", "joinWorkers"} => stopped
      /\ state = "STOPPED" => stopped
      /\ Joining => pc[Balancer] = "exited"
      /\ \A i \in 0 .. core_threads - 1 :
           wpc[i] \in {"exited", "joined"} => stopped \/ state = "FORCE_SHUTING"
  BY DEF IInv, Stops, CoreWorkersStay
<1>2. \A c \in Controllers : pc'[c] \in {"joinBalancer", "joinWorkers"} => stopped'
  BY <1>1 DEF Onward
<1>3. state' = "STOPPED" => stopped'
  BY <1>1 DEF Onward
<1>4. Joining' => pc'[Balancer] = "exited"
  BY <1>1 DEF Onward, Joining
<1>5. CoreWorkersStay'
  <2>1. stopped \/ state = "FORCE_SHUTING" => stopped' \/ state' = "FORCE_SHUTING"
    BY <1>3 DEF Onward
  <2> QED BY <1>1, <2>1 DEF Onward, CoreRuns, Gone, CoreWorkersStay
<1>6. Joining => Joining'
  BY DEF Onward, Joining
<1> QED BY <1>2, <1>3, <1>4, <1>5, <1>6 DEF Stops

\* A step of one caller that is not one of stop's
LEMMA GoesOnward ==
  ASSUME IInv, NEW b \in Callers, NEW s, Goes(b, s),
         s \notin {"joinBalancer", "joinWorkers"}, pc[b] \notin {"joinWorkers", "exited"},
         UNCHANGED <<stateVars, last>>, CoreRuns
  PROVE  Onward
<1>1. /\ pc'[b] = s /\ \A d \in Callers : d # b => pc'[d] = pc[d]
  BY DEF Goes, IInv, TypeOK
<1>2. Balancer \in Callers /\ Controllers \subseteq Callers
  BY DEF Callers
<1> QED BY <1>1, <1>2 DEF Onward, stateVars

\* The core workers among the slots
LEMMA CoreSlots ==
  ASSUME IInv
  PROVE  /\ \A i \in 0 .. core_threads - 1 : i \in Slots
         /\ wpc' = wpc => CoreRuns
         /\ Wakes => CoreRuns
         /\ \A i \in Slots, s \in WorkerStep \ Gone : WorkerGoes(i, s) => CoreRuns
         /\ \A i \in Slots, s \in WorkerStep :
              WorkerGoes(i, s) /\ (wpc[i] \in Gone \/ stopped \/ state = "FORCE_SHUTING")
                => CoreRuns
<1>1. \A i \in 0 .. core_threads - 1 : i \in Slots
  BY Consts
<1>2. wpc \in [Slots -> WorkerStep]
  BY DEF IInv, TypeOK
<1>3. wpc' = wpc => CoreRuns
  BY DEF CoreRuns
<1>4. Wakes => CoreRuns
  BY <1>1 DEF Wakes, CoreRuns, Gone
<1>5. \A i \in Slots, s \in WorkerStep \ Gone : WorkerGoes(i, s) => CoreRuns
  BY <1>1, <1>2 DEF WorkerGoes, CoreRuns
<1>6. \A i \in Slots, s \in WorkerStep :
        WorkerGoes(i, s) /\ (wpc[i] \in Gone \/ stopped \/ state = "FORCE_SHUTING") => CoreRuns
  BY <1>1, <1>2 DEF WorkerGoes, CoreRuns
<1> QED BY <1>1, <1>3, <1>4, <1>5, <1>6

\* No flag is set for a core worker.
LEMMA WorkerOnward ==
  ASSUME IInv, NEW i \in Slots, WorkerLoop(i) \/ WakeSpuriously(i)
  PROVE  Onward
<1>1. {"state", "paused", "lock", "waiting", "busy", "top"} \subseteq WorkerStep \ Gone
  BY DEF WorkerStep, Gone
<1>2. CoreRuns
  <2>1. ASSUME NEW s \in WorkerStep \ Gone, WorkerGoes(i, s) PROVE CoreRuns
    BY <2>1, CoreSlots
  <2>2. ASSUME WorkerGoes(i, "exited"), stopped \/ state = "FORCE_SHUTING" PROVE CoreRuns
    BY <2>2, CoreSlots DEF WorkerStep
  <2>3. CASE TestExit(i)
    <3>1. wpc[i] = "top" /\ WorkerGoes(i, IF should_exit[index[i]] THEN "exited" ELSE "state")
      BY <2>3 DEF TestExit, WorkerMoves
    <3>2. i \in Nat /\ size \in Nat /\ core_threads \in Nat
      BY Consts DEF IInv, TypeOK
    <3>3. i \in 0 .. size - 1
      BY <3>1, <3>2 DEF IInv, Filled
    <3>4. should_exit[index[i]] => core_threads <= i
      BY <3>3 DEF IInv, Filled, IndexIsSlot
    <3>5. CASE ~should_exit[index[i]]
      BY <1>1, <2>1, <3>1, <3>5
    <3>6. CASE should_exit[index[i]]
      <4>1. ~(i \in 0 .. core_threads - 1)
        BY <3>2, <3>4, <3>6
      <4>2. WorkerGoes(i, "exited")
        BY <3>1, <3>6
      <4> QED BY <4>1, <4>2, CoreSlots DEF WorkerGoes, CoreRuns, IInv, TypeOK
    <3> QED BY <3>5, <3>6
  <2>4. CASE TestPaused(i)
    <3>1. WorkerGoes(i, IF state = "PAUSED" THEN "paused" ELSE "lock")
      BY <2>4 DEF TestPaused, WorkerMoves
    <3> QED BY <1>1, <2>1, <3>1
  <2>5. CASE LeavePause(i)
    <3>1. WorkerGoes(i, IF stopped THEN "exited" ELSE "lock")
      BY <2>5 DEF LeavePause, WorkerMoves
    <3> QED BY <1>1, <2>1, <2>2, <3>1
  <2>6. CASE AwaitTask(i)
    <3>1. \/ WorkerGoes(i, "waiting") \/ WorkerGoes(i, "busy") \/ WorkerGoes(i, "top")
          \/ WorkerGoes(i, "exited") /\ (stopped \/ state = "FORCE_SHUTING")
      BY <2>6 DEF AwaitTask
    <3> QED BY <1>1, <2>1, <2>2, <3>1
  <2>7. CASE Finish(i) \/ WakeSpuriously(i)
    <3>1. WorkerGoes(i, "top") \/ WorkerGoes(i, "lock")
      BY <2>7 DEF Finish, WakeSpuriously, WorkerMoves
    <3> QED BY <1>1, <2>1, <3>1
  <2> QED BY <2>3, <2>4, <2>5, <2>6, <2>7 DEF WorkerLoop
<1>3. WaitersWoken /\ UNCHANGED <<stateVars, last>>
  BY WorkersWake DEF IInv, TypeOK, callVars
<1>4. Balancer \in Callers /\ Controllers \subseteq Callers
  BY DEF Callers
<1> QED BY <1>2, <1>3, <1>4 DEF Onward, stateVars, WaitersWoken

\* submit is such a step.
LEMMA SubmitterOnward ==
  ASSUME IInv, NEW s \in Submitters, Submit(s) \/ SubmitStep(s)
  PROVE  Onward
<1>1. s \in Callers
  BY DEF Callers
<1>2. CASE Submit(s) \/ Push(s) \/ CountPending(s)
  <2>1. PICK t \in {"push", "count", "notify"} : Goes(s, t)
    BY <1>2 DEF Submit, Push, CountPending, Moves
  <2>2. /\ pc[s] \notin {"joinWorkers", "exited"} /\ UNCHANGED <<stateVars, last>> /\ wpc' = wpc
    BY <1>2 DEF Submit, Push, CountPending, Moves, callVars
  <2> QED BY <1>1, <2>1, <2>2, CoreSlots, GoesOnward
<1>3. CASE NotifyWorker(s)
  <2>1. Goes(s, "idle") /\ pc[s] \notin {"joinWorkers", "exited"} /\ UNCHANGED <<stateVars, last>>
    BY <1>3 DEF NotifyWorker, callVars
  <2>2. Wakes
    BY <1>3, Waking DEF NotifyWorker
  <2> QED BY <1>1, <2>1, <2>2, CoreSlots, GoesOnward
<1> QED BY <1>2, <1>3 DEF SubmitStep

\* loadCheck, the balancer and the constructor
LEMMA SectionOnward ==
  ASSUME IInv, NEW b \in Controllers \cup {Balancer},
         \/ CheckStepOf(b) \/ MeasureLoad(b)
         \/ b = Balancer /\ (\/ BalancerLoop(b) \/ AwaitResume(b) \/ EndSleep(b)
                             \/ CleanFinishedThread(b) \/ LockClean(b))
         \/ b # Balancer /\ (ConstructWorker(b) \/ CountCoreWorker(b))
  PROVE  Onward
<1>1. b \in Callers /\ AfterCheck(b) \notin {"joinBalancer", "joinWorkers"}
  BY DEF Callers, AfterCheck
<1>2. UNCHANGED <<stateVars, last>>
  BY DEF CheckStepOf, MeasureLoad, BalancerLoop, AwaitResume, EndSleep, CleanFinishedThread,
         LockClean, ConstructWorker, CountCoreWorker, TryCreateNewThread, ReapOld, StartThread,
         EnterThread, EmplaceThread, CreateFails, TryRemoveIdleThread, MarkThread, Moves, callVars
<1>3. pc[b] \notin {"joinWorkers", "exited"}
  BY DEF CheckStepOf, MeasureLoad, BalancerLoop, AwaitResume, EndSleep, CleanFinishedThread,
         LockClean, ConstructWorker, CountCoreWorker, TryCreateNewThread, ReapOld, StartThread,
         EnterThread, EmplaceThread, CreateFails, TryRemoveIdleThread, MarkThread
<1>4. CoreRuns
  <2>1. CASE wpc' = wpc
    BY <2>1, CoreSlots
  <2>2. CASE wpc' = WakeWorkers
    BY <2>2, CoreSlots, Waking
  <2>3. ASSUME NEW i, Join(i) PROVE CoreRuns
    <3>1. wpc \in [Slots -> WorkerStep] /\ wpc' = [wpc EXCEPT ![i] = "joined"] /\ wpc[i] = "exited"
      BY <2>3 DEF Join, WorkerGoes, IInv, TypeOK
    <3> QED BY <3>1, CoreSlots DEF CoreRuns, Gone
  <2>4. ASSUME NEW i, WorkerGoes(i, "top") PROVE CoreRuns
    <3>1. wpc \in [Slots -> WorkerStep] /\ wpc' = [wpc EXCEPT ![i] = "top"]
      BY <2>4 DEF WorkerGoes, IInv, TypeOK
    <3> QED BY <3>1, CoreSlots DEF CoreRuns, Gone
  <2>5. \/ wpc' = wpc \/ wpc' = WakeWorkers \/ (\E i : Join(i)) \/ (\E i : WorkerGoes(i, "top"))
    BY DEF CheckStepOf, MeasureLoad, BalancerLoop, AwaitResume, EndSleep, CleanFinishedThread,
           LockClean, ConstructWorker, CountCoreWorker, TryCreateNewThread, ReapOld, StartThread,
           EnterThread, EmplaceThread, CreateFails, TryRemoveIdleThread, MarkThread, Moves, Emplace
  <2> QED BY <2>1, <2>2, <2>3, <2>4, <2>5
<1>5. pc' = pc \/ \E s : Goes(b, s) /\ s \notin {"joinBalancer", "joinWorkers"}
  <2> DEFINE Moved == \E s : Goes(b, s) /\ s \notin {"joinBalancer", "joinWorkers"}
  <2>1. ASSUME NEW s \in {"lockCheck", "create", "reap", "start", "enter", "emplace", "remove",
                          "mark", "lockClean", "clean", "loop", "pauseTest", "asleep", "sleep",
                          "exited", "idle", "construct", "countCore"},
               Goes(b, s)
        PROVE  Moved
    BY <2>1
  <2> HIDE DEF Moved
  <2>2. CASE TryCreateNewThread(b)
    <3>1. \/ Goes(b, "lockClean") \/ Goes(b, "idle") \/ Goes(b, "emplace") \/ Goes(b, "reap") \/ Goes(b, "start")
      BY <2>2 DEF TryCreateNewThread, Returns, AfterCheck
    <3> QED BY <2>1, <3>1
  <2>3. CASE ReapOld(b) \/ StartThread(b) \/ EnterThread(b) \/ EmplaceThread(b) \/ CreateFails(b)
             \/ MarkThread(b) \/ TryRemoveIdleThread(b)
    <3>1. \/ Goes(b, "lockClean") \/ Goes(b, "idle") \/ Goes(b, "start") \/ Goes(b, "enter") \/ Goes(b, "mark")
      BY <2>3 DEF ReapOld, StartThread, EnterThread, EmplaceThread, CreateFails, MarkThread,
                  TryRemoveIdleThread, Returns, AfterCheck
    <3> QED BY <2>1, <3>1
  <2>4. CASE MeasureLoad(b)
    <3>1. \/ Goes(b, "lockClean") \/ Goes(b, "idle") \/ Goes(b, "create") \/ Goes(b, "remove")
      BY <2>4 DEF MeasureLoad, AfterCheck
    <3> QED BY <2>1, <3>1
  <2>5. CASE BalancerLoop(b) \/ AwaitResume(b) \/ EndSleep(b)
    <3>1. \/ Goes(b, "exited") \/ Goes(b, "pauseTest") \/ Goes(b, "asleep") \/ Goes(b, "sleep")
          \/ Goes(b, "lockCheck") \/ Goes(b, "lockClean")
      BY <2>5 DEF BalancerLoop, AwaitResume, EndSleep, Moves
    <3> QED BY <2>1, <3>1
  <2>6. CASE CleanFinishedThread(b) \/ LockClean(b)
    <3>1. \/ pc' = pc \/ Goes(b, "loop") \/ Goes(b, "clean")
      BY <2>6 DEF CleanFinishedThread, LockClean, Returns
    <3> QED BY <2>1, <3>1 DEF Moved
  <2>7. CASE ConstructWorker(b) \/ CountCoreWorker(b)
    <3>1. \/ Goes(b, "countCore") \/ Goes(b, "idle") \/ Goes(b, "construct")
      BY <2>7 DEF ConstructWorker, CountCoreWorker
    <3> QED BY <2>1, <3>1
  <2> QED BY <2>2, <2>3, <2>4, <2>5, <2>6, <2>7 DEF CheckStepOf, Moved
<1>6. CASE pc' = pc
  BY <1>2, <1>4, <1>6 DEF Onward, stateVars
<1>7. CASE \E s : Goes(b, s) /\ s \notin {"joinBalancer", "joinWorkers"}
  BY <1>1, <1>2, <1>3, <1>4, <1>7, GoesOnward
<1> QED BY <1>5, <1>6, <1>7

\* pause, resume, shutdown and stop.  Only those that hold state_mutex_ change
\* state_, and none of them takes STOPPED or FORCE_SHUTING back.
LEMMA ControlOnward ==
  ASSUME IInv, NEW c \in Controllers,
         Call(c) \/ ForceStop(c) \/ WaitStep(c) \/ Drain(c) \/ StopBalancer(c)
         \/ StopWorkers(c) \/ JoinBalancer(c) \/ JoinWorker(c) \/ EndStop(c)
  PROVE  Onward
<1>1. /\ c \in Callers /\ Balancer \in Callers /\ Controllers \subseteq Callers /\ c # Balancer
      /\ pc \in [Callers -> BalancerStep \cup ClientStep] /\ wpc \in [Slots -> WorkerStep]
  BY ThreadsAssumption DEF Callers, IInv, TypeOK
<1>2. pc[c] # "exited"
  BY DEF IInv, Kinds, ClientStep, CheckStep
<1>3. ASSUME NEW s, s \notin {"joinBalancer", "joinWorkers"}, pc[c] # "joinWorkers", Goes(c, s),
             UNCHANGED <<stateVars, last>>, wpc' = wpc
      PROVE  Onward
  BY <1>1, <1>2, <1>3, CoreSlots, GoesOnward
<1>13. CASE WaitStep(c)
  <2>1. PICK s \in WaitPhase \cup {"stopBalancer"} : Moves(c, s)
    BY <1>13, Waits
  <2>2. /\ pc[c] # "joinWorkers" /\ s \notin {"joinBalancer", "joinWorkers"}
        /\ Goes(c, s) /\ UNCHANGED <<stateVars, last>> /\ wpc' = wpc
    BY <1>13, <2>1, Waits DEF WaitPhase, Moves, callVars
  <2> QED BY <1>3, <2>2
<1>4. CASE LoadCheck(c) \/ Stop(c) \/ Drain(c)
  <2>1. /\ Goes(c, "lockCheck") \/ Goes(c, "stopBalancer")
        /\ pc[c] # "joinWorkers" /\ UNCHANGED <<stateVars, last>> /\ wpc' = wpc
    BY <1>4 DEF LoadCheck, Stop, Drain, Moves, Begins, callVars
  <2> QED BY <1>3, <2>1
<1>5. CASE Pause(c) \/ Resume(c)
  <2>1. /\ state \in {"RUNNING", "PAUSED"} /\ state' \in {"RUNNING", "PAUSED"}
        /\ stopped' = stopped /\ last' = last /\ wpc' = wpc
        /\ pc' = pc \/ pc' = BalancerWoken(pc)
    BY <1>5 DEF Pause, Resume, callVars
  <2>2. /\ pc[Balancer] = "exited" => pc'[Balancer] = "exited"
        /\ \A d \in Controllers : pc'[d] = pc[d]
    BY <1>1, <2>1, ThreadsAssumption DEF BalancerWoken
  <2> QED BY <2>1, <2>2, CoreSlots DEF Onward
<1>6. CASE Shutdown(c)
  <2>1. /\ state \in {"RUNNING", "PAUSED"} /\ state' = "SHUTING_DOWN"
        /\ stopped' = stopped /\ last' = last /\ wpc' = wpc /\ pc[c] = "idle"
        /\ \E s \in {"waitAll", "readRunning", "force"} : pc' = [pc EXCEPT ![c] = s]
    BY <1>6 DEF Shutdown, Begins, Goes, callVars
  <2>2. pc'[c] \in {"waitAll", "readRunning", "force"} /\ \A d \in Callers : d # c => pc'[d] = pc[d]
    BY <1>1, <2>1
  <2> QED BY <1>1, <2>1, <2>2, CoreSlots DEF Onward
<1>7. CASE ForceStop(c)
  <2>1. /\ \/ state' = state /\ pc' = [pc EXCEPT ![c] = "idle"]
           \/ state \notin {"FORCE_SHUTING", "STOPPED"} /\ state' = "FORCE_SHUTING"
              /\ pc' = [pc EXCEPT ![c] = "drain"]
        /\ stopped' = stopped /\ last' = last /\ wpc' = wpc /\ pc[c] = "force"
    BY <1>7 DEF ForceStop, Goes, callVars
  <2>2. pc'[c] \in {"idle", "drain"} /\ \A d \in Callers : d # c => pc'[d] = pc[d]
    BY <1>1, <2>1
  <2> QED BY <1>1, <2>1, <2>2, CoreSlots DEF Onward
<1>8. CASE StopBalancer(c)
  <2>1. /\ pc' = [BalancerWoken(pc) EXCEPT ![c] = "stopWorkers"] /\ pc[c] = "stopBalancer"
        /\ state' = state /\ stopped' = stopped /\ last' = last /\ wpc' = wpc
    BY <1>8 DEF StopBalancer, callVars
  <2>2. /\ pc'[c] = "stopWorkers" /\ \A d \in Controllers : d # c => pc'[d] = pc[d]
        /\ pc[Balancer] = "exited" => pc'[Balancer] = "exited"
    BY <1>1, <2>1, ThreadsAssumption DEF BalancerWoken
  <2> QED BY <1>1, <2>1, <2>2, CoreSlots DEF Onward
<1>9. CASE StopWorkers(c)
  <2>1. /\ pc' = [pc EXCEPT ![c] = "joinBalancer"] /\ pc[c] = "stopWorkers"
        /\ state' = state /\ stopped' = TRUE /\ last' = last /\ wpc' = WakeWorkers
    BY <1>9 DEF StopWorkers, Goes, callVars
  <2>2. pc'[c] = "joinBalancer" /\ \A d \in Callers : d # c => pc'[d] = pc[d]
    BY <1>1, <2>1
  <2>3. CoreRuns
    BY <2>1, Waking, CoreSlots
  <2> QED BY <1>1, <2>1, <2>2, <2>3 DEF Onward
<1>10. CASE JoinBalancer(c)
  <2>1. /\ pc' = [pc EXCEPT ![c] = "joinWorkers"] /\ pc[c] = "joinBalancer"
        /\ pc[Balancer] = "exited" /\ state' = state /\ stopped' = stopped /\ last' = size
        /\ wpc' = wpc
    BY <1>10 DEF JoinBalancer, Goes, stateVars
  <2>2. pc'[c] = "joinWorkers" /\ \A d \in Callers : d # c => pc'[d] = pc[d]
    BY <1>1, <2>1
  <2> QED BY <1>1, <2>1, <2>2, CoreSlots DEF Onward
<1>11. CASE JoinWorker(c)
  <2>1. /\ pc' = pc /\ state' = state /\ stopped' = stopped /\ last' = last
        /\ wpc' = [wpc EXCEPT ![next[c]] = "joined"] /\ wpc[next[c]] \in Gone
    BY <1>11 DEF JoinWorker, stateVars, WorkerGoes, Gone
  <2>2. CoreRuns
    BY <1>1, <2>1, CoreSlots DEF CoreRuns
  <2> QED BY <2>1, <2>2 DEF Onward
<1>12. CASE EndStop(c)
  <2>1. /\ pc' = [pc EXCEPT ![c] = "idle"] /\ pc[c] = "joinWorkers"
        /\ state' = "STOPPED" /\ stopped' = stopped /\ last' = last /\ wpc' = wpc
    BY <1>12 DEF EndStop, Goes
  <2>2. pc'[c] = "idle" /\ \A d \in Callers : d # c => pc'[d] = pc[d]
    BY <1>1, <2>1
  <2> QED BY <1>1, <2>1, <2>2, CoreSlots DEF Onward
<1> QED BY <1>4, <1>5, <1>6, <1>7, <1>8, <1>9, <1>10, <1>11, <1>12, <1>13 DEF Call

-----------------------------------------------------------------------------
(***************************************************************************)
(* The invariance of IInv                                                  *)
(***************************************************************************)

\* The pool before its constructor
LEMMA InvInit == ASSUME Init PROVE IInv
<1>1. /\ core_threads \in Nat /\ core_threads >= 1 /\ max_threads \in Nat
      /\ core_threads <= max_threads
      /\ config.max_queue_size \in Nat /\ MaxIdle \in Nat /\ MaxIdle >= 1
      /\ config.enable_dynamic_thread \in BOOLEAN
      /\ \A i \in Slots : i \in Nat
      /\ \A i \in Nat : i < core_threads + max_threads => i \in Slots
  BY Consts
<1>2. /\ Builder \in Controllers /\ Balancer \notin Submitters \cup Controllers
      /\ Submitters \cap Controllers = {} /\ NoThread \notin Callers
      /\ Callers = Submitters \cup Controllers \cup {Balancer}
  BY ThreadsAssumption DEF Callers
<1>3. /\ pc[Builder] = "construct"
      /\ pc[Balancer] = IF config.enable_dynamic_thread THEN "loop" ELSE "exited"
      /\ \A b \in Callers : b # Builder /\ b # Balancer => pc[b] = "idle"
      /\ \A b \in Callers : pc[b] \in {"construct", "loop", "exited", "idle"}
  BY <1>2 DEF Init
<1>4. TypeOK
  <2>1. /\ 0 \in Slots /\ 0 \in 0 .. MaxIdle /\ 0 \in 0 .. config.max_queue_size
        /\ 0 \in 0 .. core_threads + max_threads
    BY <1>1
  <2>2. /\ {"construct", "loop", "exited", "idle"} \subseteq BalancerStep \cup ClientStep
        /\ "none" \in WorkerStep /\ "RUNNING" \in State
    BY DEF BalancerStep, ClientStep, WorkerStep, State
  <2>3. pc \in [Callers -> BalancerStep \cup ClientStep]
    BY <1>3, <2>2 DEF Init
  <2> QED BY <2>1, <2>2, <2>3 DEF Init, TypeOK, MaxIdle
<1>5. Kinds
  BY <1>2, <1>3 DEF Kinds, BalancerStep, ClientStep, SubmitterStep
<1>6. \A b \in Callers : pc[b] \notin SectionStep
  BY <1>3 DEF SectionStep
<1>7. Access /\ Chosen
  BY <1>2, <1>6 DEF Init, Access, Chosen, ChosenAt, SectionStep
<1>8. \A i \in Slots : wpc[i] = "none" /\ ~should_exit[i] /\ idle_count[i] = 0 /\ index[i] = i
  BY DEF Init
<1>9. Construction
  <2>1. \A c \in Controllers : /\ pc[c] \in BuildStep => c = Builder
                               /\ next[c] = 0
    BY <1>2, <1>3 DEF Init, BuildStep
  <2>2. ~Built
    BY <1>3 DEF Built
  <2>3. \A b \in Submitters \cup Controllers : b = Builder \/ pc[b] = "idle"
    BY <1>2, <1>3
  <2>4. pc[Balancer] \notin SectionStep
    BY <1>2, <1>6
  <2> QED BY <1>1, <1>2, <1>3, <1>8, <2>1, <2>2, <2>3, <2>4 DEF Init, Construction, One
<1>10. Filled
  BY <1>1, <1>8 DEF Init, Filled, IndexIsSlot
<1>11. Live
  BY <1>1 DEF Init, Live
<1>12. Counted
  <2>1. Counting = {}
    BY <1>3 DEF Counting
  <2>2. Kept = {}
    BY <1>1 DEF Init, Kept
  <2> QED BY <2>1, <2>2, FS_EmptySet DEF Init, Counted
<1>13. Stops /\ CoreWorkersStay
  <2>1. \A c \in Controllers : pc[c] \in {"construct", "idle"}
    BY <1>2, <1>3
  <2>2. \A i \in 0 .. core_threads - 1 : i \in Slots
    BY <1>1
  <2> QED BY <1>8, <2>1, <2>2 DEF Init, Stops, Joining, CoreWorkersStay
<1>14. IdleBound
  BY <1>1, <1>8 DEF IdleBound
<1> QED BY <1>4, <1>5, <1>7, <1>9, <1>10, <1>11, <1>12, <1>13, <1>14 DEF IInv

\* The steps inside the sections and of the constructor
SectionAct(b) ==
  \/ b \in Controllers \cup {Balancer} /\ (CheckStepOf(b) \/ MeasureLoad(b))
  \/ b = Balancer /\ (CleanFinishedThread(b) \/ LockClean(b))
  \/ b \in Controllers /\ (ConstructWorker(b) \/ CountCoreWorker(b))

\* Every step is calm, or one of those that are looked at for themselves: inside a
\* section, of the constructor, or a join of stop.
LEMMA StepKinds ==
  ASSUME IInv, [Next]_vars
  PROVE  /\ Onward
         /\ \/ TypeOK' /\ Kinds' /\ Calm /\ Early /\ Loops
            \/ \E b \in Callers : SectionAct(b)
            \/ \E c \in Controllers : JoinWorker(c)
<1> DEFINE Goal == /\ Onward
                   /\ \/ TypeOK' /\ Kinds' /\ Calm /\ Early /\ Loops
                      \/ \E b \in Callers : SectionAct(b)
                      \/ \E c \in Controllers : JoinWorker(c)
<1>1. /\ Balancer \notin Controllers /\ Balancer \in Callers /\ Controllers \subseteq Callers
  BY ThreadsAssumption DEF Callers
<1>2. CASE \E s \in Submitters : Submit(s) \/ SubmitStep(s)
  BY <1>2, SubmitterSteps, SubmitterOnward
<1>3. CASE \E i \in Slots : WorkerLoop(i) \/ WakeSpuriously(i)
  BY <1>3, WorkerSteps, WorkerOnward
<1>4. CASE \E c \in Controllers : Call(c) \/ ControlStep(c) \/ MeasureLoad(c) \/ TimeOut(c) \/ WakeWaiterSpuriously(c)
  <2> PICK c \in Controllers : Call(c) \/ ControlStep(c) \/ MeasureLoad(c) \/ TimeOut(c) \/ WakeWaiterSpuriously(c)
    BY <1>4
  <2>1. CASE CheckStepOf(c) \/ MeasureLoad(c) \/ ConstructWorker(c) \/ CountCoreWorker(c)
    <3>1. SectionAct(c)
      BY <2>1 DEF SectionAct
    <3>2. Onward
      BY <1>1, <2>1, SectionOnward
    <3> QED BY <1>1, <3>1, <3>2
  <2>2. CASE Call(c) \/ WaitStep(c) \/ ForceStop(c) \/ Drain(c) \/ StopBalancer(c)
             \/ StopWorkers(c) \/ JoinBalancer(c)
    <3>1. ControlCalm(c)
      BY <2>2 DEF ControlCalm
    <3> QED BY <2>2, <3>1, ControlSteps, ControlOnward
  <2>3. CASE JoinWorker(c)
    BY <2>3, ControlOnward
  <2>4. CASE EndStop(c)
    BY <2>4, ControlOnward, EndStopCalm
  <2> QED BY <2>1, <2>2, <2>3, <2>4 DEF ControlStep, WaitStep
<1>5. CASE BalancerRuns \/ MeasureLoad(Balancer) \/ LockClean(Balancer)
  <2>1. Onward
    BY <1>1, <1>5, SectionOnward DEF BalancerRuns
  <2>2. CASE BalancerLoop(Balancer) \/ AwaitResume(Balancer) \/ EndSleep(Balancer)
    BY <2>1, <2>2, BalancerCalm
  <2>3. CASE CleanFinishedThread(Balancer) \/ CheckStepOf(Balancer) \/ MeasureLoad(Balancer)
             \/ LockClean(Balancer)
    <3>1. SectionAct(Balancer)
      BY <2>3 DEF SectionAct
    <3> QED BY <1>1, <2>1, <3>1
  <2> QED BY <1>5, <2>2, <2>3 DEF BalancerRuns
<1>6. CASE UNCHANGED vars
  <2>1. /\ state' = state /\ stopped' = stopped /\ load_balancer_exit' = load_balancer_exit
        /\ queued' = queued /\ size' = size /\ index' = index /\ should_exit' = should_exit
        /\ idle_count' = idle_count /\ wpc' = wpc /\ thread_count' = thread_count
        /\ worker_access' = worker_access /\ slot' = slot /\ next' = next /\ last' = last /\ pc' = pc
    BY <1>6 DEF vars, stateVars, slotVars, callVars
  <2>2. TypeOK' /\ Kinds'
    BY <2>1 DEF IInv, TypeOK, Kinds
  <2>3. Calm /\ Loops
    BY <2>1 DEF Calm, Loops
  <2>4. Early
    BY <2>1 DEF Early, IInv, Construction
  <2>5. Onward
    BY <2>1 DEF Onward, CoreRuns
  <2> QED BY <2>2, <2>3, <2>4, <2>5
<1> QED BY <1>2, <1>3, <1>4, <1>5, <1>6 DEF Next

\* The steps inside the sections and of the constructor keep IInv, by their lemmas.
LEMMA SectionMain ==
  ASSUME QuietStart, IInv, NEW b \in Callers, SectionAct(b)
  PROVE  Main'
<1>1. CASE b \in Controllers \cup {Balancer} /\ CheckStepOf(b)
  BY <1>1, TryCreateStep, ReapOldStep, StartStep, EnterStep, EmplaceStep, CreateFailsStep,
     RemoveStep, MarkStep DEF CheckStepOf
<1>2. CASE b \in Controllers \cup {Balancer} /\ MeasureLoad(b)
  BY <1>2, MeasureLoadStep
<1>3. CASE b = Balancer /\ (CleanFinishedThread(b) \/ LockClean(b))
  BY <1>3, CleanStep, LockCleanStep
<1>4. CASE b \in Controllers /\ (ConstructWorker(b) \/ CountCoreWorker(b))
  BY <1>4, ConstructStep, CountCoreStep
<1> QED BY <1>1, <1>2, <1>3, <1>4 DEF SectionAct

\* Every step keeps IInv.
LEMMA InvNext ==
  ASSUME QuietStart, IInv, [Next]_vars
  PROVE  IInv'
<1>1. Onward
  BY StepKinds
<1>2. Stops' /\ CoreWorkersStay' /\ (Joining => Joining')
  BY <1>1, OnwardStep
<1>3. Main'
  <2>1. CASE TypeOK' /\ Kinds' /\ Calm /\ Early /\ Loops
    BY <1>2, <2>1, CalmStep DEF Main
  <2>2. CASE \E b \in Callers : SectionAct(b)
    BY <2>2, SectionMain
  <2>3. CASE \E c \in Controllers : JoinWorker(c)
    BY <2>3, JoinWorkerStep
  <2> QED BY <2>1, <2>2, <2>3, StepKinds
<1> QED BY <1>2, <1>3 DEF Main, IInv

\* The inductive invariant holds throughout, in pools that have no reason to
\* create a thread while the constructor runs.
THEOREM Invariance == ASSUME QuietStart PROVE Spec => []IInv
<1>1. Init => IInv
  BY InvInit
<1>2. IInv /\ [Next]_vars => IInv'
  BY InvNext
<1> QED BY <1>1, <1>2, PTL DEF Spec

-----------------------------------------------------------------------------
(***************************************************************************)
(* What follows from it                                                    *)
(***************************************************************************)

\* The variables have their types; workers_, the flags and the idle counts are
\* not written beyond the slots there are, and no idle count passes its limit.
THEOREM Typing == ASSUME QuietStart PROVE Spec => []TypeOK
<1>1. IInv => TypeOK
  BY DEF IInv
<1> QED BY <1>1, Invariance, PTL

\* The worker in a slot runs with the index of the slot, and workers_ keeps to
\* the max_threads slots it reserved.
THEOREM SlotsKeepTheirIndex == ASSUME QuietStart PROVE Spec => []IndexIsSlot
<1>1. IInv => IndexIsSlot
  BY DEF IInv, Filled
<1> QED BY <1>1, Invariance, PTL

\* thread_count_ is the number of threads that were not joined yet, up to the one
\* that was started and has still to be counted, until stop joins the workers.
THEOREM CountIsExact == ASSUME QuietStart PROVE Spec => []CountsMatch
<1>1. ASSUME IInv PROVE CountsMatch
  <2> SUFFICES ASSUME ~Joining
               PROVE  thread_count + Cardinality({b \in Callers : pc[b] \in {"countCore", "enter"}})
                        = Cardinality({i \in Slots : Joinable(i)})
    BY DEF CountsMatch, Joining
  <2>1. thread_count + Cardinality(Counting) = Cardinality(Kept)
    BY <1>1 DEF IInv, Counted
  <2>2. \A i \in Slots : Joinable(i) => i < size
    BY <1>1, Consts DEF IInv, TypeOK, Filled, Joinable
  <2>3. \A i \in Slots : i < size /\ (~should_exit[i] \/ Entering(i)) => Joinable(i)
    BY <1>1 DEF IInv, Live
  <2>4. Kept = {i \in Slots : Joinable(i)}
    BY <2>2, <2>3 DEF Kept
  <2> QED BY <2>1, <2>4 DEF Counting
<1> QED BY <1>1, Invariance, PTL

\* tryCreateNewThread does not get into the case it has a warning for: when it is
\* called there is a slot for one more thread.
THEOREM SlotIsFound == ASSUME QuietStart PROVE Spec => []ExpandFindsSlot
<1>1. IInv => ExpandFindsSlot
  BY DEF IInv, Chosen, ChosenAt, ExpandFindsSlot
<1> QED BY <1>1, Invariance, PTL

\* The load balancer never costs the pool a core worker.
THEOREM CoreIsKept == ASSUME QuietStart PROVE Spec => []CoreWorkersStay
<1>1. IInv => CoreWorkersStay
  BY DEF IInv
<1> QED BY <1>1, Invariance, PTL

-----------------------------------------------------------------------------
(***************************************************************************)
(* What stop leaves behind                                                 *)
(***************************************************************************)

\* No client is in loadCheck while another one stops the pool.  loadCheck is a
\* public operation, and nothing in it keeps it from adding a worker behind the
\* back of stop, which walks through workers_ without worker_access_mutex_.
NoRace == \A c, d \in Controllers : pc[c] \in Stopping => pc[d] \notin CheckStep

\* Then nothing is started once the joins have begun, and what stop has walked
\* past is joined.
Joined ==
  /\ Joining => \A c \in Controllers : pc[c] \notin CheckStep
  /\ \A c \in Controllers :
       pc[c] = "joinWorkers" =>
         last = size /\ \A i \in Slots : i < next[c] => ~Joinable(i)
  /\ state = "STOPPED" => \A i \in Slots : ~Joinable(i)

\* Once joins have begun, the balancer has ended and no client is in loadCheck, so
\* that nobody starts a thread or adds a slot.
LEMMA NoNewThreads ==
  ASSUME IInv, Joined, Joining, [Next]_vars
  PROVE  size' = size /\ \A i \in Slots : Joinable(i)' => Joinable(i)
<1>1. CASE Calm
  BY <1>1 DEF Calm, Joinable
<1>2. CASE \E b \in Callers : SectionAct(b)
  <2>1. PICK b \in Callers : SectionAct(b)
    BY <1>2
  <2>2. b # Balancer
    <3>1. pc[Balancer] = "exited"
      BY DEF IInv, Stops
    <3> QED BY <2>1, <3>1, ThreadsAssumption
         DEF SectionAct, CheckStepOf, MeasureLoad, CleanFinishedThread, LockClean,
             TryCreateNewThread, ReapOld, StartThread, EnterThread, EmplaceThread, CreateFails,
             TryRemoveIdleThread, MarkThread
  <2>3. b \in Controllers
    BY <2>1, <2>2 DEF SectionAct
  <2>4. pc[b] \notin CheckStep
    BY <2>3 DEF Joined
  <2>5. ConstructWorker(b) \/ CountCoreWorker(b)
    BY <2>1, <2>2, <2>4
       DEF SectionAct, CheckStep, CheckStepOf, MeasureLoad, TryCreateNewThread, ReapOld,
           StartThread, EnterThread, EmplaceThread, CreateFails, TryRemoveIdleThread, MarkThread
  <2>6. pc[b] \in BuildStep
    BY <2>5 DEF ConstructWorker, CountCoreWorker, BuildStep
  <2>7. b = Builder /\ state = "RUNNING" /\ \A d \in Controllers : d = b \/ pc[d] = "idle"
    BY <2>3, <2>6, AtBuild
  <2> QED BY <2>6, <2>7 DEF Joining, BuildStep
<1>3. CASE \E c \in Controllers : JoinWorker(c)
  BY <1>3 DEF JoinWorker, WorkerGoes, Joinable, IInv, TypeOK, slotVars
<1> QED BY <1>1, <1>2, <1>3, StepKinds

\* Clients stay out of loadCheck once the pool is stopped, or if they never call it.
LEMMA NoNewCheck ==
  ASSUME IInv, \A c \in Controllers : pc[c] \notin CheckStep,
         state = "STOPPED" \/ "loadCheck" \notin Controls, [Next]_vars
  PROVE  \A c \in Controllers : pc'[c] \notin CheckStep
<1>1. \A c \in Controllers : pc[c] \notin CheckStep
  OBVIOUS
<1>2. /\ Controllers \subseteq Callers /\ Balancer \notin Controllers
      /\ Submitters \cap Controllers = {} /\ Submitters \subseteq Callers
      /\ pc \in [Callers -> BalancerStep \cup ClientStep]
  BY ThreadsAssumption DEF Callers, IInv, TypeOK
<1>3. ASSUME NEW b \in Callers, NEW s, s \notin CheckStep, Goes(b, s)
      PROVE  \A c \in Controllers : pc'[c] \notin CheckStep
  BY <1>1, <1>2, <1>3 DEF Goes
<1>4. ASSUME NEW b \in Callers, NEW s, Goes(b, s), b \notin Controllers
      PROVE  \A c \in Controllers : pc'[c] \notin CheckStep
  BY <1>1, <1>2, <1>4 DEF Goes
<1>5. CASE UNCHANGED pc
  BY <1>1, <1>5
<1>6. ASSUME NEW b, NEW s, s \notin CheckStep, pc' = [BalancerWoken(pc) EXCEPT ![b] = s]
      PROVE  \A c \in Controllers : pc'[c] \notin CheckStep
  BY <1>1, <1>2, <1>6 DEF BalancerWoken
<1>7. CASE \E s \in Submitters : Submit(s) \/ SubmitStep(s)
  <2>1. PICK s \in Submitters : Goes(s, "push") \/ Goes(s, "count") \/ Goes(s, "notify") \/ Goes(s, "idle")
    BY <1>7 DEF Submit, SubmitStep, Push, CountPending, NotifyWorker, Moves
  <2> QED BY <1>2, <1>4, <2>1
<1>8. CASE \E i \in Slots : WorkerLoop(i) \/ WakeSpuriously(i)
  <2>1. WaitersWoken /\ "waitAll" \notin CheckStep
    BY <1>2, <1>8, WorkersWake DEF CheckStep
  <2> QED BY <1>1, <1>2, <2>1 DEF WaitersWoken
<1>9. CASE \E c \in Controllers : Call(c) \/ ControlStep(c) \/ MeasureLoad(c) \/ TimeOut(c) \/ WakeWaiterSpuriously(c)
  <2>1. PICK c \in Controllers : Call(c) \/ ControlStep(c) \/ MeasureLoad(c) \/ TimeOut(c) \/ WakeWaiterSpuriously(c)
    BY <1>9
  <2>2. {"idle", "countCore", "construct", "drain", "stopBalancer", "stopWorkers",
         "joinBalancer", "joinWorkers"} \cap CheckStep = {} /\ WaitPhase \cap CheckStep = {}
    BY DEF CheckStep, WaitPhase
  <2>3. ~CheckStepOf(c) /\ ~MeasureLoad(c)
    BY <1>1 DEF CheckStep, CheckStepOf, MeasureLoad, TryCreateNewThread, ReapOld,
           StartThread, EnterThread, EmplaceThread, CreateFails, TryRemoveIdleThread, MarkThread
  <2>4. ~LoadCheck(c)
    BY DEF LoadCheck
  <2>9. CASE WaitStep(c)
    BY <1>2, <1>3, <2>2, <2>9, Waits DEF Moves
  <2>5. CASE ConstructWorker(c) \/ CountCoreWorker(c) \/ Drain(c) \/ StopWorkers(c)
             \/ JoinBalancer(c) \/ EndStop(c) \/ Stop(c) \/ ForceStop(c) \/ Shutdown(c)
    <3>1. \/ \E s \in WaitPhase : Goes(c, s)
          \/ Goes(c, "countCore") \/ Goes(c, "idle") \/ Goes(c, "construct")
          \/ Goes(c, "stopBalancer") \/ Goes(c, "joinBalancer") \/ Goes(c, "joinWorkers")
          \/ Goes(c, "drain")
      BY <2>5 DEF ConstructWorker, CountCoreWorker, Drain, StopWorkers, JoinBalancer,
                  EndStop, Stop, ForceStop, Shutdown, Moves, WaitPhase
    <3> QED BY <1>2, <1>3, <2>2, <3>1
  <2>6. CASE StopBalancer(c)
    BY <1>6, <2>2, <2>6 DEF StopBalancer
  <2>7. CASE JoinWorker(c) \/ Pause(c)
    BY <1>5, <2>7 DEF JoinWorker, Pause
  <2>8. CASE Resume(c)
    BY <1>1, <1>2, <2>8 DEF Resume, BalancerWoken
  <2> QED BY <2>1, <2>3, <2>4, <2>5, <2>6, <2>7, <2>8, <2>9 DEF Call, ControlStep, WaitStep
<1>10. CASE BalancerRuns \/ MeasureLoad(Balancer) \/ LockClean(Balancer)
  <2>1. /\ Balancer \in Callers
        /\ \A s \in BalancerStep : Goes(Balancer, s) => \A c \in Controllers : pc'[c] \notin CheckStep
    BY <1>2, <1>4 DEF Callers
  <2>2. AfterCheck(Balancer) = "lockClean"
    BY DEF AfterCheck
  <2>3. CASE \/ BalancerLoop(Balancer) \/ AwaitResume(Balancer) \/ EndSleep(Balancer)
             \/ CleanFinishedThread(Balancer) \/ LockClean(Balancer)
    <3>1. \/ pc' = pc \/ Goes(Balancer, "exited") \/ Goes(Balancer, "pauseTest")
          \/ Goes(Balancer, "asleep") \/ Goes(Balancer, "sleep") \/ Goes(Balancer, "lockCheck")
          \/ Goes(Balancer, "lockClean") \/ Goes(Balancer, "loop") \/ Goes(Balancer, "clean")
      BY <2>3 DEF BalancerLoop, AwaitResume, EndSleep, CleanFinishedThread, LockClean, Moves, Returns
    <3> QED BY <1>5, <2>1, <3>1 DEF BalancerStep, CheckStep
  <2>4. CASE MeasureLoad(Balancer) \/ CheckStepOf(Balancer)
    <3>1. \/ Goes(Balancer, "create") \/ Goes(Balancer, "remove") \/ Goes(Balancer, "lockClean")
          \/ Goes(Balancer, "emplace") \/ Goes(Balancer, "reap") \/ Goes(Balancer, "start")
          \/ Goes(Balancer, "enter") \/ Goes(Balancer, "mark")
      BY <2>2, <2>4
         DEF MeasureLoad, CheckStepOf, TryCreateNewThread, ReapOld, StartThread, EnterThread,
             EmplaceThread, CreateFails, TryRemoveIdleThread, MarkThread, Returns
    <3> QED BY <2>1, <3>1 DEF BalancerStep, CheckStep
  <2> QED BY <1>10, <2>3, <2>4 DEF BalancerRuns
<1>11. CASE UNCHANGED vars
  BY <1>5, <1>11 DEF vars
<1> QED BY <1>7, <1>8, <1>9, <1>10, <1>11 DEF Next

\* So what was walked past stays without a thread.
LEMMA JoinedNext ==
  ASSUME IInv, NoRace, Joined, [Next]_vars, NoRace'
  PROVE  Joined'
<1>1. Onward
  BY StepKinds
<1>2. Joining' => \A c \in Controllers : pc'[c] \notin CheckStep
  <2>1. ASSUME NEW c \in Controllers, pc'[c] = "joinWorkers"
        PROVE  \A d \in Controllers : pc'[d] \notin CheckStep
    BY <2>1 DEF NoRace, Stopping
  <2>2. ASSUME state' = "STOPPED", state # "STOPPED", NEW d \in Controllers
        PROVE  pc'[d] \notin CheckStep
    <3>1. PICK c \in Controllers : EndStop(c)
      BY <2>2 DEF Next, vars, stateVars, Submit, SubmitStep, Push, CountPending, NotifyWorker, Call,
                  LoadCheck, Pause, Resume, Shutdown, Stop, ControlStep, ConstructWorker,
                  CountCoreWorker, AwaitNoPending, WakeWaiterSpuriously, ReadRunning,
                  ReadPending, PollAgain, TimeOut, ForceStop, Drain, StopBalancer, StopWorkers,
                  JoinBalancer, JoinWorker, CheckStepOf, MeasureLoad, BalancerRuns, LockClean,
                  BalancerLoop, AwaitResume, EndSleep, CleanFinishedThread, TryCreateNewThread,
                  ReapOld, StartThread, EnterThread, EmplaceThread, CreateFails,
                  TryRemoveIdleThread, MarkThread, Moves, WorkerLoop, TestExit, TestPaused,
                  LeavePause, AwaitTask, Finish, WakeSpuriously, WorkerMoves
    <3>2. pc[c] = "joinWorkers" /\ Goes(c, "idle")
      BY <3>1 DEF EndStop
    <3>3. pc[d] \notin CheckStep
      BY <3>2 DEF NoRace, Stopping
    <3> QED BY <3>2, <3>3, ThreadsAssumption DEF Goes, IInv, TypeOK, Callers, CheckStep
  <2>3. CASE state = "STOPPED"
    BY <2>3, NoNewCheck DEF Joined, Joining
  <2> QED BY <2>1, <2>2, <2>3 DEF Joining
<1>3. ASSUME NEW c \in Controllers, pc'[c] = "joinWorkers", NEW i \in Slots, i < next'[c]
      PROVE  ~Joinable(i)'
  <2>1. CASE pc[c] # "joinWorkers"
    <3>1. pc[c] = "joinBalancer"
      BY <1>1, <1>3, <2>1 DEF Onward
    <3>2. next[c] = 0
      BY <3>1 DEF IInv, Construction, BuildStep
    <3>3. next'[c] = 0
      <4>1. CASE Loops
        BY <3>1, <3>2, <4>1 DEF Loops
      <4>2. CASE \E b \in Callers : SectionAct(b)
        <5>1. PICK b \in Callers : SectionAct(b)
          BY <4>2
        <5>2. next'[c] = next[c] \/ CountCoreWorker(b)
          BY <5>1 DEF SectionAct, ConstructWorker, MeasureLoad, CheckStepOf, LockClean,
               CleanFinishedThread, TryCreateNewThread, ReapOld, StartThread, EnterThread,
               EmplaceThread, CreateFails, TryRemoveIdleThread, MarkThread, callVars
        <5>3. CountCoreWorker(b) => next'[c] = next[c] \/ b = c
          BY DEF CountCoreWorker, IInv, TypeOK
        <5>4. CountCoreWorker(b) => b # c
          BY <3>1 DEF CountCoreWorker
        <5> QED BY <3>2, <5>2, <5>3, <5>4
      <4>3. CASE \E d \in Controllers : JoinWorker(d)
        <5>1. PICK d \in Controllers : JoinWorker(d)
          BY <4>3
        <5> QED BY <3>1, <3>2, <5>1 DEF JoinWorker, IInv, TypeOK
      <4> QED BY <4>1, <4>2, <4>3, StepKinds
    <3> QED BY <1>3, <3>3, Consts
  <2>2. CASE pc[c] = "joinWorkers"
    <3>1. Joining
      BY <2>2 DEF Joining
    <3>2. Joinable(i)' => Joinable(i)
      BY <3>1, NoNewThreads
    <3>3. i < next[c] => ~Joinable(i)
      BY <2>2 DEF Joined
    <3>4. CASE Loops
      <4>1. i < next[c] \/ next'[c] = 0
        BY <1>3, <3>4 DEF Loops
      <4> QED BY <1>3, <3>2, <3>3, <4>1, Consts
    <3>5. CASE \E b \in Callers : SectionAct(b)
      <4>1. PICK b \in Callers : SectionAct(b)
        BY <3>5
      <4>2. next'[c] = next[c] \/ CountCoreWorker(b)
        BY <4>1 DEF SectionAct, ConstructWorker, MeasureLoad, CheckStepOf, LockClean,
             CleanFinishedThread, TryCreateNewThread, ReapOld, StartThread, EnterThread,
             EmplaceThread, CreateFails, TryRemoveIdleThread, MarkThread, callVars
      <4>3. CountCoreWorker(b) => next'[c] = next[c] \/ b = c
        BY DEF CountCoreWorker, IInv, TypeOK
      <4>4. CountCoreWorker(b) => b # c
        BY <2>2 DEF CountCoreWorker
      <4> QED BY <1>3, <3>2, <3>3, <4>2, <4>3, <4>4
    <3>6. CASE \E d \in Controllers : JoinWorker(d)
      <4>1. PICK d \in Controllers : JoinWorker(d)
        BY <3>6
      <4>2. CASE d # c
        <5>1. next'[c] = next[c]
          BY <4>1, <4>2 DEF JoinWorker, IInv, TypeOK
        <5> QED BY <1>3, <3>2, <3>3, <5>1
      <4>3. CASE d = c
        <5>1. /\ next'[c] = next[c] + 1 /\ wpc' = [wpc EXCEPT ![next[c]] = "joined"]
              /\ next[c] \in Nat
          <6>1. next[c] \in Slots \cup {core_threads + max_threads}
            BY DEF IInv, TypeOK
          <6>2. next[c] \in Nat
            BY <6>1, Consts
          <6> QED BY <4>1, <4>3, <6>1, <6>2 DEF JoinWorker, WorkerGoes, IInv, TypeOK
        <5>2. i = next[c] => ~Joinable(i)'
          BY <5>1 DEF Joinable, IInv, TypeOK
        <5>3. i < next[c] \/ i = next[c]
          BY <1>3, <5>1, Consts
        <5> QED BY <3>2, <3>3, <5>2, <5>3
      <4> QED BY <4>2, <4>3
    <3> QED BY <3>4, <3>5, <3>6, StepKinds
  <2> QED BY <2>1, <2>2
<1>4. ASSUME state' = "STOPPED", NEW i \in Slots PROVE ~Joinable(i)'
  <2>1. CASE state = "STOPPED"
    BY <2>1, NoNewThreads DEF Joined, Joining
  <2>2. CASE state # "STOPPED"
    <3>1. PICK c \in Controllers : EndStop(c)
      BY <1>4, <2>2
             DEF Next, vars, stateVars, Submit, SubmitStep, Push, CountPending, NotifyWorker, Call,
                  LoadCheck, Pause, Resume, Shutdown, Stop, ControlStep, ConstructWorker,
                  CountCoreWorker, AwaitNoPending, WakeWaiterSpuriously, ReadRunning,
                  ReadPending, PollAgain, TimeOut, ForceStop, Drain, StopBalancer, StopWorkers,
                  JoinBalancer, JoinWorker, CheckStepOf, MeasureLoad, BalancerRuns, LockClean,
                  BalancerLoop, AwaitResume, EndSleep, CleanFinishedThread, TryCreateNewThread,
                  ReapOld, StartThread, EnterThread, EmplaceThread, CreateFails,
                  TryRemoveIdleThread, MarkThread, Moves, WorkerLoop, TestExit, TestPaused,
                  LeavePause, AwaitTask, Finish, WakeSpuriously, WorkerMoves
    <3>2. pc[c] = "joinWorkers" /\ next[c] >= last /\ last = size /\ wpc' = wpc
      BY <3>1 DEF EndStop, Joined
    <3>3. /\ i \in Nat /\ size \in Nat /\ next[c] \in Nat
      BY Consts DEF IInv, TypeOK
    <3>4. i >= size => ~Joinable(i)
      BY DEF IInv, Filled, Joinable
    <3>5. i < next[c] => ~Joinable(i)
      BY <3>2 DEF Joined
    <3> QED BY <3>2, <3>3, <3>4, <3>5 DEF Joinable
  <2> QED BY <2>1, <2>2
<1>5. ASSUME NEW c \in Controllers, pc'[c] = "joinWorkers" PROVE last' = size'
  <2>1. CASE pc[c] = "joinWorkers"
    <3>1. last = size /\ size' = size
      BY <2>1, NoNewThreads DEF Joined, Joining
    <3> QED BY <1>1, <3>1 DEF Onward
  <2>2. CASE pc[c] # "joinWorkers"
    <3>1. pc[c] = "joinBalancer" /\ pc[Balancer] = "exited" /\ last' = size
      BY <1>1, <1>5, <2>2 DEF Onward
    <3>2. size' = size
      <4>1. CASE Calm
        BY <4>1 DEF Calm
      <4>2. CASE \E b \in Callers : SectionAct(b)
        <5>1. PICK b \in Callers : SectionAct(b)
          BY <4>2
        <5>2. b # Balancer
          BY <3>1, <5>1, ThreadsAssumption
             DEF SectionAct, CheckStepOf, MeasureLoad, CleanFinishedThread, LockClean,
                 TryCreateNewThread, ReapOld, StartThread, EnterThread, EmplaceThread, CreateFails,
                 TryRemoveIdleThread, MarkThread
        <5>3. b \in Controllers /\ pc[b] \notin CheckStep
          BY <3>1, <5>1, <5>2 DEF SectionAct, NoRace, Stopping
        <5>4. ConstructWorker(b) \/ CountCoreWorker(b)
          BY <5>1, <5>2, <5>3
             DEF SectionAct, CheckStep, CheckStepOf, MeasureLoad, TryCreateNewThread, ReapOld,
                 StartThread, EnterThread, EmplaceThread, CreateFails, TryRemoveIdleThread, MarkThread
        <5>5. pc[b] \in BuildStep
          BY <5>4 DEF ConstructWorker, CountCoreWorker, BuildStep
        <5>6. \A d \in Controllers : d = b \/ pc[d] = "idle"
          BY <5>3, <5>5, AtBuild
        <5> QED BY <3>1, <5>5, <5>6 DEF BuildStep
      <4>3. CASE \E d \in Controllers : JoinWorker(d)
        BY <4>3 DEF JoinWorker, slotVars
      <4> QED BY <4>1, <4>2, <4>3, StepKinds
    <3> QED BY <3>1, <3>2
  <2> QED BY <2>1, <2>2
<1> QED BY <1>2, <1>3, <1>4, <1>5 DEF Joined

\* Nothing is joined at first.
LEMMA JoinedInit == ASSUME Init PROVE Joined
BY ThreadsAssumption DEF Init, Joined, Joining, Callers

\* STOPPED comes after the last slot was walked past.
LEMMA JoinedEnough == ASSUME IInv, Joined PROVE StopJoinsAll
BY DEF IInv, Stops, Joining, Joined, StopJoinsAll

\* When stop has set STOPPED the balancer has ended and every thread of workers_ is
\* joined, in programs in which no loadCheck runs while the pool is being stopped.
THEOREM StopLeavesNoThread ==
  ASSUME QuietStart
  PROVE  Spec /\ []NoRace => []StopJoinsAll
<1>1. Init => Joined
  BY JoinedInit
<1>2. IInv /\ NoRace /\ Joined /\ [Next]_vars /\ NoRace' => Joined'
  BY JoinedNext
<1>3. IInv /\ Joined => StopJoinsAll
  BY JoinedEnough
<1>4. Spec => []IInv
  BY Invariance
<1> QED BY <1>1, <1>2, <1>3, <1>4, PTL DEF Spec

\* In particular in programs whose clients are one thread.
COROLLARY StopLeavesNoThreadOfOneClient ==
  ASSUME QuietStart, Controllers = {Builder}
  PROVE  Spec => []StopJoinsAll
<1>1. NoRace
  BY DEF NoRace, Stopping, CheckStep
<1> QED BY <1>1, StopLeavesNoThread, PTL

\* And in programs in which only the load balancer calls loadCheck.
COROLLARY StopLeavesNoThreadWithoutLoadCheck ==
  ASSUME QuietStart, "loadCheck" \notin Controls
  PROVE  Spec => []StopJoinsAll
<1> DEFINE NoCheck == \A c \in Controllers : pc[c] \notin CheckStep
<1>1. Init => NoCheck
  BY ThreadsAssumption DEF Init, Callers, CheckStep
<1>2. IInv /\ NoCheck /\ [Next]_vars => NoCheck'
  BY NoNewCheck
<1>3. NoCheck => NoRace
  BY DEF NoRace
<1>4. Spec => []IInv
  BY Invariance
<1>5. Spec /\ []NoRace => []StopJoinsAll
  BY StopLeavesNoThread
<1> QED BY <1>1, <1>2, <1>3, <1>4, <1>5, PTL DEF Spec

-----------------------------------------------------------------------------
(***************************************************************************)
(* Threads of flagged slots do not sleep.  This does not depend on which   *)
(* slots the balancer fills, nor when.                                     *)
(***************************************************************************)

\* Where a caller may be
Places == BalancerStep \cup ClientStep

\* The flags are set and cleared by the holder of worker_access_mutex_, for a slot
\* that nobody else changes meanwhile.
Awake ==
  /\ wpc \in [Slots -> WorkerStep] /\ index \in [Slots -> Slots]
  /\ should_exit \in [Slots -> BOOLEAN] /\ pc \in [Callers -> Places]
  /\ size \in Nat /\ next \in [Controllers -> Nat]
  /\ Access
  /\ \A b \in Callers : pc[b] = "emplace" => slot \in Slots
  /\ \A c \in Controllers : pc[c] \in BuildStep => next[c] < core_threads
  /\ FlaggedNeverSleeps

\* No worker goes to sleep but one that has no flag.
Dozes ==
  /\ wpc' \in [Slots -> WorkerStep]
  /\ \A i \in Slots : wpc'[i] = "waiting" => wpc[i] = "waiting" \/ ~should_exit[index[i]]

\* The loop variable of a thread that is not in the constructor is of no account.
Counts ==
  /\ next' \in [Controllers -> Nat]
  /\ \A c \in Controllers : pc[c] \in BuildStep => next'[c] = next[c]

\* Steps outside the sections and the constructor
LEMMA AwakeOutside ==
  ASSUME Awake, Dozes, Counts, pc' \in [Callers -> Places],
         \A b \in Callers : pc'[b] = pc[b] \/ (pc[b] \notin Critical /\ pc'[b] \notin Critical),
         UNCHANGED <<size, index, should_exit, worker_access, slot>>
  PROVE  Awake'
<1>1. \A b \in Callers : /\ pc'[b] \in SectionStep <=> pc[b] \in SectionStep
                         /\ pc'[b] \in BuildStep <=> pc[b] \in BuildStep
                         /\ pc'[b] = "emplace" => pc[b] = "emplace"
  BY DEF Critical, SectionStep, BuildStep
<1>2. Access'
  BY <1>1 DEF Awake, Access
<1>3. FlaggedNeverSleeps'
  BY DEF Awake, Dozes, FlaggedNeverSleeps
<1>4. \A c \in Controllers : pc'[c] \in BuildStep => next'[c] < core_threads
  BY <1>1 DEF Awake, Counts, Callers
<1> QED BY <1>1, <1>2, <1>3, <1>4 DEF Awake, Dozes, Counts

\* Steps of one caller into, in or out of a section
LEMMA AwakeInside ==
  ASSUME Awake, NEW b \in Callers, NEW s \in Places, Goes(b, s), Holds(b, s),
         pc[b] \notin BuildStep, s \notin BuildStep, next' = next,
         s = "emplace" => slot' \in Slots, size' \in Nat,
         wpc' \in [Slots -> WorkerStep], index' \in [Slots -> Slots],
         should_exit' \in [Slots -> BOOLEAN], FlaggedNeverSleeps'
  PROVE  Awake'
<1>1. /\ pc' \in [Callers -> Places] /\ pc'[b] = s
      /\ \A d \in Callers : d # b => pc'[d] = pc[d]
  BY DEF Awake, Goes
<1>2. \A d \in Callers : d # b => pc[d] \notin SectionStep /\ pc'[d] \notin SectionStep
  BY <1>1, ThreadsAssumption DEF Awake, Access, Holds
<1>3. Access'
  BY <1>1, <1>2, ThreadsAssumption DEF Access, Holds
<1>4. \A d \in Callers : pc'[d] = "emplace" => slot' \in Slots
  BY <1>1, <1>2 DEF SectionStep
<1>5. \A c \in Controllers : pc'[c] \in BuildStep => next'[c] < core_threads
  BY <1>1 DEF Awake, Callers
<1> QED BY <1>1, <1>3, <1>4, <1>5 DEF Awake

\* Where the callers of loadCheck are and go
LEMMA CheckPlaces ==
  /\ CheckStep \subseteq Places
  /\ \A b : AfterCheck(b) \in Places /\ AfterCheck(b) \notin Critical
            /\ AfterCheck(b) # "emplace"
  /\ {"clean", "loop", "idle"} \subseteq Places
  /\ "clean" \in SectionStep /\ CheckStep \ {"lockCheck"} \subseteq SectionStep
  /\ "loop" \notin Critical /\ "lockCheck" \notin Critical /\ "lockClean" \notin Critical
  /\ \A s \in SectionStep : s \notin BuildStep
BY DEF Places, BalancerStep, ClientStep, CheckStep, AfterCheck, Critical, SectionStep, BuildStep

\* loadCheck sets a flag in the section that wakes the sleepers, and a thread takes a
\* slot awake.
LEMMA AwakeCheck ==
  ASSUME Awake, NEW b \in Controllers \cup {Balancer}, CheckStepOf(b)
  PROVE  Awake'
<1>1. /\ b \in Callers /\ pc[b] \in CheckStep \ {"lockCheck"} /\ next' = next
  BY DEF Callers, CheckStepOf, CheckStep, TryCreateNewThread, ReapOld, StartThread, EnterThread,
         EmplaceThread, CreateFails, TryRemoveIdleThread, MarkThread, callVars
<1>2. /\ pc[b] \in SectionStep /\ pc[b] \notin BuildStep /\ worker_access = b
  BY <1>1, CheckPlaces DEF Awake, Access
<1>3. /\ wpc \in [Slots -> WorkerStep] /\ index \in [Slots -> Slots]
      /\ should_exit \in [Slots -> BOOLEAN] /\ size \in Nat
      /\ \A i \in Slots : should_exit[index[i]] => wpc[i] # "waiting"
  BY DEF Awake, FlaggedNeverSleeps
<1>4. ASSUME NEW s \in Places, Goes(b, s),
             \/ worker_access' = b /\ s \in SectionStep
             \/ worker_access' = NoThread /\ s \notin Critical,
             s = "emplace" => slot' \in Slots, size' \in Nat,
             wpc' \in [Slots -> WorkerStep], index' \in [Slots -> Slots],
             should_exit' \in [Slots -> BOOLEAN], FlaggedNeverSleeps'
      PROVE  Awake'
  <2>1. Holds(b, s) /\ s \notin BuildStep
    BY <1>2, <1>4, CheckPlaces DEF Holds, Critical
  <2> QED BY <1>1, <1>2, <1>4, <2>1, AwakeInside
<1>5. ASSUME Returns(b, AfterCheck(b)), size' \in Nat,
             wpc' \in [Slots -> WorkerStep], index' \in [Slots -> Slots],
             should_exit' \in [Slots -> BOOLEAN], FlaggedNeverSleeps'
      PROVE  Awake'
  BY <1>4, <1>5, CheckPlaces DEF Returns
<1>6. ASSUME wpc' = wpc, index' = index, should_exit' = should_exit
      PROVE  FlaggedNeverSleeps'
  BY <1>3, <1>6 DEF FlaggedNeverSleeps
<1>7. CASE TryCreateNewThread(b)
  <2>1. size' = size /\ wpc' = wpc /\ index' = index /\ should_exit' = should_exit
    BY <1>7 DEF TryCreateNewThread, slotVars
  <2>2. CASE Returns(b, AfterCheck(b))
    BY <1>3, <1>5, <1>6, <2>1, <2>2
  <2>3. CASE ~Returns(b, AfterCheck(b))
    <3>1. /\ slot' = ThreadIndex /\ ~(ThreadIndex >= max_threads) /\ worker_access' = worker_access
          /\ Goes(b, "emplace") \/ Goes(b, "reap") \/ Goes(b, "start")
      BY <1>7, <2>3 DEF TryCreateNewThread
    <3>2. core_threads \in Nat /\ max_threads \in Nat
      BY Consts
    <3>3. ThreadIndex \in Nat
      <4>1. CASE Refillable # {}
        <5>1. Refillable \subseteq Nat
          BY <1>3, <3>2 DEF Refillable
        <5> QED BY <4>1, <5>1, MinOfNaturals DEF ThreadIndex
      <4>2. CASE Refillable = {}
        <5>1. Min({size, max_threads}) \in Nat
          BY <1>3, <3>2, MaxOfTwo
        <5>2. Max({core_threads, Min({size, max_threads})}) \in Nat
          BY <3>2, <5>1, MaxOfTwo
        <5> QED BY <4>2, <5>2 DEF ThreadIndex
      <4> QED BY <4>1, <4>2
    <3>4. slot' \in Slots
      BY <3>1, <3>2, <3>3, Consts
    <3> QED BY <1>2, <1>3, <1>4, <1>6, <2>1, <3>1, <3>4, CheckPlaces DEF CheckStep
  <2> QED BY <2>2, <2>3
<1>8. CASE ReapOld(b)
  <2>1. /\ size' = size /\ index' = index /\ should_exit' = should_exit /\ Goes(b, "start")
        /\ worker_access' = worker_access /\ wpc' = [wpc EXCEPT ![slot] = "joined"]
    BY <1>8 DEF ReapOld, Join, WorkerGoes, slotVars, callVars
  <2>2. wpc' \in [Slots -> WorkerStep]
    BY <1>3, <2>1 DEF WorkerStep
  <2>3. FlaggedNeverSleeps'
    BY <1>3, <2>1 DEF FlaggedNeverSleeps
  <2> QED BY <1>2, <1>3, <1>4, <2>1, <2>2, <2>3, CheckPlaces DEF CheckStep
<1>9. CASE StartThread(b)
  <2>1. /\ size' = size /\ should_exit' = should_exit /\ Goes(b, "enter")
        /\ worker_access' = worker_access /\ wpc' = [wpc EXCEPT ![slot] = "top"]
        /\ index' = [index EXCEPT ![slot] = slot]
    BY <1>9 DEF StartThread, WorkerGoes, callVars
  <2>2. wpc' \in [Slots -> WorkerStep] /\ index' \in [Slots -> Slots]
    BY <1>3, <2>1 DEF WorkerStep
  <2>3. FlaggedNeverSleeps'
    BY <1>3, <2>1 DEF FlaggedNeverSleeps
  <2> QED BY <1>2, <1>3, <1>4, <2>1, <2>2, <2>3, CheckPlaces DEF CheckStep
<1>10. CASE EnterThread(b)
  <2>1. /\ size' = size /\ wpc' = wpc /\ index' = index /\ Returns(b, AfterCheck(b))
        /\ should_exit' = [should_exit EXCEPT ![slot] = FALSE]
    BY <1>10 DEF EnterThread
  <2>2. should_exit' \in [Slots -> BOOLEAN]
    BY <1>3, <2>1
  <2>3. FlaggedNeverSleeps'
    BY <1>3, <2>1 DEF FlaggedNeverSleeps
  <2> QED BY <1>3, <1>5, <2>1, <2>2, <2>3
<1>11. CASE EmplaceThread(b)
  <2>1. /\ size' = size + 1 /\ should_exit' = should_exit /\ Returns(b, AfterCheck(b))
        /\ wpc' = [wpc EXCEPT ![size] = "top"] /\ index' = [index EXCEPT ![size] = slot]
        /\ pc[b] = "emplace"
    BY <1>11 DEF EmplaceThread, Emplace, WorkerGoes
  <2>2. slot \in Slots
    BY <1>1, <2>1 DEF Awake
  <2>3. wpc' \in [Slots -> WorkerStep] /\ index' \in [Slots -> Slots] /\ size' \in Nat
    <3>1. size' \in Nat
      BY <1>3, <2>1
    <3>2. wpc' \in [Slots -> WorkerStep]
      BY <1>3, <2>1 DEF WorkerStep
    <3>3. index' \in [Slots -> Slots]
      BY <1>3, <2>1, <2>2
    <3> QED BY <3>1, <3>2, <3>3
  <2>4. FlaggedNeverSleeps'
    BY <1>3, <2>1 DEF FlaggedNeverSleeps
  <2> QED BY <1>3, <1>5, <2>1, <2>3, <2>4
<1>12. CASE CreateFails(b)
  <2>1. /\ size' = size /\ wpc' = wpc /\ index' = index /\ should_exit' = should_exit
        /\ Returns(b, AfterCheck(b))
    BY <1>12 DEF CreateFails, slotVars
  <2> QED BY <1>3, <1>5, <1>6, <2>1
<1>13. CASE TryRemoveIdleThread(b)
  <2>1. /\ size' = size /\ wpc' = wpc /\ index' = index /\ should_exit' = should_exit
        /\ \/ Returns(b, AfterCheck(b))
           \/ Goes(b, "mark") /\ worker_access' = worker_access
    BY <1>13 DEF TryRemoveIdleThread
  <2> QED BY <1>2, <1>3, <1>4, <1>5, <1>6, <2>1, CheckPlaces DEF CheckStep
<1>14. CASE MarkThread(b)
  <2>1. /\ size' = size /\ index' = index /\ Returns(b, AfterCheck(b))
        /\ should_exit' = [should_exit EXCEPT ![slot] = TRUE] /\ wpc' = WakeWorkers
    BY <1>14 DEF MarkThread
  <2>2. should_exit' \in [Slots -> BOOLEAN] /\ wpc' \in [Slots -> WorkerStep]
        /\ \A i \in Slots : wpc'[i] # "waiting"
    BY <1>3, <2>1 DEF WakeWorkers, WorkerStep
  <2>3. FlaggedNeverSleeps'
    BY <2>2 DEF FlaggedNeverSleeps
  <2> QED BY <1>3, <1>5, <2>1, <2>2, <2>3
<1> QED BY <1>7, <1>8, <1>9, <1>10, <1>11, <1>12, <1>13, <1>14 DEF CheckStepOf

\* The measurements of the load and cleanFinishedThread set no flag.
LEMMA AwakeBalance ==
  ASSUME Awake,
         \/ \E b \in Controllers \cup {Balancer} : MeasureLoad(b)
         \/ LockClean(Balancer) \/ CleanFinishedThread(Balancer)
  PROVE  Awake'
<1>1. /\ wpc \in [Slots -> WorkerStep] /\ index \in [Slots -> Slots]
      /\ should_exit \in [Slots -> BOOLEAN] /\ size \in Nat
      /\ \A i \in Slots : should_exit[index[i]] => wpc[i] # "waiting"
      /\ Balancer \in Callers /\ Controllers \subseteq Callers
      /\ pc \in [Callers -> Places]
  BY DEF Awake, FlaggedNeverSleeps, Callers
<1>2. ASSUME NEW b \in Callers, NEW s \in Places \ {"emplace"}, Goes(b, s), Holds(b, s),
             pc[b] \notin BuildStep, s \notin BuildStep, next' = next, wpc' = wpc, UNCHANGED slotVars
      PROVE  Awake'
  <2>1. size' = size /\ index' = index /\ should_exit' = should_exit
    BY <1>2 DEF slotVars
  <2>2. FlaggedNeverSleeps'
    BY <1>1, <1>2, <2>1 DEF FlaggedNeverSleeps
  <2> QED BY <1>1, <1>2, <2>1, <2>2, AwakeInside
<1>3. CASE \E b \in Controllers \cup {Balancer} : MeasureLoad(b)
  <2>1. PICK b \in Controllers \cup {Balancer} : MeasureLoad(b)
    BY <1>3
  <2>2. /\ b \in Callers /\ pc[b] = "lockCheck" /\ worker_access = NoThread
        /\ next' = next /\ wpc' = wpc /\ UNCHANGED slotVars
        /\ \/ Goes(b, "create") /\ worker_access' = b
           \/ Goes(b, "remove") /\ worker_access' = b
           \/ Goes(b, AfterCheck(b)) /\ worker_access' = worker_access
    BY <1>1, <2>1 DEF MeasureLoad
  <2>3. pc[b] \notin BuildStep
    BY <2>2 DEF BuildStep
  <2>4. CASE Goes(b, "create") /\ worker_access' = b
    BY <1>2, <2>2, <2>3, <2>4, CheckPlaces DEF CheckStep, Holds
  <2>5. CASE Goes(b, "remove") /\ worker_access' = b
    BY <1>2, <2>2, <2>3, <2>5, CheckPlaces DEF CheckStep, Holds
  <2>6. CASE Goes(b, AfterCheck(b)) /\ worker_access' = worker_access
    BY <1>2, <2>2, <2>3, <2>6, CheckPlaces DEF Holds, Critical
  <2> QED BY <2>2, <2>4, <2>5, <2>6
<1>4. CASE LockClean(Balancer)
  <2>1. /\ pc[Balancer] = "lockClean" /\ worker_access = NoThread /\ worker_access' = Balancer
        /\ Goes(Balancer, "clean") /\ next' = next /\ wpc' = wpc /\ UNCHANGED slotVars
    BY <1>4 DEF LockClean
  <2> QED BY <1>1, <1>2, <2>1, CheckPlaces DEF Holds, BuildStep
<1>5. CASE CleanFinishedThread(Balancer)
  <2>1. pc[Balancer] = "clean" /\ next' = next /\ UNCHANGED slotVars
    BY <1>5 DEF CleanFinishedThread
  <2>2. CASE Finished = {}
    <3>1. wpc' = wpc /\ Goes(Balancer, "loop") /\ worker_access' = NoThread
      BY <1>5, <2>2 DEF CleanFinishedThread, Returns
    <3> QED BY <1>1, <1>2, <2>1, <3>1, CheckPlaces DEF Holds, Critical
  <2>3. CASE Finished # {}
    <3>1. /\ wpc' = [wpc EXCEPT ![Min(Finished)] = "joined"]
          /\ worker_access' = worker_access /\ slot' = slot /\ pc' = pc
      BY <1>5, <2>3 DEF CleanFinishedThread, Join, WorkerGoes
    <3>2. Dozes
      BY <1>1, <3>1 DEF Dozes, WorkerStep
    <3>3. Counts
      BY <2>1 DEF Counts, Awake
    <3> QED BY <1>1, <2>1, <3>1, <3>2, <3>3, AwakeOutside DEF slotVars
  <2> QED BY <2>2, <2>3
<1> QED BY <1>3, <1>4, <1>5

\* The constructor adds slots without a flag.
LEMMA AwakeBuild ==
  ASSUME Awake, NEW c \in Controllers, ConstructWorker(c) \/ CountCoreWorker(c)
  PROVE  Awake'
<1>1. /\ wpc \in [Slots -> WorkerStep] /\ index \in [Slots -> Slots]
      /\ should_exit \in [Slots -> BOOLEAN] /\ size \in Nat
      /\ \A i \in Slots : should_exit[index[i]] => wpc[i] # "waiting"
      /\ c \in Callers /\ Controllers \subseteq Callers
      /\ pc \in [Callers -> Places] /\ next \in [Controllers -> Nat]
  BY DEF Awake, FlaggedNeverSleeps, Callers
<1>2. /\ pc[c] \in BuildStep /\ pc[c] \notin SectionStep
      /\ worker_access' = worker_access /\ slot' = slot /\ should_exit' = should_exit
  BY DEF ConstructWorker, CountCoreWorker, BuildStep, SectionStep, callVars, slotVars
<1>3. next[c] < core_threads /\ core_threads \in Nat /\ next[c] \in Nat
  BY <1>1, <1>2, Consts DEF Awake
<1>4. PICK s \in BuildStep \cup {"idle"} :
         /\ Goes(c, s) /\ next' \in [Controllers -> Nat]
         /\ s \in BuildStep => next'[c] < core_threads
         /\ \A d \in Controllers : d # c => next'[d] = next[d]
  <2>1. CASE ConstructWorker(c)
    <3>1. Goes(c, "countCore") /\ next' = next
      BY <2>1 DEF ConstructWorker, callVars
    <3> QED BY <1>1, <1>3, <3>1 DEF BuildStep
  <2>2. CASE CountCoreWorker(c) /\ next[c] + 1 = core_threads
    <3>1. Goes(c, "idle") /\ next' = [next EXCEPT ![c] = 0]
      BY <2>2 DEF CountCoreWorker
    <3> QED BY <1>1, <1>3, <3>1 DEF BuildStep
  <2>3. CASE CountCoreWorker(c) /\ next[c] + 1 # core_threads
    <3>1. Goes(c, "construct") /\ next' = [next EXCEPT ![c] = next[c] + 1]
      BY <2>3 DEF CountCoreWorker
    <3>2. next' \in [Controllers -> Nat] /\ next'[c] = next[c] + 1
      BY <1>1, <1>3, <3>1
    <3>3. next'[c] < core_threads
      BY <1>3, <2>3, <3>2
    <3> QED BY <1>1, <3>1, <3>2, <3>3 DEF BuildStep
  <2> QED BY <2>1, <2>2, <2>3
<1>5. /\ pc' \in [Callers -> Places] /\ pc'[c] = s /\ s \notin SectionStep
      /\ \A d \in Callers : d # c => pc'[d] = pc[d]
  BY <1>1, <1>4 DEF Goes, Places, ClientStep, BuildStep, SectionStep
<1>6. Access'
  BY <1>2, <1>5 DEF Awake, Access
<1>7. \A b \in Callers : pc'[b] = "emplace" => slot' \in Slots
  BY <1>2, <1>5 DEF Awake, SectionStep
<1>8. \A d \in Controllers : pc'[d] \in BuildStep => next'[d] < core_threads
  BY <1>1, <1>4, <1>5 DEF Awake
<1>9. /\ size' \in Nat /\ wpc' \in [Slots -> WorkerStep] /\ index' \in [Slots -> Slots]
      /\ FlaggedNeverSleeps'
  <2>1. CASE ConstructWorker(c)
    <3>1. /\ size' = size + 1 /\ wpc' = [wpc EXCEPT ![size] = "top"]
          /\ index' = [index EXCEPT ![size] = next[c]]
      BY <2>1 DEF ConstructWorker, Emplace, WorkerGoes
    <3>2. next[c] \in Slots
      BY <1>3, Consts
    <3>3. /\ size' \in Nat /\ wpc' \in [Slots -> WorkerStep] /\ index' \in [Slots -> Slots]
      <4>1. size' \in Nat
        BY <1>1, <3>1
      <4>2. wpc' \in [Slots -> WorkerStep]
        BY <1>1, <3>1 DEF WorkerStep
      <4>3. index' \in [Slots -> Slots]
        BY <1>1, <3>1, <3>2
      <4> QED BY <4>1, <4>2, <4>3
    <3> QED BY <1>1, <1>2, <3>1, <3>3 DEF FlaggedNeverSleeps
  <2>2. CASE CountCoreWorker(c)
    BY <1>1, <1>2, <2>2 DEF CountCoreWorker, slotVars, FlaggedNeverSleeps
  <2> QED BY <2>1, <2>2
<1> QED BY <1>1, <1>2, <1>4, <1>5, <1>6, <1>7, <1>8, <1>9 DEF Awake

\* A worker looks at its flag before it goes to sleep, with queue_mutex_ held.
LEMMA AwakeWorker ==
  ASSUME Awake, NEW i \in Slots, WorkerLoop(i) \/ WakeSpuriously(i)
  PROVE  Awake'
<1>1. wpc \in [Slots -> WorkerStep] /\ pc \in [Callers -> Places] /\ next \in [Controllers -> Nat]
  BY DEF Awake
<1>2. /\ size' = size /\ index' = index /\ should_exit' = should_exit
      /\ worker_access' = worker_access /\ slot' = slot /\ next' = next /\ WaitersWoken
  BY <1>1, WorkersWake DEF Places, callVars
<1>3. \/ \E s \in WorkerStep \ {"waiting"} : WorkerGoes(i, s)
      \/ WorkerGoes(i, "waiting") /\ ~should_exit[index[i]]
  <2>1. CASE TestExit(i)
    <3>1. WorkerGoes(i, IF should_exit[index[i]] THEN "exited" ELSE "state")
      BY <2>1 DEF TestExit, WorkerMoves
    <3> QED BY <3>1 DEF WorkerStep
  <2>2. CASE TestPaused(i)
    <3>1. WorkerGoes(i, IF state = "PAUSED" THEN "paused" ELSE "lock")
      BY <2>2 DEF TestPaused, WorkerMoves
    <3> QED BY <3>1 DEF WorkerStep
  <2>3. CASE LeavePause(i)
    <3>1. WorkerGoes(i, IF stopped THEN "exited" ELSE "lock")
      BY <2>3 DEF LeavePause, WorkerMoves
    <3> QED BY <3>1 DEF WorkerStep
  <2>4. CASE AwaitTask(i)
    <3>1. \/ WorkerGoes(i, "waiting") /\ ~should_exit[index[i]]
          \/ WorkerGoes(i, "exited") \/ WorkerGoes(i, "busy") \/ WorkerGoes(i, "top")
      BY <2>4 DEF AwaitTask
    <3> QED BY <3>1 DEF WorkerStep
  <2>5. CASE Finish(i) \/ WakeSpuriously(i)
    <3>1. WorkerGoes(i, "top") \/ WorkerGoes(i, "lock")
      BY <2>5 DEF Finish, WakeSpuriously, WorkerMoves
    <3> QED BY <3>1 DEF WorkerStep
  <2> QED BY <2>1, <2>2, <2>3, <2>4, <2>5 DEF WorkerLoop
<1>4. Dozes
  BY <1>1, <1>3 DEF Dozes, WorkerGoes, WorkerStep
<1>5. Counts
  BY <1>1, <1>2 DEF Counts
<1>6. /\ pc' \in [Callers -> Places]
      /\ \A b \in Callers : pc'[b] = pc[b] \/ (pc[b] \notin Critical /\ pc'[b] \notin Critical)
  BY <1>2 DEF WaitersWoken, Places, Critical, SectionStep, BuildStep
<1> QED BY <1>1, <1>2, <1>4, <1>5, <1>6, AwakeOutside

\* The waits of shutdown move their caller only.
LEMMA AwakeWait == ASSUME Awake, NEW c \in Controllers, WaitStep(c) PROVE Awake'
<1>1. PICK s \in WaitPhase \cup {"stopBalancer"} : Moves(c, s)
  BY Waits
<1>2. /\ pc[c] \in WaitPhase /\ c \in Callers /\ pc \in [Callers -> Places]
      /\ s \in Places \ Critical /\ pc[c] \notin Critical
  BY Waits DEF Awake, Callers, WaitPhase, Places, ClientStep, Critical, SectionStep, BuildStep
<1>3. /\ pc' \in [Callers -> Places]
      /\ \A b \in Callers : pc'[b] = pc[b] \/ (pc[b] \notin Critical /\ pc'[b] \notin Critical)
  BY <1>1, <1>2 DEF Moves, Goes
<1>4. Dozes /\ Counts
  BY <1>1 DEF Awake, Dozes, Counts, Moves, callVars
<1> QED BY <1>1, <1>3, <1>4, AwakeOutside DEF Moves, slotVars, callVars

\* Submitters, the other operations of controllers, and the balancer's own loop
LEMMA AwakeCaller ==
  ASSUME Awake,
         \/ \E s \in Submitters : Submit(s) \/ SubmitStep(s)
         \/ \E c \in Controllers :
              \/ Call(c) \/ ForceStop(c) \/ Drain(c) \/ StopBalancer(c)
              \/ StopWorkers(c) \/ JoinBalancer(c) \/ JoinWorker(c) \/ EndStop(c)
         \/ BalancerLoop(Balancer) \/ AwaitResume(Balancer) \/ EndSleep(Balancer)
         \/ UNCHANGED vars
  PROVE  Awake'
<1>1. /\ wpc \in [Slots -> WorkerStep] /\ pc \in [Callers -> Places]
      /\ next \in [Controllers -> Nat]
      /\ Balancer \in Callers /\ Controllers \subseteq Callers /\ Submitters \subseteq Callers
      /\ Balancer \notin Controllers
  BY ThreadsAssumption DEF Awake, Callers
<1>2. /\ size' = size /\ index' = index /\ should_exit' = should_exit
      /\ worker_access' = worker_access /\ slot' = slot
  BY DEF Submit, SubmitStep, Push, CountPending, NotifyWorker, Call, LoadCheck, Pause, Resume,
         Shutdown, Stop, ForceStop, Drain, StopBalancer, StopWorkers, JoinBalancer,
         JoinWorker, EndStop, BalancerLoop, AwaitResume, EndSleep, Moves, vars, slotVars, callVars
<1>3. Dozes
  <2>1. \/ wpc' = wpc \/ wpc' = WakeWorkers
        \/ \E i \in Slots : WorkerGoes(i, "lock") \/ WorkerGoes(i, "joined")
        \/ \E c \in Controllers : WorkerGoes(next[c], "joined")
    BY DEF Submit, SubmitStep, Push, CountPending, NotifyWorker, Call, LoadCheck, Pause, Resume,
           Shutdown, Stop, ForceStop, Drain, StopBalancer, StopWorkers, JoinBalancer,
           JoinWorker, EndStop, BalancerLoop, AwaitResume, EndSleep, Moves, vars
  <2> QED BY <1>1, <2>1 DEF Dozes, WakeWorkers, WorkerGoes, WorkerStep
<1> DEFINE Calmly == /\ pc' \in [Callers -> Places]
                     /\ \A b \in Callers : pc'[b] = pc[b] \/ (pc[b] \notin Critical /\ pc'[b] \notin Critical)
<1>4. ASSUME NEW b \in Callers, NEW s \in Places \ Critical, pc[b] \notin Critical, Goes(b, s)
      PROVE  Calmly
  BY <1>1, <1>4 DEF Goes
<1>5. {"push", "count", "notify", "idle", "lockCheck", "drain", "stopBalancer",
       "stopWorkers", "joinBalancer", "joinWorkers", "loop", "pauseTest", "asleep", "sleep",
       "exited", "lockClean"} \cup WaitPhase \subseteq Places \ Critical
  BY DEF WaitPhase, Places, BalancerStep, ClientStep, CheckStep, Critical, SectionStep, BuildStep
<1>6. ASSUME NEW c \in Controllers, NEW s \in Places \ Critical, pc[c] \notin Critical,
             pc' = [BalancerWoken(pc) EXCEPT ![c] = s]
      PROVE  Calmly
  BY <1>1, <1>5, <1>6 DEF BalancerWoken
<1>7. pc' = pc \/ pc' = BalancerWoken(pc) => Calmly
  BY <1>1, <1>5 DEF BalancerWoken
<1>8. Calmly
  <2> HIDE DEF Calmly
  <2>1. CASE \E s \in Submitters : Submit(s) \/ SubmitStep(s)
    <3>1. PICK s \in Submitters : Submit(s) \/ SubmitStep(s)
      BY <2>1
    <3>2. /\ Goes(s, "push") \/ Goes(s, "count") \/ Goes(s, "notify") \/ Goes(s, "idle")
          /\ pc[s] \in {"push", "count", "notify", "idle"}
      BY <3>1 DEF Submit, SubmitStep, Push, CountPending, NotifyWorker, Moves
    <3> QED BY <1>1, <1>4, <1>5, <3>2
  <2>2. CASE \E c \in Controllers :
               \/ Call(c) \/ ForceStop(c) \/ Drain(c) \/ StopBalancer(c)
               \/ StopWorkers(c) \/ JoinBalancer(c) \/ JoinWorker(c) \/ EndStop(c)
    <3>1. PICK c \in Controllers :
               \/ Call(c) \/ ForceStop(c) \/ Drain(c) \/ StopBalancer(c)
               \/ StopWorkers(c) \/ JoinBalancer(c) \/ JoinWorker(c) \/ EndStop(c)
      BY <2>2
    <3>2. pc[c] \in {"idle", "force", "drain", "stopBalancer", "stopWorkers", "joinBalancer", "joinWorkers"}
      BY <3>1 DEF Call, LoadCheck, Pause, Resume, Shutdown, Stop, Begins, ForceStop, Drain,
                  StopBalancer, StopWorkers, JoinBalancer, JoinWorker, EndStop
    <3>3. pc[c] \notin Critical
      BY <1>5, <3>2 DEF WaitPhase
    <3>4. \/ pc' = pc \/ pc' = BalancerWoken(pc)
          \/ pc' = [BalancerWoken(pc) EXCEPT ![c] = "stopWorkers"]
          \/ Goes(c, "lockCheck") \/ (\E s \in WaitPhase : Goes(c, s)) \/ Goes(c, "stopBalancer") \/ Goes(c, "idle")
          \/ Goes(c, "drain") \/ Goes(c, "joinBalancer") \/ Goes(c, "joinWorkers")
      BY <3>1 DEF Call, LoadCheck, Pause, Resume, Shutdown, Stop, ForceStop, Drain,
                  StopBalancer, StopWorkers, JoinBalancer, JoinWorker, EndStop, Moves, WaitPhase
    <3> QED BY <1>1, <1>4, <1>5, <1>6, <1>7, <3>3, <3>4
  <2>3. CASE BalancerLoop(Balancer) \/ AwaitResume(Balancer) \/ EndSleep(Balancer)
    <3>1. /\ pc[Balancer] \in {"loop", "pauseTest", "sleep"}
          /\ \/ Goes(Balancer, "exited") \/ Goes(Balancer, "pauseTest") \/ Goes(Balancer, "asleep")
             \/ Goes(Balancer, "sleep") \/ Goes(Balancer, "lockCheck") \/ Goes(Balancer, "lockClean")
      BY <2>3 DEF BalancerLoop, AwaitResume, EndSleep, Moves
    <3> QED BY <1>1, <1>4, <1>5, <3>1
  <2>4. CASE UNCHANGED vars
    BY <1>7, <2>4 DEF vars
  <2> QED BY <2>1, <2>2, <2>3, <2>4
<1>9. Counts
  <2>1. \/ next' = next
        \/ \E c \in Controllers : /\ pc[c] = "joinWorkers"
                                  /\ \/ next' = [next EXCEPT ![c] = next[c] + 1]
                                     \/ next' = [next EXCEPT ![c] = 0]
    BY DEF Submit, SubmitStep, Push, CountPending, NotifyWorker, Call, LoadCheck, Pause, Resume,
           Shutdown, Stop, ForceStop, Drain, StopBalancer, StopWorkers, JoinBalancer,
           JoinWorker, EndStop, BalancerLoop, AwaitResume, EndSleep, Moves, vars, callVars
  <2>2. ASSUME NEW c \in Controllers, NEW n \in Nat, pc[c] = "joinWorkers",
               next' = [next EXCEPT ![c] = n]
        PROVE  Counts
    BY <1>1, <2>2 DEF Counts, BuildStep
  <2>3. \A c \in Controllers : next[c] + 1 \in Nat /\ 0 \in Nat
    BY <1>1
  <2>4. next' = next => Counts
    BY <1>1 DEF Counts
  <2> QED BY <2>1, <2>2, <2>3, <2>4
<1> QED BY <1>2, <1>3, <1>8, <1>9, AwakeOutside

\* At first there are neither flags nor threads.
LEMMA AwakeInit == ASSUME Init PROVE Awake
<1>1. /\ 0 \in Nat /\ 0 < core_threads
      /\ {"construct", "idle", "loop", "exited"} \subseteq Places
      /\ {"construct", "idle", "loop", "exited"} \cap SectionStep = {}
      /\ "none" \in WorkerStep
  BY Consts DEF Places, BalancerStep, ClientStep, SectionStep, WorkerStep
<1>2. pc \in [Callers -> {"construct", "idle", "loop", "exited"}]
  BY DEF Init
<1>3. Access
  BY <1>1, <1>2, ThreadsAssumption DEF Init, Access
<1>4. \A b \in Callers : pc[b] # "emplace"
  BY <1>2
<1> QED BY <1>1, <1>2, <1>3, <1>4 DEF Init, Awake, FlaggedNeverSleeps

\* The thread of a slot whose flag is set does not sleep on queue_cv_, whichever slot
\* the flag was set for and whatever thread it runs: the predicate of the wait reads
\* the flag under the mutex, and whoever sets it wakes all.
THEOREM FlaggedAreAwake == Spec => []FlaggedNeverSleeps
<1>1. Init => Awake
  BY AwakeInit
<1>2. Awake /\ [Next]_vars => Awake'
  <2> SUFFICES ASSUME Awake, [Next]_vars PROVE Awake'
    OBVIOUS
  <2>1. CASE \E c \in Controllers :
               ControlStep(c) \/ MeasureLoad(c) \/ TimeOut(c) \/ WakeWaiterSpuriously(c)
    BY <2>1, AwakeCheck, AwakeBalance, AwakeBuild, AwakeCaller, AwakeWait DEF ControlStep, WaitStep
  <2>2. CASE BalancerRuns \/ MeasureLoad(Balancer) \/ LockClean(Balancer)
    BY <2>2, AwakeCheck, AwakeBalance, AwakeCaller DEF BalancerRuns
  <2>3. CASE \E i \in Slots : WorkerLoop(i) \/ WakeSpuriously(i)
    BY <2>3, AwakeWorker
  <2>4. CASE \/ \E s \in Submitters : Submit(s) \/ SubmitStep(s)
             \/ \E c \in Controllers : Call(c)
             \/ UNCHANGED vars
    BY <2>4, AwakeCaller
  <2> QED BY <2>1, <2>2, <2>3, <2>4 DEF Next
<1>3. Awake => FlaggedNeverSleeps
  BY DEF Awake
<1> QED BY <1>1, <1>2, <1>3, PTL DEF Spec

=============================================================================

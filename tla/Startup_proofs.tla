--------------------------- MODULE Startup_proofs ---------------------------
(***************************************************************************)
(* Proofs about Startup: what the lock-free Logger owes to the way a       *)
(* program calls it, and that saving a configuration loses nothing.        *)
(***************************************************************************)
EXTENDS Startup, TLAPS

\* The steps of a call that may change logger_, the registry or initialized_
Touching == {"sinks", "register", "flush", "drop", "reset", "close"}

\* Only the program's thread touches the logger, while it is between two calls of
\* the pool, and no balancer is half way through a log call once it has exited.
Exclusive ==
  /\ pool = NoPool => balancer = "none"
  /\ lpc[Balancer] \in {"idle", "level", "write"}
  /\ balancer \in {"none", "exited"} => lpc[Balancer] = "idle"
  /\ lpc[Main] \in Touching => mpc = "run"

\* What each step of initialize and shutdown relies on
StepsInOrder ==
  /\ lpc[Main] \in {"sinks", "register"} => ~initialized
  /\ lpc[Main] = "register" => logger = log_name
  /\ lpc[Main] \in {"flush", "drop", "reset", "close"} => initialized

\* Where the program and its balancer are
Modes ==
  /\ mpc \in {"run", "join", "over"}
  /\ balancer \in {"none", "running", "told", "exited"}

\* The inductive invariant of the logger
LogInv ==
  /\ LoggerTypeOK
  /\ Modes
  /\ Exclusive
  /\ StepsInOrder
  /\ InitializedIsRegistered

-----------------------------------------------------------------------------
(***************************************************************************)
(* Configurations                                                          *)
(***************************************************************************)

\* The configurations of the types in thread_pool_config.h
Configs ==
  [core_threads : Size, max_threads : Size, max_queue_size : Size,
   policy : QueueFullPolicy, balancer_check_interval : Int,
   expand_factor : Int, remove_factor : Int, task_limit : Size,
   avg_task_threshold : Int, idle_time_threshold : Int,
   consecutive_idle_count : Size, enable_dynamic_thread : BOOLEAN]

\* The pool's configuration has the types of Config, is valid, and can be told
\* from no pool and from a text that is no JSON.
PoolInv ==
  pool # NoPool =>
    /\ pool \in Configs
    /\ validateConfigBasic(pool)
    /\ to_json(pool) # Garbage

\* The remainder of a number that fits is the number.
LEMMA Fits == ASSUME NEW n \in Size PROVE n % SizeMod = n
  BY ConfigAssumption DEF Size

\* Every remainder fits.
LEMMA Wraps == ASSUME NEW n \in Int PROVE n % SizeMod \in Size
  BY ConfigAssumption DEF Size

\* Writing a valid configuration as JSON and reading it gives it back.
LEMMA RoundTrip ==
  ASSUME NEW c \in Configs, validateConfigBasic(c), to_json(c) # Garbage
  PROVE  Loads(to_json(c)) /\ from_json(to_json(c)) = c
<1> DEFINE j == to_json(c)
           Keys == {"core_threads", "max_threads", "max_queue_size", "queue_full_policy",
             "expand_factor", "remove_factor", "task_limit", "avg_task_threshold",
             "consecutive_idle_count", "enable_dynamic_thread",
             "balancer_check_interval_ms", "idle_time_threshold_ms"}
<1>1. DOMAIN j = Keys
  BY DEF to_json, ToJson
<1>2. /\ j["core_threads"] = c.core_threads
      /\ j["max_threads"] = c.max_threads
      /\ j["max_queue_size"] = c.max_queue_size
      /\ j["queue_full_policy"] = c.policy
      /\ j["expand_factor"] = c.expand_factor
      /\ j["remove_factor"] = c.remove_factor
  BY DEF to_json, ToJson
<1>3. /\ j["task_limit"] = c.task_limit
      /\ j["avg_task_threshold"] = c.avg_task_threshold
      /\ j["consecutive_idle_count"] = c.consecutive_idle_count
      /\ j["enable_dynamic_thread"] = c.enable_dynamic_thread
      /\ j["balancer_check_interval_ms"] = c.balancer_check_interval
      /\ j["idle_time_threshold_ms"] = c.idle_time_threshold
  BY DEF to_json, ToJson
<1> HIDE DEF j
<1>4. /\ SizeField(j, "core_threads", Default.core_threads) = c.core_threads
      /\ SizeField(j, "max_threads", Default.max_threads) = c.max_threads
      /\ SizeField(j, "max_queue_size", Default.max_queue_size) = c.max_queue_size
      /\ SizeField(j, "task_limit", Default.task_limit) = c.task_limit
      /\ SizeField(j, "consecutive_idle_count", Default.consecutive_idle_count)
           = c.consecutive_idle_count
  BY <1>1, <1>2, <1>3, Fits DEF SizeField, Field, Configs
<1>5. /\ Field(j, "queue_full_policy", Default.policy) = c.policy
      /\ Field(j, "expand_factor", Default.expand_factor) = c.expand_factor
      /\ Field(j, "remove_factor", Default.remove_factor) = c.remove_factor
      /\ Field(j, "avg_task_threshold", Default.avg_task_threshold) = c.avg_task_threshold
      /\ Field(j, "enable_dynamic_thread", Default.enable_dynamic_thread)
           = c.enable_dynamic_thread
  BY <1>1, <1>2, <1>3 DEF Field
<1>6. /\ Interval(j, "balancer_check_interval", "balancer_check_interval_ms",
                  "balancer_check_interval_seconds", Default.balancer_check_interval)
           = c.balancer_check_interval
      /\ Interval(j, "idle_time_threshold", "idle_time_threshold_ms",
                  "idle_time_threshold_seconds", Default.idle_time_threshold)
           = c.idle_time_threshold
  BY <1>1, <1>3 DEF Field, Interval
<1>7. from_json(j) = c
  BY <1>4, <1>5, <1>6 DEF from_json, Configs
<1>8. c.policy \in QueueFullPolicy /\ \A key \in Keys : j[key] # Wrong
  <2>1. \A key \in Keys : j[key] \in Int \cup BOOLEAN \cup {"BLOCKING", "OVERWRITE", "DISCARD"}
    BY <1>2, <1>3, ConfigAssumption DEF Configs, Size, QueueFullPolicy
  <2>2. c.policy \in QueueFullPolicy
    BY DEF Configs
  <2> QED
    BY <2>1, <2>2, ConfigAssumption
<1>9. WellTyped(j)
  BY <1>1, <1>5, <1>8 DEF WellTyped
<1> QED
  BY <1>7, <1>9 DEF Loads, j

\* What a text loads to is a configuration.
LEMMA LoadsTyped ==
  ASSUME NEW text \in Texts, Loads(text)
  PROVE  from_json(text) \in Configs
<1>1. text # Garbage /\ WellTyped(text)
  BY DEF Loads
<1>2. ASSUME NEW key \in DOMAIN text, key \notin Unread(text),
             key # "queue_full_policy", key # "enable_dynamic_thread"
      PROVE  text[key] \in Int
  BY <1>1, <1>2, TextAssumption DEF WellTyped
<1>3. ASSUME "enable_dynamic_thread" \in DOMAIN text
      PROVE  text["enable_dynamic_thread"] \in BOOLEAN
  BY <1>1, <1>3, TextAssumption DEF WellTyped, Unread
<1>4. /\ Field(text, "core_threads", Default.core_threads) \in Int
      /\ Field(text, "max_threads", Default.max_threads) \in Int
      /\ Field(text, "max_queue_size", Default.max_queue_size) \in Int
      /\ Field(text, "task_limit", Default.task_limit) \in Int
      /\ Field(text, "consecutive_idle_count", Default.consecutive_idle_count) \in Int
      /\ Field(text, "expand_factor", Default.expand_factor) \in Int
      /\ Field(text, "remove_factor", Default.remove_factor) \in Int
      /\ Field(text, "avg_task_threshold", Default.avg_task_threshold) \in Int
  BY <1>2, ConfigAssumption DEF Field, Unread, Default
<1>5. Field(text, "enable_dynamic_thread", Default.enable_dynamic_thread) \in BOOLEAN
  BY <1>3 DEF Field, Default
<1>6. Interval(text, "balancer_check_interval", "balancer_check_interval_ms",
               "balancer_check_interval_seconds", Default.balancer_check_interval) \in Int
  BY <1>2 DEF Field, Interval, Unread, Default
<1>7. Interval(text, "idle_time_threshold", "idle_time_threshold_ms",
               "idle_time_threshold_seconds", Default.idle_time_threshold) \in Int
  BY <1>2 DEF Field, Interval, Unread, Default
<1>8. Field(text, "queue_full_policy", Default.policy) \in QueueFullPolicy
  BY <1>1 DEF WellTyped
<1> QED
  BY <1>4, <1>5, <1>6, <1>7, <1>8, Wraps DEF from_json, SizeField, Configs

\* The constructor with counts validates nothing, and need not.
LEMMA CountsValid ==
  ASSUME NEW n \in Counts, NEW enable \in BOOLEAN
  PROVE  /\ ConfigOfCounts(n, enable) \in Configs
         /\ validateConfigBasic(ConfigOfCounts(n, enable))
<1>1. n \in Size /\ 4 \in Size /\ 1000 \in Size /\ 24 \in Size /\ 3 \in Size
  BY StartupAssumption, ConfigAssumption DEF Size
<1> DEFINE c == ConfigOfCounts(n, enable)
<1>2. /\ DOMAIN c = DOMAIN Default
      /\ c = [key \in DOMAIN Default |-> c[key]]
  BY DEF ConfigOfCounts
<1>3. /\ Default.core_threads = 4 /\ Default.max_threads = hardware_concurrency
      /\ DOMAIN Default = {"core_threads", "max_threads", "max_queue_size", "policy",
           "balancer_check_interval", "expand_factor", "remove_factor", "task_limit",
           "avg_task_threshold", "idle_time_threshold", "consecutive_idle_count",
           "enable_dynamic_thread"}
  BY DEF Default
<1>4. /\ c.core_threads = 4
      /\ c.max_threads = IF n >= 4 THEN n ELSE 4
      /\ c.enable_dynamic_thread = enable
  BY <1>3 DEF ConfigOfCounts
<1>5. ASSUME NEW key \in DOMAIN Default, key \notin {"max_threads", "enable_dynamic_thread"}
      PROVE  c[key] = Default[key]
  BY <1>5 DEF ConfigOfCounts
<1>6. /\ c.max_queue_size = 1000 /\ c.policy = "BLOCKING"
      /\ c.balancer_check_interval = 500 /\ c.expand_factor = 80
      /\ c.remove_factor = 30 /\ c.task_limit = 24
      /\ c.avg_task_threshold = 2 /\ c.idle_time_threshold = 2000
      /\ c.consecutive_idle_count = 3
  BY <1>3, <1>5 DEF Default
<1> HIDE DEF c
<1>7. c \in Configs
  BY <1>1, <1>2, <1>3, <1>4, <1>6 DEF Configs, QueueFullPolicy
<1>8. validateConfigBasic(c)
  BY <1>1, <1>4, <1>6, ConfigAssumption DEF validateConfigBasic, Size
<1> QED
  BY <1>7, <1>8 DEF c

-----------------------------------------------------------------------------
(***************************************************************************)
(* The logger                                                              *)
(***************************************************************************)

\* The program starts without a logger, a pool or a balancer.
LEMMA LogInvInit == Init => LogInv
<1> SUFFICES ASSUME Init PROVE LogInv
  OBVIOUS
<1>1. lpc[Main] = "idle" /\ lpc[Balancer] = "idle"
  BY StartupAssumption DEF Init, LoggerInit
<1>2. LoggerTypeOK
  BY LoggerAssumption DEF Init, LoggerInit, LoggerTypeOK, LogStep
<1>3. Modes /\ Exclusive /\ StepsInOrder
  BY <1>1 DEF Init, LoggerInit, Modes, Exclusive, StepsInOrder, Touching
<1>4. InitializedIsRegistered
  BY DEF Init, LoggerInit, InitializedIsRegistered
<1> QED
  BY <1>2, <1>3, <1>4 DEF LogInv

\* The balancer logs only while there is one, and changes nothing of the logger.
LEMMA BalancerKeeps == LogInv /\ BalancerLogs => LogInv'
<1> SUFFICES ASSUME LogInv, BalancerLogs PROVE LogInv'
  OBVIOUS
<1>1. /\ lpc \in [LogThreads -> LogStep]
      /\ LogThreads = {Main, Balancer} /\ Main # Balancer
      /\ pool' = pool /\ mpc' = mpc /\ balancer' = balancer
  BY StartupAssumption DEF LogInv, LoggerTypeOK, BalancerLogs
<1>2. balancer \in {"running", "told"}
  BY DEF BalancerLogs, LogInv, Exclusive, Modes
<1>3. /\ UNCHANGED <<logger, log_name, initialized, registry>>
      /\ \E step \in {"idle", "level", "write"} : LogGoes(Balancer, step)
  <2>1. CASE TestLogger(Balancer)
    BY <2>1 DEF TestLogger
  <2>2. CASE TestLevel(Balancer)
    BY <2>2 DEF TestLevel
  <2>3. CASE Write(Balancer)
    BY <2>3 DEF Write
  <2> QED
    BY <2>1, <2>2, <2>3 DEF BalancerLogs, LogCall
<1>4. PICK step \in {"idle", "level", "write"} : LogGoes(Balancer, step)
  BY <1>3
<1>5. /\ lpc' \in [LogThreads -> LogStep]
      /\ lpc'[Main] = lpc[Main] /\ lpc'[Balancer] = step
  BY <1>1, <1>4 DEF LogGoes, LogStep
<1>6. LoggerTypeOK'
  BY <1>3, <1>5 DEF LogInv, LoggerTypeOK
<1>7. Modes' /\ Exclusive' /\ StepsInOrder'
  BY <1>1, <1>2, <1>3, <1>5 DEF LogInv, Modes, Exclusive, StepsInOrder
<1>8. InitializedIsRegistered'
  <2>1. CASE lpc[Main] \in {"reset", "close"}
    BY <1>1, <1>5, <2>1 DEF InitializedIsRegistered
  <2>2. CASE lpc[Main] \notin {"reset", "close"}
    <3>1. \A t \in LogThreads : lpc[t] \notin {"reset", "close"}
      BY <1>1, <2>2 DEF LogInv, Exclusive
    <3>2. initialized => logger = log_name /\ logger \in registry
      BY <3>1 DEF LogInv, InitializedIsRegistered
    <3> QED
      BY <1>3, <3>2 DEF InitializedIsRegistered
  <2> QED
    BY <2>1, <2>2
<1> QED
  BY <1>6, <1>7, <1>8 DEF LogInv

\* What a step of the program's own thread must show of the step of Logger it
\* goes to
LEMMA MainMoves ==
  ASSUME LogInv, NEW step \in LogStep, LogGoes(Main, step),
         UNCHANGED <<pool, mpc, balancer>>,
         logger' \in Names \cup {NoLogger}, log_name' \in Names,
         initialized' \in BOOLEAN, registry' \subseteq Names,
         step \in Touching => mpc = "run",
         step \in {"sinks", "register"} => ~initialized',
         step = "register" => logger' = log_name',
         step \in {"flush", "drop", "reset", "close"} => initialized',
         initialized' /\ step \notin {"reset", "close"} =>
           logger' = log_name' /\ logger' \in registry'
  PROVE  LogInv'
<1>1. /\ lpc \in [LogThreads -> LogStep]
      /\ LogThreads = {Main, Balancer} /\ Main # Balancer
  BY StartupAssumption DEF LogInv, LoggerTypeOK
<1>2. /\ lpc' \in [LogThreads -> LogStep]
      /\ lpc'[Main] = step /\ lpc'[Balancer] = lpc[Balancer]
  BY <1>1 DEF LogGoes
<1>3. LoggerTypeOK'
  BY <1>2 DEF LoggerTypeOK
<1>4. Modes' /\ Exclusive' /\ StepsInOrder'
  BY <1>2 DEF LogInv, Modes, Exclusive, StepsInOrder
<1>5. InitializedIsRegistered'
  BY <1>1, <1>2 DEF LogInv, InitializedIsRegistered
<1> QED
  BY <1>3, <1>4, <1>5 DEF LogInv

\* A log call of the program
LEMMA MainLogs ==
  ASSUME LogInv, LogCall(Main), UNCHANGED <<pool, mpc, balancer>>
  PROVE  LogInv'
<1>1. /\ LoggerTypeOK /\ lpc[Main] \in {"idle", "level", "write"}
      /\ LogThreads = {Main, Balancer} /\ Main # Balancer
      /\ lpc[Balancer] \in {"idle", "level", "write"}
  BY StartupAssumption
  DEF LogInv, Exclusive, LogCall, TestLogger, TestLevel, Write
<1>2. /\ UNCHANGED <<logger, log_name, initialized, registry>>
      /\ \E step \in {"idle", "level", "write"} : LogGoes(Main, step)
  <2>1. CASE TestLogger(Main)
    BY <2>1 DEF TestLogger
  <2>2. CASE TestLevel(Main)
    BY <2>2 DEF TestLevel
  <2>3. CASE Write(Main)
    BY <2>3 DEF Write
  <2> QED
    BY <2>1, <2>2, <2>3 DEF LogCall
<1>3. PICK step \in {"idle", "level", "write"} : LogGoes(Main, step)
  BY <1>2
<1>4. initialized => logger = log_name /\ logger \in registry
  BY <1>1 DEF LogInv, InitializedIsRegistered
<1>5. step \in LogStep /\ step \notin Touching
  BY DEF LogStep, Touching
<1> QED
  BY <1>1, <1>2, <1>3, <1>4, <1>5, MainMoves DEF LoggerTypeOK, Touching

\* initialize, when it is called
LEMMA MainInitializes ==
  ASSUME LogInv, NEW name \in Names, InitializeLogger(name)
  PROVE  LogInv'
<1>1. /\ LoggerTypeOK /\ mpc = "run" /\ lpc[Main] = "idle"
      /\ LogThreads = {Main, Balancer} /\ Main # Balancer
      /\ UNCHANGED <<pool, mpc, balancer, logger, initialized, registry>>
  BY StartupAssumption
  DEF LogInv, InitializeLogger, Ready, Initialize
<1>2. CASE initialized
  <2>1. UNCHANGED <<log_name, lpc>>
    BY <1>2 DEF InitializeLogger, Initialize
  <2> QED
    BY <1>1, <2>1
    DEF LogInv, LoggerTypeOK, Modes, Exclusive, StepsInOrder,
        InitializedIsRegistered
<1>3. CASE ~initialized
  <2>1. log_name' = name /\ LogGoes(Main, "sinks")
    BY <1>3 DEF InitializeLogger, Initialize
  <2> QED
    BY <1>1, <1>3, <2>1, MainMoves DEF LoggerTypeOK, LogStep
<1> QED
  BY <1>2, <1>3

\* shutdown, when it is called
LEMMA MainShutsDown == ASSUME LogInv, ShutdownLogger PROVE LogInv'
<1>1. /\ LoggerTypeOK /\ mpc = "run" /\ lpc[Main] = "idle"
      /\ LogThreads = {Main, Balancer} /\ Main # Balancer
      /\ lpc[Balancer] \notin {"reset", "close"}
      /\ UNCHANGED <<pool, mpc, balancer, logger, log_name, initialized, registry>>
  BY StartupAssumption
  DEF LogInv, Exclusive, ShutdownLogger, Ready, Shutdown
<1>2. initialized => logger = log_name /\ logger \in registry
  BY <1>1 DEF LogInv, InitializedIsRegistered
<1>3. \E step \in {"idle", "flush", "close"} :
        LogGoes(Main, step) /\ (step # "idle" => initialized)
  BY DEF ShutdownLogger, Shutdown
<1>4. PICK step \in {"idle", "flush", "close"} :
        LogGoes(Main, step) /\ (step # "idle" => initialized)
  BY <1>3
<1> QED
  BY <1>1, <1>2, <1>4, MainMoves DEF LoggerTypeOK, LogStep

\* The steps initialize and shutdown go on with
LEMMA MainTouches ==
  ASSUME LogInv, LoggerSteps(Main), UNCHANGED <<pool, mpc, balancer>>
  PROVE  LogInv'
<1>1. /\ LoggerTypeOK /\ lpc[Main] \in Touching /\ mpc = "run"
      /\ StepsInOrder
  BY DEF LogInv, Exclusive, LoggerSteps, MakeSinks, Register, Flush, Drop, Reset,
         Close, Touching
<1>2. /\ lpc[Balancer] \notin {"reset", "close"} /\ LogThreads = {Main, Balancer}
      /\ initialized /\ lpc[Main] \notin {"reset", "close"} =>
           logger = log_name /\ logger \in registry
  BY <1>1, StartupAssumption DEF LogInv, Exclusive, InitializedIsRegistered
<1>3. CASE MakeSinks(Main)
  <2>1. CASE LogGoes(Main, "idle") /\ UNCHANGED logger
    BY <1>1, <1>2, <1>3, <2>1, MainMoves
    DEF MakeSinks, LoggerTypeOK, LogStep, StepsInOrder
  <2>2. CASE LogGoes(Main, "register") /\ logger' = log_name
    BY <1>1, <1>2, <1>3, <2>2, MainMoves
    DEF MakeSinks, LoggerTypeOK, LogStep, StepsInOrder
  <2> QED
    BY <1>3, <2>1, <2>2 DEF MakeSinks
<1>4. CASE Register(Main)
  <2>1. LogGoes(Main, "idle") /\ UNCHANGED <<logger, log_name>> /\ logger = log_name
        /\ ~initialized
    BY <1>1, <1>4 DEF Register, StepsInOrder
  <2>2. CASE log_name \in registry
    BY <1>1, <1>4, <2>1, <2>2, MainMoves DEF Register, LoggerTypeOK, LogStep
  <2>3. CASE log_name \notin registry
    BY <1>1, <1>4, <2>1, <2>3, MainMoves DEF Register, LoggerTypeOK, LogStep
  <2> QED
    BY <2>2, <2>3
<1>5. CASE Flush(Main)
  <2>1. PICK step \in {"idle", "drop"} : LogGoes(Main, step)
    BY <1>5 DEF Flush
  <2> QED
    BY <1>1, <1>2, <1>5, <2>1, MainMoves
    DEF Flush, LoggerTypeOK, LogStep, StepsInOrder
<1>6. CASE Drop(Main)
  BY <1>1, <1>2, <1>6, MainMoves DEF Drop, LoggerTypeOK, LogStep, StepsInOrder
<1>7. CASE Reset(Main)
  BY <1>1, <1>2, <1>7, MainMoves DEF Reset, LoggerTypeOK, LogStep, StepsInOrder
<1>8. CASE Close(Main)
  BY <1>1, <1>2, <1>8, MainMoves DEF Close, LoggerTypeOK, LogStep, StepsInOrder
<1> QED
  BY <1>3, <1>4, <1>5, <1>6, <1>7, <1>8 DEF LoggerSteps

\* Every pool is told from no pool.
LEMMA MakesPool ==
  ASSUME \/ \E text \in Texts : MakeFromText(text)
         \/ \E n \in Counts, enable \in BOOLEAN : MakeFromCounts(n, enable)
  PROVE  /\ pool' # NoPool /\ pool' \in Configs
         /\ validateConfigBasic(pool') /\ to_json(pool') # Garbage
         /\ Ready /\ pool = NoPool /\ balancer' \in {"none", "running"}
         /\ UNCHANGED <<loggerVars, mpc>>
<1>1. CASE \E text \in Texts : MakeFromText(text)
  <2>1. PICK text \in Texts : MakeFromText(text)
    BY <1>1
  <2>2. /\ Ready /\ pool = NoPool /\ Loads(text) /\ pool' = from_json(text)
        /\ UNCHANGED <<loggerVars, mpc>>
        /\ balancer' \in {"none", "running"}
    BY <2>1 DEF MakeFromText, Construct
  <2> QED
    BY <2>2, LoadsTyped, TokenAssumption DEF Loads
<1>2. CASE \E n \in Counts, enable \in BOOLEAN : MakeFromCounts(n, enable)
  <2>1. PICK n \in Counts, enable \in BOOLEAN : MakeFromCounts(n, enable)
    BY <1>2
  <2>2. /\ Ready /\ pool = NoPool /\ pool' = ConfigOfCounts(n, enable)
        /\ UNCHANGED <<loggerVars, mpc>>
        /\ balancer' \in {"none", "running"}
    BY <2>1 DEF MakeFromCounts, Construct
  <2> QED
    BY <2>2, CountsValid, TokenAssumption
<1> QED
  BY <1>1, <1>2

\* Every step of the program or of the balancer keeps the logger's invariant.
LEMMA LogInvNext == LogInv /\ [Next]_vars => LogInv'
<1> SUFFICES ASSUME LogInv, [Next]_vars PROVE LogInv'
  OBVIOUS
<1> USE DEF loggerVars
<1>1. /\ LoggerTypeOK /\ Modes /\ Exclusive /\ StepsInOrder
      /\ InitializedIsRegistered
      /\ LogThreads = {Main, Balancer}
  BY StartupAssumption DEF LogInv
<1>2. ASSUME UNCHANGED loggerVars, Modes', Exclusive' PROVE LogInv'
  BY <1>1, <1>2
  DEF LogInv, LoggerTypeOK, StepsInOrder, InitializedIsRegistered
<1>3. CASE UNCHANGED vars
  BY <1>1, <1>2, <1>3 DEF vars, Modes, Exclusive
<1>4. CASE \/ \E text \in Texts : MakeFromText(text)
           \/ \E n \in Counts, enable \in BOOLEAN : MakeFromCounts(n, enable)
  <2>1. /\ pool' # NoPool /\ Ready /\ pool = NoPool
        /\ balancer' \in {"none", "running"} /\ UNCHANGED <<loggerVars, mpc>>
    BY <1>4, MakesPool
  <2> QED
    BY <1>1, <1>2, <2>1 DEF Modes, Exclusive, Ready, Touching
<1>5. CASE DestroyPool
  BY <1>1, <1>2, <1>5 DEF DestroyPool, Modes, Exclusive, Ready, Touching
<1>6. CASE JoinBalancer
  BY <1>1, <1>2, <1>6 DEF JoinBalancer, Modes, Exclusive, Touching
<1>7. CASE BalancerLogs
  BY <1>7, BalancerKeeps
<1>8. CASE BalancerExits
  BY <1>1, <1>2, <1>8 DEF BalancerExits, Modes, Exclusive
<1>9. CASE \E name \in Names : InitializeLogger(name)
  BY <1>9, MainInitializes
<1>10. CASE ShutdownLogger
  BY <1>10, MainShutsDown
<1>11. CASE MainSteps
  BY <1>11, MainTouches, MainLogs DEF MainSteps
<1>12. CASE Exit
  <2>1. /\ lpc[Main] = "idle" /\ lpc[Balancer] = "idle" /\ balancer = "none"
        /\ UNCHANGED <<log_name, registry, lpc, pool, balancer>> /\ mpc' = "over"
    BY <1>1, <1>12 DEF Exit, Ready, Destroy, Exclusive
  <2>2. CASE initialized
    BY <1>1, <1>12, <2>1, <2>2
    DEF Exit, Destroy, LogInv, LoggerTypeOK, Modes, Exclusive, StepsInOrder, Touching,
        InitializedIsRegistered
  <2>3. CASE ~initialized
    BY <1>1, <1>12, <2>1, <2>3
    DEF Exit, Destroy, LogInv, LoggerTypeOK, Modes, Exclusive, StepsInOrder, Touching,
        InitializedIsRegistered
  <2> QED
    BY <2>2, <2>3
<1> QED
  BY <1>3, <1>4, <1>5, <1>6, <1>7, <1>8, <1>9, <1>10, <1>11, <1>12 DEF Next

\* Nothing assigns logger_ but the program's thread, in initialize, in shutdown or
\* as it runs the destructor.
LEMMA MovesLogger ==
  ASSUME [Next]_vars, logger' # logger
  PROVE  lpc[Main] \in {"idle", "sinks", "reset"}
<1> USE DEF loggerVars
<1>1. CASE \/ \E text \in Texts : MakeFromText(text)
           \/ \E n \in Counts, enable \in BOOLEAN : MakeFromCounts(n, enable)
  BY <1>1 DEF MakeFromText, MakeFromCounts, Construct
<1>2. CASE DestroyPool \/ JoinBalancer \/ BalancerExits
  BY <1>2 DEF DestroyPool, JoinBalancer, BalancerExits
<1>3. CASE BalancerLogs
  BY <1>3 DEF BalancerLogs, LogCall, TestLogger, TestLevel, Write
<1>4. CASE (\E name \in Names : InitializeLogger(name)) \/ ShutdownLogger
  BY <1>4 DEF InitializeLogger, ShutdownLogger, Initialize, Shutdown
<1>5. CASE MainSteps
  BY <1>5 DEF MainSteps, LoggerSteps, MakeSinks, Register, Flush, Drop, Reset, Close,
              LogCall, TestLogger, TestLevel, Write
<1>6. CASE Exit
  BY <1>6 DEF Exit, Ready
<1> QED
  BY <1>1, <1>2, <1>3, <1>4, <1>5, <1>6 DEF Next, vars

\* A pool keeps the configuration it was constructed with until it is gone.
LEMMA PoolInvNext == PoolInv /\ [Next]_vars => PoolInv'
<1> SUFFICES ASSUME PoolInv, [Next]_vars PROVE PoolInv'
  OBVIOUS
<1>1. CASE \/ \E text \in Texts : MakeFromText(text)
           \/ \E n \in Counts, enable \in BOOLEAN : MakeFromCounts(n, enable)
  BY <1>1, MakesPool DEF PoolInv
<1>2. CASE JoinBalancer
  BY <1>2 DEF JoinBalancer, PoolInv
<1>3. CASE UNCHANGED pool
  BY <1>3 DEF PoolInv
<1> QED
  BY <1>1, <1>2, <1>3
  DEF Next, vars, DestroyPool, BalancerLogs, BalancerExits, InitializeLogger,
      ShutdownLogger, MainSteps, Exit

-----------------------------------------------------------------------------
(***************************************************************************)
(* The theorems                                                            *)
(***************************************************************************)

\* The invariants of the logger and of the pool's configuration hold in every
\* state, however the program mixes its calls.
THEOREM Invariance == Spec => [](LogInv /\ PoolInv)
<1>1. Init => LogInv /\ PoolInv
  BY LogInvInit DEF Init, PoolInv
<1>2. LogInv /\ PoolInv /\ [Next]_vars => (LogInv /\ PoolInv)'
  BY LogInvNext, PoolInvNext
<1> QED
  BY <1>1, <1>2, PTL DEF Spec

\* The logger's state, the pool's configuration and the program's place in its
\* calls always have their types.
THEOREM Typing == Spec => []TypeOK
<1>1. LogInv /\ PoolInv => TypeOK
  <2>1. ASSUME pool \in Configs
        PROVE  /\ DOMAIN pool = DOMAIN Default
               /\ {pool.core_threads, pool.max_threads, pool.max_queue_size,
                   pool.task_limit, pool.consecutive_idle_count} \subseteq Size
               /\ pool.policy \in QueueFullPolicy
    BY <2>1 DEF Configs, Default
  <2> QED
    BY <2>1 DEF LogInv, PoolInv, Modes, TypeOK
<1> QED
  BY <1>1, Invariance, PTL

\* A step that takes logger_ away or puts another one in its place finds no log
\* call half way, unless the pool is there and its balancer was not joined yet: the
\* one race the lock-free Logger leaves, which no order of calls widens.
THEOREM LoggerIsThere == Spec => NoLogCallLosesLogger
<1>1. ASSUME LogInv, [Next]_vars, logger # NoLogger, logger' # logger
      PROVE  \/ balancer \in {"running", "told"}
             \/ \A t \in LogThreads : lpc[t] \notin {"level", "write"}
  <2>1. /\ balancer \in {"running", "told"} \/ lpc[Balancer] = "idle"
        /\ LogThreads = {Main, Balancer}
    BY <1>1, StartupAssumption DEF LogInv, Modes, Exclusive
  <2>2. lpc[Main] \notin {"level", "write"}
    BY <1>1, MovesLogger
  <2> QED
    BY <2>1, <2>2
<1>2. LogInv /\ [Next]_vars =>
        [logger # NoLogger /\ logger' # logger =>
           \/ balancer \in {"running", "told"}
           \/ \A t \in LogThreads : lpc[t] \notin {"level", "write"}]_vars
  BY <1>1
<1> QED
  BY <1>2, Invariance, PTL DEF Spec, NoLogCallLosesLogger

\* An initialized Logger holds the logger of its own configuration, registered
\* with spdlog under the name shutdown drops, whatever initializations failed or
\* came too often before.
THEOREM InitializedMeansRegistered == Spec => []InitializedIsRegistered
<1>1. LogInv => InitializedIsRegistered
  BY DEF LogInv
<1> QED
  BY <1>1, Invariance, PTL

\* The configuration of every pool, read from a text or made from two numbers,
\* survives to_json and from_json, and validateConfigBasic accepts it again.
THEOREM SavingLosesNothing == Spec => []SavedConfigLoads
<1>1. PoolInv => SavedConfigLoads
  BY RoundTrip DEF PoolInv, SavedConfigLoads
<1> QED
  BY <1>1, Invariance, PTL

=============================================================================

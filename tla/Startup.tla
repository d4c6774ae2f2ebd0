------------------------------ MODULE Startup ------------------------------
(***************************************************************************)
(* A program around the pool: it sets up the logger, loads a configuration *)
(* and builds a pool from it, and takes both down again, in any order and  *)
(* as often as it likes.  Of the pool, its configuration and its balancer  *)
(* are kept: of its threads only the balancer logs by itself               *)
(* (module DynamicThreads has the rest).                                   *)
(*                                                                         *)
(* The pool may live through both, balancer and all, as it does in the     *)
(* test fixtures: DynamicThreadTest has a pool with a balancer for a       *)
(* member, initializes the logger after the pool was constructed and shuts *)
(* it down before the pool is destroyed.  Logger has no lock, so that a    *)
(* log call of the balancer may lose its logger then; the properties say   *)
(* when it may not.                                                        *)
(***************************************************************************)
EXTENDS Config, Logger

CONSTANTS
  Main,       \* the thread of the program
  Balancer,   \* load_balancer_ of the pool
  Texts,      \* configuration texts the program loads
  Counts,     \* thread counts it constructs pools with
  NoPool      \* the program has no pool

ASSUME StartupAssumption ==
  /\ LogThreads = {Main, Balancer}
  /\ Main # Balancer
  /\ Counts \subseteq Size

\* A value in a text has the type its key wants, or it is Wrong.
ASSUME TextAssumption ==
  \A text \in Texts \ {Garbage} : \A key \in DOMAIN text :
    text[key] \in {Wrong} \cup
      (IF key = "queue_full_policy" THEN STRING
       ELSE IF key = "enable_dynamic_thread" THEN BOOLEAN ELSE Int)

\* A configuration is no missing pool, and it is written as a text that is JSON.
ASSUME TokenAssumption ==
  /\ \A text \in Texts : Loads(text) =>
       from_json(text) # NoPool /\ to_json(from_json(text)) # Garbage
  /\ \A n \in Counts, enable \in BOOLEAN :
       /\ ConfigOfCounts(n, enable) # NoPool
       /\ to_json(ConfigOfCounts(n, enable)) # Garbage

VARIABLES
  pool,     \* config_ of the pool
  mpc,      \* where the program is
  balancer  \* "none", "running", "told" to exit, "exited"

vars == <<loggerVars, pool, mpc, balancer>>

Init ==
  /\ LoggerInit
  /\ pool = NoPool
  /\ mpc = "run"
  /\ balancer = "none"

\* The program is between two calls.
Ready == mpc = "run" /\ lpc[Main] = "idle"

-----------------------------------------------------------------------------
Construct(c) ==
  /\ pool' = c
  /\ balancer' = IF c.enable_dynamic_thread THEN "running" ELSE "none"
  /\ UNCHANGED <<loggerVars, mpc>>

\* makeThreadPool of a file; a text that does not load throws.
MakeFromText(text) ==
  /\ Ready
  /\ pool = NoPool
  /\ Loads(text)
  /\ Construct(from_json(text))

\* The constructor with counts validates nothing.
MakeFromCounts(thread_count, enable) ==
  /\ Ready
  /\ pool = NoPool
  /\ Construct(ConfigOfCounts(thread_count, enable))

\* ~ThreadPool logs its states and joins the balancer in between.
DestroyPool ==
  /\ Ready
  /\ pool # NoPool
  /\ mpc' = "join"
  /\ balancer' = IF balancer = "running" THEN "told" ELSE balancer
  /\ UNCHANGED <<loggerVars, pool>>

\* Leaving the balancer to end by itself
JoinBalancer_Detached ==
  /\ mpc = "join"
  /\ lpc[Main] = "idle"
  /\ balancer' = "none"
  /\ pool' = NoPool
  /\ mpc' = "run"
  /\ UNCHANGED loggerVars

JoinBalancer ==
  /\ mpc = "join"
  /\ lpc[Main] = "idle"
  /\ balancer \in {"none", "exited"}
  /\ balancer' = "none"
  /\ pool' = NoPool
  /\ mpc' = "run"
  /\ UNCHANGED loggerVars

\* loadCheck and cleanFinishedThread log.
BalancerLogs ==
  /\ balancer \in {"running", "told"} \/ lpc[Balancer] # "idle"
  /\ LogCall(Balancer)
  /\ UNCHANGED <<pool, mpc, balancer>>

BalancerExits ==
  /\ balancer = "told"
  /\ lpc[Balancer] = "idle"
  /\ balancer' = "exited"
  /\ UNCHANGED <<loggerVars, pool, mpc>>

-----------------------------------------------------------------------------
\* Neither call asks whether a pool is there, or whether its balancer runs.
InitializeLogger(name) ==
  /\ Ready
  /\ Initialize(Main, name)
  /\ UNCHANGED <<pool, mpc, balancer>>

ShutdownLogger ==
  /\ Ready
  /\ Shutdown(Main)
  /\ UNCHANGED <<pool, mpc, balancer>>

MainSteps ==
  /\ LoggerSteps(Main) \/ (mpc # "over" /\ LogCall(Main))
  /\ UNCHANGED <<pool, mpc, balancer>>

Exit ==
  /\ Ready
  /\ pool = NoPool
  /\ Destroy(Main)
  /\ mpc' = "over"
  /\ UNCHANGED <<pool, balancer>>

Next ==
  \/ \E text \in Texts : MakeFromText(text)
  \/ \E n \in Counts, enable \in BOOLEAN : MakeFromCounts(n, enable)
  \/ DestroyPool \/ JoinBalancer \/ BalancerLogs \/ BalancerExits
  \/ \E name \in Names : InitializeLogger(name)
  \/ ShutdownLogger \/ MainSteps \/ Exit

Spec == Init /\ [][Next]_vars

-----------------------------------------------------------------------------
\* The types of the variables; a pool's configuration has sizes that fit.
TypeOK ==
  /\ LoggerTypeOK
  /\ pool # NoPool =>
       /\ DOMAIN pool = DOMAIN Default
       /\ {pool.core_threads, pool.max_threads, pool.max_queue_size,
           pool.task_limit, pool.consecutive_idle_count} \subseteq Size
       /\ pool.policy \in QueueFullPolicy
  /\ mpc \in {"run", "join", "over"}
  /\ balancer \in {"none", "running", "told", "exited"}

\* The configuration of a pool survives being saved as JSON and loaded again:
\* it is accepted, and nothing is lost or read in another unit.
SavedConfigLoads ==
  pool # NoPool =>
    LET saved == to_json(pool)
    IN Loads(saved) /\ from_json(saved) = pool

\* A log call that is past its test of logger_ keeps its logger: initialize,
\* shutdown and the destructor of the Logger take it away or put another one in
\* its place only when nobody is half way through a log call, but for the
\* balancer of a pool that is still there.  In particular ~ThreadPool has waited
\* for the balancer's last one.
NoLogCallLosesLogger ==
  [][logger # NoLogger /\ logger' # logger =>
       \/ balancer \in {"running", "told"}
       \/ \A t \in LogThreads : lpc[t] \notin {"level", "write"}]_vars

=============================================================================

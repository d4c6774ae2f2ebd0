------------------------------- MODULE Logger -------------------------------
(***************************************************************************)
(* threadpool::Logger, the logger every LOG_ macro goes to, and the part   *)
(* of spdlog's registry it relies on (src/logger.cpp, include/logger.h).   *)
(*                                                                         *)
(* Nothing here takes a lock: logger_ is tested, asked for its level and   *)
(* used in three steps, between which another thread may reset it or put   *)
(* another one in its place.  What a call does that has lost its logger is *)
(* undefined in C++; here it goes on, and the properties are about whether *)
(* it can come to that.  A logger is known by its name; sinks, patterns    *)
(* and levels are left out.                                                *)
(***************************************************************************)
EXTENDS Naturals

CONSTANTS
  LogThreads, \* threads that log
  Names,      \* LoggerConfig::name
  Foreign,    \* names the application registers with spdlog itself
  NoLogger    \* an empty logger_

ASSUME LoggerAssumption ==
  /\ Foreign \subseteq Names
  /\ NoLogger \notin Names

LogStep == {"idle", "level", "write", "sinks", "register", "flush", "drop", "reset", "close"}

VARIABLES
  logger,       \* logger_
  log_name,     \* config_.name
  initialized,  \* initialized_
  registry,     \* the names spdlog knows
  lpc           \* where each thread is in a call of Logger

loggerVars == <<logger, log_name, initialized, registry, lpc>>

LoggerInit ==
  /\ logger = NoLogger
  /\ log_name \in Names
  /\ initialized = FALSE
  /\ registry = Foreign
  /\ lpc = [t \in LogThreads |-> "idle"]

LogGoes(t, step) == lpc' = [lpc EXCEPT ![t] = step]

-----------------------------------------------------------------------------
(***************************************************************************)
(* trace, debug, info, warn, error and critical                            *)
(***************************************************************************)

TestLogger(t) ==
  /\ lpc[t] = "idle"
  /\ LogGoes(t, IF logger = NoLogger THEN "idle" ELSE "level")
  /\ UNCHANGED <<logger, log_name, initialized, registry>>

\* should_log
TestLevel(t) ==
  /\ lpc[t] = "level"
  /\ \E logs \in BOOLEAN : LogGoes(t, IF logs THEN "write" ELSE "idle")
  /\ UNCHANGED <<logger, log_name, initialized, registry>>

Write(t) ==
  /\ lpc[t] = "write"
  /\ LogGoes(t, "idle")
  /\ UNCHANGED <<logger, log_name, initialized, registry>>

LogCall(t) == TestLogger(t) \/ TestLevel(t) \/ Write(t)

-----------------------------------------------------------------------------
(***************************************************************************)
(* initialize and shutdown                                                 *)
(***************************************************************************)

\* Taking the new configuration before the test
Initialize_ConfigFirst(t, name) ==
  /\ lpc[t] = "idle"
  /\ log_name' = name
  /\ LogGoes(t, IF initialized THEN "idle" ELSE "sinks")
  /\ UNCHANGED <<logger, initialized, registry>>

\* A second call returns true and changes nothing.
Initialize(t, name) ==
  /\ lpc[t] = "idle"
  /\ IF initialized
     THEN UNCHANGED <<log_name, lpc>>
     ELSE log_name' = name /\ LogGoes(t, "sinks")
  /\ UNCHANGED <<logger, initialized, registry>>

\* The directory or the file may not be to be had: initialize returns false.
MakeSinks(t) ==
  /\ lpc[t] = "sinks"
  /\ \/ LogGoes(t, "idle") /\ UNCHANGED logger
     \/ LogGoes(t, "register") /\ logger' = log_name
  /\ UNCHANGED <<log_name, initialized, registry>>

\* register_logger throws if the name is taken; logger_ stays as it is.
Register(t) ==
  /\ lpc[t] = "register"
  /\ IF log_name \in registry
     THEN UNCHANGED <<registry, initialized>>
     ELSE registry' = registry \cup {log_name} /\ initialized' = TRUE
  /\ LogGoes(t, "idle")
  /\ UNCHANGED <<logger, log_name>>

Shutdown(t) ==
  /\ lpc[t] = "idle"
  /\ LogGoes(t, IF ~initialized THEN "idle"
                ELSE IF logger # NoLogger THEN "flush" ELSE "close")
  /\ UNCHANGED <<logger, log_name, initialized, registry>>

\* A failure to write ends the shutdown before it changed anything.
Flush(t) ==
  /\ lpc[t] = "flush"
  /\ \E fails \in BOOLEAN : LogGoes(t, IF fails THEN "idle" ELSE "drop")
  /\ UNCHANGED <<logger, log_name, initialized, registry>>

Drop(t) ==
  /\ lpc[t] = "drop"
  /\ registry' = registry \ {log_name}
  /\ LogGoes(t, "reset")
  /\ UNCHANGED <<logger, log_name, initialized>>

Reset(t) ==
  /\ lpc[t] = "reset"
  /\ logger' = NoLogger
  /\ LogGoes(t, "close")
  /\ UNCHANGED <<log_name, initialized, registry>>

\* spdlog::shutdown forgets every logger, the application's own too.
Close(t) ==
  /\ lpc[t] = "close"
  /\ registry' = {}
  /\ initialized' = FALSE
  /\ LogGoes(t, "idle")
  /\ UNCHANGED <<logger, log_name>>

\* The destructor, after main: spdlog may be gone already and is left alone.
Destroy(t) ==
  /\ lpc[t] = "idle"
  /\ IF initialized THEN logger' = NoLogger /\ initialized' = FALSE
     ELSE UNCHANGED <<logger, initialized>>
  /\ UNCHANGED <<log_name, registry, lpc>>

LoggerSteps(t) ==
  \/ MakeSinks(t) \/ Register(t)
  \/ Flush(t) \/ Drop(t) \/ Reset(t) \/ Close(t)

-----------------------------------------------------------------------------
LoggerTypeOK ==
  /\ logger \in Names \cup {NoLogger}
  /\ log_name \in Names
  /\ initialized \in BOOLEAN
  /\ registry \subseteq Names
  /\ lpc \in [LogThreads -> LogStep]

\* While the logger says it is initialized and nobody shuts it down, it has a
\* logger, which spdlog knows under the name shutdown will drop.
InitializedIsRegistered ==
  initialized /\ (\A t \in LogThreads : lpc[t] \notin {"reset", "close"}) =>
    logger = log_name /\ logger \in registry

=============================================================================

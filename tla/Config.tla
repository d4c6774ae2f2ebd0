------------------------------- MODULE Config -------------------------------
(***************************************************************************)
(* threadpool::Config: defaults, reading from JSON, writing to JSON and    *)
(* validation (src/thread_pool_config.cpp, include/thread_pool_config.h).  *)
(*                                                                         *)
(* A JSON object is a function from the keys it has to their values.       *)
(* Factors are in percent.  That the text is no JSON, or holds a value of  *)
(* another type, is all that is kept of the JSON library.                  *)
(***************************************************************************)
EXTENDS Integers

CONSTANTS
  hardware_concurrency, \* std::thread::hardware_concurrency()
  SizeMod,              \* a size_t holds 0 .. SizeMod - 1; it has 16 bits or more
  Wrong,                \* a JSON value of another type than the key wants
  Garbage               \* text that is not JSON

ASSUME ConfigAssumption ==
  /\ hardware_concurrency \in Nat
  /\ SizeMod \in Nat /\ 65536 <= SizeMod
  /\ hardware_concurrency < SizeMod
  /\ Wrong \notin Int \cup BOOLEAN \cup {"BLOCKING", "OVERWRITE", "DISCARD"}

QueueFullPolicy == {"BLOCKING", "OVERWRITE", "DISCARD"}
Size == 0 .. SizeMod - 1

Default ==
  [core_threads |-> 4,
   max_threads |-> hardware_concurrency,
   max_queue_size |-> 1000,
   policy |-> "BLOCKING",
   balancer_check_interval |-> 500,
   expand_factor |-> 80,
   remove_factor |-> 30,
   task_limit |-> 24,
   avg_task_threshold |-> 2,
   idle_time_threshold |-> 2000,
   consecutive_idle_count |-> 3,
   enable_dynamic_thread |-> TRUE]

-----------------------------------------------------------------------------
Field(j, key, default) == IF key \in DOMAIN j THEN j[key] ELSE default

\* Keeping the sign
SizeField_Signed(j, key, default) == Field(j, key, default)

\* get<std::size_t>: a negative number wraps.
SizeField(j, key, default) == Field(j, key, default) % SizeMod

\* A time without a unit is in milliseconds and comes first; with both units,
\* the seconds are read last.
Interval(j, plain, ms, seconds, default) ==
  IF plain \in DOMAIN j THEN j[plain]
  ELSE IF seconds \in DOMAIN j THEN 1000 * j[seconds]
  ELSE Field(j, ms, default)

from_json(j) ==
  [core_threads |-> SizeField(j, "core_threads", Default.core_threads),
   max_threads |-> SizeField(j, "max_threads", Default.max_threads),
   max_queue_size |-> SizeField(j, "max_queue_size", Default.max_queue_size),
   policy |-> Field(j, "queue_full_policy", Default.policy),
   balancer_check_interval |->
     Interval(j, "balancer_check_interval", "balancer_check_interval_ms",
              "balancer_check_interval_seconds", Default.balancer_check_interval),
   expand_factor |-> Field(j, "expand_factor", Default.expand_factor),
   remove_factor |-> Field(j, "remove_factor", Default.remove_factor),
   task_limit |-> SizeField(j, "task_limit", Default.task_limit),
   avg_task_threshold |-> Field(j, "avg_task_threshold", Default.avg_task_threshold),
   idle_time_threshold |->
     Interval(j, "idle_time_threshold", "idle_time_threshold_ms",
              "idle_time_threshold_seconds", Default.idle_time_threshold),
   consecutive_idle_count |->
     SizeField(j, "consecutive_idle_count", Default.consecutive_idle_count),
   enable_dynamic_thread |->
     Field(j, "enable_dynamic_thread", Default.enable_dynamic_thread)]

\* Every value under its key, the times under the keys given
ToJson(c, interval, idle_time) ==
  [key \in {"core_threads", "max_threads", "max_queue_size", "queue_full_policy",
            "expand_factor", "remove_factor", "task_limit", "avg_task_threshold",
            "consecutive_idle_count", "enable_dynamic_thread", interval, idle_time} |->
     CASE key = "queue_full_policy" -> c.policy
       [] key = interval -> c.balancer_check_interval
       [] key = idle_time -> c.idle_time_threshold
       [] OTHER -> c[key]]

\* Writing milliseconds under a key for seconds
to_json_Seconds(c) == ToJson(c, "balancer_check_interval_ms", "idle_time_threshold_seconds")

to_json(c) == ToJson(c, "balancer_check_interval_ms", "idle_time_threshold_ms")

-----------------------------------------------------------------------------
\* Keys that from_json passes over
Unread(j) ==
  (IF "balancer_check_interval" \in DOMAIN j
   THEN {"balancer_check_interval_ms", "balancer_check_interval_seconds"} ELSE {})
  \cup
  (IF "idle_time_threshold" \in DOMAIN j
   THEN {"idle_time_threshold_ms", "idle_time_threshold_seconds"} ELSE {})

\* from_json finds every value of the type it asks for, and a known policy.
WellTyped(j) ==
  /\ \A key \in DOMAIN j \ Unread(j) : j[key] # Wrong
  /\ Field(j, "queue_full_policy", Default.policy) \in QueueFullPolicy

validateConfigBasic(c) ==
  /\ c.core_threads # 0
  /\ c.max_threads >= c.core_threads
  /\ c.max_queue_size # 0
  /\ c.enable_dynamic_thread =>
       /\ 0 < c.expand_factor /\ c.expand_factor <= 100
       /\ 0 <= c.remove_factor /\ c.remove_factor < c.expand_factor
       /\ c.consecutive_idle_count # 0

\* loadConfigFromString gives a Config; otherwise it throws.
Loads(text) == text # Garbage /\ WellTyped(text) /\ validateConfigBasic(from_json(text))

\* The Config of a pool that was given two numbers and a flag instead
ConfigOfCounts(thread_count, enable) ==
  [Default EXCEPT
     !.max_threads = IF thread_count >= Default.core_threads THEN thread_count
                     ELSE Default.core_threads,
     !.enable_dynamic_thread = enable]

=============================================================================

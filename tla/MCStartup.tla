----------------------------- MODULE MCStartup -----------------------------
(***************************************************************************)
(* Instances of Startup for TLC.                                           *)
(***************************************************************************)
EXTENDS Startup, TLC

\* For each key the values at and around the limits of the validation
Values ==
  [core_threads |-> {0, 1, 9, -1},
   max_threads |-> {0, 4, 9},
   max_queue_size |-> {0, 1, -1},
   queue_full_policy |-> {"DISCARD", "UNKNOWN"},
   balancer_check_interval |-> {7},
   balancer_check_interval_ms |-> {20, Wrong},
   balancer_check_interval_seconds |-> {3},
   expand_factor |-> {0, 30, 100, 101},
   remove_factor |-> {-1, 0, 80},
   task_limit |-> {0},
   avg_task_threshold |-> {5},
   idle_time_threshold |-> {7},
   idle_time_threshold_ms |-> {20},
   idle_time_threshold_seconds |-> {3},
   consecutive_idle_count |-> {0, 1},
   enable_dynamic_thread |-> {FALSE, Wrong}]

\* The objects with at most two of the keys, and a text that is none
Single == UNION {{k :> v : v \in Values[k]} : k \in DOMAIN Values}
SomeTexts == {a @@ b : a, b \in Single} \cup {<<>>, Garbage}

=============================================================================

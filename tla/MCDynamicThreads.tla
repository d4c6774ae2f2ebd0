-------------------------- MODULE MCDynamicThreads --------------------------
(***************************************************************************)
(* Instances of DynamicThreads for TLC.                                    *)
(***************************************************************************)
EXTENDS DynamicThreads

\* Small thresholds, so that one busy worker is a load to expand for and an
\* idle pool one to shrink for.
ConfigOf(max) ==
  [Default EXCEPT !.core_threads = 1, !.max_threads = max, !.max_queue_size = 1,
                  !.task_limit = 2, !.consecutive_idle_count = 1]

\* One slot to add and remove
SmallConfig == ConfigOf(2)

\* Two of them, so that a thread may be wanted while one is still to be joined
TwoSlotConfig == ConfigOf(3)

=============================================================================

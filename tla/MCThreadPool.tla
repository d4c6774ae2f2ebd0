---------------------------- MODULE MCThreadPool ----------------------------
(***************************************************************************)
(* Instances of ThreadPool for TLC.                                        *)
(***************************************************************************)
EXTENDS ThreadPool, TLC

\* Workers and tasks are interchangeable, and so are clients that are only
\* submitters or only controllers: safety is checked up to renaming them.
Renamings ==
  Permutations(Workers) \cup Permutations(Tasks)
    \cup Permutations(Submitters \ Controllers)
    \cup Permutations(Controllers \ Submitters)

=============================================================================

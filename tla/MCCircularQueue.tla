-------------------------- MODULE MCCircularQueue --------------------------
(***************************************************************************)
(* An instance of CircularQueue for TLC.                                   *)
(***************************************************************************)
EXTENDS CircularQueue, TLC

\* The queues are interchangeable.
Renamings == Permutations(Queues)

=============================================================================

------------------------------- MODULE MCPool -------------------------------
(***************************************************************************)
(* A pool of a few threads.                                                *)
(***************************************************************************)
EXTENDS Pool, TLC

\* Sound for the runs without liveness: threads and nodes are only compared.
MCSymmetry == Permutations(Threads) \cup Permutations(Nodes)

=============================================================================

--------------------------- MODULE MCListErase ---------------------------
(***************************************************************************)
(* Threads that push, walk and erase on a list of a few nodes, whose       *)
(* storage is used again.                                                  *)
(***************************************************************************)
EXTENDS ListErase

=============================================================================

--------------------------- MODULE MCArenaLocks ---------------------------
(***************************************************************************)
(* An arena of a few chunks: one thread has it, others free blocks of it   *)
(* or wait to take it over.                                                *)
(***************************************************************************)
EXTENDS ArenaLocks

=============================================================================

------------------------------ MODULE MCArena ------------------------------
(***************************************************************************)
(* An arena with room for two chunks of two blocks; blocks are two bytes,  *)
(* every chunk has a header before it, and a block of another arena lies   *)
(* between the chunks.                                                     *)
(***************************************************************************)
EXTENDS Arena, TLC

MCTwoChunks == {3, 14}
MCForeign == {11}

\* The client's variables are interchangeable.
MCSymmetry == Permutations(Handles)

=============================================================================

------------------------------ MODULE MCChunk ------------------------------
(***************************************************************************)
(* A chunk of MAX_BLOCKS blocks of two bytes at address 20, in an address  *)
(* space of 64 bytes.  The other chunks lie on both sides of it, so that   *)
(* the distance ptr - begin_ is both positive and a wrapped negative.      *)
(***************************************************************************)
EXTENDS Chunk

MCOutside == {3, 8, 42, 55}

=============================================================================

----------------------------- MODULE MCArenaTree -----------------------------
(***************************************************************************)
(* Arenas of four and of five chunks, each with a header before it.        *)
(***************************************************************************)
EXTENDS ArenaTree

MCFourChunks == {3, 14, 27, 38}
MCFiveChunks == {3, 14, 27, 38, 49}
MCForeign == {11}

MCRanges == { RangeOf(c) : c \in Addresses }
MCKeys == Pointer \cup Foreign

\* What follows when an arena of more chunks than that has one that took in a
\* pointer of another is left to MCArena.
MCTaintedChunks == 1

MCFewTainted == tainted # {} => Cardinality(allocated) <= MCTaintedChunks

=============================================================================

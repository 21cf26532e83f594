----------------------------- MODULE MCRangeMap -----------------------------
(***************************************************************************)
(* Five ranges in a row, one that lies inside the second of them and one   *)
(* that overlaps the third and the fourth.                                 *)
(***************************************************************************)
EXTENDS RangeMap

MCRanges ==
  { [min |-> 0, max |-> 2],   [min |-> 4, max |-> 7],   [min |-> 9, max |-> 11],
    [min |-> 13, max |-> 15], [min |-> 17, max |-> 18],
    [min |-> 5, max |-> 6],   [min |-> 10, max |-> 14] }

MCKeys == 0 .. 19

=============================================================================

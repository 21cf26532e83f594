------------------------------ MODULE MCObject ------------------------------
(***************************************************************************)
(* Two threads, a word of eight bytes, and two objects of neighbouring     *)
(* small sizes, one of which may be too large for a pool.                  *)
(***************************************************************************)
EXTENDS Object, TLC

CONSTANTS o1, o2

MCSizes == o1 :> {104, 136} @@ o2 :> {112}

\* The least and the largest small object.
MCLimits == o1 :> {16} @@ o2 :> {128}

=============================================================================

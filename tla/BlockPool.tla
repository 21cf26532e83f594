------------------------------ MODULE BlockPool ------------------------------
(***************************************************************************)
(* What a chunk promises its client: a block that is handed out is one the *)
(* client does not hold.  Nothing is said of when a block that was given   *)
(* back is handed out again.                                               *)
(***************************************************************************)
CONSTANT Blocks

VARIABLE held    \* the blocks the client holds

Init == held = {}

Take(b) == b \notin held /\ held' = held \cup {b}

Give(b) == b \in held /\ held' = held \ {b}

Next == \E b \in Blocks : Take(b) \/ Give(b)

Spec == Init /\ [][Next]_held

=============================================================================

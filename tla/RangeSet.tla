------------------------------ MODULE RangeSet ------------------------------
(***************************************************************************)
(* What a range map promises its client: it is a set of ranges that all    *)
(* lie beside one another.  A range that lies inside a stored one, or      *)
(* around it, is not added.                                                *)
(***************************************************************************)
EXTENDS Integers

CONSTANTS
  Ranges,     \* ranges, [min |-> .., max |-> ..]
  Keys        \* keys that are looked up

VARIABLE stored

Beside(r, s) ==
  \/ r.min < s.min /\ r.max < s.max
  \/ s.min < r.min /\ s.max < r.max

Holds(r, key) == r.min <= key /\ key <= r.max

Init == stored = {}

Insert(r) ==
  /\ \A s \in stored : Beside(r, s)
  /\ stored' = stored \cup {r}

\* Removes a range that holds the key.
Erase(key) ==
  \E r \in stored : Holds(r, key) /\ stored' = stored \ {r}

Clear == stored' = {}

Next ==
  \/ \E r \in Ranges : Insert(r)
  \/ \E key \in Keys : Erase(key)
  \/ Clear

Spec == Init /\ [][Next]_stored

=============================================================================

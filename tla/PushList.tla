------------------------------- MODULE PushList -------------------------------
(***************************************************************************)
(* What list (include/lockfreelist.hpp) promises to the pool: elements are *)
(* pushed one at a time, and an iterator that stands on an element moves   *)
(* to the one pushed just before it, so that a walk from begin() sees the  *)
(* elements that were in the list when it began, all of them and no other, *)
(* newest first, whatever is pushed meanwhile.  Elements go, one of them or *)
(* all, while no walk is going on.                                         *)
(***************************************************************************)
EXTENDS Naturals, Sequences

CONSTANTS Threads, Nodes, NULL

VARIABLES
  list,    \* the elements, oldest first
  cursor   \* where the iterator of each thread stands, NULL at the end

Contents == { list[i] : i \in DOMAIN list }

Top == IF list = <<>> THEN NULL ELSE list[Len(list)]

Below(i) == IF i = 1 THEN NULL ELSE list[i - 1]

Init ==
  /\ list = <<>>
  /\ cursor = [t \in Threads |-> NULL]

Push ==
  /\ \E n \in Nodes \ Contents : list' = Append(list, n)
  /\ UNCHANGED cursor

Begin(t) ==
  /\ cursor' = [cursor EXCEPT ![t] = Top]
  /\ UNCHANGED list

Advance(t) ==
  /\ \E i \in DOMAIN list :
       /\ cursor[t] = list[i]
       /\ cursor' = [cursor EXCEPT ![t] = Below(i)]
  /\ UNCHANGED list

Stop(t) ==
  /\ cursor' = [cursor EXCEPT ![t] = NULL]
  /\ UNCHANGED list

\* Where no iterator can be left on an element that goes.
NoWalk == \A t \in Threads : cursor[t] = NULL

Erase ==
  /\ NoWalk
  /\ \E i \in DOMAIN list :
       list' = SubSeq(list, 1, i - 1) \o SubSeq(list, i + 1, Len(list))
  /\ UNCHANGED cursor

Clear ==
  /\ NoWalk
  /\ list' = <<>>
  /\ UNCHANGED cursor

Next == Push \/ Erase \/ Clear \/ \E t \in Threads : Begin(t) \/ Advance(t) \/ Stop(t)

Spec == Init /\ [][Next]_<<list, cursor>>

=============================================================================

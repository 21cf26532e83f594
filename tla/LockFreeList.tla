----------------------------- MODULE LockFreeList -----------------------------
(***************************************************************************)
(* list (include/lockfreelist.hpp) as the pool uses it: threads that push  *)
(* elements to the front and threads that walk the list, all at once.      *)
(* Every load, exchange and compare-and-exchange is a step of its own,     *)
(* taken in one total order: a node's next_ is written before the release  *)
(* of the compare-and-exchange that publishes it, and is read after an     *)
(* acquiring load of the head.                                             *)
(*                                                                         *)
(* erase(), clear() and the storage of the nodes are in ListErase, which   *)
(* extends this module: the pool erases nothing, and destroys the list     *)
(* when no thread uses it any more.                                        *)
(***************************************************************************)
EXTENDS Naturals, Sequences

CONSTANTS
  Threads,
  Nodes,     \* the nodes that may be created: a bound on the pushes
  NULL

ASSUME NullAssumption == NULL \notin Nodes

VARIABLES
  head,      \* head_
  next,      \* next_ of each node
  prev,      \* prev_ of each node
  pc,        \* where each thread is
  new_node,  \* locals of push_front
  old_head,
  cursor,    \* node_ of the iterator of a thread that walks
  order      \* history: the nodes in the order they got into the list

links == <<head, next, prev>>
vars == <<links, pc, new_node, old_head, cursor, order>>

\* "load" .. "cas": the next statement of push_front.  "walk": in a loop over
\* the list.
Points == {"idle", "load", "exchange_prev", "exchange_next", "cas", "walk"}

At(t, point) == pc[t] = point

Goto(t, point) == pc' = [pc EXCEPT ![t] = point]

Listed == { order[i] : i \in DOMAIN order }

Pushing == { t \in Threads : pc[t] \notin {"idle", "walk"} }

Init ==
  /\ head = NULL
  /\ next = [n \in Nodes |-> NULL]
  /\ prev = [n \in Nodes |-> NULL]
  /\ pc = [t \in Threads |-> "idle"]
  /\ new_node = [t \in Threads |-> NULL]
  /\ old_head = [t \in Threads |-> NULL]
  /\ cursor = [t \in Threads |-> NULL]
  /\ order = <<>>

-----------------------------------------------------------------------------
(***************************************************************************)
(* push_front()                                                            *)
(***************************************************************************)
\* create_node: storage nobody else has.
PushFront(t) ==
  /\ At(t, "idle")
  /\ \E n \in Nodes :
       /\ n \notin Listed
       /\ \A u \in Pushing : new_node[u] # n
       /\ new_node' = [new_node EXCEPT ![t] = n]
       /\ next' = [next EXCEPT ![n] = NULL]
       /\ prev' = [prev EXCEPT ![n] = NULL]
  /\ Goto(t, "load")
  /\ UNCHANGED <<head, old_head, cursor, order>>

LoadHead(t) ==
  /\ At(t, "load")
  /\ old_head' = [old_head EXCEPT ![t] = head]
  /\ Goto(t, IF head = NULL THEN "exchange_next" ELSE "exchange_prev")
  /\ UNCHANGED <<links, new_node, cursor, order>>

\* The old head points back to a node that is not in the list yet.
ExchangePrev(t) ==
  /\ At(t, "exchange_prev")
  /\ prev' = [prev EXCEPT ![old_head[t]] = new_node[t]]
  /\ Goto(t, "exchange_next")
  /\ UNCHANGED <<head, next, new_node, old_head, cursor, order>>

\* The new node linked to itself.
ExchangeNextToItself(t) ==
  /\ At(t, "exchange_next")
  /\ next' = [next EXCEPT ![new_node[t]] = new_node[t]]
  /\ Goto(t, "cas")
  /\ UNCHANGED <<head, prev, new_node, old_head, cursor, order>>

ExchangeNext(t) ==
  /\ At(t, "exchange_next")
  /\ next' = [next EXCEPT ![new_node[t]] = old_head[t]]
  /\ Goto(t, "cas")
  /\ UNCHANGED <<head, prev, new_node, old_head, cursor, order>>

\* The locals are gone.
Return(t) ==
  /\ Goto(t, "idle")
  /\ new_node' = [new_node EXCEPT ![t] = NULL]
  /\ old_head' = [old_head EXCEPT ![t] = NULL]

\* A store in the place of the compare-and-exchange.
StoreHead(t) ==
  /\ At(t, "cas")
  /\ head' = new_node[t]
  /\ order' = Append(order, new_node[t])
  /\ Return(t)
  /\ UNCHANGED <<next, prev, cursor>>

CasSucceeds(t) ==
  /\ At(t, "cas")
  /\ head = old_head[t]
  /\ head' = new_node[t]
  /\ order' = Append(order, new_node[t])
  /\ Return(t)
  /\ UNCHANGED <<next, prev, cursor>>

\* The compare-and-exchange is tried again at once, with the old head that has
\* failed.
CasFailsWithoutReload(t) ==
  /\ At(t, "cas")
  /\ Goto(t, "exchange_next")
  /\ UNCHANGED <<links, new_node, old_head, cursor, order>>

\* compare_exchange_weak may fail though the head has not moved.  It loads the
\* head into old_head, which the loop loads again.
CasFails(t) ==
  /\ At(t, "cas")
  /\ old_head' = [old_head EXCEPT ![t] = head]
  /\ Goto(t, "load")
  /\ UNCHANGED <<links, new_node, cursor, order>>

-----------------------------------------------------------------------------
(***************************************************************************)
(* for (it = cbegin(); it != cend(); ++it), left early by a break.         *)
(***************************************************************************)
WalkBegin(t) ==
  /\ At(t, "idle")
  /\ cursor' = [cursor EXCEPT ![t] = head]
  /\ Goto(t, "walk")
  /\ UNCHANGED <<links, new_node, old_head, order>>

WalkAdvance(t) ==
  /\ At(t, "walk")
  /\ cursor[t] # NULL
  /\ cursor' = [cursor EXCEPT ![t] = next[cursor[t]]]
  /\ UNCHANGED <<links, pc, new_node, old_head, order>>

\* The end of the list, or a break.
WalkEnd(t) ==
  /\ At(t, "walk")
  /\ cursor' = [cursor EXCEPT ![t] = NULL]
  /\ Goto(t, "idle")
  /\ UNCHANGED <<links, new_node, old_head, order>>

Step(t) ==
  \/ LoadHead(t) \/ ExchangePrev(t) \/ ExchangeNext(t)
  \/ CasSucceeds(t) \/ CasFails(t)
  \/ WalkAdvance(t)
  \/ cursor[t] = NULL /\ WalkEnd(t)

Next == \E t \in Threads : PushFront(t) \/ WalkBegin(t) \/ WalkEnd(t) \/ Step(t)

Spec == Init /\ [][Next]_vars

\* A compare-and-exchange that fails for no cause: the head is the old head.
FailsSpuriously(t) == CasFails(t) /\ head = old_head[t]

-----------------------------------------------------------------------------
\* What is in the list, or no node.
Reached == Listed \cup {NULL}

\* The types; and no thread gets at a node that is not in the list yet, but the
\* one that is about to push it: not through the head, a next() or an iterator.
TypeOK ==
  /\ order \in Seq(Nodes)
  /\ head \in Reached
  /\ next \in [Nodes -> Reached]
  /\ prev \in [Nodes -> Nodes \cup {NULL}]
  /\ pc \in [Threads -> Points]
  /\ new_node \in [Threads -> Nodes \cup {NULL}]
  /\ old_head \in [Threads -> Reached]
  /\ cursor \in [Threads -> Reached]

Top == IF order = <<>> THEN NULL ELSE order[Len(order)]

Below(i) == IF i = 1 THEN NULL ELSE order[i - 1]

(***************************************************************************)
(* No push is lost and none counts twice: from the head, next() leads      *)
(* through every node whose compare-and-exchange has succeeded, in the     *)
(* reverse of that order, down to NULL.                                    *)
(***************************************************************************)
NothingLost ==
  /\ head = Top
  /\ \A i \in DOMAIN order : next[order[i]] = Below(i)
  /\ \A i, j \in DOMAIN order : order[i] = order[j] => i = j

\* Two threads never build the same node, a thread that writes prev_ of the old
\* head has one, and what it publishes is its node in front of the old head.
PushersApart ==
  /\ \A t \in Pushing :
       /\ new_node[t] \in Nodes \ Listed
       /\ At(t, "exchange_prev") => old_head[t] # NULL
       /\ At(t, "cas") => next[new_node[t]] = old_head[t]
  /\ \A t, u \in Pushing : new_node[t] = new_node[u] => t = u

Promise == INSTANCE PushList WITH list <- order

(***************************************************************************)
(* The list behaves as PushList: every push takes effect at one instant    *)
(* and a walk is a walk over the list as it was when it began.             *)
(***************************************************************************)
PushListSpec == Promise!Spec

\* A walk ends, although elements are pushed while it goes on.
WalksEnd == \A t \in Threads : At(t, "walk") ~> At(t, "idle")

=============================================================================

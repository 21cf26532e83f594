------------------------------- MODULE ListErase -------------------------------
(***************************************************************************)
(* erase() and the destructor of list (include/lockfreelist.hpp), beside   *)
(* the pushes and walks of LockFreeList, and the storage of the nodes,     *)
(* which a later push may get again.                                       *)
(*                                                                         *)
(* No code of the repository calls erase(), and erase() itself checks      *)
(* nothing but the end() iterator and a NULL prev().  EraseSpec has a      *)
(* caller that keeps to MayErase, AtWillSpec one that erases where it      *)
(* likes.                                                                  *)
(***************************************************************************)
EXTENDS LockFreeList

ASSUME NoThreadAssumption == NULL \notin Threads

VARIABLES
  live,      \* the nodes that have storage
  raced,     \* history: nodes whose prev_ more than one push has written
  covered,   \* history: for each push, the nodes that have had another one in
             \* front of them since before it began
  eraser,    \* the thread in erase(), or NULL
  erase_pc,  \* its next statement
  victim,    \* node
  old_prev,  \* a local of do_erase_node
  it,        \* a local of do_destroy_list: the node it frees next
  doomed     \* history: the nodes the destructor has still to free

erasing == <<eraser, erase_pc, victim, old_prev>>
destroying == <<it, doomed>>
allVars == <<vars, live, raced, covered, erasing, destroying>>

EraseInit ==
  /\ Init
  /\ live = {}
  /\ raced = {}
  /\ covered = [t \in Threads |-> {}]
  /\ eraser = NULL
  /\ erase_pc = "none"
  /\ victim = NULL
  /\ old_prev = NULL
  /\ it = NULL
  /\ doomed = <<>>

EraseGoto(point) == erase_pc' = point

-----------------------------------------------------------------------------
(***************************************************************************)
(* erase()                                                                 *)
(***************************************************************************)
(***************************************************************************)
(* The node is neither the first, whose erasure would leave head_ at it,   *)
(* nor the last, whose next() is NULL.  Nobody else erases, and no         *)
(* iterator is in use.                                                     *)
(***************************************************************************)
Inner(n) == \E i \in 2 .. Len(order) - 1 : n = order[i]

Erase(t, n) ==
  /\ At(t, "idle")
  /\ eraser = NULL
  /\ Inner(n)
  /\ \A u \in Threads : ~ At(u, "walk")
  /\ victim' = n
  /\ old_prev' = prev[n]
  /\ eraser' = t
  /\ EraseGoto("keep_prev")
  /\ UNCHANGED <<vars, live, raced, covered, destroying>>

(***************************************************************************)
(* What a caller can see to: prev() of the node is the node that a walk    *)
(* shows in front of it, and every push under way has begun when some node *)
(* was in front of it already.  A caller that counts the calls of          *)
(* push_front() and the returns knows when the older ones are over.        *)
(***************************************************************************)
MayErase(n) ==
  /\ \E i \in 1 .. Len(order) - 1 : n = order[i] /\ prev[n] = order[i + 1]
  /\ \A t \in Pushing : n \in covered[t]

\* node->exchange_prev(old_prev): true, for there was a node in front.
KeepPrev ==
  /\ erase_pc = "keep_prev"
  /\ prev' = [prev EXCEPT ![victim] = old_prev]
  /\ EraseGoto("link_next")
  /\ UNCHANGED <<head, next, pc, new_node, old_head, cursor, order, live, raced,
                 covered, eraser, victim, old_prev, destroying>>

\* The next node keeps its prev_.
LinkNextNot ==
  /\ erase_pc = "link_next"
  /\ EraseGoto("link_prev")
  /\ UNCHANGED <<vars, live, raced, covered, eraser, victim, old_prev, destroying>>

\* The node is destroyed before its neighbours are linked.
LinkNextDestroyed ==
  /\ erase_pc = "link_next"
  /\ prev' = [prev EXCEPT ![next[victim]] = old_prev]
  /\ live' = live \ {victim}
  /\ EraseGoto("link_prev")
  /\ UNCHANGED <<head, next, pc, new_node, old_head, cursor, order, raced,
                 covered, eraser, victim, old_prev, destroying>>

\* do_insert_node: new_node->exchange_prev(prev) of the next node.
LinkNext ==
  /\ erase_pc = "link_next"
  /\ prev' = [prev EXCEPT ![next[victim]] = old_prev]
  /\ EraseGoto("link_prev")
  /\ UNCHANGED <<head, next, pc, new_node, old_head, cursor, order, live, raced,
                 covered, eraser, victim, old_prev, destroying>>

\* prev->exchange_next(new_node), by which the node is out of the list.
LinkPrev ==
  /\ erase_pc = "link_prev"
  /\ next' = [next EXCEPT ![old_prev] = next[victim]]
  /\ \E i \in DOMAIN order :
       /\ order[i] = victim
       /\ order' = SubSeq(order, 1, i - 1) \o SubSeq(order, i + 1, Len(order))
  /\ EraseGoto("destroy")
  /\ covered' = [t \in Threads |-> covered[t] \ {victim}]
  /\ UNCHANGED <<head, prev, pc, new_node, old_head, cursor, live, raced,
                 eraser, victim, old_prev, destroying>>

\* The storage is kept.
DestroyNodeNot ==
  /\ erase_pc = "destroy"
  /\ EraseGoto("none")
  /\ eraser' = NULL /\ victim' = NULL /\ old_prev' = NULL
  /\ UNCHANGED <<vars, live, raced, covered, destroying>>

\* What a node that is gone holds does not matter: it is set to NULL.
FreeNodes(gone) ==
  /\ live' = live \ gone
  /\ raced' = raced \ gone
  /\ next' = [n \in Nodes |-> IF n \in gone THEN NULL ELSE next[n]]
  /\ prev' = [n \in Nodes |-> IF n \in gone THEN NULL ELSE prev[n]]

DestroyNode ==
  /\ erase_pc = "destroy"
  /\ FreeNodes({victim})
  /\ EraseGoto("none")
  /\ eraser' = NULL /\ victim' = NULL /\ old_prev' = NULL
  /\ UNCHANGED <<head, pc, new_node, old_head, cursor, order, covered,
                 destroying>>

EraseStep == KeepPrev \/ LinkNext \/ LinkPrev \/ DestroyNode

-----------------------------------------------------------------------------
(***************************************************************************)
(* ~list(), when no thread uses the list; then a new list takes its place. *)
(***************************************************************************)
DestroyBegin ==
  /\ eraser = NULL
  /\ \A t \in Threads : At(t, "idle")
  /\ head # NULL
  /\ it' = head
  /\ head' = NULL
  /\ doomed' = order
  /\ order' = <<>>
  /\ UNCHANGED <<next, prev, pc, new_node, old_head, cursor, live, raced, covered,
                 erasing>>

DestroyNext ==
  /\ it # NULL
  /\ it' = next[it]
  /\ doomed' = SubSeq(doomed, 1, Len(doomed) - 1)
  /\ FreeNodes({it})
  /\ UNCHANGED <<head, pc, new_node, old_head, cursor, order, covered, erasing>>

-----------------------------------------------------------------------------
(***************************************************************************)
(* push_front() and the walks of LockFreeList.                             *)
(***************************************************************************)
\* create_node gets storage that no node has.
Push(t) ==
  /\ PushFront(t)
  /\ new_node'[t] \notin live
  /\ live' = live \cup {new_node'[t]}
  /\ covered' = [covered EXCEPT ![t] = Listed \ {head}]
  /\ UNCHANGED <<raced, erasing, destroying>>

\* A push writes prev_ of its old head, and races if another's node is there.
PushExchangePrev(t) ==
  /\ ExchangePrev(t)
  /\ raced' = IF prev[old_head[t]] \in {NULL, new_node[t]}
              THEN raced ELSE raced \cup {old_head[t]}
  /\ UNCHANGED <<live, covered, erasing, destroying>>

OtherStep(t) ==
  /\ \/ LoadHead(t) \/ ExchangeNext(t) \/ CasFails(t)
     \/ WalkAdvance(t)
     \/ cursor[t] = NULL /\ WalkEnd(t)
  /\ UNCHANGED <<live, raced, covered, erasing, destroying>>

PushSucceeds(t) ==
  /\ CasSucceeds(t)
  /\ covered' = [covered EXCEPT ![t] = {}]
  /\ UNCHANGED <<live, raced, erasing, destroying>>

Walk(t) ==
  /\ \/ WalkBegin(t) /\ eraser = NULL
     \/ WalkEnd(t)
  /\ UNCHANGED <<live, raced, covered, erasing, destroying>>

OngoingStep(t) == PushExchangePrev(t) \/ OtherStep(t) \/ PushSucceeds(t)

ListNext ==
  \/ \E t \in Threads \ {eraser} :
       it = NULL /\ (Push(t) \/ OngoingStep(t) \/ Walk(t))
  \/ EraseStep
  \/ DestroyBegin
  \/ DestroyNext

EraseNext ==
  \/ ListNext
  \/ \E t \in Threads, n \in Nodes : it = NULL /\ MayErase(n) /\ Erase(t, n)

EraseSpec == EraseInit /\ [][EraseNext]_allVars

\* Any inner node is erased at any time.
AtWillNext ==
  \/ ListNext
  \/ \E t \in Threads, n \in Nodes : it = NULL /\ Erase(t, n)

AtWillSpec == EraseInit /\ [][AtWillNext]_allVars

(***************************************************************************)
(* A thread that has begun is scheduled until it is done.  A weak          *)
(* compare-and-exchange fails without a cause only when it is interrupted: *)
(* either that stops, or pushes succeed for ever.  Nothing is assumed of a *)
(* push that others get ahead of again and again.                          *)
(***************************************************************************)
FairEraseSpec ==
  /\ EraseSpec
  /\ WF_allVars(EraseStep)
  /\ \A t \in Threads : WF_allVars(OngoingStep(t))
  /\ \/ <>[][\A t \in Threads : ~ FailsSpuriously(t)]_allVars
     \/ []<><<\E t \in Threads : CasSucceeds(t)>>_allVars

-----------------------------------------------------------------------------
\* The types; a thread that erases is in no other function.
EraseTypeOK ==
  /\ order \in Seq(Nodes)
  /\ head \in Reached
  /\ next \in [Nodes -> Nodes \cup {NULL}]
  /\ prev \in [Nodes -> Nodes \cup {NULL}]
  /\ pc \in [Threads -> Points]
  /\ new_node \in [Threads -> Nodes \cup {NULL}]
  /\ old_head \in [Threads -> Nodes \cup {NULL}]
  /\ cursor \in [Threads -> Reached]
  /\ live \subseteq Nodes
  /\ raced \subseteq live
  /\ covered \in [Threads -> SUBSET Nodes]
  /\ doomed \in Seq(Nodes)
  /\ erase_pc \in {"none", "keep_prev", "link_next", "link_prev", "destroy"}
  /\ IF erase_pc = "none" THEN {eraser, victim, old_prev} = {NULL}
     ELSE /\ eraser \in Threads /\ At(eraser, "idle")
          /\ {victim, old_prev} \subseteq Nodes

(***************************************************************************)
(* A node has storage exactly while it is in the list, about to be pushed, *)
(* being erased, or still to be freed by the destructor: nothing leaks,    *)
(* and the destructor ends when it has freed all of the list.              *)
(***************************************************************************)
StorageExact ==
  /\ EraseTypeOK
  /\ live = Listed \cup { new_node[t] : t \in Pushing } \cup ({victim} \ {NULL})
            \cup { doomed[i] : i \in DOMAIN doomed }
  /\ it = NULL => doomed = <<>>

(***************************************************************************)
(* No thread reads or writes a node whose storage is gone: a push writes   *)
(* prev_ of the old head some time after it has loaded it, an erase writes *)
(* to both neighbours.  A caller that keeps to MayErase has it; AtWillSpec *)
(* breaks it, against the "thread safe forward list with erase in the      *)
(* midle support" of the comment on the class.                             *)
(***************************************************************************)
TouchesLiveOnly ==
  /\ \A t \in Threads :
       /\ At(t, "exchange_prev") => old_head[t] \in live
       /\ At(t, "walk") => cursor[t] \in live \cup {NULL}
  /\ erase_pc # "none" => victim \in live
  /\ erase_pc = "link_next" => next[victim] \in live
  /\ erase_pc = "link_prev" => old_prev \in live
  /\ it # NULL => it \in live

(***************************************************************************)
(* prev_ of a node leads to the node in front of it, also after erasures,  *)
(* unless two pushes have raced for it or it is being relinked.            *)
(***************************************************************************)
BackLinked ==
  \A i \in 1 .. Len(order) - 1 :
    order[i] \notin raced /\ erase_pc # "link_prev" => prev[order[i]] = order[i + 1]

(***************************************************************************)
(* Pushes are lock-free: while there is a push under way one succeeds,     *)
(* again and again; which of them, the loop does not promise.              *)
(***************************************************************************)
PushesProgress ==
  \/ []<>(Pushing = {})
  \/ []<><<\E t \in Threads : CasSucceeds(t)>>_allVars

=============================================================================

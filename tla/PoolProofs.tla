------------------------------ MODULE PoolProofs ------------------------------
(***************************************************************************)
(* Proofs about the pool and the list it keeps its arenas in: LockFreeList,*)
(* ListErase, which erases from that list and destroys it, and Pool.       *)
(***************************************************************************)
EXTENDS Pool, ListErase, FiniteSetTheorems, TLAPS

(***************************************************************************)
(* LockFreeList, for any number of threads and nodes: no push is lost, and *)
(* the list implements PushList.                                           *)
(***************************************************************************)
IInv == TypeOK /\ NothingLost /\ PushersApart

\* What a successful push does to the list.
LEMMA ListedAppend ==
  ASSUME NEW n \in Nodes, order \in Seq(Nodes), order' = Append(order, n)
  PROVE  /\ order' \in Seq(Nodes)
         /\ Listed' = Listed \cup {n}
         /\ Len(order') = Len(order) + 1
         /\ \A i \in DOMAIN order : order'[i] = order[i] /\ i \in DOMAIN order'
         /\ order'[Len(order) + 1] = n
         /\ DOMAIN order' = 1 .. Len(order) + 1
         /\ DOMAIN order = 1 .. Len(order)
         /\ order' # <<>>
         /\ Top' = n
<1>1. order' \in Seq(Nodes) /\ Len(order') = Len(order) + 1
      /\ DOMAIN order' = 1 .. Len(order) + 1 /\ DOMAIN order = 1 .. Len(order)
  OBVIOUS
<1>2. /\ \A i \in DOMAIN order : order'[i] = order[i] /\ i \in DOMAIN order'
      /\ order'[Len(order) + 1] = n
  OBVIOUS
<1>3. Listed' = Listed \cup {n}
  BY <1>1, <1>2 DEF Listed
<1>4. order' # <<>> /\ Top' = n
  BY <1>1, <1>2 DEF Top
<1> QED
  BY <1>1, <1>2, <1>3, <1>4

\* Where the push is the next node of the new head.
LEMMA NextOfListed ==
  ASSUME TypeOK, NothingLost
  PROVE  /\ Top \in Reached
         /\ \A i \in DOMAIN order : order[i] \in Nodes /\ Below(i) \in Reached
<1> USE DEF TypeOK, Reached, Listed
<1>1. \A i \in DOMAIN order : order[i] \in Nodes
  OBVIOUS
<1>2. order # <<>> => Len(order) \in DOMAIN order
  OBVIOUS
<1>3. \A i \in DOMAIN order : i # 1 => i - 1 \in DOMAIN order
  OBVIOUS
<1> QED
  BY <1>1, <1>2, <1>3 DEF Top, Below

LEMMA InitInvariant == Init => IInv
  BY DEF Init, IInv, TypeOK, NothingLost, PushersApart, Reached, Listed, Points,
         Top, Below, Pushing, At

LEMMA PushFrontInvariant ==
  ASSUME IInv, NEW t \in Threads, PushFront(t)
  PROVE  IInv'
<1> USE DEF IInv, PushFront, At, Goto
<1>1. PICK n \in Nodes :
        /\ n \notin Listed
        /\ \A u \in Pushing : new_node[u] # n
        /\ new_node' = [new_node EXCEPT ![t] = n]
        /\ next' = [next EXCEPT ![n] = NULL]
        /\ prev' = [prev EXCEPT ![n] = NULL]
  OBVIOUS
<1>2. Listed' = Listed /\ Pushing' = Pushing \cup {t}
  BY DEF Listed, Pushing, TypeOK, Points
<1>3. TypeOK'
  BY <1>1, <1>2 DEF TypeOK, Reached, Points
<1>4. NothingLost'
  <2>1. \A i \in DOMAIN order : next'[order[i]] = next[order[i]]
    BY <1>1 DEF TypeOK, Listed
  <2> QED
    BY <2>1 DEF NothingLost, Top, Below
<1>5. PushersApart'
  BY <1>1, <1>2 DEF PushersApart, TypeOK, Pushing
<1> QED
  BY <1>3, <1>4, <1>5

LEMMA CasSucceedsInvariant ==
  ASSUME IInv, NEW t \in Threads, CasSucceeds(t)
  PROVE  IInv'
<1> USE DEF IInv, CasSucceeds, Return, At, Goto
<1> DEFINE n == new_node[t]
<1>1. t \in Pushing /\ n \in Nodes \ Listed /\ next[n] = head
  BY DEF Pushing, PushersApart
<1>2. order' = Append(order, n) /\ order \in Seq(Nodes)
  BY DEF TypeOK
<1>3. /\ order' \in Seq(Nodes)
      /\ Listed' = Listed \cup {n}
      /\ \A i \in DOMAIN order : order'[i] = order[i] /\ i \in DOMAIN order'
      /\ order'[Len(order) + 1] = n
      /\ DOMAIN order' = 1 .. Len(order) + 1
      /\ DOMAIN order = 1 .. Len(order)
      /\ Top' = n
  BY <1>1, <1>2, ListedAppend
<1>4. Pushing' = Pushing \ {t}
  BY DEF Pushing, TypeOK, Points
<1>5. TypeOK'
  BY <1>1, <1>3 DEF TypeOK, Reached, Points
<1>6. NothingLost'
  <2>1. head' = Top'
    BY <1>3
  <2>2. \A i \in DOMAIN order' : next'[order'[i]] = Below(i)'
    <3>1. ASSUME NEW i \in DOMAIN order
          PROVE  next'[order'[i]] = Below(i)'
      <4>1. i \in Nat /\ (i # 1 => i - 1 \in DOMAIN order)
        BY <1>2, <1>3
      <4> QED
        BY <1>3, <4>1 DEF NothingLost, Below
    <3>2. ASSUME NEW i, i = Len(order) + 1
          PROVE  next'[order'[i]] = Below(i)'
      <4>1. next'[order'[i]] = Top
        BY <1>1, <1>3, <3>2 DEF NothingLost
      <4>2. CASE order = <<>>
        <5>1. i = 1
          BY <3>2, <4>2
        <5> QED
          BY <4>1, <4>2, <5>1 DEF Below, Top
      <4>3. CASE order # <<>>
        <5>1. Len(order) \in DOMAIN order /\ i # 1 /\ i - 1 = Len(order)
          BY <1>2, <1>3, <3>2, <4>3
        <5> QED
          BY <1>3, <4>1, <4>3, <5>1 DEF Below, Top
      <4> QED
        BY <4>2, <4>3
    <3> QED
      BY <1>2, <1>3, <3>1, <3>2
  <2>3. \A i, j \in DOMAIN order' : order'[i] = order'[j] => i = j
    <3>1. \A i \in DOMAIN order : order[i] # n
      BY <1>1 DEF Listed
    <3> QED
      BY <1>2, <1>3, <3>1 DEF NothingLost
  <2> QED
    BY <2>1, <2>2, <2>3 DEF NothingLost
<1>7. PushersApart'
  BY <1>1, <1>3, <1>4 DEF PushersApart
<1> QED
  BY <1>5, <1>6, <1>7

\* The steps that leave the list, next() of its nodes and its head alone.
LEMMA OtherStepsInvariant ==
  ASSUME IInv, NEW t \in Threads,
         \/ LoadHead(t) \/ ExchangePrev(t) \/ ExchangeNext(t) \/ CasFails(t)
         \/ WalkBegin(t) \/ WalkAdvance(t) \/ WalkEnd(t)
  PROVE  IInv'
<1> USE DEF IInv, At, Goto
<1>1. order' = order /\ head' = head /\ Listed' = Listed /\ Reached' = Reached
  BY DEF LoadHead, ExchangePrev, ExchangeNext, CasFails, WalkBegin, WalkAdvance,
         WalkEnd, links, Listed, Reached
<1>2. CASE LoadHead(t)
  BY <1>1, <1>2 DEF LoadHead, links, TypeOK, NothingLost, PushersApart, Pushing,
     Points, Top, Below
<1>3. CASE ExchangePrev(t)
  <2>1. t \in Pushing /\ new_node[t] \in Nodes /\ Pushing' = Pushing
    BY <1>3 DEF ExchangePrev, Pushing, PushersApart, TypeOK, Points
  <2>2. TypeOK'
    BY <1>1, <1>3, <2>1 DEF ExchangePrev, TypeOK, Points
  <2> QED
    BY <1>1, <1>3, <2>1, <2>2 DEF ExchangePrev, NothingLost, PushersApart, Top,
       Below, TypeOK
<1>4. CASE ExchangeNext(t)
  <2>1. t \in Pushing /\ new_node[t] \in Nodes \ Listed /\ Pushing' = Pushing
    BY <1>4 DEF ExchangeNext, Pushing, PushersApart, TypeOK, Points
  <2>2. TypeOK'
    BY <1>1, <1>4, <2>1 DEF ExchangeNext, TypeOK, Points
  <2>3. NothingLost'
    <3>1. \A i \in DOMAIN order : next'[order[i]] = next[order[i]]
      BY <1>4, <2>1 DEF ExchangeNext, TypeOK, Listed
    <3> QED
      BY <1>1, <3>1 DEF NothingLost, Top, Below
  <2>4. PushersApart'
    BY <1>1, <1>4, <2>1 DEF ExchangeNext, PushersApart, TypeOK
  <2> QED
    BY <2>2, <2>3, <2>4
<1>5. CASE CasFails(t)
  BY <1>1, <1>5 DEF CasFails, links, TypeOK, NothingLost, PushersApart, Pushing,
     Points, Top, Below
<1>6. CASE WalkBegin(t)
  BY <1>1, <1>6 DEF WalkBegin, links, TypeOK, NothingLost, PushersApart, Pushing,
     Points, Top, Below
<1>7. CASE WalkAdvance(t)
  <2>1. next[cursor[t]] \in Reached
    BY <1>7 DEF WalkAdvance, TypeOK, Reached, Listed
  <2> QED
    BY <1>1, <1>7, <2>1 DEF WalkAdvance, links, TypeOK, NothingLost,
       PushersApart, Pushing, Top, Below
<1>8. CASE WalkEnd(t)
  BY <1>1, <1>8 DEF WalkEnd, links, TypeOK, NothingLost, PushersApart, Pushing,
     Points, Reached, Top, Below
<1> QED
  BY <1>2, <1>3, <1>4, <1>5, <1>6, <1>7, <1>8

LEMMA StepInvariant == IInv /\ [Next]_vars => IInv'
<1> SUFFICES ASSUME IInv, [Next]_vars PROVE IInv'
  OBVIOUS
<1>1. ASSUME NEW t \in Threads, PushFront(t) PROVE IInv'
  BY <1>1, PushFrontInvariant
<1>2. ASSUME NEW t \in Threads, CasSucceeds(t) PROVE IInv'
  BY <1>2, CasSucceedsInvariant
<1>3. ASSUME NEW t \in Threads,
             \/ LoadHead(t) \/ ExchangePrev(t) \/ ExchangeNext(t) \/ CasFails(t)
             \/ WalkBegin(t) \/ WalkAdvance(t) \/ WalkEnd(t)
      PROVE  IInv'
  BY <1>3, OtherStepsInvariant
<1>4. CASE UNCHANGED vars
  BY <1>4 DEF vars, links, IInv, TypeOK, NothingLost, PushersApart, Reached,
     Listed, Pushing, At, Top, Below
<1> QED
  BY <1>1, <1>2, <1>3, <1>4 DEF Next, Step

\* The list keeps its shape, the threads that push stay apart, and no thread
\* gets at a node before it is in the list.
THEOREM ListInvariant == Spec => []IInv
  BY InitInvariant, StepInvariant, PTL DEF Spec

\* No push is lost, whatever is pushed at the same time.
THEOREM NothingLostAlways == Spec => []NothingLost
<1>1. IInv => NothingLost
  BY DEF IInv
<1> QED
  BY <1>1, ListInvariant, PTL

\* Threads that push never share a node nor publish one that is not linked.
THEOREM PushersApartAlways == Spec => []PushersApart
<1>1. IInv => PushersApart
  BY DEF IInv
<1> QED
  BY <1>1, ListInvariant, PTL

-----------------------------------------------------------------------------
LEMMA InitImplements == Init => Promise!Init
  BY DEF Init, Promise!Init

LEMMA StepImplements ==
  IInv /\ [Next]_vars => [Promise!Next]_<<order, cursor>>
<1> SUFFICES ASSUME IInv, [Next]_vars, ~ UNCHANGED <<order, cursor>>
             PROVE  Promise!Next
  OBVIOUS
<1>1. PICK t \in Threads : PushFront(t) \/ WalkBegin(t) \/ WalkEnd(t) \/ Step(t)
  BY DEF Next, vars
<1>2. CASE CasSucceeds(t)
  <2>1. new_node[t] \in Nodes \ Listed
    BY <1>2 DEF CasSucceeds, At, IInv, PushersApart, Pushing
  <2>2. Promise!Contents = Listed
    BY DEF Promise!Contents, Listed
  <2> QED
    BY <1>2, <2>1, <2>2 DEF CasSucceeds, Promise!Next, Promise!Push
<1>3. CASE WalkBegin(t)
  BY <1>3 DEF WalkBegin, IInv, NothingLost, Top, Promise!Next, Promise!Begin,
     Promise!Top
<1>4. CASE WalkAdvance(t)
  <2>1. PICK i \in DOMAIN order : cursor[t] = order[i]
    BY <1>4 DEF WalkAdvance, IInv, TypeOK, Reached, Listed
  <2>2. next[cursor[t]] = Promise!Below(i)
    BY <2>1 DEF IInv, NothingLost, Below, Promise!Below
  <2> QED
    BY <1>4, <2>1, <2>2 DEF WalkAdvance, Promise!Next, Promise!Advance
<1>5. CASE WalkEnd(t)
  BY <1>5 DEF WalkEnd, Promise!Next, Promise!Stop
<1> QED
  BY <1>1, <1>2, <1>3, <1>4, <1>5 DEF PushFront, Step, LoadHead, ExchangePrev,
     ExchangeNext, CasFails

\* A push takes effect at its compare-and-exchange, and a walk is one over the
\* list as it was when the walk began.
THEOREM ListImplementsPushList == Spec => PushListSpec
<1>1. Init => Promise!Init
  BY InitImplements
<1>2. IInv /\ [Next]_vars => [Promise!Next]_<<order, cursor>>
  BY StepImplements
<1> QED
  BY <1>1, <1>2, ListInvariant, PTL DEF Spec, PushListSpec, Promise!Spec

-----------------------------------------------------------------------------
(***************************************************************************)
(* ListErase, for any number of threads and nodes: with erase(), the       *)
(* destructor and storage that is used again, the list loses nothing,      *)
(* frees each node once, touches none that is freed, and still implements  *)
(* PushList.                                                               *)
(***************************************************************************)
\* prev_ of the node behind the victim already leads past it at "link_prev".
InFrontOf(i) ==
  IF erase_pc = "link_prev" /\ order[i + 1] = victim THEN old_prev ELSE order[i + 1]

PrevLeadsBack ==
  \A i \in 1 .. Len(order) - 1 :
    order[i] \notin raced => prev[order[i]] = InFrontOf(i)

\* What was behind another node when a push began is not the head again, as long
\* as it stays in the list.
CoveredListed == \A t \in Pushing : covered[t] \subseteq Listed \ {head}

(***************************************************************************)
(* What a push took for the head was not behind another node when the push *)
(* began, and so stays in the list until the push is over.                 *)
(***************************************************************************)
OldHeadsKept ==
  \A t \in Pushing :
    ~ At(t, "load") =>
      /\ old_head[t] \in Reached
      /\ old_head[t] \notin covered[t]
      /\ ~ At(t, "exchange_prev") /\ old_head[t] # NULL =>
           old_head[t] \in raced \/ prev[old_head[t]] = new_node[t]

EraseUnderWay ==
  /\ erase_pc \in {"keep_prev", "link_next", "link_prev"} =>
       /\ \E i \in 2 .. Len(order) - 1 : order[i] = victim /\ order[i + 1] = old_prev
       /\ \A t \in Pushing : victim \in covered[t]
  /\ erase_pc = "keep_prev" => prev[victim] = old_prev
  /\ erase_pc = "destroy" =>
       victim \notin Listed /\ \A t \in Pushing : new_node[t] # victim
  /\ erase_pc # "none" =>
       it = NULL /\ \A t \in Threads : ~ At(t, "walk")

DestroyUnderWay ==
  /\ it # NULL =>
       erase_pc = "none" /\ order = <<>> /\ \A t \in Threads : At(t, "idle")
  /\ it = IF doomed = <<>> THEN NULL ELSE doomed[Len(doomed)]
  /\ \A i \in DOMAIN doomed :
       next[doomed[i]] = IF i = 1 THEN NULL ELSE doomed[i - 1]
  /\ \A i, j \in DOMAIN doomed : doomed[i] = doomed[j] => i = j

CursorsApart == \A t \in Threads : ~ At(t, "walk") => cursor[t] = NULL

EInv ==
  /\ StorageExact
  /\ NothingLost
  /\ PushersApart
  /\ PrevLeadsBack
  /\ CoveredListed
  /\ OldHeadsKept
  /\ EraseUnderWay
  /\ DestroyUnderWay
  /\ CursorsApart

-----------------------------------------------------------------------------
Built == { new_node[t] : t \in Pushing }

Doomed == { doomed[i] : i \in DOMAIN doomed }

\* What the locals and the storage are, read off the invariant.
LEMMA EInvFacts ==
  ASSUME EInv
  PROVE  /\ EraseTypeOK
         /\ live = Listed \cup Built \cup ({victim} \ {NULL}) \cup Doomed
         /\ it = NULL => doomed = <<>> /\ Doomed = {}
         /\ it # NULL => it \in Nodes
         /\ Listed \subseteq Nodes /\ Built \subseteq Nodes /\ NULL \notin Nodes
         /\ DOMAIN order = 1 .. Len(order) /\ Len(order) \in Nat
         /\ \A i \in DOMAIN order : order[i] \in Nodes
         /\ erase_pc # "none" => victim \in Nodes /\ old_prev \in Nodes /\ victim \in live
         /\ erase_pc = "none" => eraser = NULL /\ victim = NULL
<1>1. EraseTypeOK /\ (it = NULL => doomed = <<>>)
      /\ live = Listed \cup Built \cup ({victim} \ {NULL}) \cup Doomed
  BY DEF EInv, StorageExact, Built, Doomed
<1>2. DOMAIN order = 1 .. Len(order) /\ Len(order) \in Nat
      /\ \A i \in DOMAIN order : order[i] \in Nodes
  BY <1>1 DEF EraseTypeOK
<1>3. Listed \subseteq Nodes
  BY <1>2 DEF Listed
<1>4. Built \subseteq Nodes
  BY DEF EInv, PushersApart, Built
<1>5. doomed = <<>> => Doomed = {}
  BY DEF Doomed
<1>6. it # NULL => it \in Nodes
  <2>1. doomed # <<>> => doomed[Len(doomed)] \in Nodes
    BY <1>1 DEF EraseTypeOK
  <2> QED
    BY <2>1 DEF EInv, DestroyUnderWay
<1>7. NULL \notin Nodes
  BY NullAssumption
<1>8. /\ erase_pc # "none" => victim \in Nodes /\ old_prev \in Nodes /\ victim \in live
      /\ erase_pc = "none" => eraser = NULL /\ victim = NULL
  BY <1>1, <1>7 DEF EraseTypeOK
<1> QED
  BY <1>1, <1>2, <1>3, <1>4, <1>5, <1>6, <1>7, <1>8

\* Where the list is as it was.
LEMMA ListFrame ==
  ASSUME order' = order
  PROVE  /\ Listed' = Listed /\ Reached' = Reached /\ Top' = Top
         /\ \A i : Below(i)' = Below(i)
BY DEF Listed, Reached, Top, Below

\* A node between two others is not the first one.
LEMMA InnerNotHead ==
  ASSUME EInv, NEW i \in 2 .. Len(order) - 1
  PROVE  order[i] \in Listed \ {head}
<1>1. DOMAIN order = 1 .. Len(order) /\ Len(order) \in Nat
  BY EInvFacts
<1>2. i \in DOMAIN order /\ Len(order) \in DOMAIN order /\ i # Len(order)
      /\ order # <<>>
  BY <1>1 DEF EInv, StorageExact, EraseTypeOK
<1>3. head = order[Len(order)]
  BY <1>2 DEF EInv, NothingLost, Top
<1> QED
  BY <1>2, <1>3 DEF EInv, NothingLost, Listed

LEMMA EraseInitInvariant == EraseInit => EInv
<1> SUFFICES ASSUME EraseInit PROVE EInv
  OBVIOUS
<1> USE DEF EraseInit, Init
<1>1. EraseTypeOK
  BY DEF EraseTypeOK, Reached, Points
<1>2. Listed = {} /\ Pushing = {}
  BY DEF Listed, Pushing
<1>3. StorageExact
  BY <1>1, <1>2 DEF StorageExact
<1>4. NothingLost
  BY DEF NothingLost, Top
<1>5. PushersApart /\ CoveredListed /\ OldHeadsKept /\ CursorsApart
  BY <1>2 DEF PushersApart, CoveredListed, OldHeadsKept, CursorsApart
<1>6. PrevLeadsBack /\ EraseUnderWay /\ DestroyUnderWay
  BY DEF PrevLeadsBack, EraseUnderWay, DestroyUnderWay
<1> QED
  BY <1>3, <1>4, <1>5, <1>6 DEF EInv

-----------------------------------------------------------------------------
(***************************************************************************)
(* The threads that push and walk.                                         *)
(***************************************************************************)
LEMMA PushErase ==
  ASSUME EInv, NEW t \in Threads \ {eraser}, it = NULL, Push(t)
  PROVE  EInv'
<1> USE DEF At, Goto
<1>1. PICK n \in Nodes :
        /\ n \notin Listed
        /\ \A u \in Pushing : new_node[u] # n
        /\ new_node' = [new_node EXCEPT ![t] = n]
        /\ next' = [next EXCEPT ![n] = NULL]
        /\ prev' = [prev EXCEPT ![n] = NULL]
  BY DEF Push, PushFront
<1>2. /\ pc[t] = "idle" /\ pc' = [pc EXCEPT ![t] = "load"]
      /\ UNCHANGED <<head, old_head, cursor, order, raced, erasing, destroying>>
      /\ new_node'[t] \notin live
      /\ live' = live \cup {new_node'[t]}
      /\ covered' = [covered EXCEPT ![t] = Listed \ {head}]
  BY DEF Push, PushFront
<1>3. /\ EraseTypeOK
      /\ live = Listed \cup Built \cup ({victim} \ {NULL}) \cup Doomed
      /\ it = NULL => doomed = <<>> /\ Doomed = {}
      /\ Listed \subseteq Nodes /\ NULL \notin Nodes
      /\ DOMAIN order = 1 .. Len(order) /\ Len(order) \in Nat
      /\ \A i \in DOMAIN order : order[i] \in Nodes
      /\ erase_pc # "none" => victim \in Nodes /\ old_prev \in Nodes /\ victim \in live
  BY EInvFacts
<1>4. new_node'[t] = n /\ n \notin live /\ live' = live \cup {n}
  BY <1>1, <1>2, <1>3 DEF EraseTypeOK
<1>5. Pushing' = Pushing \cup {t} /\ t \notin Pushing
  BY <1>2, <1>3 DEF Pushing, EraseTypeOK
<1>6. /\ Listed' = Listed /\ Reached' = Reached /\ Top' = Top
      /\ \A i : Below(i)' = Below(i)
  BY <1>2, ListFrame
<1>7. \A m \in Listed : next'[m] = next[m] /\ prev'[m] = prev[m]
  BY <1>1, <1>3 DEF EraseTypeOK
<1>8. \A i \in DOMAIN order : order[i] \in Listed
  BY DEF Listed
<1>9. EraseTypeOK'
  BY <1>1, <1>2, <1>3, <1>4, <1>6 DEF EraseTypeOK, Points, erasing, destroying
<1>10. StorageExact'
  <2>1. Built' = Built \cup {n}
    BY <1>1, <1>3, <1>5 DEF Built, EraseTypeOK
  <2>2. Doomed' = Doomed
    BY <1>2 DEF Doomed, destroying
  <2> QED
    BY <1>2, <1>3, <1>4, <1>6, <1>9, <2>1, <2>2
       DEF StorageExact, Built, Doomed, erasing, destroying
<1>11. NothingLost'
  BY <1>2, <1>6, <1>7, <1>8 DEF EInv, NothingLost
<1>12. PushersApart'
  BY <1>1, <1>2, <1>3, <1>5, <1>6 DEF EInv, PushersApart, EraseTypeOK
<1>13. PrevLeadsBack'
  BY <1>2, <1>3, <1>7, <1>8 DEF EInv, PrevLeadsBack, InFrontOf, erasing
<1>14. OldHeadsKept'
  <2> SUFFICES ASSUME NEW u \in Pushing', pc'[u] # "load"
               PROVE  /\ old_head[u] \in Reached
                      /\ old_head[u] \notin covered'[u]
                      /\ pc'[u] # "exchange_prev" /\ old_head[u] # NULL =>
                           old_head[u] \in raced \/ prev'[old_head[u]] = new_node'[u]
    BY <1>2, <1>6 DEF OldHeadsKept, erasing
  <2>1. /\ u \in Pushing /\ u # t /\ pc'[u] = pc[u] /\ new_node'[u] = new_node[u]
        /\ covered'[u] = covered[u]
    BY <1>1, <1>2, <1>3, <1>5 DEF EraseTypeOK, Pushing
  <2>2. old_head[u] \in Reached
    BY <2>1 DEF EInv, OldHeadsKept
  <2> QED
    BY <1>7, <2>1, <2>2 DEF EInv, OldHeadsKept, Reached
<1>15. EraseUnderWay'
  <2>1. erase_pc # "none" => n # victim /\ prev'[victim] = prev[victim]
    BY <1>1, <1>3, <1>4 DEF EraseTypeOK
  <2>2. \A u \in Pushing' :
          \/ u = t
          \/ u \in Pushing /\ new_node'[u] = new_node[u] /\ covered'[u] = covered[u]
    BY <1>1, <1>2, <1>3, <1>5 DEF EraseTypeOK, Pushing
  <2>3. \A u \in Threads : pc'[u] # "walk" \/ pc[u] = "walk"
    BY <1>2, <1>3 DEF EraseTypeOK
  <2>4. covered'[t] = Listed \ {head}
    BY <1>2, <1>3 DEF EraseTypeOK
  <2>5. erase_pc \in {"keep_prev", "link_next", "link_prev"} =>
          /\ \E i \in 2 .. Len(order) - 1 : order[i] = victim /\ order[i + 1] = old_prev
          /\ victim \in Listed \ {head}
    BY <1>3, InnerNotHead DEF EInv, EraseUnderWay
  <2> QED
    BY <1>2, <1>4, <1>6, <2>1, <2>2, <2>3, <2>4, <2>5
       DEF EInv, EraseUnderWay, erasing, destroying
<1>16. DestroyUnderWay'
  BY <1>2, <1>3 DEF EInv, DestroyUnderWay, destroying
<1>17. CursorsApart'
  BY <1>2, <1>3 DEF EInv, CursorsApart, EraseTypeOK
<1>18. CoveredListed'
  BY <1>2, <1>3, <1>5, <1>6 DEF EInv, CoveredListed, EraseTypeOK
<1> QED
  BY <1>10, <1>11, <1>12, <1>13, <1>14, <1>15, <1>16, <1>17, <1>18 DEF EInv

LEMMA PushExchangePrevErase ==
  ASSUME EInv, NEW t \in Threads, it = NULL, PushExchangePrev(t)
  PROVE  EInv'
<1> USE DEF At, Goto
<1> DEFINE x == old_head[t]
<1>1. /\ pc[t] = "exchange_prev" /\ pc' = [pc EXCEPT ![t] = "exchange_next"]
      /\ prev' = [prev EXCEPT ![x] = new_node[t]]
      /\ raced' = IF prev[x] \in {NULL, new_node[t]} THEN raced ELSE raced \cup {x}
      /\ UNCHANGED <<head, next, new_node, old_head, cursor, order, live, covered,
                     erasing, destroying>>
  BY DEF PushExchangePrev, ExchangePrev
<1>2. /\ EraseTypeOK
      /\ live = Listed \cup Built \cup ({victim} \ {NULL}) \cup Doomed
      /\ it = NULL => doomed = <<>> /\ Doomed = {}
      /\ Listed \subseteq Nodes /\ NULL \notin Nodes
      /\ DOMAIN order = 1 .. Len(order) /\ Len(order) \in Nat
      /\ \A i \in DOMAIN order : order[i] \in Nodes
      /\ erase_pc # "none" => victim \in Nodes /\ old_prev \in Nodes /\ victim \in live
  BY EInvFacts
<1>3. t \in Pushing /\ Pushing' = Pushing
  BY <1>1, <1>2 DEF Pushing, EraseTypeOK
<1>4. x \in Listed /\ x \in Nodes /\ x \in live /\ x \notin covered[t]
      /\ new_node[t] \in Nodes \ Listed
  BY <1>1, <1>2, <1>3 DEF EInv, PushersApart, OldHeadsKept, Reached
<1>5. /\ Listed' = Listed /\ Reached' = Reached /\ Top' = Top
      /\ \A i : Below(i)' = Below(i)
  BY <1>1, ListFrame
<1>6. raced \subseteq raced' /\ raced' \subseteq raced \cup {x}
  BY <1>1
<1>7. EraseTypeOK'
  BY <1>1, <1>2, <1>4, <1>5, <1>6 DEF EraseTypeOK, Points, erasing, destroying
<1>8. StorageExact'
  BY <1>1, <1>3, <1>5, <1>7 DEF EInv, StorageExact, erasing, destroying
<1>9. NothingLost' /\ PushersApart'
  BY <1>1, <1>2, <1>3, <1>4, <1>5 DEF EInv, NothingLost, PushersApart, EraseTypeOK
<1>10. PrevLeadsBack'
  <2> SUFFICES ASSUME NEW i \in 1 .. Len(order) - 1, order[i] \notin raced'
               PROVE  prev'[order[i]] = InFrontOf(i)
    BY <1>1 DEF PrevLeadsBack, InFrontOf, erasing
  <2>1. prev[order[i]] = InFrontOf(i)
    BY <1>6 DEF EInv, PrevLeadsBack
  <2>2. i + 1 \in DOMAIN order /\ order[i + 1] \in Listed
    BY <1>2 DEF Listed
  <2>3. InFrontOf(i) \in Listed
    <3>1. CASE erase_pc = "link_prev" /\ order[i + 1] = victim
      <4>1. old_prev \in Listed
        BY <1>2, <3>1 DEF EInv, EraseUnderWay, Listed
      <4> QED
        BY <3>1, <4>1 DEF InFrontOf
    <3> QED
      BY <2>2, <3>1 DEF InFrontOf
  <2>4. order[i] # x
    BY <1>1, <1>2, <1>4, <2>1, <2>3
  <2> QED
    BY <1>1, <2>1, <2>4
<1>11. OldHeadsKept'
  <2> SUFFICES ASSUME NEW u \in Pushing, pc'[u] # "load"
               PROVE  /\ old_head[u] \in Reached
                      /\ old_head[u] \notin covered[u]
                      /\ pc'[u] # "exchange_prev" /\ old_head[u] # NULL =>
                           old_head[u] \in raced' \/ prev'[old_head[u]] = new_node[u]
    BY <1>1, <1>3, <1>5 DEF OldHeadsKept, erasing
  <2>1. CASE u = t
    BY <1>1, <1>2, <1>4, <2>1 DEF Reached, EraseTypeOK
  <2>2. CASE u # t
    <3>1. pc'[u] = pc[u] /\ u \in Threads
      BY <1>1, <1>2, <2>2 DEF EraseTypeOK, Pushing
    <3>2. new_node[u] # new_node[t] /\ new_node[u] \in Nodes
      BY <1>3, <2>2 DEF EInv, PushersApart
    <3>3. CASE old_head[u] = x /\ pc[u] # "exchange_prev"
      <4>1. x \in raced'
        BY <1>1, <1>2, <1>4, <3>1, <3>2, <3>3 DEF EInv, OldHeadsKept
      <4> QED
        BY <1>4, <3>1, <3>3, <4>1 DEF Reached, EInv, OldHeadsKept
    <3>4. CASE old_head[u] # x \/ pc[u] = "exchange_prev"
      BY <1>1, <1>2, <1>6, <3>1, <3>4 DEF EInv, OldHeadsKept, EraseTypeOK
    <3> QED
      BY <3>3, <3>4
  <2> QED
    BY <2>1, <2>2
<1>12. EraseUnderWay'
  <2>1. erase_pc = "keep_prev" => x # victim
    BY <1>3, <1>4 DEF EInv, EraseUnderWay
  <2>2. erase_pc = "keep_prev" => prev'[victim] = prev[victim]
    BY <1>1, <1>2, <2>1 DEF EraseTypeOK
  <2>3. \A u \in Threads : pc'[u] # "walk" \/ pc[u] = "walk"
    BY <1>1, <1>2 DEF EraseTypeOK
  <2> QED
    BY <1>1, <1>3, <1>5, <2>2, <2>3 DEF EInv, EraseUnderWay, erasing, destroying
<1>13. DestroyUnderWay'
  BY <1>1, <1>2 DEF EInv, DestroyUnderWay, destroying
<1>14. CursorsApart'
  BY <1>1, <1>2 DEF EInv, CursorsApart, EraseTypeOK
<1>15. CoveredListed'
  BY <1>1, <1>3, <1>5 DEF EInv, CoveredListed
<1> QED
  BY <1>8, <1>9, <1>10, <1>11, <1>12, <1>13, <1>14, <1>15 DEF EInv

LEMMA PushSucceedsErase ==
  ASSUME EInv, NEW t \in Threads, it = NULL, PushSucceeds(t)
  PROVE  EInv'
<1> USE DEF At, Goto
<1> DEFINE n == new_node[t]
<1> DEFINE L == Len(order)
<1>1. /\ pc[t] = "cas" /\ pc' = [pc EXCEPT ![t] = "idle"]
      /\ head = old_head[t] /\ head' = n /\ order' = Append(order, n)
      /\ new_node' = [new_node EXCEPT ![t] = NULL]
      /\ old_head' = [old_head EXCEPT ![t] = NULL]
      /\ covered' = [covered EXCEPT ![t] = {}]
      /\ UNCHANGED <<next, prev, cursor, live, raced, erasing, destroying>>
  BY DEF PushSucceeds, CasSucceeds, Return
<1>2. /\ EraseTypeOK
      /\ live = Listed \cup Built \cup ({victim} \ {NULL}) \cup Doomed
      /\ it = NULL => doomed = <<>> /\ Doomed = {}
      /\ Listed \subseteq Nodes /\ NULL \notin Nodes
      /\ DOMAIN order = 1 .. L /\ L \in Nat
      /\ \A i \in DOMAIN order : order[i] \in Nodes
      /\ erase_pc # "none" => victim \in Nodes /\ old_prev \in Nodes /\ victim \in live
  BY EInvFacts
<1>3. t \in Pushing /\ Pushing' = Pushing \ {t}
  BY <1>1, <1>2 DEF Pushing, EraseTypeOK
<1>4. /\ n \in Nodes /\ n \notin Listed /\ next[n] = head
      /\ \A u \in Pushing \ {t} : new_node[u] # n /\ new_node'[u] = new_node[u]
                                  /\ old_head'[u] = old_head[u] /\ pc'[u] = pc[u]
                                  /\ covered'[u] = covered[u]
  BY <1>1, <1>2, <1>3 DEF EInv, PushersApart, EraseTypeOK
<1>5. /\ order' \in Seq(Nodes)
      /\ Listed' = Listed \cup {n}
      /\ \A i \in DOMAIN order : order'[i] = order[i] /\ i \in DOMAIN order'
      /\ order'[L + 1] = n
      /\ DOMAIN order' = 1 .. L + 1
      /\ Len(order') = L + 1
      /\ Top' = n
  BY <1>1, <1>2, <1>4, ListedAppend DEF EraseTypeOK
<1>6. EraseTypeOK'
  BY <1>1, <1>2, <1>4, <1>5 DEF EraseTypeOK, Points, Reached, erasing, destroying
<1>7. StorageExact'
  <2>1. Built = Built' \cup {n}
    BY <1>3, <1>4 DEF Built
  <2>2. Doomed' = Doomed
    BY <1>1 DEF Doomed, destroying
  <2> QED
    BY <1>1, <1>2, <1>5, <1>6, <2>1, <2>2
       DEF StorageExact, Built, Doomed, erasing, destroying
<1>8. NothingLost'
  <2>1. \A i \in DOMAIN order' : next'[order'[i]] = Below(i)'
    <3>1. ASSUME NEW i \in DOMAIN order
          PROVE  next'[order'[i]] = Below(i)'
      <4>1. i \in Nat /\ (i # 1 => i - 1 \in DOMAIN order)
        BY <1>2
      <4> QED
        BY <1>1, <1>5, <4>1 DEF EInv, NothingLost, Below
    <3>2. ASSUME NEW i, i = L + 1
          PROVE  next'[order'[i]] = Below(i)'
      <4>1. next'[order'[i]] = Top
        BY <1>1, <1>4, <1>5, <3>2 DEF EInv, NothingLost
      <4>2. CASE order = <<>>
        BY <3>2, <4>1, <4>2 DEF Below, Top
      <4>3. CASE order # <<>>
        <5>1. L \in DOMAIN order /\ i # 1 /\ i - 1 = L
          BY <1>2, <3>2, <4>3 DEF EraseTypeOK
        <5> QED
          BY <1>5, <4>1, <4>3, <5>1 DEF Below, Top
      <4> QED
        BY <4>2, <4>3
    <3> QED
      BY <1>2, <1>5, <3>1, <3>2
  <2>2. \A i, j \in DOMAIN order' : order'[i] = order'[j] => i = j
    <3>1. \A i \in DOMAIN order : order[i] # n
      BY <1>4 DEF Listed
    <3> QED
      BY <1>2, <1>5, <3>1 DEF EInv, NothingLost
  <2> QED
    BY <1>1, <1>5, <2>1, <2>2 DEF NothingLost
<1>9. PushersApart'
  BY <1>1, <1>3, <1>4, <1>5 DEF EInv, PushersApart
<1>10. PrevLeadsBack'
  <2> SUFFICES ASSUME NEW i \in 1 .. L, order'[i] \notin raced
               PROVE  prev[order'[i]] = InFrontOf(i)'
    BY <1>1, <1>2, <1>5 DEF PrevLeadsBack
  <2>1. i \in DOMAIN order /\ order'[i] = order[i]
    BY <1>2, <1>5
  <2>2. CASE i < L
    <3>1. i \in 1 .. L - 1 /\ i + 1 \in DOMAIN order /\ order'[i + 1] = order[i + 1]
      BY <1>2, <1>5, <2>2
    <3> QED
      BY <1>1, <2>1, <3>1 DEF EInv, PrevLeadsBack, InFrontOf, erasing
  <2>3. CASE i = L
    <3>1. order[i] = head /\ order[i] \in Nodes /\ order'[i + 1] = n
      BY <1>2, <1>5, <2>1, <2>3 DEF EInv, NothingLost, Top
    <3>2. prev[order[i]] = n
      BY <1>1, <1>2, <1>3, <2>1, <3>1 DEF EInv, OldHeadsKept
    <3>3. ~ (erase_pc = "link_prev" /\ n = victim)
      BY <1>4 DEF EInv, EraseUnderWay, Listed
    <3> QED
      BY <1>1, <2>1, <3>1, <3>2, <3>3 DEF InFrontOf, erasing
  <2> QED
    BY <1>2, <2>2, <2>3
<1>11. OldHeadsKept'
  BY <1>1, <1>3, <1>4, <1>5 DEF EInv, OldHeadsKept, Reached, erasing
<1>12. EraseUnderWay'
  <2>1. erase_pc \in {"keep_prev", "link_next", "link_prev"} =>
          /\ \E i \in 2 .. L : order'[i] = victim /\ order'[i + 1] = old_prev
          /\ \A u \in Pushing' : victim \in covered'[u]
    BY <1>2, <1>3, <1>4, <1>5 DEF EInv, EraseUnderWay
  <2>2. erase_pc = "destroy" => n # victim
    BY <1>3 DEF EInv, EraseUnderWay
  <2>3. \A u \in Threads : pc'[u] # "walk" \/ pc[u] = "walk"
    BY <1>1, <1>2 DEF EraseTypeOK
  <2> QED
    BY <1>1, <1>2, <1>3, <1>4, <1>5, <2>1, <2>2, <2>3
       DEF EInv, EraseUnderWay, erasing, destroying
<1>13. DestroyUnderWay'
  BY <1>1, <1>2 DEF EInv, DestroyUnderWay, destroying
<1>14. CursorsApart'
  BY <1>1, <1>2 DEF EInv, CursorsApart, EraseTypeOK
<1>15. CoveredListed'
  BY <1>1, <1>3, <1>4, <1>5 DEF EInv, CoveredListed
<1> QED
  BY <1>7, <1>8, <1>9, <1>10, <1>11, <1>12, <1>13, <1>14, <1>15 DEF EInv

\* The steps that leave the list, its storage and prev_ of its nodes alone.
LEMMA OtherStepsErase ==
  ASSUME EInv, NEW t \in Threads, it = NULL,
         \/ LoadHead(t) \/ ExchangeNext(t) \/ CasFails(t)
         \/ (WalkBegin(t) /\ eraser = NULL) \/ WalkAdvance(t) \/ WalkEnd(t),
         UNCHANGED <<live, raced, covered, erasing, destroying>>
  PROVE  EInv'
<1> USE DEF At, Goto
<1>1. /\ EraseTypeOK
      /\ live = Listed \cup Built \cup ({victim} \ {NULL}) \cup Doomed
      /\ it = NULL => doomed = <<>> /\ Doomed = {}
      /\ Listed \subseteq Nodes /\ NULL \notin Nodes
      /\ DOMAIN order = 1 .. Len(order) /\ Len(order) \in Nat
      /\ \A i \in DOMAIN order : order[i] \in Nodes
      /\ erase_pc # "none" => victim \in Nodes /\ old_prev \in Nodes /\ victim \in live
  BY EInvFacts
<1>2. /\ order' = order /\ head' = head /\ prev' = prev /\ new_node' = new_node
      /\ Pushing' = Pushing
  BY <1>1 DEF LoadHead, ExchangeNext, CasFails, WalkBegin, WalkAdvance, WalkEnd,
              links, Pushing, EraseTypeOK
<1>3. /\ Listed' = Listed /\ Reached' = Reached /\ Top' = Top
      /\ \A i : Below(i)' = Below(i)
  BY <1>2, ListFrame
<1>4. head \in Reached /\ (eraser = NULL => erase_pc = "none")
  BY <1>1, NoThreadAssumption DEF EraseTypeOK
<1>5. /\ \A n \in Listed : next'[n] = next[n] /\ next[n] \in Reached
      /\ next' \in [Nodes -> Nodes \cup {NULL}]
  <2>1. CASE ExchangeNext(t)
    BY <1>1, <2>1 DEF ExchangeNext, EInv, PushersApart, Pushing, EraseTypeOK,
                      NothingLost, Below, Listed, Reached
  <2>2. CASE ~ ExchangeNext(t)
    <3>1. next' = next
      BY <2>2 DEF LoadHead, CasFails, WalkBegin, WalkAdvance, WalkEnd, links
    <3>2. \A i \in DOMAIN order : Below(i) \in Reached
      BY <1>1 DEF Below, Listed, Reached
    <3>3. \A n \in Listed : next[n] \in Reached
      BY <3>2 DEF EInv, NothingLost, Listed
    <3> QED
      BY <1>1, <3>1, <3>3 DEF EraseTypeOK
  <2> QED
    BY <2>1, <2>2
<1>6. EraseTypeOK'
  <2>1. pc' \in [Threads -> Points] /\ (erase_pc # "none" => pc'[eraser] = "idle")
    BY <1>1, <1>4 DEF EraseTypeOK, Points, LoadHead, ExchangeNext, CasFails,
                      WalkBegin, WalkAdvance, WalkEnd
  <2>2. old_head' \in [Threads -> Nodes \cup {NULL}]
    BY <1>1, <1>4 DEF EraseTypeOK, LoadHead, ExchangeNext, CasFails, WalkBegin,
                      WalkAdvance, WalkEnd, Reached
  <2>3. cursor' \in [Threads -> Reached]
    BY <1>1, <1>4, <1>5 DEF EraseTypeOK, LoadHead, ExchangeNext, CasFails, WalkBegin,
                            WalkAdvance, WalkEnd, Reached
  <2> QED
    BY <1>1, <1>2, <1>3, <1>5, <2>1, <2>2, <2>3 DEF EraseTypeOK, erasing, destroying
<1>7. StorageExact'
  BY <1>2, <1>3, <1>6 DEF EInv, StorageExact, erasing, destroying
<1>8. NothingLost'
  BY <1>2, <1>3, <1>5 DEF EInv, NothingLost, Listed
<1>9. PushersApart' /\ OldHeadsKept'
  <2>1. CASE LoadHead(t)
    <3>1. t \in Pushing /\ head \notin covered[t]
      BY <2>1 DEF LoadHead, EInv, CoveredListed, Pushing
    <3> QED
      BY <1>1, <1>2, <1>3, <1>4, <2>1, <3>1
         DEF LoadHead, links, EInv, PushersApart, OldHeadsKept, erasing, Pushing,
             EraseTypeOK, Points
  <2>2. CASE ExchangeNext(t)
    <3>1. t \in Pushing /\ new_node[t] \in Nodes \ Listed
      BY <1>1, <2>2 DEF ExchangeNext, EInv, PushersApart, Pushing, EraseTypeOK
    <3> QED
      BY <1>1, <1>2, <1>3, <2>2, <3>1
         DEF ExchangeNext, EInv, PushersApart, OldHeadsKept, erasing, EraseTypeOK
  <2>3. CASE CasFails(t)
    BY <1>1, <1>2, <1>3, <2>3
       DEF CasFails, links, EInv, PushersApart, OldHeadsKept, erasing, Pushing,
           EraseTypeOK
  <2>4. CASE WalkBegin(t) \/ WalkAdvance(t) \/ WalkEnd(t)
    BY <1>1, <1>2, <1>3, <2>4
       DEF WalkBegin, WalkAdvance, WalkEnd, links, EInv, PushersApart,
           OldHeadsKept, erasing, Pushing, EraseTypeOK
  <2> QED
    BY <2>1, <2>2, <2>3, <2>4
<1>10. PrevLeadsBack'
  BY <1>2 DEF EInv, PrevLeadsBack, InFrontOf, erasing
<1>11. EraseUnderWay'
  <2>1. erase_pc # "none" => \A u \in Threads : pc'[u] # "walk"
    BY <1>1, <1>4 DEF EraseTypeOK, LoadHead, ExchangeNext, CasFails, WalkBegin,
                      WalkAdvance, WalkEnd, EInv, EraseUnderWay
  <2> QED
    BY <1>2, <1>3, <2>1 DEF EInv, EraseUnderWay, erasing, destroying
<1>12. DestroyUnderWay'
  BY <1>1 DEF EInv, DestroyUnderWay, destroying
<1>13. CursorsApart'
  BY <1>1 DEF EInv, CursorsApart, EraseTypeOK, LoadHead, ExchangeNext, CasFails,
              WalkBegin, WalkAdvance, WalkEnd
<1>14. CoveredListed'
  BY <1>2, <1>3 DEF EInv, CoveredListed
<1> QED
  BY <1>7, <1>8, <1>9, <1>10, <1>11, <1>12, <1>13, <1>14 DEF EInv

-----------------------------------------------------------------------------
(***************************************************************************)
(* The thread that erases.                                                 *)
(***************************************************************************)
LEMMA EraseErase ==
  ASSUME EInv, NEW t \in Threads, NEW n \in Nodes, it = NULL, MayErase(n), Erase(t, n)
  PROVE  EInv'
<1> USE DEF At
<1>1. /\ pc[t] = "idle" /\ eraser = NULL /\ eraser' = t /\ erase_pc' = "keep_prev"
      /\ victim' = n /\ old_prev' = prev[n]
      /\ \A u \in Threads : pc[u] # "walk"
      /\ UNCHANGED <<vars, live, raced, covered, destroying>>
  BY DEF Erase, EraseGoto
<1>2. /\ EraseTypeOK
      /\ live = Listed \cup Built \cup ({victim} \ {NULL}) \cup Doomed
      /\ NULL \notin Nodes
      /\ DOMAIN order = 1 .. Len(order) /\ Len(order) \in Nat
      /\ \A i \in DOMAIN order : order[i] \in Nodes
      /\ erase_pc = "none" => eraser = NULL /\ victim = NULL
  BY EInvFacts
<1>3. erase_pc = "none" /\ victim = NULL
  BY <1>1, <1>2, NoThreadAssumption DEF EraseTypeOK
<1>4. PICK i \in 2 .. Len(order) - 1 : n = order[i]
  BY DEF Erase, Inner
<1>5. PICK j \in 1 .. Len(order) - 1 : n = order[j] /\ prev[n] = order[j + 1]
  BY DEF MayErase
<1>6. i = j /\ i + 1 \in DOMAIN order /\ n \in Listed
  <2>1. i \in DOMAIN order /\ j \in DOMAIN order /\ i + 1 \in DOMAIN order
    BY <1>2
  <2> QED
    BY <1>4, <1>5, <2>1 DEF EInv, NothingLost, Listed
<1>7. prev[n] = order[i + 1] /\ prev[n] \in Nodes
  BY <1>2, <1>5, <1>6
<1>8. /\ Listed' = Listed /\ Reached' = Reached /\ Top' = Top
      /\ \A k : Below(k)' = Below(k)
      /\ Pushing' = Pushing
  BY <1>1, ListFrame DEF vars, Pushing
<1>9. StorageExact'
  <2>1. EraseTypeOK'
    BY <1>1, <1>2, <1>7, <1>8 DEF EraseTypeOK, vars, links, destroying
  <2> QED
    BY <1>1, <1>3, <1>6, <1>8, <2>1
       DEF EInv, StorageExact, vars, links, destroying
<1>10. NothingLost' /\ PushersApart' /\ CursorsApart' /\ CoveredListed'
  BY <1>1, <1>8 DEF EInv, NothingLost, PushersApart, CursorsApart, CoveredListed,
                    vars, links
<1>11. PrevLeadsBack'
  BY <1>1, <1>3 DEF EInv, PrevLeadsBack, InFrontOf, vars, links
<1>12. OldHeadsKept'
  BY <1>1, <1>8 DEF EInv, OldHeadsKept, vars, links
<1>13. EraseUnderWay'
  BY <1>1, <1>4, <1>7, <1>8 DEF MayErase, EraseUnderWay, vars, links, destroying
<1>14. DestroyUnderWay'
  BY <1>1 DEF EInv, DestroyUnderWay, vars, links, destroying
<1> QED
  BY <1>9, <1>10, <1>11, <1>12, <1>13, <1>14 DEF EInv

LEMMA KeepPrevErase ==
  ASSUME EInv, KeepPrev
  PROVE  EInv'
<1> USE DEF At
<1>1. /\ erase_pc = "keep_prev" /\ erase_pc' = "link_next"
      /\ prev' = [prev EXCEPT ![victim] = old_prev]
      /\ UNCHANGED <<head, next, pc, new_node, old_head, cursor, order, live, raced,
                     covered, eraser, victim, old_prev, destroying>>
  BY DEF KeepPrev, EraseGoto
<1>2. EraseTypeOK /\ victim \in Nodes /\ old_prev \in Nodes
      /\ DOMAIN order = 1 .. Len(order)
  BY <1>1, EInvFacts
<1>3. PICK i \in 2 .. Len(order) - 1 : order[i] = victim /\ order[i + 1] = old_prev
  BY <1>1 DEF EInv, EraseUnderWay
<1>4. prev[victim] = old_prev
  BY <1>1 DEF EInv, EraseUnderWay
<1>6. prev' = prev
  BY <1>1, <1>2, <1>4 DEF EraseTypeOK
<1>7. /\ Listed' = Listed /\ Reached' = Reached /\ Top' = Top
      /\ \A j : Below(j)' = Below(j)
      /\ Pushing' = Pushing
  BY <1>1, ListFrame DEF Pushing
<1>8. StorageExact'
  <2>1. EraseTypeOK'
    BY <1>1, <1>2, <1>6, <1>7 DEF EraseTypeOK, destroying
  <2> QED
    BY <1>1, <1>7, <2>1 DEF EInv, StorageExact, destroying
<1>9. NothingLost' /\ PushersApart' /\ CursorsApart' /\ CoveredListed' /\ OldHeadsKept'
  BY <1>1, <1>6, <1>7 DEF EInv, NothingLost, PushersApart, CursorsApart, CoveredListed,
                          OldHeadsKept
<1>10. PrevLeadsBack'
  BY <1>1, <1>6 DEF EInv, PrevLeadsBack, InFrontOf
<1>11. EraseUnderWay' /\ DestroyUnderWay'
  BY <1>1, <1>7 DEF EInv, EraseUnderWay, DestroyUnderWay, destroying
<1> QED
  BY <1>8, <1>9, <1>10, <1>11 DEF EInv

LEMMA LinkNextErase ==
  ASSUME EInv, LinkNext
  PROVE  EInv'
<1> USE DEF At
<1> DEFINE y == next[victim]
<1>1. /\ erase_pc = "link_next" /\ erase_pc' = "link_prev"
      /\ prev' = [prev EXCEPT ![y] = old_prev]
      /\ UNCHANGED <<head, next, pc, new_node, old_head, cursor, order, live, raced,
                     covered, eraser, victim, old_prev, destroying>>
  BY DEF LinkNext, EraseGoto
<1>2. /\ EraseTypeOK /\ victim \in Nodes /\ old_prev \in Nodes
      /\ DOMAIN order = 1 .. Len(order) /\ Len(order) \in Nat
      /\ \A j \in DOMAIN order : order[j] \in Nodes
  BY <1>1, EInvFacts
<1>3. PICK i \in 2 .. Len(order) - 1 : order[i] = victim /\ order[i + 1] = old_prev
  BY <1>1 DEF EInv, EraseUnderWay
<1>4. /\ i \in DOMAIN order /\ i - 1 \in DOMAIN order /\ i # 1
      /\ i - 1 \in 1 .. Len(order) - 1 /\ (i - 1) + 1 = i
  BY <1>2
<1>5. y = order[i - 1] /\ y \in Nodes
  BY <1>2, <1>3, <1>4 DEF EInv, NothingLost, Below
<1>6. \A j \in DOMAIN order : order[j] = y <=> j = i - 1
  BY <1>4, <1>5 DEF EInv, NothingLost
<1>7. /\ Listed' = Listed /\ Reached' = Reached /\ Top' = Top
      /\ \A j : Below(j)' = Below(j)
      /\ Pushing' = Pushing
  BY <1>1, ListFrame DEF Pushing
<1>8. StorageExact'
  <2>1. EraseTypeOK'
    BY <1>1, <1>2, <1>7 DEF EraseTypeOK, destroying
  <2> QED
    BY <1>1, <1>7, <2>1 DEF EInv, StorageExact, destroying
<1>9. NothingLost' /\ PushersApart' /\ CursorsApart' /\ CoveredListed'
  BY <1>1, <1>7 DEF EInv, NothingLost, PushersApart, CursorsApart, CoveredListed
<1>10. PrevLeadsBack'
  <2> SUFFICES ASSUME NEW j \in 1 .. Len(order) - 1, order[j] \notin raced
               PROVE  prev'[order[j]] =
                        IF order[j + 1] = victim THEN old_prev ELSE order[j + 1]
    BY <1>1 DEF PrevLeadsBack, InFrontOf
  <2>1. j \in DOMAIN order /\ j + 1 \in DOMAIN order
    BY <1>2
  <2>2. prev[order[j]] = order[j + 1]
    BY <1>1 DEF EInv, PrevLeadsBack, InFrontOf
  <2>3. order[j + 1] = victim <=> j + 1 = i
    BY <1>3, <1>4, <2>1 DEF EInv, NothingLost
  <2>4. CASE j = i - 1
    BY <1>1, <1>2, <1>4, <1>5, <2>3, <2>4 DEF EraseTypeOK
  <2>5. CASE j # i - 1
    <3>1. order[j + 1] # victim
      BY <1>2, <2>3, <2>5
    <3>2. order[j] # y
      BY <1>6, <2>1, <2>5
    <3> QED
      BY <1>1, <1>2, <2>1, <2>2, <3>1, <3>2 DEF EraseTypeOK
  <2> QED
    BY <2>4, <2>5
<1>11. OldHeadsKept'
  <2> SUFFICES ASSUME NEW u \in Pushing, pc[u] \notin {"load", "exchange_prev"},
                      old_head[u] = y, y \notin raced
               PROVE  FALSE
    BY <1>1, <1>2, <1>7 DEF EInv, OldHeadsKept, EraseTypeOK
  <2>1. prev[y] = new_node[u] /\ new_node[u] \notin Listed
    BY <1>2, <1>5, NullAssumption DEF EInv, OldHeadsKept, PushersApart
  <2>2. prev[y] = victim
    BY <1>1, <1>3, <1>4, <1>5 DEF EInv, PrevLeadsBack, InFrontOf
  <2> QED
    BY <1>3, <1>4, <2>1, <2>2 DEF Listed
<1>12. EraseUnderWay' /\ DestroyUnderWay'
  BY <1>1, <1>7 DEF EInv, EraseUnderWay, DestroyUnderWay, destroying
<1> QED
  BY <1>8, <1>9, <1>10, <1>11, <1>12 DEF EInv

LEMMA DestroyNodeErase ==
  ASSUME EInv, DestroyNode
  PROVE  EInv'
<1> USE DEF At
<1>1. /\ erase_pc = "destroy" /\ erase_pc' = "none"
      /\ eraser' = NULL /\ victim' = NULL /\ old_prev' = NULL
      /\ live' = live \ {victim} /\ raced' = raced \ {victim}
      /\ next' = [n \in Nodes |-> IF n = victim THEN NULL ELSE next[n]]
      /\ prev' = [n \in Nodes |-> IF n = victim THEN NULL ELSE prev[n]]
      /\ UNCHANGED <<head, pc, new_node, old_head, cursor, order, covered, destroying>>
  BY DEF DestroyNode, EraseGoto, FreeNodes
<1>2. /\ EraseTypeOK /\ victim \in Nodes
      /\ live = Listed \cup Built \cup ({victim} \ {NULL}) \cup Doomed
      /\ it = NULL => doomed = <<>> /\ Doomed = {}
      /\ NULL \notin Nodes /\ Listed \subseteq Nodes /\ Built \subseteq Nodes
      /\ DOMAIN order = 1 .. Len(order) /\ Len(order) \in Nat
      /\ \A j \in DOMAIN order : order[j] \in Nodes
  BY <1>1, EInvFacts
<1>3. /\ victim \notin Listed /\ it = NULL
      /\ \A t \in Pushing : new_node[t] # victim
  BY <1>1 DEF EInv, EraseUnderWay
<1>4. /\ Listed' = Listed /\ Reached' = Reached /\ Top' = Top
      /\ \A j : Below(j)' = Below(j)
      /\ Pushing' = Pushing /\ Built' = Built /\ Doomed' = Doomed
  BY <1>1, <1>3, ListFrame DEF Pushing, Built, Doomed, destroying
<1>5. /\ \A n \in Listed \cup Built : next'[n] = next[n] /\ prev'[n] = prev[n]
      /\ \A j \in DOMAIN order : order[j] \in Listed
      /\ \A t \in Pushing : new_node[t] \in Built
  BY <1>1, <1>2, <1>3 DEF Built, Listed
<1>6. StorageExact'
  <2>1. EraseTypeOK'
    BY <1>1, <1>2, <1>3, <1>4 DEF EraseTypeOK, destroying
  <2>2. victim \notin Built
    BY <1>3 DEF Built
  <2>3. live' = Listed' \cup Built' \cup ({victim'} \ {NULL}) \cup Doomed'
    BY <1>1, <1>2, <1>3, <1>4, <2>2
  <2> QED
    BY <1>1, <1>2, <2>1, <2>3 DEF StorageExact, Built, Doomed, destroying
<1>7. NothingLost' /\ PushersApart' /\ CursorsApart' /\ CoveredListed'
  BY <1>1, <1>4, <1>5 DEF EInv, NothingLost, PushersApart, CursorsApart, CoveredListed
<1>8. PrevLeadsBack'
  <2> SUFFICES ASSUME NEW j \in 1 .. Len(order) - 1, order[j] \notin raced'
               PROVE  prev'[order[j]] = order[j + 1]
    BY <1>1, <1>4 DEF PrevLeadsBack, InFrontOf
  <2>1. order[j] \in Listed /\ order[j] \notin raced
    BY <1>1, <1>2, <1>3, <1>5
  <2>2. prev[order[j]] = order[j + 1]
    BY <1>1, <2>1 DEF EInv, PrevLeadsBack, InFrontOf
  <2> QED
    BY <1>5, <2>1, <2>2
<1>9. OldHeadsKept'
  BY <1>1, <1>2, <1>3, <1>4, <1>5 DEF EInv, OldHeadsKept, PushersApart, Reached
<1>10. EraseUnderWay' /\ DestroyUnderWay'
  BY <1>1, <1>2, <1>3 DEF EInv, EraseUnderWay, DestroyUnderWay, destroying
<1> QED
  BY <1>6, <1>7, <1>8, <1>9, <1>10 DEF EInv

\* What is before the i-th element of a sequence, and what is after it.
LEMMA PartsOfSequence ==
  ASSUME NEW S, NEW s \in Seq(S), NEW i \in 1 .. Len(s)
  PROVE  /\ SubSeq(s, 1, i - 1) \in Seq(S)
         /\ Len(SubSeq(s, 1, i - 1)) = i - 1
         /\ \A j \in 1 .. i - 1 : SubSeq(s, 1, i - 1)[j] = s[j]
         /\ SubSeq(s, i + 1, Len(s)) \in Seq(S)
         /\ Len(SubSeq(s, i + 1, Len(s))) = Len(s) - i
         /\ \A j \in 1 .. Len(s) - i : SubSeq(s, i + 1, Len(s))[j] = s[i + j]
<1>1. /\ SubSeq(s, 1, i - 1) \in Seq(S)
      /\ Len(SubSeq(s, 1, i - 1)) = i - 1
      /\ \A j \in 1 .. i - 1 : SubSeq(s, 1, i - 1)[j] = s[j]
  OBVIOUS
<1>2. /\ SubSeq(s, i + 1, Len(s)) \in Seq(S)
      /\ Len(SubSeq(s, i + 1, Len(s))) = Len(s) - i
      /\ \A j \in 1 .. Len(s) - i : SubSeq(s, i + 1, Len(s))[j] = s[i + j]
  OBVIOUS
<1> QED
  BY <1>1, <1>2

LEMMA Joined ==
  ASSUME NEW S, NEW a \in Seq(S), NEW b \in Seq(S)
  PROVE  /\ a \o b \in Seq(S) /\ Len(a \o b) = Len(a) + Len(b)
         /\ DOMAIN (a \o b) = 1 .. Len(a) + Len(b)
         /\ \A j \in 1 .. Len(a) + Len(b) :
              (a \o b)[j] = IF j <= Len(a) THEN a[j] ELSE b[j - Len(a)]
OBVIOUS

\* A sequence without its i-th element.
Without(s, i) == SubSeq(s, 1, i - 1) \o SubSeq(s, i + 1, Len(s))

LEMMA Removal ==
  ASSUME NEW S, NEW s \in Seq(S), NEW i \in 1 .. Len(s)
  PROVE  /\ Without(s, i) \in Seq(S)
         /\ Len(Without(s, i)) = Len(s) - 1
         /\ DOMAIN Without(s, i) = 1 .. Len(s) - 1
         /\ \A j \in 1 .. Len(s) - 1 :
              Without(s, i)[j] = IF j < i THEN s[j] ELSE s[j + 1]
<1>1. PICK a : a = SubSeq(s, 1, i - 1)
  OBVIOUS
<1>2. PICK b : b = SubSeq(s, i + 1, Len(s))
  OBVIOUS
<1>3. a \in Seq(S) /\ Len(a) = i - 1 /\ \A j \in 1 .. i - 1 : a[j] = s[j]
  BY <1>1, PartsOfSequence
<1>4. b \in Seq(S) /\ Len(b) = Len(s) - i
      /\ \A j \in 1 .. Len(s) - i : b[j] = s[i + j]
  BY <1>2, PartsOfSequence
<1>5. /\ a \o b \in Seq(S) /\ Len(a \o b) = Len(a) + Len(b)
      /\ DOMAIN (a \o b) = 1 .. Len(a) + Len(b)
      /\ \A j \in 1 .. Len(a) + Len(b) :
           (a \o b)[j] = IF j <= Len(a) THEN a[j] ELSE b[j - Len(a)]
  BY <1>3, <1>4, Joined
<1>6. i \in Nat /\ Len(s) \in Nat /\ Len(a) + Len(b) = Len(s) - 1
  <2>1. \A l, m \in Nat : m \in 1 .. l => (m - 1) + (l - m) = l - 1
    OBVIOUS
  <2>2. i \in Nat /\ Len(s) \in Nat
    OBVIOUS
  <2> QED
    BY <1>3, <1>4, <2>1, <2>2
<1>7. ASSUME NEW j \in 1 .. Len(s) - 1
      PROVE  (a \o b)[j] = IF j < i THEN s[j] ELSE s[j + 1]
  <2>1. (a \o b)[j] = IF j <= i - 1 THEN a[j] ELSE b[j - (i - 1)]
    BY <1>3, <1>5, <1>6
  <2>2. CASE j < i
    <3>1. j \in 1 .. i - 1 /\ j <= i - 1
      BY <1>6, <2>2
    <3> QED
      BY <1>3, <2>1, <2>2, <3>1
  <2>3. CASE ~ (j < i)
    <3>1. /\ j - (i - 1) \in 1 .. Len(s) - i /\ i + (j - (i - 1)) = j + 1
          /\ ~ (j <= i - 1)
      BY <1>6, <2>3
    <3>2. b[j - (i - 1)] = s[j + 1]
      BY <1>4, <3>1
    <3> QED
      BY <2>1, <2>3, <3>1, <3>2
  <2> QED
    BY <2>2, <2>3
<1>8. Without(s, i) = a \o b
  BY <1>1, <1>2, Zenon DEF Without
<1> QED
  BY <1>5, <1>6, <1>7, <1>8

LEMMA LinkPrevErase ==
  ASSUME EInv, LinkPrev
  PROVE  EInv'
<1> USE DEF At
<1> DEFINE L == Len(order)
<1>1. /\ erase_pc = "link_prev" /\ erase_pc' = "destroy"
      /\ next' = [next EXCEPT ![old_prev] = next[victim]]
      /\ covered' = [t \in Threads |-> covered[t] \ {victim}]
      /\ UNCHANGED <<head, prev, pc, new_node, old_head, cursor, live, raced,
                     eraser, victim, old_prev, destroying>>
  BY DEF LinkPrev, EraseGoto
<1>2. /\ EraseTypeOK /\ victim \in Nodes /\ old_prev \in Nodes
      /\ live = Listed \cup Built \cup ({victim} \ {NULL}) \cup Doomed
      /\ it = NULL => doomed = <<>> /\ Doomed = {}
      /\ DOMAIN order = 1 .. L /\ L \in Nat /\ NULL \notin Nodes
      /\ \A j \in DOMAIN order : order[j] \in Nodes
  BY <1>1, EInvFacts
<1>3. PICK i \in 2 .. L - 1 : order[i] = victim /\ order[i + 1] = old_prev
  BY <1>1 DEF EInv, EraseUnderWay
<1>4. /\ i \in DOMAIN order /\ i - 1 \in DOMAIN order /\ i + 1 \in DOMAIN order
      /\ i # 1 /\ i + 1 # 1 /\ i \in Nat /\ (i + 1) - 1 = i
  BY <1>2
<1>5. /\ it = NULL /\ \A t \in Threads : pc[t] # "walk"
      /\ \A t \in Pushing : victim \in covered[t]
  BY <1>1 DEF EInv, EraseUnderWay
<1>6. \A j, k \in DOMAIN order : order[j] = order[k] => j = k
  BY DEF EInv, NothingLost
<1>7. order' = SubSeq(order, 1, i - 1) \o SubSeq(order, i + 1, L)
  BY <1>3, <1>4, <1>6 DEF LinkPrev
<1>8. /\ order' \in Seq(Nodes) /\ Len(order') = L - 1 /\ DOMAIN order' = 1 .. L - 1
      /\ \A j \in 1 .. L - 1 : order'[j] = IF j < i THEN order[j] ELSE order[j + 1]
  <2>1. order \in Seq(Nodes) /\ i \in 1 .. Len(order)
    BY <1>2, <1>4 DEF EraseTypeOK
  <2>2. order' = Without(order, i)
    BY <1>7 DEF Without
  <2> QED
    BY <2>1, <2>2, Removal
<1>9. Listed' = Listed \ {victim}
  <2>1. ASSUME NEW j \in 1 .. L - 1
        PROVE  order'[j] \in Listed /\ order'[j] # victim
    <3>1. CASE j < i
      BY <1>2, <1>3, <1>4, <1>6, <1>8, <3>1 DEF Listed
    <3>2. CASE ~ (j < i)
      <4>1. j + 1 \in DOMAIN order /\ j + 1 # i
        BY <1>2, <3>2
      <4> QED
        BY <1>3, <1>4, <1>6, <1>8, <3>2, <4>1 DEF Listed
    <3> QED
      BY <3>1, <3>2
  <2>2. ASSUME NEW j \in DOMAIN order, j # i
        PROVE  \E k \in 1 .. L - 1 : order'[k] = order[j]
    <3>1. CASE j < i
      <4>1. j \in 1 .. L - 1
        BY <1>2, <1>4, <3>1
      <4> QED
        BY <1>8, <3>1, <4>1
    <3>2. CASE ~ (j < i)
      <4>1. j - 1 \in 1 .. L - 1 /\ ~ (j - 1 < i) /\ (j - 1) + 1 = j
        BY <1>2, <1>4, <2>2, <3>2
      <4> QED
        BY <1>8, <4>1
    <3> QED
      BY <3>1, <3>2
  <2>3. \A n \in Listed : n = victim \/ \E k \in 1 .. L - 1 : order'[k] = n
    BY <1>3, <2>2 DEF Listed
  <2>4. Listed' = { order'[k] : k \in 1 .. L - 1 }
    BY <1>8 DEF Listed
  <2> QED
    BY <2>1, <2>3, <2>4
<1>10. Pushing' = Pushing /\ Built' = Built /\ Doomed' = Doomed
  BY <1>1 DEF Pushing, Built, Doomed, destroying
<1>11. head = order[L] /\ order'[L - 1] = order[L] /\ order' # <<>> /\ head # victim
  <2>1. L - 1 \in 1 .. L - 1 /\ ~ (L - 1 < i) /\ (L - 1) + 1 = L /\ L # i
        /\ L \in DOMAIN order /\ order # <<>>
    <3>1. L >= 3
      BY <1>2
    <3> QED
      BY <1>2, <1>4, <3>1
  <2>2. order'[L - 1] = order[L] /\ order' # <<>>
    BY <1>8, <2>1
  <2>3. head = order[L]
    BY <2>1 DEF EInv, NothingLost, Top
  <2> QED
    BY <1>3, <1>4, <1>6, <2>1, <2>2, <2>3
<1>12. EraseTypeOK'
  <2>1. cursor' \in [Threads -> Reached']
    BY <1>1, <1>2, <1>5 DEF EInv, CursorsApart, EraseTypeOK, Reached
  <2>2. head' \in Reached'
    BY <1>1, <1>2, <1>9, <1>11 DEF EraseTypeOK, Reached
  <2>3. next' \in [Nodes -> Nodes \cup {NULL}]
    BY <1>1, <1>2 DEF EraseTypeOK
  <2> QED
    BY <1>1, <1>2, <1>8, <2>1, <2>2, <2>3 DEF EraseTypeOK, destroying
<1>13. StorageExact'
  <2>1. victim \in Listed
    BY <1>3, <1>4 DEF Listed
  <2> QED
    BY <1>1, <1>2, <1>9, <1>10, <1>12, <2>1 DEF StorageExact, Built, Doomed, destroying
<1>14. NothingLost'
  <2>1. head' = Top'
    BY <1>1, <1>8, <1>11 DEF Top
  <2>2. ASSUME NEW j \in 1 .. L - 1
        PROVE  next'[order'[j]] = Below(j)'
    <3>1. CASE j < i
      <4>1. j \in DOMAIN order /\ order'[j] = order[j] /\ order[j] # old_prev
            /\ (j # 1 => j - 1 \in 1 .. L - 1 /\ j - 1 < i)
        BY <1>2, <1>3, <1>4, <1>6, <1>8, <3>1
      <4>2. next'[order'[j]] = Below(j)
        BY <1>1, <1>2, <4>1 DEF EInv, NothingLost, EraseTypeOK
      <4> QED
        BY <1>8, <4>1, <4>2 DEF Below
    <3>2. CASE j = i
      <4>1. order'[j] = old_prev /\ i - 1 \in 1 .. L - 1 /\ i - 1 < i
        BY <1>3, <1>4, <1>8, <3>2
      <4>2. next[victim] = order[i - 1]
        BY <1>3, <1>4 DEF EInv, NothingLost, Below
      <4> QED
        BY <1>1, <1>2, <1>4, <1>8, <3>2, <4>1, <4>2 DEF EraseTypeOK, Below
    <3>3. CASE j > i
      <4>1. /\ j + 1 \in DOMAIN order /\ order'[j] = order[j + 1] /\ j + 1 # i + 1
            /\ (j + 1) - 1 = j /\ j # 1 /\ j + 1 # 1
            /\ j - 1 \in 1 .. L - 1 /\ ~ (j - 1 < i) /\ (j - 1) + 1 = j
        BY <1>2, <1>4, <1>8, <3>3
      <4>2. order[j + 1] # old_prev
        BY <1>3, <1>4, <1>6, <4>1
      <4>3. next'[order'[j]] = order[j]
        BY <1>1, <1>2, <4>1, <4>2 DEF EInv, NothingLost, Below, EraseTypeOK
      <4>4. order'[j - 1] = order[j]
        BY <1>8, <4>1
      <4> QED
        BY <4>1, <4>3, <4>4 DEF Below
    <3> QED
      BY <1>4, <3>1, <3>2, <3>3
  <2>3. ASSUME NEW j \in 1 .. L - 1, NEW k \in 1 .. L - 1, order'[j] = order'[k]
        PROVE  j = k
    <3> DEFINE f(m) == IF m < i THEN m ELSE m + 1
    <3>1. f(j) \in DOMAIN order /\ f(k) \in DOMAIN order /\ (f(j) = f(k) => j = k)
      BY <1>2, <1>4
    <3>2. order'[j] = order[f(j)] /\ order'[k] = order[f(k)]
      BY <1>8
    <3> QED
      BY <1>6, <2>3, <3>1, <3>2
  <2> QED
    BY <1>8, <2>1, <2>2, <2>3 DEF NothingLost
<1>15. PushersApart'
  <2>1. \A t \in Pushing : new_node[t] # old_prev
    BY <1>3, <1>4 DEF EInv, PushersApart, Listed
  <2> QED
    BY <1>1, <1>2, <1>9, <1>10, <2>1 DEF EInv, PushersApart, EraseTypeOK
<1>16. PrevLeadsBack'
  <2> SUFFICES ASSUME NEW j \in 1 .. L - 2, order'[j] \notin raced
               PROVE  prev[order'[j]] = order'[j + 1]
    BY <1>1, <1>2, <1>8 DEF PrevLeadsBack, InFrontOf
  <2>1. j \in 1 .. L - 1 /\ j + 1 \in 1 .. L - 1
    BY <1>2
  <2>2. CASE j + 1 < i
    <3>1. order'[j] = order[j] /\ order'[j + 1] = order[j + 1] /\ order[j + 1] # victim
      BY <1>2, <1>3, <1>4, <1>6, <1>8, <2>1, <2>2
    <3> QED
      BY <2>1, <3>1 DEF EInv, PrevLeadsBack, InFrontOf
  <2>3. CASE j + 1 = i
    <3>1. order'[j] = order[j] /\ order'[j + 1] = old_prev /\ order[j + 1] = victim
      BY <1>2, <1>3, <1>4, <1>8, <2>1, <2>3
    <3> QED
      BY <1>1, <2>1, <3>1 DEF EInv, PrevLeadsBack, InFrontOf
  <2>4. CASE j + 1 > i
    <3>1. /\ order'[j] = order[j + 1] /\ order'[j + 1] = order[(j + 1) + 1]
          /\ j + 1 \in 1 .. L - 1 /\ (j + 1) + 1 \in DOMAIN order /\ (j + 1) + 1 # i
      BY <1>2, <1>4, <1>8, <2>1, <2>4
    <3>2. order[(j + 1) + 1] # victim
      BY <1>3, <1>4, <1>6, <3>1
    <3> QED
      BY <3>1, <3>2 DEF EInv, PrevLeadsBack, InFrontOf
  <2> QED
    BY <1>4, <2>1, <2>2, <2>3, <2>4
<1>17. OldHeadsKept' /\ CoveredListed'
  <2>1. \A t \in Pushing : covered'[t] = covered[t] \ {victim}
    BY <1>1 DEF Pushing
  <2>2. \A t \in Pushing : pc[t] # "load" => old_head[t] # victim
    BY <1>5 DEF EInv, OldHeadsKept
  <2>3. OldHeadsKept'
    BY <1>1, <1>9, <1>10, <2>1, <2>2 DEF EInv, OldHeadsKept, Reached
  <2>4. CoveredListed'
    BY <1>1, <1>9, <1>10, <2>1 DEF EInv, CoveredListed
  <2> QED
    BY <2>3, <2>4
<1>18. EraseUnderWay'
  <2>1. \A t \in Pushing : new_node[t] # victim
    BY <1>3, <1>4 DEF EInv, PushersApart, Listed
  <2> QED
    BY <1>1, <1>5, <1>9, <1>10, <2>1 DEF EraseUnderWay, destroying
<1>19. DestroyUnderWay' /\ CursorsApart'
  BY <1>1, <1>2, <1>5 DEF EInv, DestroyUnderWay, CursorsApart, destroying
<1> QED
  BY <1>13, <1>14, <1>15, <1>16, <1>17, <1>18, <1>19 DEF EInv

-----------------------------------------------------------------------------
(***************************************************************************)
(* The destructor.                                                         *)
(***************************************************************************)
LEMMA DestroyBeginErase ==
  ASSUME EInv, DestroyBegin
  PROVE  EInv'
<1> USE DEF At
<1>1. /\ eraser = NULL /\ head # NULL /\ head' = NULL /\ it' = head
      /\ \A t \in Threads : pc[t] = "idle"
      /\ doomed' = order /\ order' = <<>>
      /\ UNCHANGED <<next, prev, pc, new_node, old_head, cursor, live, raced, covered,
                     erasing>>
  BY DEF DestroyBegin
<1>2. /\ EraseTypeOK /\ erase_pc = "none" /\ victim = NULL
      /\ live = Listed \cup Built \cup ({victim} \ {NULL}) \cup Doomed
      /\ it = NULL => doomed = <<>> /\ Doomed = {}
      /\ NULL \notin Nodes
  BY <1>1, EInvFacts, NoThreadAssumption DEF EraseTypeOK
<1>3. Pushing = {} /\ Pushing' = {}
  BY <1>1 DEF Pushing
<1>4. it = NULL /\ order # <<>>
  BY <1>1 DEF EInv, DestroyUnderWay, NothingLost, Top
<1>5. Listed' = {} /\ Doomed' = Listed /\ Built = {} /\ Built' = {}
  BY <1>1, <1>3 DEF Listed, Doomed, Built
<1>6. \A t \in Threads : cursor[t] = NULL
  BY <1>1 DEF EInv, CursorsApart
<1>7. EraseTypeOK'
  <2>1. cursor' \in [Threads -> Reached'] /\ head' \in Reached'
    BY <1>1, <1>2, <1>6 DEF EraseTypeOK, Reached
  <2>2. order' \in Seq(Nodes) /\ doomed' \in Seq(Nodes)
    BY <1>1, <1>2 DEF EraseTypeOK
  <2>3. erase_pc' = "none" /\ {eraser', victim', old_prev'} = {NULL}
    BY <1>1, <1>2 DEF EraseTypeOK, erasing
  <2> QED
    BY <1>1, <1>2, <2>1, <2>2, <2>3 DEF EraseTypeOK
<1>8. StorageExact'
  BY <1>1, <1>2, <1>4, <1>5, <1>7 DEF StorageExact, Built, Doomed, erasing
<1>9. NothingLost' /\ PushersApart' /\ CursorsApart' /\ CoveredListed'
      /\ OldHeadsKept' /\ PrevLeadsBack'
  BY <1>1, <1>3, <1>6 DEF NothingLost, PushersApart, CursorsApart, CoveredListed,
                          OldHeadsKept, PrevLeadsBack, Top
<1>10. EraseUnderWay'
  BY <1>1, <1>2 DEF EraseUnderWay, erasing
<1>11. DestroyUnderWay'
  BY <1>1, <1>2, <1>4 DEF EInv, NothingLost, Top, Below, DestroyUnderWay, erasing
<1> QED
  BY <1>8, <1>9, <1>10, <1>11 DEF EInv

LEMMA DestroyNextErase ==
  ASSUME EInv, DestroyNext
  PROVE  EInv'
<1> USE DEF At
<1> DEFINE D == Len(doomed)
<1>1. /\ it # NULL /\ it' = next[it] /\ doomed' = SubSeq(doomed, 1, D - 1)
      /\ live' = live \ {it} /\ raced' = raced \ {it}
      /\ next' = [n \in Nodes |-> IF n = it THEN NULL ELSE next[n]]
      /\ prev' = [n \in Nodes |-> IF n = it THEN NULL ELSE prev[n]]
      /\ UNCHANGED <<head, pc, new_node, old_head, cursor, order, covered, erasing>>
  BY DEF DestroyNext, FreeNodes
<1>2. /\ EraseTypeOK /\ it \in Nodes
      /\ live = Listed \cup Built \cup ({victim} \ {NULL}) \cup Doomed
      /\ NULL \notin Nodes
  BY <1>1, EInvFacts
<1>3. /\ erase_pc = "none" /\ order = <<>> /\ \A t \in Threads : pc[t] = "idle"
      /\ victim = NULL
  BY <1>1, EInvFacts DEF EInv, DestroyUnderWay
<1>4. Pushing = {} /\ Pushing' = {} /\ Listed = {} /\ Listed' = {}
  BY <1>1, <1>3 DEF Pushing, Listed
<1>5. /\ doomed # <<>> /\ it = doomed[D]
      /\ \A i \in DOMAIN doomed : next[doomed[i]] = IF i = 1 THEN NULL ELSE doomed[i - 1]
      /\ \A i, j \in DOMAIN doomed : doomed[i] = doomed[j] => i = j
  BY <1>1 DEF EInv, DestroyUnderWay
<1>6. D \in DOMAIN doomed /\ D \in Nat \ {0} /\ DOMAIN doomed = 1 .. D
      /\ \A i \in DOMAIN doomed : doomed[i] \in Nodes
  BY <1>2, <1>5 DEF EraseTypeOK
<1>7. /\ doomed' \in Seq(Nodes) /\ Len(doomed') = D - 1 /\ DOMAIN doomed' = 1 .. D - 1
      /\ \A i \in 1 .. D - 1 : doomed'[i] = doomed[i]
  BY <1>1, <1>2, <1>6 DEF EraseTypeOK
<1>8. \A i \in 1 .. D - 1 : i \in DOMAIN doomed /\ doomed[i] # it
  BY <1>5, <1>6
<1>9. Doomed' = Doomed \ {it}
  <2>1. \A i \in DOMAIN doomed : i = D \/ i \in 1 .. D - 1
    BY <1>6
  <2> QED
    BY <1>5, <1>7, <1>8, <2>1 DEF Doomed
<1>10. it' = IF doomed' = <<>> THEN NULL ELSE doomed'[D - 1]
  <2>1. CASE D = 1
    BY <1>1, <1>5, <1>6, <1>7, <2>1
  <2>2. CASE D # 1
    <3>1. D - 1 \in 1 .. D - 1
      BY <1>6, <2>2
    <3> QED
      BY <1>1, <1>5, <1>6, <1>7, <2>2, <3>1
  <2> QED
    BY <2>1, <2>2
<1>11. EraseTypeOK'
  BY <1>1, <1>2, <1>3, <1>4, <1>7 DEF EraseTypeOK, Reached, erasing
<1>12. StorageExact'
  <2>1. Built = {} /\ Built' = {}
    BY <1>4 DEF Built
  <2>2. it' = NULL => doomed' = <<>>
    <3>1. doomed' # <<>> => D - 1 \in 1 .. D - 1
      BY <1>6, <1>7
    <3> QED
      BY <1>2, <1>6, <1>7, <1>8, <1>10, <3>1
  <2> QED
    BY <1>1, <1>2, <1>3, <1>4, <1>9, <1>11, <2>1, <2>2
       DEF StorageExact, Built, Doomed, erasing
<1>13. NothingLost' /\ PushersApart' /\ CursorsApart' /\ CoveredListed'
      /\ OldHeadsKept' /\ PrevLeadsBack'
  BY <1>1, <1>3, <1>4 DEF EInv, NothingLost, PushersApart, CursorsApart, CoveredListed,
                          OldHeadsKept, PrevLeadsBack, Top
<1>14. EraseUnderWay'
  BY <1>1, <1>3 DEF EraseUnderWay, erasing
<1>15. DestroyUnderWay'
  <2>1. \A i \in 1 .. D - 1 :
          next'[doomed'[i]] = IF i = 1 THEN NULL ELSE doomed'[i - 1]
    <3> TAKE i \in 1 .. D - 1
    <3>1. doomed[i] \in Nodes /\ doomed[i] # it /\ i \in DOMAIN doomed
          /\ doomed'[i] = doomed[i] /\ (i # 1 => i - 1 \in 1 .. D - 1)
      BY <1>6, <1>7, <1>8
    <3> QED
      BY <1>1, <1>5, <1>7, <3>1
  <2>2. \A i, j \in 1 .. D - 1 : doomed'[i] = doomed'[j] => i = j
    BY <1>5, <1>7, <1>8
  <2> QED
    BY <1>1, <1>3, <1>7, <1>10, <2>1, <2>2 DEF DestroyUnderWay, erasing
<1> QED
  BY <1>12, <1>13, <1>14, <1>15 DEF EInv

-----------------------------------------------------------------------------
LEMMA EraseStepInvariant == EInv /\ [EraseNext]_allVars => EInv'
<1> SUFFICES ASSUME EInv, [EraseNext]_allVars PROVE EInv'
  OBVIOUS
<1>1. ASSUME NEW t \in Threads \ {eraser}, it = NULL, Push(t) PROVE EInv'
  BY <1>1, PushErase
<1>2. ASSUME NEW t \in Threads, it = NULL, PushExchangePrev(t) PROVE EInv'
  BY <1>2, PushExchangePrevErase
<1>3. ASSUME NEW t \in Threads, it = NULL, OtherStep(t) \/ PushSucceeds(t) PROVE EInv'
  BY <1>3, PushSucceedsErase, OtherStepsErase DEF OtherStep
<1>4. ASSUME NEW t \in Threads, it = NULL, Walk(t) PROVE EInv'
  BY <1>4, OtherStepsErase DEF Walk
<1>5. ASSUME NEW t \in Threads, NEW n \in Nodes, it = NULL, MayErase(n), Erase(t, n)
      PROVE  EInv'
  BY <1>5, EraseErase
<1>6. CASE EraseStep
  BY <1>6, KeepPrevErase, LinkNextErase, LinkPrevErase, DestroyNodeErase DEF EraseStep
<1>7. CASE DestroyBegin \/ DestroyNext
  BY <1>7, DestroyBeginErase, DestroyNextErase
<1>8. CASE UNCHANGED allVars
  <2>1. UNCHANGED <<head, next, prev, pc, new_node, old_head, cursor, order, live,
                    raced, covered, eraser, erase_pc, victim, old_prev, it, doomed>>
    BY <1>8 DEF allVars, vars, links, erasing, destroying
  <2>2. Listed' = Listed /\ Reached' = Reached /\ Pushing' = Pushing
    BY <2>1 DEF Listed, Reached, Pushing
  <2>3. StorageExact'
    BY <2>1, <2>2 DEF EInv, StorageExact, EraseTypeOK, At
  <2>4. NothingLost' /\ PushersApart' /\ CursorsApart' /\ CoveredListed'
    BY <2>1, <2>2 DEF EInv, NothingLost, PushersApart, CursorsApart, CoveredListed,
                      At, Top, Below
  <2>5. PrevLeadsBack' /\ OldHeadsKept'
    BY <2>1, <2>2 DEF EInv, PrevLeadsBack, InFrontOf, OldHeadsKept, At
  <2>6. EraseUnderWay' /\ DestroyUnderWay'
    BY <2>1, <2>2 DEF EInv, EraseUnderWay, DestroyUnderWay, At
  <2> QED
    BY <2>3, <2>4, <2>5, <2>6 DEF EInv
<1> QED
  BY <1>1, <1>2, <1>3, <1>4, <1>5, <1>6, <1>7, <1>8 DEF EraseNext, ListNext, OngoingStep

\* The list, its storage, prev_ and what each thread holds stay in step.
THEOREM EraseInvariant == EraseSpec => []EInv
  BY EraseInitInvariant, EraseStepInvariant, PTL DEF EraseSpec

\* A node has storage exactly while it is listed, pushed, erased or about to be
\* freed by the destructor, which therefore frees all of them, each once.
THEOREM StorageExactAlways == EraseSpec => []StorageExact
<1>1. EInv => StorageExact
  BY DEF EInv
<1> QED
  BY <1>1, EraseInvariant, PTL

\* No push is lost and none counts twice, though nodes are erased and their
\* storage comes back under the same address.
THEOREM NothingLostWithErase == EraseSpec => []NothingLost
<1>1. EInv => NothingLost
  BY DEF EInv
<1> QED
  BY <1>1, EraseInvariant, PTL

\* No thread reads or writes a node whose storage is gone, if nodes are erased
\* only when every push under way began after another node got in front of them.
THEOREM TouchesLiveOnlyAlways == EraseSpec => []TouchesLiveOnly
<1>1. EInv => TouchesLiveOnly
  <2> SUFFICES ASSUME EInv PROVE TouchesLiveOnly
    OBVIOUS
  <2>1. /\ EraseTypeOK
        /\ live = Listed \cup Built \cup ({victim} \ {NULL}) \cup Doomed
        /\ DOMAIN order = 1 .. Len(order) /\ Len(order) \in Nat
        /\ erase_pc # "none" => victim \in live
    BY EInvFacts
  <2>2. Listed \subseteq live
    BY <2>1
  <2>3. ASSUME NEW t \in Threads, At(t, "exchange_prev")
        PROVE  old_head[t] \in live
    <3>1. t \in Pushing
      BY <2>3 DEF At, Pushing
    <3>2. old_head[t] \in Reached /\ old_head[t] # NULL
      BY <2>3, <3>1 DEF EInv, PushersApart, OldHeadsKept, At
    <3> QED
      BY <2>2, <3>2 DEF Reached
  <2>4. \A t \in Threads : cursor[t] \in live \cup {NULL}
    BY <2>1, <2>2 DEF EraseTypeOK, Reached
  <2>5. ASSUME erase_pc \in {"link_next", "link_prev"}
        PROVE  next[victim] \in live /\ old_prev \in live
    <3>1. PICK i \in 2 .. Len(order) - 1 : order[i] = victim /\ order[i + 1] = old_prev
      BY <2>5 DEF EInv, EraseUnderWay
    <3>2. i \in DOMAIN order /\ i - 1 \in DOMAIN order /\ i + 1 \in DOMAIN order /\ i # 1
      BY <2>1
    <3>3. next[victim] = order[i - 1]
      BY <3>1, <3>2 DEF EInv, NothingLost, Below
    <3> QED
      BY <2>2, <3>1, <3>2, <3>3 DEF Listed
  <2>6. it # NULL => it \in live
    <3> SUFFICES ASSUME it # NULL PROVE it \in live
      OBVIOUS
    <3>1. doomed # <<>> /\ it = doomed[Len(doomed)]
      BY DEF EInv, DestroyUnderWay
    <3>2. Len(doomed) \in DOMAIN doomed
      BY <2>1, <3>1 DEF EraseTypeOK
    <3> QED
      BY <2>1, <3>1, <3>2 DEF Doomed
  <2> QED
    BY <2>1, <2>3, <2>4, <2>5, <2>6 DEF TouchesLiveOnly
<1> QED
  BY <1>1, EraseInvariant, PTL

\* prev_ leads back to the node in front, but where pushes have raced for it.
THEOREM BackLinkedAlways == EraseSpec => []BackLinked
<1>1. EInv => BackLinked
  BY DEF EInv, PrevLeadsBack, InFrontOf, BackLinked
<1> QED
  BY <1>1, EraseInvariant, PTL

-----------------------------------------------------------------------------
LEMMA EraseStepImplements ==
  EInv /\ [EraseNext]_allVars => [Promise!Next]_<<order, cursor>>
<1> SUFFICES ASSUME EInv, [EraseNext]_allVars, ~ UNCHANGED <<order, cursor>>
             PROVE  Promise!Next
  OBVIOUS
<1>1. EraseTypeOK
  BY EInvFacts
<1>2. ASSUME NEW t \in Threads, CasSucceeds(t)
      PROVE  Promise!Next
  <2>1. new_node[t] \in Nodes \ Listed
    BY <1>2 DEF CasSucceeds, At, EInv, PushersApart, Pushing
  <2>2. Promise!Contents = Listed
    BY DEF Promise!Contents, Listed
  <2> QED
    BY <1>2, <2>1, <2>2 DEF CasSucceeds, Promise!Next, Promise!Push
<1>3. ASSUME NEW t \in Threads, WalkBegin(t)
      PROVE  Promise!Next
  BY <1>3 DEF WalkBegin, EInv, NothingLost, Top, Promise!Next, Promise!Begin,
     Promise!Top
<1>4. ASSUME NEW t \in Threads, WalkAdvance(t)
      PROVE  Promise!Next
  <2>1. PICK i \in DOMAIN order : cursor[t] = order[i]
    BY <1>1, <1>4 DEF WalkAdvance, EraseTypeOK, Reached, Listed
  <2>2. next[cursor[t]] = Promise!Below(i)
    BY <2>1 DEF EInv, NothingLost, Below, Promise!Below
  <2> QED
    BY <1>4, <2>1, <2>2 DEF WalkAdvance, Promise!Next, Promise!Advance
<1>5. ASSUME NEW t \in Threads, WalkEnd(t)
      PROVE  Promise!Next
  BY <1>5 DEF WalkEnd, Promise!Next, Promise!Stop
<1>6. CASE LinkPrev
  <2>1. Promise!NoWalk
    BY <1>6 DEF LinkPrev, EInv, EraseUnderWay, CursorsApart, Promise!NoWalk
  <2>2. PICK i \in DOMAIN order :
          order' = SubSeq(order, 1, i - 1) \o SubSeq(order, i + 1, Len(order))
    BY <1>6 DEF LinkPrev
  <2> QED
    BY <1>6, <2>1, <2>2 DEF LinkPrev, Promise!Next, Promise!Erase
<1>7. CASE DestroyBegin
  <2>1. Promise!NoWalk
    BY <1>7 DEF DestroyBegin, EInv, CursorsApart, At, Promise!NoWalk
  <2> QED
    BY <1>7, <2>1 DEF DestroyBegin, Promise!Next, Promise!Clear
<1>8. ASSUME NEW t \in Threads,
             Push(t) \/ PushExchangePrev(t) \/ \E n \in Nodes : Erase(t, n)
      PROVE  FALSE
  BY <1>8 DEF Push, PushFront, PushExchangePrev, ExchangePrev, Erase, vars
<1>9. ASSUME NEW t \in Threads, LoadHead(t) \/ ExchangeNext(t) \/ CasFails(t)
      PROVE  FALSE
  BY <1>9 DEF LoadHead, ExchangeNext, CasFails
<1>10. CASE KeepPrev \/ LinkNext \/ DestroyNode \/ DestroyNext
  BY <1>10 DEF KeepPrev, LinkNext, DestroyNode, DestroyNext
<1>11. CASE UNCHANGED allVars
  BY <1>11 DEF allVars, vars
<1>12. ASSUME NEW t \in Threads, OtherStep(t) \/ PushSucceeds(t) \/ Walk(t)
       PROVE  Promise!Next
  BY <1>2, <1>3, <1>4, <1>5, <1>9, <1>12 DEF OtherStep, PushSucceeds, Walk
<1> QED
  BY <1>6, <1>7, <1>8, <1>10, <1>11, <1>12 DEF EraseNext, ListNext, OngoingStep, EraseStep

\* With erase() and the destructor the list is still one whose elements come and
\* go at one instant each, and a walk sees the list as it was when it began.
THEOREM EraseImplementsPushList == EraseSpec => PushListSpec
<1>1. EraseInit => Promise!Init
  BY DEF EraseInit, Init, Promise!Init
<1> QED
  BY <1>1, EraseStepImplements, EraseInvariant, PTL DEF EraseSpec, PushListSpec, Promise!Spec

-----------------------------------------------------------------------------
(***************************************************************************)
(* Pool, for any number of threads, arenas, objects and failures: no two   *)
(* threads ever have the same arena, its flag tells whether one has it, no *)
(* arena is lost but by a push that fails, and there are never more arenas *)
(* than threads.                                                           *)
(***************************************************************************)
\* How a thread's place in reserve() goes with what it does to the list, and
\* with the arena it has.
Stage(t) ==
  /\ stage[t] = "reserve" <=> pc[t] = "walk"
  /\ stage[t] = "push" <=> t \in Pushing
  /\ stage[t] \in {"gone", "reserve", "create"} => arena[t] = NULL
  /\ stage[t] = "push" => arena[t] = new_node[t]
  /\ ~ destroyed /\ stage[t] \in {"push", "shrink", "release"} => arena[t] # NULL

PInv ==
  /\ IInv
  /\ PoolTypeOK
  /\ OneThreadPerArena
  /\ ArenasListed
  /\ \A t \in Threads : Stage(t)

LEMMA PoolInitInvariant == PoolInit => PInv
<1> SUFFICES ASSUME PoolInit PROVE PInv
  OBVIOUS
<1>1. IInv
  BY InitInvariant DEF PoolInit
<1>2. PoolTypeOK
  BY <1>1 DEF PoolInit, IInv, PoolTypeOK, Stages
<1> QED
  BY <1>1, <1>2 DEF PoolInit, Init, PInv, OneThreadPerArena, ArenasListed, Stage,
     Pushing, Listed

\* Every step of the pool is a step of the list or leaves the list alone.
LEMMA PoolStepIsListStep == PoolNext => [Next]_vars
<1> SUFFICES ASSUME NEW t \in Threads,
                    \/ Start(t) \/ ReserveBegin(t) \/ Proceed(t) \/ Exit(t)
                    \/ Destroy(t)
                    \/ \E o \in Objects : Malloc(t, o) \/ Free(t, o)
             PROVE  [Next]_vars
  BY DEF PoolNext
<1>1. WalkBegin(t) \/ WalkEnd(t) \/ WalkAdvance(t) \/ PushFront(t) \/ LoadHead(t)
      \/ ExchangePrev(t) \/ ExchangeNext(t) \/ CasFails(t) \/ CasSucceeds(t)
      => Next
  BY DEF Next, Step
<1> QED
  BY <1>1 DEF Start, ReserveBegin, Proceed, ReserveFound, ReserveNext,
     ReserveNone, Create, CreateFails, CreateOrphan, PushStep, PushDone, Shrink,
     Release, Exit, Destroy, Malloc, Free

LEMMA ListPart ==
  ASSUME PInv, [PoolNext]_allvars
  PROVE  IInv'
  BY PoolStepIsListStep, StepInvariant DEF PInv, allvars

\* Steps of the list that keep the arenas where they are.
LEMMA ListOnlyInvariant ==
  ASSUME PInv, IInv', NEW t \in Threads, ReserveNext(t) \/ PushStep(t)
  PROVE  PInv'
<1> USE DEF PInv, In
<1>1. Listed' = Listed /\ new_node' = new_node /\ UNCHANGED poolvars
  BY DEF ReserveNext, PushStep, WalkAdvance, LoadHead, ExchangePrev,
         ExchangeNext, CasFails, Listed, links
<1>2. \A u \in Threads : pc'[u] = "walk" <=> pc[u] = "walk"
  BY DEF ReserveNext, PushStep, WalkAdvance, LoadHead, ExchangePrev,
         ExchangeNext, CasFails, At, Goto, PoolTypeOK, TypeOK
<1>3. Pushing' = Pushing
  BY DEF ReserveNext, PushStep, WalkAdvance, LoadHead, ExchangePrev,
         ExchangeNext, CasFails, At, Goto, PoolTypeOK, TypeOK, Pushing
<1>4. PoolTypeOK'
  BY <1>1 DEF PoolTypeOK, IInv, poolvars
<1>5. OneThreadPerArena' /\ ArenasListed'
  BY <1>1 DEF OneThreadPerArena, ArenasListed, poolvars
<1>6. \A u \in Threads : Stage(u)'
  BY <1>1, <1>2, <1>3 DEF Stage, poolvars
<1> QED
  BY <1>1, <1>4, <1>5, <1>6 DEF poolvars

\* Steps that change neither the list nor who has which arena.
LEMMA QuietInvariant ==
  ASSUME PInv, NEW t \in Threads,
         \/ Start(t) \/ CreateFails(t) \/ Exit(t) \/ Shrink(t)
         \/ \E o \in Objects : Malloc(t, o) \/ Free(t, o)
  PROVE  PInv'
<1> USE DEF PInv, In, GoTo
<1>1. /\ UNCHANGED <<vars, arena, reserved, arenas, orphans, destroyed>>
      /\ stage[t] # "push" /\ stage'[t] # "push" /\ stage[t] # "reserve"
      /\ stage'[t] # "reserve"
      /\ \A u \in Threads \ {t} : stage'[u] = stage[u]
      /\ stage' \in [Threads -> Stages]
  BY DEF Start, CreateFails, Exit, Shrink, Malloc, Free, PoolTypeOK, Stages
<1>2. IInv' /\ Listed' = Listed /\ Pushing' = Pushing
  BY <1>1 DEF vars, links, IInv, TypeOK, NothingLost, PushersApart, Reached,
     Listed, Pushing, At, Top, Below
<1>3. home' \in [Objects -> Nodes \cup {NULL}] /\ strayed' \in BOOLEAN
      /\ crashed' \in BOOLEAN
  <2>1. CASE \E o \in Objects : Malloc(t, o)
    BY <2>1 DEF Malloc, PoolTypeOK
  <2>2. CASE \E o \in Objects : Free(t, o)
    BY <2>2 DEF Free, PoolTypeOK
  <2>3. CASE Start(t) \/ CreateFails(t) \/ Exit(t) \/ Shrink(t)
    BY <2>3 DEF Start, CreateFails, Exit, Shrink, PoolTypeOK
  <2> QED
    BY <2>1, <2>2, <2>3
<1>4. PoolTypeOK'
  BY <1>1, <1>2, <1>3 DEF PoolTypeOK, IInv
<1>5. OneThreadPerArena'
  BY <1>1 DEF OneThreadPerArena
<1>6. ArenasListed'
  <2>1. \A u \in Threads : stage'[u] = "push" <=> stage[u] = "push"
    BY <1>1
  <2> QED
    BY <1>1, <1>2, <2>1 DEF ArenasListed, vars
<1>7. \A u \in Threads : Stage(u)'
  <2>1. \A u \in Threads \ {t} : Stage(u)'
    BY <1>1, <1>2 DEF Stage, vars
  <2>2. Stage(t)'
    <3>1. /\ stage'[t] \in {"gone", "create"} => arena[t] = NULL
          /\ stage'[t] \in {"shrink", "release"} => arena[t] # NULL
      BY DEF Start, CreateFails, Exit, Shrink, Malloc, Free, PoolTypeOK, Stage,
             Stages, Running
    <3> QED
      BY <1>1, <1>2, <3>1 DEF Stage, vars
  <2> QED
    BY <2>1, <2>2
<1> QED
  BY <1>1, <1>2, <1>4, <1>5, <1>6, <1>7

LEMMA ReserveBeginInvariant ==
  ASSUME PInv, IInv', NEW t \in Threads, ReserveBegin(t) \/ ReserveNone(t)
  PROVE  PInv'
<1> USE DEF PInv, In, GoTo
<1>1. /\ UNCHANGED <<arena, reserved, arenas, orphans, home, strayed, crashed,
                     destroyed, new_node, order>>
      /\ arena[t] = NULL
      /\ stage[t] # "push"
      /\ \/ stage'[t] = "reserve" /\ pc'[t] = "walk"
         \/ stage'[t] = "create" /\ pc'[t] = "idle"
      /\ \A u \in Threads \ {t} : stage'[u] = stage[u] /\ pc'[u] = pc[u]
      /\ stage' \in [Threads -> Stages]
  <2>1. pc \in [Threads -> Points] /\ stage \in [Threads -> Stages] /\ Stage(t)
    BY DEF PoolTypeOK, TypeOK
  <2>2. CASE ReserveBegin(t)
    BY <2>1, <2>2 DEF ReserveBegin, WalkBegin, Goto, links, Stages
  <2>3. CASE ReserveNone(t)
    BY <2>1, <2>3 DEF ReserveNone, WalkEnd, Goto, links, Stages, Stage
  <2> QED
    BY <2>2, <2>3
<1>2. Listed' = Listed
  BY <1>1 DEF Listed
<1>3. Pushing' = Pushing
  BY <1>1 DEF Pushing, Stage
<1>4. PoolTypeOK' /\ OneThreadPerArena' /\ ArenasListed'
  BY <1>1, <1>2 DEF PoolTypeOK, IInv, OneThreadPerArena, ArenasListed
<1>5. \A u \in Threads : Stage(u)'
  BY <1>1, <1>3 DEF Stage
<1> QED
  BY <1>1, <1>2, <1>4, <1>5

\* A thread that has none takes an arena nobody has.
LEMMA TakeKeepsOwners ==
  ASSUME PInv, NEW t \in Threads, NEW a \in Nodes \ reserved, Take(t, a),
         arena[t] = NULL
  PROVE  OneThreadPerArena'
<1>1. arena \in [Threads -> arenas \cup {NULL}] /\ a # NULL
  BY NullAssumption DEF PInv, PoolTypeOK
<1>2. \A u \in Threads : arena[u] # a
  BY <1>1 DEF PInv, OneThreadPerArena
<1>3. \A u, v \in Threads : arena'[u] = arena'[v] /\ arena'[u] # NULL => u = v
  BY <1>1, <1>2 DEF PInv, OneThreadPerArena, Take
<1>4. { arena'[u] : u \in Threads } \ {NULL}
        = ({ arena[u] : u \in Threads } \ {NULL}) \cup {a}
  <2>1. arena'[t] = a /\ \A u \in Threads \ {t} : arena'[u] = arena[u]
    BY <1>1 DEF Take
  <2>2. ASSUME NEW x, x \in { arena'[u] : u \in Threads } \ {NULL}
        PROVE  x \in ({ arena[u] : u \in Threads } \ {NULL}) \cup {a}
    BY <2>1, <2>2
  <2>3. ASSUME NEW x, x \in ({ arena[u] : u \in Threads } \ {NULL}) \cup {a}
        PROVE  x \in { arena'[u] : u \in Threads } \ {NULL}
    <3>1. CASE x = a
      BY <1>1, <2>1, <3>1
    <3>2. CASE x # a
      <4>1. PICK u \in Threads : x = arena[u] /\ x # NULL
        BY <2>3, <3>2
      <4> QED
        BY <2>1, <4>1
    <3> QED
      BY <3>1, <3>2
  <2> QED
    BY <2>2, <2>3
<1> QED
  BY <1>3, <1>4 DEF PInv, OneThreadPerArena, Take

LEMMA ReserveFoundInvariant ==
  ASSUME PInv, IInv', NEW t \in Threads, ReserveFound(t)
  PROVE  PInv'
<1> USE DEF PInv, In, GoTo, ReserveFound
<1>1. /\ cursor[t] \in Listed /\ cursor[t] \in arenas \ reserved
      /\ cursor[t] \in Nodes
      /\ arena[t] = NULL
  <2>1. cursor[t] \in Listed /\ cursor[t] \in arenas
    BY DEF PoolTypeOK, TypeOK, Reached, Running, ArenasListed
  <2> QED
    BY <2>1 DEF PoolTypeOK, Stage
<1>2. /\ UNCHANGED <<arenas, orphans, home, strayed, crashed, destroyed,
                     new_node, order>>
      /\ stage'[t] = "ready" /\ pc'[t] = "idle" /\ stage[t] = "reserve"
      /\ \A u \in Threads \ {t} : stage'[u] = stage[u] /\ pc'[u] = pc[u]
                                  /\ arena'[u] = arena[u]
      /\ stage' \in [Threads -> Stages]
  BY DEF WalkEnd, Goto, PoolTypeOK, TypeOK, Stages, Take
<1>3. Listed' = Listed
  BY <1>2 DEF Listed
<1>4. Pushing' = Pushing
  BY <1>2 DEF Pushing, Stage
<1>5. OneThreadPerArena'
  BY <1>1, TakeKeepsOwners
<1>6. PoolTypeOK'
  BY <1>1, <1>2 DEF PoolTypeOK, IInv, Take
<1>7. ArenasListed'
  BY <1>2, <1>3 DEF ArenasListed
<1>8. \A u \in Threads : Stage(u)'
  BY <1>2, <1>4 DEF Stage
<1> QED
  BY <1>2, <1>3, <1>5, <1>6, <1>7, <1>8

LEMMA CreateInvariant ==
  ASSUME PInv, IInv', NEW t \in Threads, Create(t)
  PROVE  PInv'
<1> USE DEF PInv, In, GoTo, Create
<1> DEFINE a == new_node'[t]
<1>1. /\ a \in Nodes \ arenas /\ a \notin reserved
      /\ arena[t] = NULL
      /\ stage[t] = "create"
  BY DEF PoolTypeOK, TypeOK, Stage, PushFront
<1>2. /\ UNCHANGED <<orphans, home, strayed, crashed, destroyed, order>>
      /\ stage'[t] = "push" /\ pc'[t] = "load" /\ arena'[t] = a
      /\ \A u \in Threads \ {t} : stage'[u] = stage[u] /\ pc'[u] = pc[u]
                                  /\ arena'[u] = arena[u]
                                  /\ new_node'[u] = new_node[u]
      /\ stage' \in [Threads -> Stages]
  BY DEF PushFront, Goto, PoolTypeOK, TypeOK, Stages, Take
<1>3. Listed' = Listed
  BY <1>2 DEF Listed
<1>4. Pushing' = Pushing \cup {t}
  BY <1>2 DEF Pushing
<1>5. OneThreadPerArena'
  BY <1>1, TakeKeepsOwners
<1>6. PoolTypeOK'
  BY <1>1, <1>2 DEF PoolTypeOK, IInv, Take
<1>7. ArenasListed'
  BY <1>1, <1>2, <1>3 DEF ArenasListed, Running
<1>8. \A u \in Threads : Stage(u)'
  BY <1>1, <1>2, <1>4, NullAssumption DEF Stage
<1> QED
  BY <1>2, <1>3, <1>5, <1>6, <1>7, <1>8

LEMMA CreateOrphanInvariant ==
  ASSUME PInv, IInv', NEW t \in Threads, CreateOrphan(t)
  PROVE  PInv'
<1> USE DEF PInv, In, GoTo, CreateOrphan
<1>1. PICK a \in Nodes \ arenas :
        Take(t, a) /\ arenas' = arenas \cup {a} /\ orphans' = orphans \cup {a}
  OBVIOUS
<1>2. a \notin reserved /\ arena[t] = NULL
  BY <1>1 DEF PoolTypeOK, Stage
<1>3. /\ UNCHANGED <<vars, home, strayed, crashed, destroyed>>
      /\ stage'[t] = "ready" /\ stage[t] = "create" /\ arena'[t] = a
      /\ \A u \in Threads \ {t} : stage'[u] = stage[u] /\ arena'[u] = arena[u]
      /\ stage' \in [Threads -> Stages]
  BY <1>1 DEF PoolTypeOK, Stages, Take
<1>4. Listed' = Listed /\ Pushing' = Pushing
  BY <1>3 DEF Listed, Pushing, vars
<1>5. OneThreadPerArena'
  BY <1>1, <1>2, TakeKeepsOwners
<1>6. PoolTypeOK'
  BY <1>1, <1>3 DEF PoolTypeOK, IInv, Take
<1>7. ArenasListed'
  BY <1>1, <1>3, <1>4 DEF ArenasListed, vars
<1>8. \A u \in Threads : Stage(u)'
  BY <1>3, <1>4 DEF Stage, vars
<1> QED
  BY <1>1, <1>3, <1>4, <1>5, <1>6, <1>7, <1>8

LEMMA PushDoneInvariant ==
  ASSUME PInv, IInv', NEW t \in Threads, PushDone(t)
  PROVE  PInv'
<1> USE DEF PInv, In, GoTo, PushDone
<1>1. /\ UNCHANGED <<arena, reserved, arenas, orphans, home, strayed, crashed,
                     destroyed>>
      /\ stage'[t] = "ready" /\ pc'[t] = "idle" /\ stage[t] = "push"
      /\ \A u \in Threads \ {t} :
           /\ stage'[u] = stage[u]
           /\ pc'[u] = pc[u]
           /\ new_node'[u] = new_node[u]
      /\ stage' \in [Threads -> Stages]
  BY DEF CasSucceeds, Return, Goto, PoolTypeOK, TypeOK, Stages
<1>2. new_node[t] \in Nodes /\ new_node[t] = arena[t] /\ new_node[t] \in arenas
  BY NullAssumption DEF Stage, IInv, PushersApart, PoolTypeOK
<1>3. Listed' = Listed \cup {new_node[t]}
  <2>1. order' = Append(order, new_node[t]) /\ order \in Seq(Nodes)
    BY DEF CasSucceeds, PoolTypeOK, TypeOK
  <2> QED
    BY <1>2, <2>1, ListedAppend
<1>4. Pushing' = Pushing \ {t}
  BY <1>1 DEF Pushing, Stage
<1>5. PoolTypeOK' /\ OneThreadPerArena'
  BY <1>1 DEF PoolTypeOK, IInv, OneThreadPerArena
<1>6. ArenasListed'
  BY <1>1, <1>2, <1>3 DEF ArenasListed
<1>7. \A u \in Threads : Stage(u)'
  BY <1>1, <1>4 DEF Stage
<1> QED
  BY <1>1, <1>2, <1>3, <1>5, <1>6, <1>7

\* A thread that gives its arena up was the only one to have it.
LEMMA GiveUpKeepsOwners ==
  ASSUME PInv, NEW t \in Threads,
         arena' = [arena EXCEPT ![t] = NULL], reserved' = reserved \ {arena[t]}
  PROVE  OneThreadPerArena'
<1>1. arena \in [Threads -> arenas \cup {NULL}]
  BY DEF PInv, PoolTypeOK
<1>2. \A u, v \in Threads : arena'[u] = arena'[v] /\ arena'[u] # NULL => u = v
  BY <1>1 DEF PInv, OneThreadPerArena
<1>3. { arena'[u] : u \in Threads } \ {NULL}
        = ({ arena[u] : u \in Threads } \ {NULL}) \ {arena[t]}
  BY <1>1 DEF PInv, OneThreadPerArena
<1> QED
  BY <1>2, <1>3 DEF PInv, OneThreadPerArena

LEMMA ReleaseInvariant ==
  ASSUME PInv, IInv', NEW t \in Threads, Release(t)
  PROVE  PInv'
<1> USE DEF PInv, In, GoTo, Release
<1>1. /\ UNCHANGED <<vars, arenas, orphans, home, strayed, crashed, destroyed>>
      /\ stage'[t] = "gone" /\ stage[t] = "release" /\ arena'[t] = NULL
      /\ \A u \in Threads \ {t} : stage'[u] = stage[u] /\ arena'[u] = arena[u]
      /\ stage' \in [Threads -> Stages]
  BY DEF PoolTypeOK, Stages
<1>2. Listed' = Listed /\ Pushing' = Pushing
  BY <1>1 DEF Listed, Pushing, vars
<1>3. OneThreadPerArena'
  BY GiveUpKeepsOwners
<1>4. PoolTypeOK'
  BY <1>1 DEF PoolTypeOK, IInv
<1>5. ArenasListed'
  BY <1>1, <1>2 DEF ArenasListed, vars
<1>6. \A u \in Threads : Stage(u)'
  BY <1>1, <1>2 DEF Stage, vars
<1> QED
  BY <1>1, <1>2, <1>3, <1>4, <1>5, <1>6

LEMMA DestroyInvariant ==
  ASSUME PInv, IInv', NEW t \in Threads, Destroy(t)
  PROVE  PInv'
<1> USE DEF PInv, In, Destroy
<1>1. \A u \in Threads : arena'[u] = NULL
  BY DEF PoolTypeOK, Stage
<1>2. reserved' = {}
  BY DEF OneThreadPerArena, PoolTypeOK, Stage
<1>3. Pushing' = Pushing
  BY DEF Pushing, vars
<1>4. PoolTypeOK'
  BY <1>1, <1>2 DEF PoolTypeOK, IInv
<1>5. OneThreadPerArena' /\ ArenasListed'
  <2>1. Listed' = Listed /\ new_node' = new_node
    BY DEF Listed, vars
  <2>2. \A u \in Threads : stage[u] # "push"
    OBVIOUS
  <2>3. arenas' \subseteq orphans'
    BY <2>2 DEF ArenasListed
  <2> QED
    BY <1>1, <1>2, <2>1, <2>3 DEF OneThreadPerArena, ArenasListed
<1>6. \A u \in Threads : Stage(u)'
  BY <1>1, <1>3 DEF Stage, vars
<1> QED
  BY <1>4, <1>5, <1>6

LEMMA PoolStepInvariant == PInv /\ [PoolNext]_allvars => PInv'
<1> SUFFICES ASSUME PInv, [PoolNext]_allvars PROVE PInv'
  OBVIOUS
<1>1. IInv'
  BY ListPart
<1>2. CASE PoolNext
  <2>1. PICK t \in Threads :
          \/ Start(t) \/ ReserveBegin(t) \/ Proceed(t) \/ Exit(t) \/ Destroy(t)
          \/ \E o \in Objects : Malloc(t, o) \/ Free(t, o)
    BY <1>2 DEF PoolNext
  <2>2. CASE ReserveNext(t) \/ PushStep(t)
    BY <1>1, <2>2, ListOnlyInvariant
  <2>3. CASE \/ Start(t) \/ CreateFails(t) \/ Exit(t) \/ Shrink(t)
             \/ \E o \in Objects : Malloc(t, o) \/ Free(t, o)
    BY <2>3, QuietInvariant
  <2>4. CASE ReserveBegin(t) \/ ReserveNone(t)
    BY <1>1, <2>4, ReserveBeginInvariant
  <2>5. CASE ReserveFound(t)
    BY <1>1, <2>5, ReserveFoundInvariant
  <2>6. CASE Create(t)
    BY <1>1, <2>6, CreateInvariant
  <2>7. CASE CreateOrphan(t)
    BY <1>1, <2>7, CreateOrphanInvariant
  <2>8. CASE PushDone(t)
    BY <1>1, <2>8, PushDoneInvariant
  <2>9. CASE Release(t)
    BY <1>1, <2>9, ReleaseInvariant
  <2>10. CASE Destroy(t)
    BY <1>1, <2>10, DestroyInvariant
  <2> QED
    BY <2>1, <2>2, <2>3, <2>4, <2>5, <2>6, <2>7, <2>8, <2>9, <2>10 DEF Proceed
<1>3. CASE UNCHANGED allvars
  <2>1. Listed' = Listed /\ Pushing' = Pushing
    BY <1>3 DEF allvars, vars, Listed, Pushing
  <2> QED
    BY <1>1, <1>3, <2>1 DEF allvars, vars, poolvars, PInv, PoolTypeOK, IInv,
       OneThreadPerArena, ArenasListed, Stage
<1> QED
  BY <1>2, <1>3

\* The pool keeps its threads, arenas and list in step.
THEOREM PoolInvariant == PoolSpec => []PInv
  BY PoolInitInvariant, PoolStepInvariant, PTL DEF PoolSpec

\* The types of the pool and of its list: the flags are those of arenas that
\* exist, whoever makes or deletes them.
THEOREM PoolTypeOKAlways == PoolSpec => []PoolTypeOK
<1>1. PInv => PoolTypeOK
  BY DEF PInv
<1> QED
  BY <1>1, PoolInvariant, PTL

\* No two threads ever have the same arena, not even while one gives it up, and
\* no flag is left set behind or clear under a thread.
THEOREM OneThreadPerArenaAlways == PoolSpec => []OneThreadPerArena
<1>1. PInv => OneThreadPerArena
  BY DEF PInv
<1> QED
  BY <1>1, PoolInvariant, PTL

\* An arena that is not in the list, nor on its way there, is one whose push has
\* failed.
THEOREM ArenasListedAlways == PoolSpec => []ArenasListed
<1>1. PInv => ArenasListed
  BY DEF PInv
<1> QED
  BY <1>1, PoolInvariant, PTL

\* The pool uses its list as the list allows: what holds of LockFreeList holds
\* in the pool.
THEOREM PoolUsesList == PoolSpec => Spec
<1>1. PoolInit => Init
  BY DEF PoolInit
<1>2. [PoolNext]_allvars => [Next]_vars
  BY PoolStepIsListStep DEF allvars
<1> QED
  BY <1>1, <1>2, PTL DEF PoolSpec, Spec

-----------------------------------------------------------------------------
(***************************************************************************)
(* The bound.  To get down the list to where a new arena is made a thread  *)
(* passes every arena while another thread has it: the deeper in the list, *)
(* the fewer threads.                                                      *)
(***************************************************************************)
\* The arena t has, or the one it looks at.
Stands(t, a) == arena[t] = a \/ (stage[t] = "reserve" /\ cursor[t] = a)

\* The threads past the end of the list.
AtEnd(t) ==
  \/ stage[t] \in {"create", "push"}
  \/ stage[t] = "reserve" /\ cursor[t] = NULL

\* The threads at one of the oldest i arenas, or past the end.
Low(i) ==
  { t \in Threads : AtEnd(t) \/ \E j \in 1 .. i : Stands(t, order[j]) }

\* At most Cardinality(Threads) - Len(order) + i of them.
Crowd ==
  \A i \in 0 .. Len(order) :
    Cardinality(Low(i)) + Len(order) <= Cardinality(Threads) + i

BInv == PInv /\ Crowd

LEMMA LowFinite ==
  ASSUME NEW S \in SUBSET Threads
  PROVE  /\ IsFiniteSet(S) /\ Cardinality(S) \in Nat
         /\ \A R \in SUBSET S : Cardinality(R) <= Cardinality(S)
         /\ Cardinality(Threads) \in Nat
<1>1. IsFiniteSet(S) /\ IsFiniteSet(Threads)
  BY ThreadAssumption, FS_Subset
<1>2. Cardinality(S) \in Nat /\ Cardinality(Threads) \in Nat
  BY <1>1, FS_CardinalityType
<1>3. \A R \in SUBSET S : Cardinality(R) <= Cardinality(S)
  BY <1>1, FS_Subset
<1> QED
  BY <1>1, <1>2, <1>3

\* Steps after which no thread is deeper than before.
LEMMA NoDeeper ==
  ASSUME Crowd, order \in Seq(Nodes), order' = order,
         \A i \in 0 .. Len(order) : i < Len(order) => Low(i)' \subseteq Low(i)
  PROVE  Crowd'
<1>1. ASSUME NEW i \in 0 .. Len(order)
      PROVE  Cardinality(Low(i)') + Len(order) <= Cardinality(Threads) + i
  <2>1. Low(i) \in SUBSET Threads /\ Low(i)' \in SUBSET Threads
    BY DEF Low
  <2>2. /\ Cardinality(Low(i)) \in Nat /\ Cardinality(Low(i)') \in Nat
        /\ Cardinality(Threads) \in Nat /\ Len(order) \in Nat
    BY <2>1, LowFinite
  <2>3. CASE i = Len(order)
    <3>1. Cardinality(Low(i)') <= Cardinality(Threads)
      BY <2>1, LowFinite
    <3> QED
      BY <2>2, <2>3, <3>1
  <2>4. CASE i # Len(order)
    <3>1. Cardinality(Low(i)') <= Cardinality(Low(i))
      BY <2>1, <2>4, LowFinite
    <3>2. Cardinality(Low(i)) + Len(order) <= Cardinality(Threads) + i
      BY DEF Crowd
    <3> QED
      BY <2>2, <3>1, <3>2
  <2> QED
    BY <2>3, <2>4
<1> QED
  BY <1>1 DEF Crowd

\* Steps of the pool that change neither the list nor the depth of a thread but
\* to bring one up.
LEMMA UpwardCrowd ==
  ASSUME BInv, PInv', NEW t \in Threads,
         \/ Start(t) \/ Exit(t) \/ Shrink(t) \/ Release(t) \/ Destroy(t)
         \/ ReserveNone(t) \/ ReserveFound(t)
         \/ Create(t) \/ CreateFails(t) \/ CreateOrphan(t) \/ PushStep(t)
         \/ \E o \in Objects : Malloc(t, o) \/ Free(t, o)
  PROVE  Crowd'
<1> USE DEF In, GoTo
<1>1. /\ order \in Seq(Nodes) /\ order' = order
      /\ arena \in [Threads -> arenas \cup {NULL}]
      /\ stage \in [Threads -> Stages]
      /\ cursor \in [Threads -> Reached]
      /\ Listed \subseteq Nodes
  <2>1. order' = order
    BY DEF Start, Exit, Shrink, Release, Destroy, ReserveNone, ReserveFound,
           Create, CreateFails, CreateOrphan, PushStep, Malloc, Free, vars,
           WalkEnd, PushFront, LoadHead, ExchangePrev, ExchangeNext, CasFails
  <2> QED
    BY <2>1 DEF BInv, PInv, PoolTypeOK, TypeOK, Listed
<1>2. \A j \in DOMAIN order : order[j] \in Listed /\ order[j] # NULL
  BY <1>1, NullAssumption DEF Listed
<1>3. /\ \A u \in Threads \ {t} :
           arena'[u] # NULL => arena'[u] = arena[u]
      /\ \A u \in Threads \ {t} : stage'[u] = stage[u] /\ cursor'[u] = cursor[u]
  BY <1>1 DEF Start, Exit, Shrink, Release, Destroy, ReserveNone, ReserveFound,
     Create, CreateFails, CreateOrphan, PushStep, Malloc, Free, vars, Take,
     WalkEnd, PushFront, LoadHead, ExchangePrev, ExchangeNext, CasFails, poolvars
<1>4. ASSUME AtEnd(t)' PROVE AtEnd(t)
  BY <1>1, <1>4 DEF AtEnd, Stages, Start, Exit, Shrink, Release, Destroy,
     ReserveNone, ReserveFound, Create, CreateFails, CreateOrphan, PushStep,
     Malloc, Free, vars, WalkEnd, PushFront, LoadHead, ExchangePrev,
     ExchangeNext, CasFails, poolvars
<1>5. ASSUME NEW j \in DOMAIN order, Stands(t, order[j])'
      PROVE  Stands(t, order[j])
  <2>1. arena'[t] = order[j] \/ (stage'[t] = "reserve" /\ cursor'[t] = order[j])
    BY <1>1, <1>5 DEF Stands
  <2>2. CASE Create(t)
    <3>1. t \in Pushing' /\ new_node'[t] \notin Listed'
      BY <1>1, <2>2 DEF Create, PushFront, Goto, Pushing, PInv, IInv,
         PushersApart, BInv, PoolTypeOK, TypeOK
    <3>2. stage'[t] # "reserve" /\ arena'[t] = new_node'[t]
      BY <1>1, <2>2 DEF Create, Take
    <3> QED
      BY <1>1, <1>2, <2>1, <3>1, <3>2 DEF Listed
  <2>3. CASE CreateOrphan(t)
    <3>1. PICK a \in Nodes \ arenas : Take(t, a)
      BY <2>3 DEF CreateOrphan
    <3>2. Listed \subseteq arenas
      BY <2>3 DEF CreateOrphan, BInv, PInv, ArenasListed, Running
    <3>3. arena'[t] = a /\ stage'[t] # "reserve"
      BY <1>1, <2>3, <3>1 DEF CreateOrphan, Take
    <3> QED
      BY <1>2, <2>1, <3>1, <3>2, <3>3
  <2>4. CASE ReserveFound(t)
    BY <1>1, <2>1, <2>4 DEF ReserveFound, Take, Stands
  <2>5. CASE \/ Start(t) \/ Exit(t) \/ Shrink(t) \/ Release(t) \/ Destroy(t)
             \/ ReserveNone(t) \/ CreateFails(t) \/ PushStep(t)
             \/ \E o \in Objects : Malloc(t, o) \/ Free(t, o)
    <3>1. /\ arena'[t] # NULL => arena'[t] = arena[t]
          /\ stage'[t] = "reserve" => stage[t] = "reserve" /\ cursor'[t] = cursor[t]
      BY <1>1, <2>5 DEF Start, Exit, Shrink, Release, Destroy, ReserveNone,
         CreateFails, PushStep, Malloc, Free, vars, WalkEnd, LoadHead,
         ExchangePrev, ExchangeNext, CasFails, poolvars
    <3> QED
      BY <1>2, <2>1, <3>1 DEF Stands
  <2> QED
    BY <2>2, <2>3, <2>4, <2>5
<1>6. \A i \in 0 .. Len(order) : Low(i)' \subseteq Low(i)
  <2>1. ASSUME NEW i \in 0 .. Len(order), NEW u \in Threads, u \in Low(i)'
        PROVE  u \in Low(i)
    <3>1. 1 .. i \subseteq DOMAIN order
      BY <1>1
    <3>2. AtEnd(u)' \/ \E j \in 1 .. i : Stands(u, order[j])'
      BY <1>1, <2>1 DEF Low
    <3>3. CASE u = t
      BY <1>4, <1>5, <3>1, <3>2, <3>3 DEF Low
    <3>4. CASE u # t
      <4>1. AtEnd(u)' => AtEnd(u)
        BY <1>3, <3>4 DEF AtEnd
      <4>2. \A j \in 1 .. i : Stands(u, order[j])' => Stands(u, order[j])
        BY <1>1, <1>2, <1>3, <3>1, <3>4 DEF Stands
      <4> QED
        BY <3>2, <4>1, <4>2 DEF Low
    <3> QED
      BY <3>3, <3>4
  <2> QED
    BY <2>1 DEF Low
<1> QED
  BY <1>1, <1>6, NoDeeper DEF BInv

\* A thread that begins to walk is at the newest arena.
LEMMA ReserveBeginCrowd ==
  ASSUME BInv, NEW t \in Threads, ReserveBegin(t)
  PROVE  Crowd'
<1> USE DEF In, GoTo, ReserveBegin, WalkBegin
<1>1. /\ order \in Seq(Nodes) /\ order' = order /\ arena' = arena
      /\ stage \in [Threads -> Stages] /\ cursor \in [Threads -> Reached]
      /\ \A u \in Threads \ {t} : stage'[u] = stage[u] /\ cursor'[u] = cursor[u]
      /\ stage'[t] = "reserve" /\ cursor'[t] = Top /\ arena[t] = NULL
      /\ \A i, j \in DOMAIN order : order[i] = order[j] => i = j
      /\ \A j \in DOMAIN order : order[j] \in Nodes
  BY DEF BInv, PInv, IInv, PoolTypeOK, TypeOK, NothingLost
<1>2. ASSUME NEW i \in 0 .. Len(order), i < Len(order),
             NEW u \in Threads, u \in Low(i)'
      PROVE  u \in Low(i)
  <2>1. 1 .. i \subseteq DOMAIN order /\ Len(order) \in DOMAIN order
        /\ Len(order) \notin 1 .. i
    BY <1>1, <1>2
  <2>2. AtEnd(u)' \/ \E j \in 1 .. i : Stands(u, order[j])'
    BY <1>1, <1>2 DEF Low
  <2>3. CASE u = t
    <3>1. cursor'[t] = order[Len(order)] /\ cursor'[t] # NULL
      BY <1>1, <2>1, NullAssumption DEF Top
    <3>2. ~ AtEnd(t)'
      BY <1>1, <3>1 DEF AtEnd
    <3>3. \A j \in 1 .. i : ~ Stands(t, order[j])'
      BY <1>1, <2>1, <3>1, NullAssumption DEF Stands
    <3> QED
      BY <2>2, <2>3, <3>2, <3>3
  <2>4. CASE u # t
    <3>1. AtEnd(u)' => AtEnd(u)
      BY <1>1, <2>4 DEF AtEnd
    <3>2. \A j \in 1 .. i : Stands(u, order[j])' => Stands(u, order[j])
      BY <1>1, <2>4 DEF Stands
    <3> QED
      BY <2>2, <3>1, <3>2 DEF Low
  <2> QED
    BY <2>3, <2>4
<1>3. \A i \in 0 .. Len(order) : i < Len(order) => Low(i)' \subseteq Low(i)
  BY <1>2 DEF Low
<1> QED
  BY <1>1, <1>3, NoDeeper DEF BInv

\* A thread that passes an arena goes below the thread that has it.
LEMMA ReserveNextCrowd ==
  ASSUME BInv, NEW t \in Threads, ReserveNext(t)
  PROVE  Crowd'
<1> USE DEF In, ReserveNext, WalkAdvance
<1>1. /\ order \in Seq(Nodes) /\ order' = order /\ arena' = arena
      /\ stage' = stage /\ stage[t] = "reserve" /\ arena[t] = NULL
      /\ cursor \in [Threads -> Reached]
      /\ \A u \in Threads \ {t} : cursor'[u] = cursor[u]
      /\ cursor'[t] = next[cursor[t]]
      /\ \A i, j \in DOMAIN order : order[i] = order[j] => i = j
      /\ \A j \in DOMAIN order : order[j] \in Nodes
  BY DEF BInv, PInv, IInv, PoolTypeOK, TypeOK, NothingLost, poolvars, Stage
<1>2. PICK k \in DOMAIN order : cursor[t] = order[k]
  BY DEF BInv, PInv, PoolTypeOK, TypeOK, Reached, Listed
<1>3. cursor'[t] = Below(k) /\ k \in 1 .. Len(order)
  BY <1>1, <1>2 DEF BInv, PInv, IInv, NothingLost
<1>4. PICK h \in Threads : arena[h] = order[k]
  BY <1>2 DEF BInv, PInv, OneThreadPerArena
<1>5. h # t /\ ~ AtEnd(h) /\ ~ AtEnd(t)
  <2>1. order[k] # NULL /\ order[k] \in Listed
    BY <1>1, <1>2, NullAssumption DEF Listed
  <2>2. stage[h] # "push"
    BY <1>4, <2>1 DEF BInv, PInv, IInv, Stage, PushersApart
  <2>3. ~ AtEnd(h)
    BY <1>4, <2>1, <2>2 DEF AtEnd, BInv, PInv, Stage
  <2> QED
    BY <1>1, <1>2, <1>4, <2>1, <2>3 DEF AtEnd
<1>6. ASSUME NEW i \in 0 .. Len(order)
      PROVE  /\ i >= k => t \in Low(i) /\ h \in Low(i)
             /\ i < k => t \notin Low(i) /\ h \notin Low(i)
  <2>1. i >= k => k \in 1 .. i
    BY <1>1, <1>3
  <2>2. ASSUME i < k, NEW j \in 1 .. i
        PROVE  ~ Stands(t, order[j]) /\ ~ Stands(h, order[j])
    <3>1. j \in DOMAIN order /\ j # k
      BY <1>1, <1>3, <2>2
    <3>2. order[j] # order[k] /\ order[j] # NULL
      BY <1>1, <1>2, <3>1, NullAssumption
    <3>3. stage[h] # "reserve"
      BY <1>1, <1>2, <1>4, NullAssumption DEF BInv, PInv, Stage
    <3> QED
      BY <1>1, <1>2, <1>4, <3>2, <3>3 DEF Stands
  <2> QED
    BY <1>1, <1>2, <1>4, <1>5, <2>1, <2>2 DEF Low, Stands
<1>7. ASSUME NEW i \in 0 .. Len(order)
      PROVE  Low(i)' \subseteq IF i = k - 1 THEN Low(i) \cup {t} ELSE Low(i)
  <2>1. ASSUME NEW u \in Threads, u \in Low(i)', u # t
        PROVE  u \in Low(i)
    <3>1. AtEnd(u)' => AtEnd(u)
      BY <1>1, <2>1 DEF AtEnd
    <3>2. \A j \in 1 .. i : Stands(u, order[j])' => Stands(u, order[j])
      BY <1>1, <2>1 DEF Stands
    <3> QED
      BY <1>1, <2>1, <3>1, <3>2 DEF Low
  <2>2. ASSUME t \in Low(i)'
        PROVE  i >= k - 1
    <3>1. SUFFICES ASSUME i < k - 1 PROVE FALSE
      BY <1>3
    <3>2. k # 1 /\ k - 1 \in DOMAIN order /\ cursor'[t] = order[k - 1]
      BY <1>1, <1>3, <3>1 DEF Below
    <3>3. order[k - 1] # NULL
      BY <1>1, <3>2, NullAssumption
    <3>4. ~ AtEnd(t)'
      BY <1>1, <3>2, <3>3 DEF AtEnd
    <3>5. ASSUME NEW j \in 1 .. i PROVE ~ Stands(t, order[j])'
      <4>1. j \in DOMAIN order /\ j # k - 1
        BY <1>1, <1>3, <3>1
      <4>2. order[j] # order[k - 1] /\ order[j] # NULL
        BY <1>1, <3>2, <4>1, NullAssumption
      <4> QED
        BY <1>1, <3>2, <4>2 DEF Stands
    <3> QED
      BY <1>1, <2>2, <3>4, <3>5 DEF Low
  <2>3. t \in Low(i)' /\ i # k - 1 => t \in Low(i)
    BY <1>3, <1>6, <2>2
  <2> QED
    BY <2>1, <2>3 DEF Low
<1>8. ASSUME NEW i \in 0 .. Len(order)
      PROVE  Cardinality(Low(i)') + Len(order) <= Cardinality(Threads) + i
  <2>1. Low(i) \in SUBSET Threads /\ Low(i)' \in SUBSET Threads
    BY DEF Low
  <2>2. /\ Cardinality(Low(i)) \in Nat /\ Cardinality(Low(i)') \in Nat
        /\ Cardinality(Threads) \in Nat /\ Len(order) \in Nat
    BY <1>1, <2>1, LowFinite
  <2>3. CASE i # k - 1
    <3>1. Cardinality(Low(i)') <= Cardinality(Low(i))
      BY <1>7, <2>1, <2>3, LowFinite
    <3>2. Cardinality(Low(i)) + Len(order) <= Cardinality(Threads) + i
      BY DEF BInv, Crowd
    <3> QED
      BY <2>2, <3>1, <3>2
  <2>4. CASE i = k - 1
    <3>1. k \in 0 .. Len(order) /\ i < k
      BY <1>3, <2>4
    <3>2. Cardinality(Low(k)) + Len(order) <= Cardinality(Threads) + k
      BY <3>1 DEF BInv, Crowd
    <3> DEFINE S == Low(i) \cup {t}
    <3>3. t \notin Low(i) /\ h \notin S /\ t \in Low(k) /\ h \in Low(k)
      BY <1>5, <1>6, <3>1
    <3>4. IsFiniteSet(Low(i)) /\ IsFiniteSet(S)
      BY <2>1, LowFinite, FS_AddElement
    <3>5. /\ Cardinality(S) = Cardinality(Low(i)) + 1
          /\ Cardinality(S \cup {h}) = Cardinality(S) + 1
      <4>1. Cardinality(S) = Cardinality(Low(i)) + 1
        BY <3>3, <3>4, FS_AddElement
      <4>2. Cardinality(S \cup {h}) = Cardinality(S) + 1
        BY <3>3, <3>4, FS_AddElement
      <4> QED
        BY <4>1, <4>2
    <3>6. S \cup {h} \subseteq Low(k)
      <4>1. 1 .. i \subseteq 1 .. k
        BY <2>4, <1>3
      <4> QED
        BY <3>3, <4>1 DEF Low
    <3>7. Cardinality(S \cup {h}) <= Cardinality(Low(k))
          /\ Cardinality(Low(k)) \in Nat
      <4>1. Low(k) \in SUBSET Threads
        BY DEF Low
      <4> QED
        BY <3>6, <4>1, LowFinite
    <3>8. Cardinality(Low(i)') <= Cardinality(S)
      <4>1. Low(i)' \subseteq S
        BY <1>7, <2>4
      <4>2. S \in SUBSET Threads
        BY <2>1
      <4> QED
        BY <4>1, <4>2, LowFinite
    <3> HIDE DEF S
    <3> QED
      BY <1>3, <2>2, <2>4, <3>2, <3>5, <3>7, <3>8
  <2> QED
    BY <2>3, <2>4
<1> QED
  BY <1>1, <1>8 DEF Crowd

\* The thread whose arena gets into the list is at the newest arena then.
LEMMA PushDoneCrowd ==
  ASSUME BInv, NEW t \in Threads, PushDone(t)
  PROVE  Crowd'
<1> USE DEF In, GoTo, PushDone, CasSucceeds
<1> DEFINE n == new_node[t]
<1>1. /\ order \in Seq(Nodes) /\ order' = Append(order, n)
      /\ arena' = arena /\ cursor' = cursor
      /\ stage[t] = "push" /\ stage'[t] = "ready" /\ arena[t] = n
      /\ \A u \in Threads \ {t} : stage'[u] = stage[u]
      /\ cursor \in [Threads -> Reached]
      /\ \A j \in DOMAIN order : order[j] \in Nodes
  BY DEF BInv, PInv, PoolTypeOK, TypeOK, Stage
<1>2. n \in Nodes \ Listed
  BY <1>1 DEF BInv, PInv, IInv, Stage, PushersApart
<1>3. /\ Len(order') = Len(order) + 1 /\ Len(order) \in Nat
      /\ DOMAIN order = 1 .. Len(order)
      /\ \A j \in DOMAIN order : order'[j] = order[j] /\ order[j] # n
  <2>1. \A j \in DOMAIN order : order[j] # n
    BY <1>2 DEF Listed
  <2> QED
    BY <1>1, <1>2, <2>1, ListedAppend
<1>4. t \in { u \in Threads : AtEnd(u) } /\ ~ AtEnd(t)'
  BY <1>1 DEF AtEnd
<1>5. ASSUME NEW i \in 0 .. Len(order)
      PROVE  Low(i)' \subseteq Low(i) \ {t}
  <2>1. 1 .. i \subseteq DOMAIN order
    BY <1>3
  <2>2. t \notin Low(i)'
    <3>1. \A j \in 1 .. i : ~ Stands(t, order[j])'
      BY <1>1, <1>3, <2>1 DEF Stands
    <3> QED
      BY <1>4, <3>1 DEF Low
  <2>3. ASSUME NEW u \in Threads \ {t}, u \in Low(i)'
        PROVE  u \in Low(i)
    <3>1. AtEnd(u)' => AtEnd(u)
      BY <1>1 DEF AtEnd
    <3>2. \A j \in 1 .. i : Stands(u, order[j])' => Stands(u, order[j])
      BY <1>1, <1>3, <2>1 DEF Stands
    <3> QED
      BY <2>3, <3>1, <3>2 DEF Low
  <2> QED
    BY <2>2, <2>3 DEF Low
<1>6. ASSUME NEW i \in 0 .. Len(order) + 1
      PROVE  Cardinality(Low(i)') + (Len(order) + 1) <= Cardinality(Threads) + i
  <2>1. Low(i) \in SUBSET Threads /\ Low(i)' \in SUBSET Threads
    BY DEF Low
  <2>2. /\ Cardinality(Low(i)) \in Nat /\ Cardinality(Low(i)') \in Nat
        /\ Cardinality(Threads) \in Nat /\ IsFiniteSet(Low(i))
        /\ Cardinality(Low(i)') <= Cardinality(Threads)
    BY <2>1, LowFinite
  <2>3. CASE i = Len(order) + 1
    BY <1>3, <2>2, <2>3
  <2>4. CASE i # Len(order) + 1
    <3>1. i \in 0 .. Len(order)
      BY <1>3, <2>4
    <3>2. Cardinality(Low(i)) + Len(order) <= Cardinality(Threads) + i
      BY <3>1 DEF BInv, Crowd
    <3>3. t \in Low(i)
      BY <1>4 DEF Low
    <3>4. Cardinality(Low(i) \ {t}) = Cardinality(Low(i)) - 1
      BY <2>2, <3>3, FS_RemoveElement
    <3>5. Cardinality(Low(i)') <= Cardinality(Low(i) \ {t})
      BY <1>5, <2>1, <3>1, LowFinite
    <3> QED
      BY <1>3, <2>2, <3>2, <3>4, <3>5
  <2> QED
    BY <2>3, <2>4
<1> QED
  BY <1>3, <1>6 DEF Crowd

LEMMA BoundInvariant == PoolSpec => []BInv
<1>1. PoolInit => Crowd
  <2> SUFFICES ASSUME PoolInit PROVE Crowd
    OBVIOUS
  <2>1. order = <<>> /\ \A t \in Threads : stage[t] = "gone" /\ arena[t] = NULL
    BY DEF PoolInit, Init
  <2>2. Low(0) \in SUBSET Threads
    BY DEF Low
  <2>3. Cardinality(Low(0)) <= Cardinality(Threads)
        /\ Cardinality(Low(0)) \in Nat /\ Cardinality(Threads) \in Nat
    BY <2>2, LowFinite
  <2>4. 0 .. Len(order) = {0} /\ Len(order) = 0
    BY <2>1
  <2> QED
    BY <2>3, <2>4 DEF Crowd
<1>2. BInv /\ PInv' /\ [PoolNext]_allvars => Crowd'
  <2> SUFFICES ASSUME BInv, PInv', [PoolNext]_allvars PROVE Crowd'
    OBVIOUS
  <2>1. CASE UNCHANGED allvars
    <3>1. /\ order' = order
          /\ \A i \in 0 .. Len(order) : Low(i)' = Low(i)
      BY <2>1 DEF allvars, vars, poolvars, Low, AtEnd, Stands
    <3> QED
      BY <3>1 DEF BInv, Crowd
  <2>2. CASE PoolNext
    <3>1. PICK t \in Threads :
            \/ Start(t) \/ ReserveBegin(t) \/ Proceed(t) \/ Exit(t) \/ Destroy(t)
            \/ \E o \in Objects : Malloc(t, o) \/ Free(t, o)
      BY <2>2 DEF PoolNext
    <3>2. CASE ReserveBegin(t)
      BY <3>2, ReserveBeginCrowd
    <3>3. CASE ReserveNext(t)
      BY <3>3, ReserveNextCrowd
    <3>4. CASE PushDone(t)
      BY <3>4, PushDoneCrowd
    <3> QED
      BY <3>1, <3>2, <3>3, <3>4, UpwardCrowd DEF Proceed
  <2> QED
    BY <2>1, <2>2
<1> QED
  BY <1>1, <1>2, PoolInvariant, PTL DEF PoolSpec, BInv

LEMMA ListedBound ==
  ASSUME order \in Seq(Nodes)
  PROVE  IsFiniteSet(Listed) /\ Cardinality(Listed) <= Len(order)
<1>1. Len(order) \in Nat /\ DOMAIN order = 1 .. Len(order)
  OBVIOUS
<1>2. order \in Surjection(1 .. Len(order), Listed)
  BY <1>1 DEF Surjection, Listed
<1>3. IsFiniteSet(1 .. Len(order)) /\ Cardinality(1 .. Len(order)) = Len(order)
  BY <1>1, FS_Interval
<1> QED
  BY <1>2, <1>3, FS_Surjection

\* There are never more arenas in reach than threads, for all the threads that
\* start and end, however their walks and pushes interleave.
THEOREM ArenasBoundedAlways == PoolSpec => []ArenasBounded
<1>1. ASSUME BInv PROVE ArenasBounded
  <2> DEFINE P == { t \in Threads : stage[t] = "push" }
             N == { new_node[t] : t \in P }
             A == arenas \ orphans
  <2>1. A \subseteq Listed \cup N
    BY <1>1 DEF BInv, PInv, ArenasListed
  <2>2. order \in Seq(Nodes) /\ Len(order) \in Nat
    BY <1>1 DEF BInv, PInv, PoolTypeOK, TypeOK
  <2>3. /\ IsFiniteSet(Listed) /\ Cardinality(Listed) <= Len(order)
        /\ Cardinality(Listed) \in Nat
    BY <2>2, ListedBound, FS_CardinalityType
  <2>4. /\ IsFiniteSet(P) /\ Cardinality(P) \in Nat
        /\ Cardinality(P) + Len(order) <= Cardinality(Threads)
        /\ Cardinality(Threads) \in Nat
    <3>1. P \in SUBSET Low(0) /\ Low(0) \in SUBSET Threads /\ P \in SUBSET Threads
      BY DEF Low, AtEnd
    <3>2. Cardinality(Low(0)) + Len(order) <= Cardinality(Threads) + 0
      BY <1>1, <2>2 DEF BInv, Crowd
    <3>3. Cardinality(P) <= Cardinality(Low(0)) /\ Cardinality(Low(0)) \in Nat
      BY <3>1, LowFinite
    <3> QED
      BY <2>2, <3>1, <3>2, <3>3, LowFinite
  <2>5. IsFiniteSet(N) /\ Cardinality(N) <= Cardinality(P) /\ Cardinality(N) \in Nat
    <3> DEFINE f == [t \in P |-> new_node[t]]
    <3>1. f \in Surjection(P, N)
      BY DEF Surjection
    <3> HIDE DEF P, N, f
    <3>2. IsFiniteSet(N) /\ Cardinality(N) <= Cardinality(P)
      BY <2>4, <3>1, FS_Surjection
    <3> QED
      BY <3>2, FS_CardinalityType
  <2> HIDE DEF P, N, A
  <2>6. /\ IsFiniteSet(Listed \cup N)
        /\ Cardinality(Listed \cup N) <= Cardinality(Listed) + Cardinality(N)
        /\ Cardinality(Listed \cup N) \in Nat
    <3>1. IsFiniteSet(Listed \cap N) /\ IsFiniteSet(Listed \cup N)
      BY <2>3, <2>5, FS_Subset, FS_Union
    <3>2. Cardinality(Listed \cap N) \in Nat /\ Cardinality(Listed \cup N) \in Nat
      BY <3>1, FS_CardinalityType
    <3>3. Cardinality(Listed \cup N)
            = Cardinality(Listed) + Cardinality(N) - Cardinality(Listed \cap N)
      BY <2>3, <2>5, FS_Union
    <3> QED
      BY <2>3, <2>5, <3>1, <3>2, <3>3
  <2>7. Cardinality(A) <= Cardinality(Listed \cup N) /\ Cardinality(A) \in Nat
    <3>1. IsFiniteSet(A) /\ Cardinality(A) <= Cardinality(Listed \cup N)
      BY <2>1, <2>6, FS_Subset
    <3> QED
      BY <3>1, FS_CardinalityType
  <2>8. Cardinality(A) <= Cardinality(Threads)
    BY <2>2, <2>3, <2>4, <2>5, <2>6, <2>7
  <2> QED
    BY <2>8 DEF A, ArenasBounded
<1>2. BInv => ArenasBounded
  BY <1>1
<1> QED
  BY <1>2, BoundInvariant, PTL

=============================================================================

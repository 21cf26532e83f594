--------------------------------- MODULE Pool ---------------------------------
(***************************************************************************)
(* pool (include/pool.hpp, src/pool.cpp): every thread has an arena of its *)
(* own, in a thread-specific pointer; one that has none takes an arena     *)
(* nobody has reserved from the list, or makes one and pushes it.  When a  *)
(* thread ends its arena is shrunk and given up for others to take.        *)
(*                                                                         *)
(* The list is LockFreeList, step by step; a node stands for its arena.    *)
(* Of an arena only its flag is here, its memory is in Arena.  The bounds  *)
(* are Nodes, the arenas that may be made, and MaxOrphans, the pushes that *)
(* may fail.                                                               *)
(***************************************************************************)
EXTENDS LockFreeList, FiniteSets

CONSTANTS
  Objects,      \* the client's pointers
  MaxOrphans

ASSUME ThreadAssumption == IsFiniteSet(Threads)

VARIABLES
  arena,      \* arena_ of each thread
  reserved,   \* the arenas whose reserved_ flag is set
  stage,      \* where each thread is in the life of a thread and in reserve()
  arenas,     \* the arenas that exist
  orphans,    \* history: those that did not get into the list
  home,       \* the arena whose memory each pointer of the client points to
  strayed,    \* history: a block went back to an arena it does not belong to
  crashed,    \* a thread has called a function of a NULL arena
  destroyed   \* ~pool() has run

poolvars == <<arena, reserved, stage, arenas, orphans, home, strayed, crashed,
              destroyed>>
allvars == <<vars, poolvars>>

Stages == {"gone", "ready", "reserve", "create", "push", "shrink", "release"}

PoolInit ==
  /\ Init
  /\ arena = [t \in Threads |-> NULL]
  /\ reserved = {}
  /\ stage = [t \in Threads |-> "gone"]
  /\ arenas = {}
  /\ orphans = {}
  /\ home = [o \in Objects |-> NULL]
  /\ strayed = FALSE
  /\ crashed = FALSE
  /\ destroyed = FALSE

Running == ~ crashed /\ ~ destroyed

In(t, s) == Running /\ stage[t] = s

GoTo(t, s) == stage' = [stage EXCEPT ![t] = s]

Take(t, a) ==
  /\ arena' = [arena EXCEPT ![t] = a]
  /\ reserved' = reserved \cup {a}

Start(t) ==
  /\ In(t, "gone")
  /\ GoTo(t, "ready")
  /\ UNCHANGED <<vars, arena, reserved, arenas, orphans, home, strayed, crashed,
                 destroyed>>

-----------------------------------------------------------------------------
(***************************************************************************)
(* malloc() and reserve()                                                  *)
(***************************************************************************)
Malloc(t, o) ==
  /\ In(t, "ready")
  /\ arena[t] # NULL
  /\ home[o] = NULL
  /\ home' = [home EXCEPT ![o] = arena[t]]
  /\ UNCHANGED <<vars, arena, reserved, stage, arenas, orphans, strayed, crashed,
                 destroyed>>

\* malloc() of a thread without an arena.
ReserveBegin(t) ==
  /\ In(t, "ready")
  /\ arena[t] = NULL
  /\ WalkBegin(t)
  /\ GoTo(t, "reserve")
  /\ UNCHANGED <<arena, reserved, arenas, orphans, home, strayed, crashed,
                 destroyed>>

\* test_and_set() finds the flag clear.
ReserveFound(t) ==
  /\ In(t, "reserve")
  /\ cursor[t] # NULL
  /\ cursor[t] \notin reserved
  /\ Take(t, cursor[t])
  /\ WalkEnd(t)
  /\ GoTo(t, "ready")
  /\ UNCHANGED <<arenas, orphans, home, strayed, crashed, destroyed>>

\* Without `++it`.
ReserveNextWithoutAdvance(t) ==
  /\ In(t, "reserve")
  /\ cursor[t] \in reserved
  /\ UNCHANGED allvars

ReserveNext(t) ==
  /\ In(t, "reserve")
  /\ cursor[t] \in reserved
  /\ WalkAdvance(t)
  /\ UNCHANGED poolvars

ReserveNone(t) ==
  /\ In(t, "reserve")
  /\ cursor[t] = NULL
  /\ WalkEnd(t)
  /\ GoTo(t, "create")
  /\ UNCHANGED <<arena, reserved, arenas, orphans, home, strayed, crashed,
                 destroyed>>

\* A constructor that leaves the flag clear.
CreateUnreserved(t) ==
  /\ In(t, "create")
  /\ PushFront(t)
  /\ new_node'[t] \notin arenas
  /\ arena' = [arena EXCEPT ![t] = new_node'[t]]
  /\ arenas' = arenas \cup {new_node'[t]}
  /\ GoTo(t, "push")
  /\ UNCHANGED <<reserved, orphans, home, strayed, crashed, destroyed>>

\* arena_.reset( new arena(size) ), whose constructor sets the flag, and the
\* node for it.
Create(t) ==
  /\ In(t, "create")
  /\ PushFront(t)
  /\ new_node'[t] \notin arenas
  /\ Take(t, new_node'[t])
  /\ arenas' = arenas \cup {new_node'[t]}
  /\ GoTo(t, "push")
  /\ UNCHANGED <<orphans, home, strayed, crashed, destroyed>>

\* There is no memory for an arena: malloc() throws.
CreateFails(t) ==
  /\ In(t, "create")
  /\ GoTo(t, "ready")
  /\ UNCHANGED <<vars, arena, reserved, arenas, orphans, home, strayed, crashed,
                 destroyed>>

\* create_node() throws: the thread has the arena, the list has not.
CreateOrphan(t) ==
  /\ In(t, "create")
  /\ Cardinality(orphans) < MaxOrphans
  /\ \E a \in Nodes \ arenas :
       /\ Take(t, a)
       /\ arenas' = arenas \cup {a}
       /\ orphans' = orphans \cup {a}
  /\ GoTo(t, "ready")
  /\ UNCHANGED <<vars, home, strayed, crashed, destroyed>>

\* push_front() gives up when its compare-and-exchange fails.
PushStepWithoutRetry(t) ==
  /\ In(t, "push")
  /\ \/ (LoadHead(t) \/ ExchangePrev(t) \/ ExchangeNext(t)) /\ UNCHANGED stage
     \/ /\ At(t, "cas")
        /\ Goto(t, "idle")
        /\ GoTo(t, "ready")
        /\ UNCHANGED <<links, new_node, old_head, cursor, order>>
  /\ UNCHANGED <<arena, reserved, arenas, orphans, home, strayed, crashed,
                 destroyed>>

PushStep(t) ==
  /\ In(t, "push")
  /\ \/ LoadHead(t) \/ ExchangePrev(t) \/ ExchangeNext(t) \/ CasFails(t)
  /\ UNCHANGED poolvars

PushDone(t) ==
  /\ In(t, "push")
  /\ CasSucceeds(t)
  /\ GoTo(t, "ready")
  /\ UNCHANGED <<arena, reserved, arenas, orphans, home, strayed, crashed,
                 destroyed>>

-----------------------------------------------------------------------------
(***************************************************************************)
(* free(): arena_->free(ptr), whose answer is always TRUE                  *)
(* (FreeNeverRefuses of Arena), so that it is all there is.                *)
(***************************************************************************)
Free(t, o) ==
  /\ In(t, "ready")
  /\ home[o] # NULL
  /\ home' = [home EXCEPT ![o] = NULL]
  /\ crashed' = (arena[t] = NULL)
  /\ strayed' = (strayed \/ home[o] # arena[t])
  /\ UNCHANGED <<vars, arena, reserved, stage, arenas, orphans, destroyed>>

-----------------------------------------------------------------------------
(***************************************************************************)
(* The thread ends: release_arena(), in two steps, if it has an arena.     *)
(***************************************************************************)
Exit(t) ==
  /\ In(t, "ready")
  /\ GoTo(t, IF arena[t] = NULL THEN "gone" ELSE "shrink")
  /\ UNCHANGED <<vars, arena, reserved, arenas, orphans, home, strayed, crashed,
                 destroyed>>

Shrink(t) ==
  /\ In(t, "shrink")
  /\ GoTo(t, "release")
  /\ UNCHANGED <<vars, arena, reserved, arenas, orphans, home, strayed, crashed,
                 destroyed>>

\* The flag stays set.
ReleaseWithoutClear(t) ==
  /\ In(t, "release")
  /\ arena' = [arena EXCEPT ![t] = NULL]
  /\ GoTo(t, "gone")
  /\ UNCHANGED <<vars, reserved, arenas, orphans, home, strayed, crashed,
                 destroyed>>

Release(t) ==
  /\ In(t, "release")
  /\ reserved' = reserved \ {arena[t]}
  /\ arena' = [arena EXCEPT ![t] = NULL]
  /\ GoTo(t, "gone")
  /\ UNCHANGED <<vars, arenas, orphans, home, strayed, crashed, destroyed>>

\* ~pool(), when the other threads are gone: gives up the arena of the thread
\* that runs it and deletes every arena of the list.  The list goes with the
\* pool: its variables mean nothing when `destroyed` is set.
Destroy(t) ==
  /\ In(t, "ready")
  /\ \A u \in Threads \ {t} : stage[u] = "gone"
  /\ destroyed' = TRUE
  /\ arena' = [arena EXCEPT ![t] = NULL]
  /\ reserved' = (reserved \ {arena[t]}) \ Listed
  /\ arenas' = arenas \ Listed
  /\ UNCHANGED <<vars, stage, orphans, home, strayed, crashed>>

\* What a thread does until it is out of reserve(), or gone.
Proceed(t) ==
  \/ ReserveFound(t) \/ ReserveNext(t) \/ ReserveNone(t)
  \/ Create(t) \/ CreateFails(t) \/ CreateOrphan(t)
  \/ PushStep(t) \/ PushDone(t)
  \/ Shrink(t) \/ Release(t)

PoolNext ==
  \E t \in Threads :
    \/ Start(t) \/ ReserveBegin(t) \/ Proceed(t) \/ Exit(t) \/ Destroy(t)
    \/ \E o \in Objects : Malloc(t, o) \/ Free(t, o)

PoolSpec == PoolInit /\ [][PoolNext]_allvars

PoolFairness ==
  \A t \in Threads : WF_allvars(Proceed(t)) /\ SF_allvars(PushDone(t))

FairPoolSpec == PoolSpec /\ PoolFairness

-----------------------------------------------------------------------------
PoolTypeOK ==
  /\ TypeOK
  /\ arena \in [Threads -> arenas \cup {NULL}]
  /\ reserved \subseteq arenas
  /\ stage \in [Threads -> Stages]
  /\ arenas \subseteq Nodes
  /\ orphans \subseteq Nodes
  /\ home \in [Objects -> Nodes \cup {NULL}]
  /\ strayed \in BOOLEAN
  /\ crashed \in BOOLEAN
  /\ destroyed \in BOOLEAN

(***************************************************************************)
(* "only one thread must have a reserved arrena" (arena.hpp): no two       *)
(* threads have the same arena, until the last step of release_arena, and  *)
(* the flag of an arena is set exactly while a thread has it: none is left *)
(* set for ever, none is clear while its arena is used.                    *)
(***************************************************************************)
OneThreadPerArena ==
  /\ \A t, u \in Threads : arena[t] = arena[u] /\ arena[t] # NULL => t = u
  /\ reserved = { arena[t] : t \in Threads } \ {NULL}

(***************************************************************************)
(* Every arena is in the list, where a thread without one and ~pool() find *)
(* it, or about to be pushed, unless the push has failed; and those in the *)
(* list are alive until ~pool() has deleted them, all of them.             *)
(***************************************************************************)
ArenasListed ==
  /\ \A a \in arenas \ orphans :
       \/ a \in Listed
       \/ \E t \in Threads : stage[t] = "push" /\ new_node[t] = a /\ arena[t] = a
  /\ IF destroyed THEN arenas \subseteq orphans ELSE Listed \subseteq arenas

(***************************************************************************)
(* Arenas are reused: there are never more of them than threads that live  *)
(* at the same time, although a thread that walks the list may pass arenas *)
(* that are given up right behind it, and one that began to walk early     *)
(* does not see the newest.                                                *)
(***************************************************************************)
ArenasBounded == Cardinality(arenas \ orphans) <= Cardinality(Threads)

\* reserve() returns, or throws when there is no memory, however the others take,
\* give up and push their arenas; unless a thread crashes the program meanwhile.
ReserveEnds ==
  \A t \in Threads : In(t, "reserve") ~> In(t, "ready") \/ crashed

\* The arena of a thread that ends becomes free for the others.
ExitEnds ==
  \A t \in Threads, a \in Nodes :
    In(t, "shrink") /\ arena[t] = a ~> a \notin reserved \/ crashed

(***************************************************************************)
(* The comment of free(): "handle allocation from another thread".  A      *)
(* block goes back to the arena it is from, whichever thread frees it; a   *)
(* thread that has no arena must not look for one at NULL.                 *)
(***************************************************************************)
FreesGoHome == ~ strayed

=============================================================================

------------------------------- MODULE ArenaLocks -------------------------------
(***************************************************************************)
(* One arena (include/arena.hpp, src/arena.cpp) and the threads that enter *)
(* it at once: the thread that has reserved it, which allocates, frees and *)
(* at its end shrinks, and threads that free blocks of it by synch_free(). *)
(* Every access to what they share is a step of its own, with the lock the *)
(* code takes around it, or none.                                          *)
(*                                                                         *)
(* What is shared is alloc_current_, free_current_, the range map and the  *)
(* free lists of the chunks.  Whether a chunk has a block is not known     *)
(* here; the bound is Chunks, and when all of them exist one has.          *)
(***************************************************************************)
EXTENDS RWBarrier

CONSTANT Chunks

ASSUME LocksAssumption == NULL \notin Threads \cup Chunks

VARIABLES
  reserved,       \* the thread that has set reserved_, or NULL
  chunks,         \* the chunks registered in chunks_
  alloc_current,
  free_current,
  job,            \* the function each thread is in
  pc,             \* its next step in it
  cursor,         \* the chunk that malloc() tries
  tried           \* those the walk over chunks_ has passed

shared == <<reserved, chunks, alloc_current, free_current>>
locals == <<job, pc, cursor, tried>>
vars == <<barrier, shared, locals>>

Jobs == {"none", "malloc", "free", "synch_free", "shrink"}

Points == {"idle", "current", "read_lock", "alloc", "found", "not_found", "walk",
           "create", "write_lock", "upgrade", "insert", "free", "shrink",
           "write_unlock", "release"}

Init ==
  /\ BarrierInit
  /\ \E t \in Threads : reserved = t
  /\ \E c \in Chunks : chunks = {c} /\ alloc_current = c /\ free_current = c
  /\ job = [t \in Threads |-> "none"]
  /\ pc = [t \in Threads |-> "idle"]
  /\ cursor = [t \in Threads |-> NULL]
  /\ tried = [t \in Threads |-> {}]

At(t, j, p) == job[t] = j /\ pc[t] = p

Begin(t, j, p) ==
  /\ At(t, "none", "idle")
  /\ job' = [job EXCEPT ![t] = j]
  /\ pc' = [pc EXCEPT ![t] = p]

Goto(t, p) == pc' = [pc EXCEPT ![t] = p] /\ UNCHANGED job

Done(t) ==
  /\ job' = [job EXCEPT ![t] = "none"]
  /\ pc' = [pc EXCEPT ![t] = "idle"]

-----------------------------------------------------------------------------
(***************************************************************************)
(* malloc(), by the thread that has the arena.                             *)
(***************************************************************************)
Malloc(t) ==
  /\ reserved = t
  /\ Begin(t, "malloc", "current")
  /\ UNCHANGED <<barrier, shared, cursor, tried>>

\* The argument of try_to_alloc, read without a lock.
ReadCurrent(t) ==
  /\ At(t, "malloc", "current")
  /\ cursor' = [cursor EXCEPT ![t] = alloc_current]
  /\ Goto(t, "read_lock")
  /\ UNCHANGED <<barrier, shared, tried>>

LockToAlloc(t) ==
  /\ At(t, "malloc", "read_lock")
  /\ ReadLock(t)
  /\ Goto(t, "alloc")
  /\ UNCHANGED <<shared, cursor, tried>>

\* Under the read lock the free list and alloc_current_ are written.
TryToAlloc(t) ==
  /\ At(t, "malloc", "alloc")
  /\ \/ alloc_current' = cursor[t] /\ Goto(t, "found")
     \/ chunks # Chunks /\ UNCHANGED alloc_current /\ Goto(t, "not_found")
  /\ UNCHANGED <<barrier, reserved, chunks, free_current, cursor, tried>>

Found(t) ==
  /\ At(t, "malloc", "found")
  /\ ReadUnlock(t)
  /\ Done(t)
  /\ cursor' = [cursor EXCEPT ![t] = NULL]
  /\ tried' = [tried EXCEPT ![t] = {}]
  /\ UNCHANGED shared

NotFound(t) ==
  /\ At(t, "malloc", "not_found")
  /\ ReadUnlock(t)
  /\ Goto(t, "walk")
  /\ UNCHANGED <<shared, cursor, tried>>

\* The iterator is not advanced.
WalkNextSame(t) ==
  /\ At(t, "malloc", "walk")
  /\ \E c \in chunks : cursor' = [cursor EXCEPT ![t] = c]
  /\ Goto(t, "read_lock")
  /\ UNCHANGED <<barrier, shared, tried>>

\* The next chunk of the map, which is read without a lock.
WalkNext(t) ==
  /\ At(t, "malloc", "walk")
  /\ \E c \in chunks \ tried[t] :
       /\ cursor' = [cursor EXCEPT ![t] = c]
       /\ tried' = [tried EXCEPT ![t] = @ \cup {c}]
  /\ Goto(t, "read_lock")
  /\ UNCHANGED <<barrier, shared>>

\* The walk is at its end, or stops before it (range_map.hpp:301).
WalkEnd(t) ==
  /\ At(t, "malloc", "walk")
  /\ cursor' = [cursor EXCEPT ![t] = NULL]
  /\ tried' = [tried EXCEPT ![t] = {}]
  /\ Goto(t, "create")
  /\ UNCHANGED <<barrier, shared>>

\* The chunk nobody knows yet; then the write lock is asked for.
CreateUnlocked(t) ==
  /\ At(t, "malloc", "create")
  /\ \E c \in Chunks \ chunks : cursor' = [cursor EXCEPT ![t] = c]
  /\ Goto(t, "insert")
  /\ UNCHANGED <<barrier, shared, tried>>

Create(t) ==
  /\ At(t, "malloc", "create")
  /\ \E c \in Chunks \ chunks : cursor' = [cursor EXCEPT ![t] = c]
  /\ Goto(t, "write_lock")
  /\ UNCHANGED <<barrier, shared, tried>>

Insert(t) ==
  /\ At(t, "malloc", "insert")
  /\ chunks' = chunks \cup {cursor[t]}
  /\ alloc_current' = cursor[t]
  /\ free_current' = cursor[t]
  /\ cursor' = [cursor EXCEPT ![t] = NULL]
  /\ Goto(t, "write_unlock")
  /\ UNCHANGED <<barrier, reserved, tried>>

\* insert() throws: the destructor of write_lock still runs.
InsertThrows(t) ==
  /\ At(t, "malloc", "insert")
  /\ cursor' = [cursor EXCEPT ![t] = NULL]
  /\ Goto(t, "write_unlock")
  /\ UNCHANGED <<barrier, shared, tried>>

-----------------------------------------------------------------------------
(***************************************************************************)
(* free(): plain, by the thread that has the arena, or under the write     *)
(* lock, by any thread.                                                    *)
(***************************************************************************)
Free(t) ==
  /\ reserved = t
  /\ Begin(t, "free", "free")
  /\ UNCHANGED <<barrier, shared, cursor, tried>>

SynchFree(t) ==
  /\ Begin(t, "synch_free", "write_lock")
  /\ UNCHANGED <<barrier, shared, cursor, tried>>

\* The block goes into the chunk in free_current_ or into one of the map.
DoFree(t) ==
  /\ pc[t] = "free"
  /\ \E c \in chunks : free_current' = c
  /\ IF job[t] = "synch_free" THEN Goto(t, "write_unlock") ELSE Done(t)
  /\ UNCHANGED <<barrier, reserved, chunks, alloc_current, cursor, tried>>

-----------------------------------------------------------------------------
(***************************************************************************)
(* shrink() and release(), when the thread ends, and reserve() by another. *)
(***************************************************************************)
Shrink(t) ==
  /\ reserved = t
  /\ Begin(t, "shrink", "write_lock")
  /\ UNCHANGED <<barrier, shared, cursor, tried>>

\* Some of the chunks stay, or a new one is made; alloc_current_ and
\* free_current_ become one of those.
DoShrink(t) ==
  /\ At(t, "shrink", "shrink")
  /\ \E kept \in SUBSET chunks, c \in Chunks :
       /\ kept # {} => c \in kept
       /\ chunks' = kept \cup {c}
       /\ alloc_current' = c
       /\ free_current' = c
  /\ Goto(t, "write_unlock")
  /\ UNCHANGED <<barrier, reserved, cursor, tried>>

Release(t) ==
  /\ At(t, "shrink", "release")
  /\ reserved' = NULL
  /\ Done(t)
  /\ UNCHANGED <<barrier, chunks, alloc_current, free_current, cursor, tried>>

\* The flag is not tested.
ReserveAnyway(t) ==
  /\ At(t, "none", "idle")
  /\ reserved' = t
  /\ UNCHANGED <<barrier, chunks, alloc_current, free_current, locals>>

Reserve(t) ==
  /\ At(t, "none", "idle")
  /\ reserved = NULL
  /\ reserved' = t
  /\ UNCHANGED <<barrier, chunks, alloc_current, free_current, locals>>

-----------------------------------------------------------------------------
(***************************************************************************)
(* The scopes of write_lock: of malloc, synch_free and shrink.             *)
(***************************************************************************)
AfterLock(t) ==
  CASE job[t] = "malloc" -> "insert"
    [] job[t] = "synch_free" -> "free"
    [] job[t] = "shrink" -> "shrink"

UpgradeLock(t) ==
  /\ pc[t] = "write_lock"
  /\ LockUpgrade(t)
  /\ Goto(t, "upgrade")
  /\ UNCHANGED <<shared, cursor, tried>>

\* The flag of the arena is cleared before shrink() has its lock.
LockToWriteReleased(t) ==
  /\ pc[t] = IF two_step THEN "upgrade" ELSE "write_lock"
  /\ WriteLock(t)
  /\ Goto(t, AfterLock(t))
  /\ reserved' = IF job[t] = "shrink" THEN NULL ELSE reserved
  /\ UNCHANGED <<chunks, alloc_current, free_current, cursor, tried>>

LockToWrite(t) ==
  /\ pc[t] = IF two_step THEN "upgrade" ELSE "write_lock"
  /\ WriteLock(t)
  /\ Goto(t, AfterLock(t))
  /\ UNCHANGED <<shared, cursor, tried>>

UnlockWritten(t) ==
  /\ pc[t] = "write_unlock"
  /\ WriteUnlock(t)
  /\ IF job[t] = "shrink" THEN Goto(t, "release") ELSE Done(t)
  /\ UNCHANGED <<shared, cursor, tried>>

\* The steps that wait for the lock, and all others.
Acquire(t) == LockToAlloc(t) \/ UpgradeLock(t) \/ LockToWrite(t)

Step(t) ==
  \/ ReadCurrent(t) \/ TryToAlloc(t) \/ Found(t) \/ NotFound(t)
  \/ WalkNext(t) \/ WalkEnd(t) \/ Create(t) \/ Insert(t) \/ InsertThrows(t)
  \/ DoFree(t) \/ DoShrink(t) \/ Release(t) \/ UnlockWritten(t)

Next ==
  \E t \in Threads :
    \/ Malloc(t) \/ Free(t) \/ SynchFree(t) \/ Shrink(t) \/ Reserve(t)
    \/ Acquire(t) \/ Step(t)

Spec == Init /\ [][Next]_vars

(***************************************************************************)
(* Threads are scheduled, and one that waits for the lock gets it some     *)
(* time if it is free again and again: the owner, which takes the read     *)
(* lock for every block, does not keep the others out for ever.            *)
(***************************************************************************)
Fairness ==
  \A t \in Threads : WF_vars(Step(t)) /\ SF_vars(Acquire(t))

FairSpec == Spec /\ Fairness

-----------------------------------------------------------------------------
\* The types, and the reading and writing threads are those the lock knows.
TypeOK ==
  /\ two_step \in BOOLEAN
  /\ upgrader \in Threads \cup {NULL}
  /\ readers = { t \in Threads : pc[t] \in {"alloc", "found", "not_found"} }
  /\ reserved \in Threads \cup {NULL}
  /\ chunks \subseteq Chunks
  /\ alloc_current \in Chunks /\ free_current \in Chunks
  /\ job \in [Threads -> Jobs]
  /\ pc \in [Threads -> Points]
  /\ cursor \in [Threads -> Chunks \cup {NULL}]
  /\ tried \in [Threads -> SUBSET Chunks]

(***************************************************************************)
(* "only one thread must have a reserved arena" (arena.hpp:33): the calls  *)
(* that lock nothing, or lock only to read, are all of one thread, also    *)
(* when it shrinks the arena and gives it to the next one.                 *)
(***************************************************************************)
OwnerAlone ==
  \A t \in Threads : job[t] \in {"malloc", "free", "shrink"} => reserved = t

(***************************************************************************)
(* malloc() keeps a chunk while it waits for the lock.  The chunk it then  *)
(* allocates from is still one of the arena, as the currents always are:   *)
(* no shrink() has released it.                                            *)
(***************************************************************************)
CurrentNotStale ==
  /\ {alloc_current, free_current} \subseteq chunks
  /\ \A t \in Threads : pc[t] \in {"read_lock", "alloc"} => cursor[t] \in chunks

\* What the next step of t reads and writes.  Chunks are created apart.
Reads(t) ==
  CASE pc[t] = "current" -> {"alloc_current"}
    [] pc[t] = "alloc" -> {"blocks"}
    [] pc[t] \in {"walk", "insert"} -> {"map"}
    [] pc[t] = "free" -> {"map", "free_current", "blocks"}
    [] pc[t] = "shrink" -> {"map", "blocks"}
    [] OTHER -> {}

Writes(t) ==
  CASE pc[t] = "alloc" -> {"alloc_current", "blocks"}
    [] pc[t] = "insert" -> {"map", "alloc_current", "free_current"}
    [] pc[t] = "free" -> {"free_current", "blocks"}
    [] pc[t] = "shrink" -> {"map", "alloc_current", "free_current", "blocks"}
    [] OTHER -> {}

Race(t, u) == Writes(t) \cap (Reads(u) \cup Writes(u)) # {}

(***************************************************************************)
(* What malloc() writes under the read lock, and reads under none, is not  *)
(* touched by another thread at that time.  The one pair of accesses that  *)
(* nothing orders is free() of the owner, which locks nothing, against     *)
(* synch_free().                                                           *)
(***************************************************************************)
RacesOnlyWithPlainFree ==
  \A t, u \in Threads :
    t # u /\ Race(t, u) =>
      \/ At(t, "free", "free") /\ At(u, "synch_free", "free")
      \/ At(u, "free", "free") /\ At(t, "synch_free", "free")

\* Every call gets its lock and returns: none waits for a lock that its own
\* thread holds, and none is kept out for ever.
CallsReturn == \A t \in Threads : pc[t] # "idle" ~> pc[t] = "idle"

=============================================================================

---------------------------- MODULE ArenaLocksProofs ----------------------------
(***************************************************************************)
(* For any number of threads and chunks: the calls that lock nothing are   *)
(* of the thread that has the arena, malloc() never allocates from a chunk *)
(* that is gone, and the plain free() is the only access that can race.    *)
(***************************************************************************)
EXTENDS ArenaLocks, TLAPS

\* The points each function passes.
PointsOf(j) ==
  CASE j = "none" -> {"idle"}
    [] j = "malloc" -> {"current", "read_lock", "alloc", "found", "not_found", "walk",
                        "create", "write_lock", "upgrade", "insert", "write_unlock"}
    [] j = "free" -> {"free"}
    [] j = "synch_free" -> {"write_lock", "upgrade", "free", "write_unlock"}
    [] j = "shrink" -> {"write_lock", "upgrade", "shrink", "write_unlock", "release"}

InPlace == \A t \in Threads : pc[t] \in PointsOf(job[t])

\* The threads inside a scope of write_lock.
Writing(t) ==
  \/ pc[t] \in {"insert", "shrink", "write_unlock"}
  \/ At(t, "synch_free", "free")

\* The lock excludes: the one writer, and no reader beside it.
Excluded ==
  /\ \A t \in Threads : Writing(t) <=> writer = t
  /\ writer \in Threads \cup {NULL}
  /\ writer # NULL => readers = {}

\* The chunk malloc() has made is there until it is inserted.
Created ==
  \A t \in Threads :
    job[t] = "malloc" /\ pc[t] \in {"write_lock", "upgrade", "insert"} =>
      cursor[t] \in Chunks

IInv ==
  TypeOK /\ OwnerAlone /\ CurrentNotStale /\ InPlace /\ Excluded /\ Created

LEMMA InitInvariant == Init => IInv
  BY LocksAssumption
     DEF Init, BarrierInit, IInv, TypeOK, OwnerAlone, CurrentNotStale, InPlace,
         PointsOf, Excluded, Writing, Created, At, Jobs, Points

LEMMA MallocInvariant ==
  ASSUME IInv, NEW t \in Threads,
         \/ Malloc(t) \/ ReadCurrent(t) \/ LockToAlloc(t) \/ TryToAlloc(t)
         \/ Found(t) \/ NotFound(t) \/ WalkNext(t) \/ WalkEnd(t)
         \/ Create(t) \/ Insert(t) \/ InsertThrows(t)
  PROVE  IInv'
<1> USE LocksAssumption
    DEF IInv, TypeOK, OwnerAlone, CurrentNotStale, InPlace, PointsOf, Excluded,
        Writing, Created, At, Begin, Goto, Done, barrier, shared, Jobs, Points
<1>1. CASE Malloc(t)
  BY <1>1 DEF Malloc
<1>2. CASE ReadCurrent(t)
  BY <1>2 DEF ReadCurrent
<1>3. CASE LockToAlloc(t)
  BY <1>3 DEF LockToAlloc, ReadLock
<1>4. CASE TryToAlloc(t)
  BY <1>4 DEF TryToAlloc
<1>5. CASE Found(t)
  BY <1>5 DEF Found, ReadUnlock
<1>6. CASE NotFound(t)
  BY <1>6 DEF NotFound, ReadUnlock
<1>7. CASE WalkNext(t)
  BY <1>7 DEF WalkNext
<1>8. CASE WalkEnd(t)
  BY <1>8 DEF WalkEnd
<1>9. CASE Create(t)
  BY <1>9 DEF Create
<1>10. CASE Insert(t)
  BY <1>10 DEF Insert
<1>11. CASE InsertThrows(t)
  BY <1>11 DEF InsertThrows
<1> QED
  BY <1>1, <1>2, <1>3, <1>4, <1>5, <1>6, <1>7, <1>8, <1>9, <1>10, <1>11

LEMMA OtherInvariant ==
  ASSUME IInv, NEW t \in Threads,
         \/ Free(t) \/ SynchFree(t) \/ DoFree(t) \/ Shrink(t) \/ DoShrink(t)
         \/ Release(t) \/ Reserve(t)
  PROVE  IInv'
<1> USE LocksAssumption
    DEF IInv, TypeOK, OwnerAlone, CurrentNotStale, InPlace, PointsOf, Excluded,
        Writing, Created, At, Begin, Goto, Done, barrier, shared, locals, Jobs, Points
<1>1. CASE Free(t)
  BY <1>1 DEF Free
<1>2. CASE SynchFree(t)
  BY <1>2 DEF SynchFree
<1>3. CASE DoFree(t)
  BY <1>3 DEF DoFree
<1>4. CASE Shrink(t)
  BY <1>4 DEF Shrink
<1>5. CASE DoShrink(t)
  BY <1>5 DEF DoShrink
<1>6. CASE Release(t)
  BY <1>6 DEF Release
<1>7. CASE Reserve(t)
  BY <1>7 DEF Reserve
<1> QED
  BY <1>1, <1>2, <1>3, <1>4, <1>5, <1>6, <1>7

LEMMA LockInvariant ==
  ASSUME IInv, NEW t \in Threads,
         UpgradeLock(t) \/ LockToWrite(t) \/ UnlockWritten(t)
  PROVE  IInv'
<1> USE LocksAssumption
    DEF IInv, TypeOK, OwnerAlone, CurrentNotStale, InPlace, PointsOf, Excluded,
        Writing, Created, At, Goto, Done, shared, Jobs, Points
<1>1. CASE UpgradeLock(t)
  BY <1>1 DEF UpgradeLock, LockUpgrade
<1>2. CASE LockToWrite(t)
  BY <1>2 DEF LockToWrite, WriteLock, AfterLock
<1>3. CASE UnlockWritten(t)
  BY <1>3 DEF UnlockWritten, WriteUnlock
<1> QED
  BY <1>1, <1>2, <1>3

LEMMA StepInvariant == IInv /\ [Next]_vars => IInv'
<1> SUFFICES ASSUME IInv, [Next]_vars PROVE IInv'
  OBVIOUS
<1>1. CASE UNCHANGED vars
  BY <1>1 DEF vars, barrier, shared, locals, IInv, TypeOK, OwnerAlone,
     CurrentNotStale, InPlace, PointsOf, Excluded, Writing, Created, At
<1>2. CASE Next
  BY <1>2, MallocInvariant, OtherInvariant, LockInvariant DEF Next, Acquire, Step
<1> QED
  BY <1>1, <1>2

\* The lock excludes, and what the thread that has the arena keeps of it between
\* two locks stays true.
THEOREM ArenaLocksInvariant == Spec => []IInv
  BY InitInvariant, StepInvariant, PTL DEF Spec

\* In particular the threads that read are those the lock counts as readers.
THEOREM TypeOKAlways == Spec => []TypeOK
<1>1. IInv => TypeOK
  BY DEF IInv
<1> QED
  BY <1>1, ArenaLocksInvariant, PTL

\* The functions that rely on being called by one thread only are.
THEOREM OwnerAloneAlways == Spec => []OwnerAlone
<1>1. IInv => OwnerAlone
  BY DEF IInv
<1> QED
  BY <1>1, ArenaLocksInvariant, PTL

\* No chunk that malloc() has chosen without the lock is gone when it has it.
THEOREM CurrentNotStaleAlways == Spec => []CurrentNotStale
<1>1. IInv => CurrentNotStale
  BY DEF IInv
<1> QED
  BY <1>1, ArenaLocksInvariant, PTL

-----------------------------------------------------------------------------
\* Two threads that race: one has the arena, and the other is in synch_free() or
\* the like, for only one of them can be the owner.
LEMMA RaceWithWriter ==
  ASSUME IInv, NEW t \in Threads, NEW u \in Threads, t # u, Race(t, u)
  PROVE  \/ At(t, "free", "free") /\ At(u, "synch_free", "free")
         \/ At(u, "free", "free") /\ At(t, "synch_free", "free")
<1>1. ~ (Writing(t) /\ Writing(u))
  BY LocksAssumption DEF IInv, Excluded
<1>2. job[t] \in {"synch_free", "none"} \/ job[u] \in {"synch_free", "none"}
  BY DEF IInv, OwnerAlone, TypeOK, Jobs
<1>3. \A v \in Threads :
        pc[v] = "alloc" => ~ Writing(t) /\ ~ Writing(u)
  BY LocksAssumption DEF IInv, Excluded, TypeOK
<1>4. pc[t] \in PointsOf(job[t]) /\ pc[u] \in PointsOf(job[u])
  BY DEF IInv, InPlace
<1>5. pc[t] \in {"current", "alloc", "walk", "insert", "free", "shrink"}
  BY DEF Race, Writes
<1>6. pc[u] \in {"current", "alloc", "walk", "insert", "free", "shrink"}
  BY DEF Race, Reads, Writes
<1>7. CASE job[t] = "synch_free"
  <2>1. At(t, "synch_free", "free") /\ Writing(t)
    BY <1>4, <1>5, <1>7 DEF PointsOf, At, Writing
  <2>2. pc[u] \in {"current", "walk", "free"}
    BY <1>1, <1>3, <1>6, <2>1 DEF Writing
  <2>3. pc[u] = "free"
    BY <2>1, <2>2 DEF Race, Reads, Writes, At
  <2> QED
    BY <1>1, <1>4, <2>1, <2>3 DEF PointsOf, At, Writing, IInv, TypeOK, Jobs
<1>8. CASE job[u] = "synch_free"
  <2>1. At(u, "synch_free", "free") /\ Writing(u)
    BY <1>4, <1>6, <1>8 DEF PointsOf, At, Writing
  <2>2. pc[t] \in {"current", "walk", "free"}
    BY <1>1, <1>3, <1>5, <2>1 DEF Writing
  <2>3. pc[t] = "free"
    BY <2>1, <2>2 DEF Race, Reads, Writes, At
  <2> QED
    BY <1>1, <1>4, <2>1, <2>3 DEF PointsOf, At, Writing, IInv, TypeOK, Jobs
<1>9. job[t] # "none" /\ job[u] # "none"
  BY <1>4, <1>5, <1>6 DEF PointsOf
<1> QED
  BY <1>2, <1>7, <1>8, <1>9

\* The read lock of malloc() and the write lock of the others order all that the
\* threads share, but what the plain free() of the owner touches.
THEOREM RacesOnlyWithPlainFreeAlways == Spec => []RacesOnlyWithPlainFree
<1>1. IInv => RacesOnlyWithPlainFree
  BY RaceWithWriter DEF RacesOnlyWithPlainFree
<1> QED
  BY <1>1, ArenaLocksInvariant, PTL

=============================================================================

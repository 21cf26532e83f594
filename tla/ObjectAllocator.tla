---------------------------- MODULE ObjectAllocator ----------------------------
(***************************************************************************)
(* The singletons: object_allocator (include/object_allocator.hpp,         *)
(* src/object_allocator.cpp) and, in the Windows build, heap_allocator     *)
(* (include/win/heapallocator.hpp), from which every allocation of that    *)
(* build comes, that of the object_allocator itself included.  Both are    *)
(* created by the first call of instance(), with a test before and a test  *)
(* under a critical section, and released by a function given to atexit.   *)
(*                                                                         *)
(* The objects of a kind are numbered as they are created.  What the       *)
(* program itself gives to atexit, the destructors of its static objects,  *)
(* is here too: it decides what is released before what.                   *)
(***************************************************************************)
EXTENDS Integers, Sequences

CONSTANTS
  Threads,
  Statics,   \* the program's objects with static storage
  Word,      \* sizeof(std::size_t)
  MaxMade,   \* bound on the objects of a kind that are created
  NULL

Kinds == {"heap", "allocator"}

ASSUME AllocatorAssumption ==
  /\ NULL \notin Threads
  /\ Statics \cap Kinds = {}
  /\ Word \in Nat \ {0}
  /\ MaxMade \in Nat \ {0}

VARIABLES
  private_heap,  \* the build is the Windows one
  instance,      \* _instance of each kind, 0 for NULL
  made,          \* how many objects of each kind have been begun
  constructed,   \* the last of them whose constructor has returned
  mutex,         \* the owner of _smtx and of _mtx
  frames,        \* the calls of instance() each thread is in, innermost first
  got,           \* the object_allocator its last call for one has returned
  handlers,      \* what atexit has been given, the last first
  exiting,       \* the thread that has called exit()
  direct         \* history: the program has used the heap on its own

objects == <<instance, made, constructed>>
calls == <<mutex, frames, got>>
avars == <<private_heap, objects, calls, handlers, exiting, direct>>

Points == {"load", "lock", "check", "create", "construct", "store", "register",
           "unlock"}

Frames == [kind : Kinds, point : Points]

Frame(k, p) == [kind |-> k, point |-> p]

AllocatorInit ==
  /\ private_heap \in BOOLEAN
  /\ instance = [k \in Kinds |-> 0]
  /\ made = [k \in Kinds |-> 0]
  /\ constructed = [k \in Kinds |-> 0]
  /\ mutex = [k \in Kinds |-> NULL]
  /\ frames = [t \in Threads |-> <<>>]
  /\ got = [t \in Threads |-> 0]
  /\ handlers = <<>>
  /\ exiting = NULL
  /\ direct = FALSE

-----------------------------------------------------------------------------
(***************************************************************************)
(* The pool for a size.                                                    *)
(***************************************************************************)
\* For the powers of two it is called with.
AlignUp(alignment, size) ==
  ((size + alignment - 1) \div alignment) * alignment

MAX_SIZE == 16 * Word

MIN_SIZE == AlignUp(Word, 2 * Word)

SHIFT == MIN_SIZE \div Word

POOLS_COUNT == MAX_SIZE \div Word - SHIFT

\* Aligned to two words, as the system allocator aligns.
GetOfTwoWords(size) == AlignUp(2 * Word, size) \div Word - SHIFT

\* The index of the pool.
Get(size) == AlignUp(Word, size) \div Word - SHIFT

-----------------------------------------------------------------------------
(***************************************************************************)
(* instance()                                                              *)
(***************************************************************************)
At(t, k, p) == frames[t] # <<>> /\ Head(frames[t]) = Frame(k, p)

Goto(t, k, p) ==
  frames' = [frames EXCEPT ![t] = <<Frame(k, p)>> \o Tail(frames[t])]

Return(t, k) ==
  /\ frames' = [frames EXCEPT ![t] = Tail(frames[t])]
  /\ got' = IF k = "allocator" THEN [got EXCEPT ![t] = instance[k]] ELSE got

\* Once exit() has been called the other threads are gone.
MayRun(t) == exiting \in {NULL, t}

Call(t, k) ==
  /\ MayRun(t)
  /\ frames[t] = <<>>
  /\ k = "heap" => private_heap
  /\ instance[k] = 0 => made[k] < MaxMade
  /\ frames' = [frames EXCEPT ![t] = <<Frame(k, "load")>>]
  /\ direct' = (direct \/ k = "heap")
  /\ UNCHANGED <<private_heap, objects, mutex, got, handlers, exiting>>

\* The test outside of the critical section.
Load(t, k) ==
  /\ At(t, k, "load")
  /\ IF instance[k] # 0 THEN Return(t, k) ELSE Goto(t, k, "lock") /\ UNCHANGED got
  /\ UNCHANGED <<private_heap, objects, mutex, handlers, exiting, direct>>

Lock(t, k) ==
  /\ At(t, k, "lock")
  /\ mutex[k] = NULL
  /\ mutex' = [mutex EXCEPT ![k] = t]
  /\ Goto(t, k, "check")
  /\ UNCHANGED <<private_heap, objects, got, handlers, exiting, direct>>

\* Without the second load.
CheckNothing(t, k) ==
  /\ At(t, k, "check")
  /\ Goto(t, k, "create")
  /\ UNCHANGED <<private_heap, objects, mutex, got, handlers, exiting, direct>>

\* The test inside.
Check(t, k) ==
  /\ At(t, k, "check")
  /\ Goto(t, k, IF instance[k] = 0 THEN "create" ELSE "unlock")
  /\ UNCHANGED <<private_heap, objects, mutex, got, handlers, exiting, direct>>

\* `new object_allocator()`: where its class has an operator new (noncopyable)
\* the memory is that of the heap_allocator.
CreateAllocator(t) ==
  /\ At(t, "allocator", "create")
  /\ made' = [made EXCEPT !["allocator"] = @ + 1]
  /\ LET constructing == <<Frame("allocator", "construct")>> \o Tail(frames[t]) IN
     frames' = [frames EXCEPT ![t] =
       IF private_heap THEN <<Frame("heap", "load")>> \o constructing
       ELSE constructing]
  /\ UNCHANGED <<private_heap, instance, constructed, mutex, got, handlers,
                 exiting, direct>>

\* HeapCreate, and memory of that heap for the object.
CreateHeap(t) ==
  /\ At(t, "heap", "create")
  /\ made' = [made EXCEPT !["heap"] = @ + 1]
  /\ Goto(t, "heap", "construct")
  /\ UNCHANGED <<private_heap, instance, constructed, mutex, got, handlers,
                 exiting, direct>>

Construct(t, k) ==
  /\ At(t, k, "construct")
  /\ constructed' = [constructed EXCEPT ![k] = made[k]]
  /\ Goto(t, k, "store")
  /\ UNCHANGED <<private_heap, instance, made, mutex, got, handlers, exiting,
                 direct>>

Store(t, k) ==
  /\ At(t, k, "store")
  /\ instance' = [instance EXCEPT ![k] = made[k]]
  /\ Goto(t, k, "register")
  /\ UNCHANGED <<private_heap, made, constructed, mutex, got, handlers, exiting,
                 direct>>

\* The singleton is not given to atexit.
RegisterNothing(t, k) ==
  /\ At(t, k, "register")
  /\ Goto(t, k, "unlock")
  /\ UNCHANGED <<private_heap, objects, mutex, got, handlers, exiting, direct>>

\* The singletons are released in the order of their creation.
RegisterBehind(t, k) ==
  /\ At(t, k, "register")
  /\ handlers' = handlers \o <<k>>
  /\ Goto(t, k, "unlock")
  /\ UNCHANGED <<private_heap, objects, mutex, got, exiting, direct>>

Register(t, k) ==
  /\ At(t, k, "register")
  /\ handlers' = <<k>> \o handlers
  /\ Goto(t, k, "unlock")
  /\ UNCHANGED <<private_heap, objects, mutex, got, exiting, direct>>

\* return while the critical section stays entered.
UnlockNothing(t, k) ==
  /\ At(t, k, "unlock")
  /\ Return(t, k)
  /\ UNCHANGED <<private_heap, objects, mutex, handlers, exiting, direct>>

\* The destructor of unique_lock, and return.
Unlock(t, k) ==
  /\ At(t, k, "unlock")
  /\ mutex' = [mutex EXCEPT ![k] = NULL]
  /\ Return(t, k)
  /\ UNCHANGED <<private_heap, objects, handlers, exiting, direct>>

Step(t) ==
  \/ \E k \in Kinds :
       \/ Load(t, k) \/ Lock(t, k) \/ Check(t, k) \/ Construct(t, k)
       \/ Store(t, k) \/ Register(t, k) \/ Unlock(t, k)
  \/ CreateAllocator(t) \/ CreateHeap(t)

-----------------------------------------------------------------------------
(***************************************************************************)
(* exit(), when the other threads are done, runs the handlers, the one     *)
(* given last first.                                                       *)
(***************************************************************************)
\* The constructor of a static object is done: its destructor is to be run.
InitStatic(s) ==
  /\ exiting = NULL
  /\ s \notin { handlers[i] : i \in DOMAIN handlers }
  /\ handlers' = <<s>> \o handlers
  /\ UNCHANGED <<private_heap, objects, calls, exiting, direct>>

\* The allocator is deleted at once, and not in its turn.
ExitReleasing(t) ==
  /\ exiting = NULL
  /\ \A u \in Threads : frames[u] = <<>>
  /\ exiting' = t
  /\ instance' = [instance EXCEPT !["allocator"] = 0]
  /\ UNCHANGED <<private_heap, made, constructed, calls, handlers, direct>>

Exit(t) ==
  /\ exiting = NULL
  /\ \A u \in Threads : frames[u] = <<>>
  /\ exiting' = t
  /\ UNCHANGED <<private_heap, objects, calls, handlers, direct>>

NextHandler(t) ==
  /\ exiting = t
  /\ frames[t] = <<>>
  /\ handlers # <<>>
  /\ handlers' = Tail(handlers)
  /\ UNCHANGED <<private_heap, calls, exiting, direct>>

\* object_allocator::release: _instance is set to NULL.
ReleaseAllocator(t) ==
  /\ NextHandler(t)
  /\ Head(handlers) = "allocator"
  /\ instance' = [instance EXCEPT !["allocator"] = 0]
  /\ UNCHANGED <<made, constructed>>

\* heap_allocator::release: all memory of the heap is gone.
ReleaseHeap(t) ==
  /\ NextHandler(t)
  /\ Head(handlers) = "heap"
  /\ instance' = [instance EXCEPT !["heap"] = 0]
  /\ UNCHANGED <<made, constructed>>

\* The destructor of a static object.
RunStatic(t) ==
  /\ NextHandler(t)
  /\ Head(handlers) \in Statics
  /\ UNCHANGED objects

RunHandler(t) == ReleaseAllocator(t) \/ ReleaseHeap(t) \/ RunStatic(t)

AllocatorNext ==
  \/ \E t \in Threads :
       \/ Step(t) \/ Exit(t) \/ RunHandler(t)
       \/ \E k \in Kinds : Call(t, k)
  \/ \E s \in Statics : InitStatic(s)

AllocatorSpec == AllocatorInit /\ [][AllocatorNext]_avars

-----------------------------------------------------------------------------
AllocatorTypeOK ==
  /\ private_heap \in BOOLEAN
  /\ instance \in [Kinds -> Nat]
  /\ made \in [Kinds -> Nat]
  /\ constructed \in [Kinds -> Nat]
  /\ mutex \in [Kinds -> Threads \cup {NULL}]
  /\ frames \in [Threads -> Seq(Frames)]
  /\ got \in [Threads -> Nat]
  /\ handlers \in Seq(Kinds \cup Statics)
  /\ exiting \in Threads \cup {NULL}
  /\ direct \in BOOLEAN

(***************************************************************************)
(* Until exit() at most one object of each kind is created, whichever      *)
(* threads call instance() at once, and none of them gets it before its    *)
(* constructor has returned, although most read it without a lock.         *)
(***************************************************************************)
OneInstance ==
  \A k \in Kinds :
    /\ exiting = NULL => made[k] <= 1
    /\ instance[k] # 0 => instance[k] = made[k] /\ constructed[k] = made[k]

(***************************************************************************)
(* The heap outlives the allocator whose memory is from it: at exit the    *)
(* destructor of the pools must find the heap it took their memory from.   *)
(* Not so when the program has used the heap on its own: between the store *)
(* and the atexit() of the thread that creates the heap another one may    *)
(* create the allocator and get its release() among the handlers first.    *)
(***************************************************************************)
HeapOutlivesAllocator ==
  private_heap /\ instance["allocator"] # 0 /\ ~ direct => instance["heap"] # 0

(***************************************************************************)
(* Every instance is released, and none twice: release() is among the      *)
(* handlers exactly while there is an instance, once, but for the step     *)
(* between the two in the thread that has created it.                      *)
(***************************************************************************)
ReleasedOnce ==
  \A k \in Kinds :
    LET places == { i \in DOMAIN handlers : handlers[i] = k } IN
    /\ \A i, j \in places : i = j
    /\ places # {} => instance[k] # 0
    /\ instance[k] # 0 =>
         places # {} \/ \E t \in Threads : At(t, k, "register")

=============================================================================

-------------------------------- MODULE Object --------------------------------
(***************************************************************************)
(* object (include/object.hpp, src/object.cpp): objects that threads       *)
(* create with operator new, share by intrusive pointers, of which each    *)
(* thread and each static pointer of the program has at most one for an    *)
(* object, and delete when the last is gone.  Memory comes from a pool of  *)
(* object_allocator or, above MAX_SIZE, from the global operator new.      *)
(*                                                                         *)
(* Of a pool there are the block sizes of the arenas its threads have; a   *)
(* pool that is asked to free by a thread without an arena calls a         *)
(* function of NULL (pool.hpp:27), which ends the program.                 *)
(***************************************************************************)
EXTENDS ObjectAllocator, FiniteSets

CONSTANTS
  Objects,
  Sizes      \* those each object may have: the compiler makes them multiples
             \* of Word

ASSUME SizeAssumption ==
  \A o \in Objects : \A n \in Sizes[o] :
    n \in Nat /\ n >= MIN_SIZE /\ n % Word = 0

ASSUME NoBlockAssumption == NULL \notin [allocator : Nat, pool : Nat]

VARIABLES
  size,      \* of each object
  home,      \* where its memory is from, NULL when it has none
  count,     \* ref_count_
  owners,    \* who has a pointer to it
  doing,     \* what each thread is in the middle of, and with which object
  before,    \* what the last fetch_sub of each thread has returned
  arenas,    \* the arenas of the threads
  early,     \* history: static pointers registered before the allocator was
  dangled,   \* history: an object was used after its memory had gone
  crashed

ovars == <<size, home, count, owners, doing, before, arenas, early, dangled,
           crashed>>
allvars == <<avars, ovars>>

Owners == Threads \cup Statics

Tasks == {"none", "new", "adopt", "test", "free", "delete"}

Idle == [task |-> "none", object |-> NULL]

\* A block of pool i of allocator a.
Block(a, i) == [allocator |-> a, pool |-> i]

Global == Block(0, 0)

Registered == { handlers[i] : i \in DOMAIN handlers }

ObjectInit ==
  /\ AllocatorInit
  /\ size = [o \in Objects |-> 0]
  /\ home = [o \in Objects |-> NULL]
  /\ count = [o \in Objects |-> 0]
  /\ owners = [o \in Objects |-> {}]
  /\ doing = [t \in Threads |-> Idle]
  /\ before = [t \in Threads |-> 0]
  /\ arenas = {}
  /\ early = {}
  /\ dangled = FALSE
  /\ crashed = FALSE

Does(t, task, o) ==
  /\ ~ crashed
  /\ doing[t] = [task |-> task, object |-> o]
  /\ frames[t] = <<>>

Do(t, task, o) == doing' = [doing EXCEPT ![t] = [task |-> task, object |-> o]]

Ready(t) == ~ crashed /\ doing[t] = Idle /\ frames[t] = <<>>

\* o has no memory, or it went with its allocator.
Dangling(o) ==
  home[o] # Global /\ (home[o] = NULL \/ home[o].allocator # instance["allocator"])

-----------------------------------------------------------------------------
(***************************************************************************)
(* operator new, and the constructor, which clears the count.              *)
(***************************************************************************)
New(t, o, n) ==
  /\ Ready(t)
  /\ exiting = NULL
  /\ home[o] = NULL
  /\ \A u \in Threads : doing[u].object # o
  /\ size' = [size EXCEPT ![o] = n]
  /\ count' = [count EXCEPT ![o] = 0]
  /\ IF n > MAX_SIZE
     THEN home' = [home EXCEPT ![o] = Global] /\ Do(t, "adopt", o) /\ UNCHANGED avars
     ELSE UNCHANGED home /\ Do(t, "new", o) /\ Call(t, "allocator")
  /\ UNCHANGED <<owners, before, arenas, early, dangled, crashed>>

\* object_allocator::malloc: the pool gives the thread an arena, whose blocks
\* have the size of the request, if it has none.
Malloc(t, o) ==
  LET i == Get(size[o])
      mine == [thread |-> t, home |-> Block(got[t], i), block |-> size[o]] IN
  /\ Does(t, "new", o)
  /\ home' = [home EXCEPT ![o] = Block(got[t], i)]
  /\ crashed' = (i >= POOLS_COUNT)
  /\ arenas' = IF \E a \in arenas : a.thread = t /\ a.home = mine.home
               THEN arenas ELSE arenas \cup {mine}
  /\ Do(t, "adopt", o)
  /\ UNCHANGED <<avars, size, count, owners, before, early, dangled>>

-----------------------------------------------------------------------------
(***************************************************************************)
(* intrusive_ptr_add_ref and intrusive_ptr_release                         *)
(***************************************************************************)
MayOwn(t, w) ==
  \/ w = t
  \/ w \in Statics \cap Registered /\ \A p \in Objects : w \notin owners[p]

AddRef(o, w) ==
  /\ owners' = [owners EXCEPT ![o] = @ \cup {w}]
  /\ count' = [count EXCEPT ![o] = @ + 1]

\* The result of `new` is put in a pointer.
Adopt(t, o, w) ==
  /\ Does(t, "adopt", o)
  /\ MayOwn(t, w)
  /\ AddRef(o, w)
  /\ Do(t, "none", NULL)
  /\ UNCHANGED <<avars, size, home, before, arenas, early, dangled, crashed>>

\* A pointer is copied for another thread, or into a static one.
Copy(t, o, w) ==
  /\ Ready(t)
  /\ exiting = NULL
  /\ t \in owners[o]
  /\ w \notin owners[o]
  /\ w \in Threads \/ MayOwn(t, w)
  /\ AddRef(o, w)
  /\ UNCHANGED <<avars, size, home, doing, before, arenas, early, dangled,
                 crashed>>

\* fetch_sub; a pointer to freed memory is followed.
FetchSub(t, o, w) ==
  /\ owners' = [owners EXCEPT ![o] = @ \ {w}]
  /\ before' = [before EXCEPT ![t] = count[o]]
  /\ count' = [count EXCEPT ![o] = @ - 1]
  /\ dangled' = (dangled \/ Dangling(o))
  /\ Do(t, "test", o)
  /\ UNCHANGED <<size, home, arenas, crashed>>

Drop(t, o) ==
  /\ Ready(t)
  /\ exiting = NULL
  /\ t \in owners[o]
  /\ FetchSub(t, o, t)
  /\ UNCHANGED <<avars, early>>

\* The test loads the count again.
LastReloaded(t, o) == count[o] = 0

\* fetch_sub() has returned 1.
Last(t, o) == before[t] = 1

\* The limit computed from the number of pools.
SmallByPools(n) == n < POOLS_COUNT * Word

Small(n) == n <= MAX_SIZE

Test(t, o) ==
  /\ Does(t, "test", o)
  /\ before' = [before EXCEPT ![t] = 0]
  /\ IF ~ Last(t, o)
     THEN Do(t, "none", NULL) /\ UNCHANGED avars
     ELSE IF Small(size[o])
     THEN Do(t, "free", o) /\ Call(t, "allocator")
     ELSE Do(t, "delete", o) /\ UNCHANGED avars
  /\ UNCHANGED <<size, home, count, owners, arenas, early, dangled, crashed>>

Forget(o) ==
  /\ home' = [home EXCEPT ![o] = NULL]
  /\ size' = [size EXCEPT ![o] = 0]

GlobalDelete(t, o) ==
  /\ Does(t, "delete", o)
  /\ Forget(o)
  /\ Do(t, "none", NULL)
  /\ UNCHANGED <<avars, count, owners, before, arenas, early, dangled,
                 crashed>>

\* object_allocator::free, into the pool of the size.
Free(t, o) ==
  /\ Does(t, "free", o)
  /\ dangled' = (dangled \/ Dangling(o))
  /\ crashed' = ~ \E a \in arenas :
                    a.thread = t /\ a.home = Block(got[t], Get(size[o]))
  /\ Forget(o)
  /\ Do(t, "none", NULL)
  /\ UNCHANGED <<avars, count, owners, before, arenas, early>>

-----------------------------------------------------------------------------
(***************************************************************************)
(* The program around them.                                                *)
(***************************************************************************)
Instance(t) == ~ crashed /\ Step(t) /\ UNCHANGED ovars

\* A container of the program with the allocator of the library.
\* It matters while there is no heap.
UseHeap(t) ==
  /\ Ready(t)
  /\ exiting = NULL
  /\ instance["heap"] = 0
  /\ Call(t, "heap")
  /\ UNCHANGED ovars

\* A static pointer, empty at first.
StaticPointer(s) ==
  /\ ~ crashed
  /\ InitStatic(s)
  /\ early' = IF "allocator" \in Registered THEN early ELSE early \cup {s}
  /\ UNCHANGED <<size, home, count, owners, doing, before, arenas, dangled,
                 crashed>>

ProgramExit(t) ==
  /\ \A u \in Threads : Ready(u)
  /\ Exit(t)
  /\ UNCHANGED ovars

\* delete instance: the arenas go with the pools.
ExitAllocator(t) ==
  /\ Ready(t)
  /\ ReleaseAllocator(t)
  /\ arenas' = {}
  /\ UNCHANGED <<size, home, count, owners, doing, before, early, dangled,
                 crashed>>

ExitHeap(t) == Ready(t) /\ ReleaseHeap(t) /\ UNCHANGED ovars

\* The destructor of a static pointer drops what it points to.
ExitStatic(t) ==
  /\ Ready(t)
  /\ RunStatic(t)
  /\ \/ \E o \in Objects :
          Head(handlers) \in owners[o] /\ FetchSub(t, o, Head(handlers))
     \/ /\ \A o \in Objects : Head(handlers) \notin owners[o]
        /\ UNCHANGED <<size, home, count, owners, doing, before, arenas,
                       dangled, crashed>>
  /\ UNCHANGED early

Busy(t) ==
  \/ doing[t] # Idle \/ frames[t] # <<>>
  \/ exiting = t /\ handlers # <<>>

\* What a thread does until it is out of the library, the pointer that takes
\* the result of `new` and the handlers of exit() included.
Proceed(t) ==
  \/ Instance(t)
  \/ \E o \in Objects :
       \/ Malloc(t, o) \/ Test(t, o) \/ Free(t, o) \/ GlobalDelete(t, o)
       \/ \E w \in Owners : Adopt(t, o, w)
  \/ ExitAllocator(t) \/ ExitHeap(t) \/ ExitStatic(t)

ObjectNext ==
  \/ \E t \in Threads :
       \/ Proceed(t) \/ UseHeap(t) \/ ProgramExit(t)
       \/ \E o \in Objects :
            \/ Drop(t, o)
            \/ \E n \in Sizes[o] : New(t, o, n)
            \/ \E w \in Owners : Copy(t, o, w)
  \/ \E s \in Statics : StaticPointer(s)

ObjectSpec == ObjectInit /\ [][ObjectNext]_allvars

ObjectFairness == \A t \in Threads : WF_allvars(Busy(t) /\ Proceed(t))

FairObjectSpec == ObjectSpec /\ ObjectFairness

-----------------------------------------------------------------------------
ObjectTypeOK ==
  /\ AllocatorTypeOK
  /\ size \in [Objects -> Nat]
  /\ home \in [Objects -> [allocator : Nat, pool : Nat] \cup {NULL}]
  /\ count \in [Objects -> Nat]
  /\ owners \in [Objects -> SUBSET Owners]
  /\ doing \in [Threads -> [task : Tasks, object : Objects \cup {NULL}]]
  /\ before \in [Threads -> Nat]
  /\ arenas \subseteq [thread : Threads, home : [allocator : Nat, pool : Nat],
                      block : Nat]
  /\ early \subseteq Statics
  /\ dangled \in BOOLEAN
  /\ crashed \in BOOLEAN

Deleting(t, o) ==
  /\ doing[t].object = o
  /\ \/ doing[t].task \in {"free", "delete"}
     \/ doing[t].task = "test" /\ Last(t, o)

(***************************************************************************)
(* An object is deleted after the last of its owners has let go of it and  *)
(* by one thread, however many let go at once: while it has an owner it    *)
(* has memory and nobody is about to delete it; when it has none somebody  *)
(* is, or is about to give it one, so that none leaks.                     *)
(***************************************************************************)
DeletedByTheLast ==
  \A o \in Objects :
    /\ owners[o] # {} => home[o] # NULL /\ \A t \in Threads : ~ Deleting(t, o)
    /\ \A t, u \in Threads : Deleting(t, o) /\ Deleting(u, o) => t = u
    /\ home[o] # NULL /\ owners[o] = {} =>
         \E t \in Threads :
           Deleting(t, o) \/ doing[t] = [task |-> "adopt", object |-> o]

(***************************************************************************)
(* operator delete gives the memory back to what operator new took it      *)
(* from: the same pool of the same allocator, or the global one.           *)
(***************************************************************************)
FreesWhereAllocated ==
  \A t \in Threads, o \in Objects :
    /\ Does(t, "free", o) /\ ~ dangled => home[o] = Block(got[t], Get(size[o]))
    /\ Does(t, "delete", o) => home[o] = Global

(***************************************************************************)
(* A block of an arena is as large as the first request of the thread that *)
(* made the arena; others get blocks of it later, and it has to be large   *)
(* enough for everything its pool is asked for.                            *)
(***************************************************************************)
BlocksFit ==
  \A o \in Objects : \A a \in arenas : home[o] = a.home => size[o] <= a.block

(***************************************************************************)
(* At exit no object is used after the pools are gone, but through static  *)
(* pointers that were registered before release() was: before the first    *)
(* object was made, or, by another thread, between the store to _instance  *)
(* and the atexit() after it.                                              *)
(***************************************************************************)
DanglesOnlyThroughEarly == dangled => early # {}

(***************************************************************************)
(* The comment of object_allocator: "maximum size of small object is       *)
(* sizeof(size_type) * 16".  The pool of every small object is one of the  *)
(* POOLS_COUNT pools there are.                                            *)
(***************************************************************************)
EverySizeHasAPool ==
  \A o \in Objects :
    home[o] \notin {NULL, Global} => home[o].pool < POOLS_COUNT

(***************************************************************************)
(* operator new, operator delete and the release of a pointer end,         *)
(* whichever thread creates the allocator meanwhile, and so does exit(),   *)
(* although a destructor it runs may create another allocator.             *)
(***************************************************************************)
OperationsEnd == \A t \in Threads : Busy(t) ~> ~ Busy(t) \/ crashed

=============================================================================

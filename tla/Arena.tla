-------------------------------- MODULE Arena --------------------------------
(***************************************************************************)
(* One arena (include/arena.hpp, src/arena.cpp): the chunks registered in  *)
(* its range map, the chunk malloc() tries first, the chunk free() tries   *)
(* first, and the client that holds the pointers.  The operations are      *)
(* whole: this is the arena as the thread that has reserved it sees it.    *)
(*                                                                         *)
(* The range map is the set of its chunks here.  What a walk over the map  *)
(* sees is a parameter of the operations that walk it: basic_range_map     *)
(* visits its ranges in order but may stop before the last (RangeMap), so  *)
(* the walk sees some of the chunks with the lowest addresses.  ArenaTree  *)
(* puts the search tree in, and implements this module.                    *)
(***************************************************************************)
EXTENDS ChunkOps

CONSTANTS
  Addresses,  \* where the system may put the blocks of a chunk
  Foreign,    \* addresses of blocks that belong to the arenas of other threads
  Handles,    \* the client's pointer variables
  NULL

\* A chunk object precedes the blocks it manages (create_new_chunk), so the
\* block ranges of two chunks never touch.
ASSUME AddressAssumption ==
  /\ Addresses \subseteq Nat
  /\ \A c, d \in Addresses : c # d => End(c) < d \/ End(d) < c
  /\ Foreign \subseteq Nat
  /\ \A c \in Addresses, ptr \in Foreign : ~ InRange(ptr, c)
  /\ NULL \notin Nat

VARIABLES
  chunks,         \* the chunks registered in chunks_
  allocated,      \* the chunks the system has mapped for this arena
  chunk,          \* their free lists
  alloc_current,
  free_current,
  obj,            \* the pointers the client holds
  answer,         \* what free() returned last
  lost,           \* history: chunks that insert() has failed to register
  tainted,        \* history: chunks that took in a pointer of another chunk
  wild,           \* memory outside of every block was handed out or written
  destroyed       \* ~arena() has run

vars == <<chunks, allocated, chunk, alloc_current, free_current, obj, answer,
          lost, tainted, wild, destroyed>>

Pointer == { Address(c, i) : c \in Addresses, i \in Byte }

\* What a walk from begin() may see: the chunks up to the one it stops at.
Walks == { { c \in chunks : c <= last } : last \in chunks }

Holding(ptr) == { c \in chunks : InRange(ptr, c) }

\* What chunks_.find(ptr) may return.
Finds(ptr) == IF Holding(ptr) = {} THEN {NULL} ELSE Holding(ptr)

Init ==
  \E first \in Addresses :
    /\ chunks = {first}
    /\ allocated = {first}
    /\ chunk = [c \in Addresses |-> NewChunk]
    /\ alloc_current = first
    /\ free_current = first
    /\ obj = [o \in Handles |-> NULL]
    /\ answer = TRUE
    /\ lost = {}
    /\ tainted = {}
    /\ wild = FALSE
    /\ destroyed = FALSE

\* After a wild access nothing is known of what the program does.
Running == ~ wild /\ ~ destroyed

-----------------------------------------------------------------------------
(***************************************************************************)
(* malloc()                                                                *)
(***************************************************************************)
\* chunk::allocate on c, where cs are the free lists before the call.
HandOut(o, c, cs) ==
  /\ \E next \in NextPositions(cs[c]) :
       chunk' = [cs EXCEPT ![c] = Allocated(cs[c], next)]
  /\ obj' = [obj EXCEPT ![o] = Address(c, cs[c].position)]
  /\ wild' = (cs[c].position \notin Blocks)

MallocCurrent(o) ==
  /\ CanAllocate(chunk[alloc_current])
  /\ HandOut(o, alloc_current, chunk)
  /\ UNCHANGED <<chunks, allocated, alloc_current, free_current>>

\* The walk takes the first chunk that has a block.
MallocSearch(o, walk) ==
  /\ ~ CanAllocate(chunk[alloc_current])
  /\ \E c \in walk :
       /\ CanAllocate(chunk[c])
       /\ \A d \in walk : d < c => ~ CanAllocate(chunk[d])
       /\ HandOut(o, c, chunk)
       /\ alloc_current' = c
  /\ UNCHANGED <<chunks, allocated, free_current>>

\* A new chunk as soon as the current one is full.
MallocNewWithoutSearch(o, walk) ==
  /\ ~ CanAllocate(chunk[alloc_current])
  /\ \E new \in Addresses \ allocated :
       /\ HandOut(o, new, [chunk EXCEPT ![new] = NewChunk])
       /\ chunks' = chunks \cup {new}
       /\ allocated' = allocated \cup {new}
       /\ alloc_current' = new
       /\ free_current' = new

MallocNew(o, walk) ==
  /\ \A c \in {alloc_current} \cup walk : ~ CanAllocate(chunk[c])
  /\ \E new \in Addresses \ allocated :
       /\ HandOut(o, new, [chunk EXCEPT ![new] = NewChunk])
       /\ chunks' = chunks \cup {new}
       /\ allocated' = allocated \cup {new}
       /\ alloc_current' = new
       /\ free_current' = new

Malloc(o, walk) ==
  /\ Running
  /\ obj[o] = NULL
  /\ MallocCurrent(o) \/ MallocSearch(o, walk) \/ MallocNew(o, walk)
  /\ UNCHANGED <<answer, lost, tainted, destroyed>>

\* insert() throws bad_alloc when there is no memory for its node: nothing knows
\* the new chunk any more, nor the block that was taken from it.
MallocThrows(walk) ==
  /\ Running
  /\ \A c \in {alloc_current} \cup walk : ~ CanAllocate(chunk[c])
  /\ \E new \in Addresses \ allocated, next \in NextPositions(NewChunk) :
       /\ chunk' = [chunk EXCEPT ![new] = Allocated(NewChunk, next)]
       /\ allocated' = allocated \cup {new}
       /\ lost' = lost \cup {new}
  /\ UNCHANGED <<chunks, alloc_current, free_current, obj, answer, tainted, wild,
                 destroyed>>

-----------------------------------------------------------------------------
(***************************************************************************)
(* free(ptr): the current chunk first, then the one the map finds.         *)
(***************************************************************************)
\* The chunks after `*ptr = byte`.  A block that some pointer of the client
\* still names has the client's data in it, not that byte.
Written(ptr, byte, still_held) ==
  [c \in Addresses |->
     [chunk[c] EXCEPT !.link =
        [i \in Blocks |->
           IF c \notin allocated \/ Address(c, i) # ptr THEN chunk[c].link[i]
           ELSE IF still_held THEN Byte ELSE {byte}]]]

\* chunk::release on c, when it does not refuse the pointer.
Accept(c, ptr, still_held) ==
  /\ chunk' = [Written(ptr, chunk[c].position, still_held) EXCEPT
                 ![c] = Released(@, BlockIndex(ptr, c))]
  /\ tainted' = tainted \cup {c}
  /\ wild' = (ptr \notin Foreign /\ \A d \in allocated : ~ InRange(ptr, d))
  /\ free_current' = c

\* The chunk that takes the pointer in: free_current_, or what
\* lookup_chunk_and_free finds, or none.
Taker(ptr, found) ==
  IF ~ Refuses(ptr, free_current) THEN free_current
  ELSE IF found # NULL /\ ~ Refuses(ptr, found) THEN found
  ELSE NULL

FreeAnswer(ptr, found) == ~ Refuses(ptr, free_current) \/ found # NULL

DoFree(ptr, found, still_held) ==
  /\ answer' = FreeAnswer(ptr, found)
  /\ IF Taker(ptr, found) = NULL
     THEN UNCHANGED <<chunk, tainted, wild, free_current>>
     ELSE Accept(Taker(ptr, found), ptr, still_held)

Held == { o \in Handles : obj[o] # NULL }

Free(o, found) ==
  /\ Running
  /\ o \in Held
  /\ obj' = [obj EXCEPT ![o] = NULL]
  /\ DoFree(obj[o], found, \E p \in Held \ {o} : obj[p] = obj[o])
  /\ UNCHANGED <<chunks, allocated, alloc_current, lost, destroyed>>

\* The client frees a block another thread got from its own arena.
FreeForeign(ptr, found) ==
  /\ Running
  /\ DoFree(ptr, found, FALSE)
  /\ UNCHANGED <<chunks, allocated, alloc_current, obj, lost, destroyed>>

-----------------------------------------------------------------------------
(***************************************************************************)
(* shrink(): unmaps the empty chunks the walk sees, registers the others   *)
(* the walk sees anew, and drops the rest.  The system may map a new chunk *)
(* where an unmapped one was.  A chunk that is not mapped has the free     *)
(* list of a new one.                                                      *)
(***************************************************************************)
Empties(walk) == { c \in walk : IsEmpty(chunk[c]) }

Unmapped(cs) == [c \in Addresses |-> IF c \in cs THEN NewChunk ELSE chunk[c]]

\* free_current_ is left at a chunk that may be gone.
ShrinkKeepingFreeCurrent(walk) ==
  LET kept == walk \ Empties(walk) IN
  \E first \in kept :
    /\ \A c \in kept : first <= c
    /\ chunks' = kept
    /\ allocated' = allocated \ Empties(walk)
    /\ chunk' = Unmapped(Empties(walk))
    /\ alloc_current' = first
    /\ UNCHANGED free_current

ShrinkToKept(walk) ==
  LET kept == walk \ Empties(walk) IN
  \E first \in kept :
    /\ \A c \in kept : first <= c
    /\ chunks' = kept
    /\ allocated' = allocated \ Empties(walk)
    /\ chunk' = Unmapped(Empties(walk))
    /\ alloc_current' = first
    /\ free_current' = first

ShrinkToNew(walk) ==
  LET mapped == allocated \ Empties(walk) IN
  /\ walk = Empties(walk)
  /\ \E new \in Addresses \ mapped :
       /\ chunks' = {new}
       /\ allocated' = mapped \cup {new}
       /\ chunk' = Unmapped(Empties(walk) \cup {new})
       /\ alloc_current' = new
       /\ free_current' = new

Shrink(walk) ==
  /\ Running
  /\ ShrinkToKept(walk) \/ ShrinkToNew(walk)
  /\ UNCHANGED <<obj, answer, lost, tainted, wild, destroyed>>

\* ~arena(): unmaps the chunks the walk sees.
Destroy(walk) ==
  /\ Running
  /\ destroyed' = TRUE
  /\ chunks' = {}
  /\ allocated' = allocated \ walk
  /\ chunk' = Unmapped(walk)
  /\ UNCHANGED <<alloc_current, free_current, obj, answer, lost, tainted, wild>>

Next ==
  \/ \E walk \in Walks :
       \/ \E o \in Handles : Malloc(o, walk)
       \/ MallocThrows(walk)
       \/ Shrink(walk)
       \/ Destroy(walk)
  \/ \E o \in Held : \E found \in Finds(obj[o]) : Free(o, found)
  \/ \E ptr \in Foreign : \E found \in Finds(ptr) : FreeForeign(ptr, found)

Spec == Init /\ [][Next]_vars

-----------------------------------------------------------------------------
TypeOK ==
  /\ chunks \subseteq Addresses
  /\ allocated \subseteq Addresses
  /\ chunk \in [Addresses -> ChunkState]
  /\ alloc_current \in Addresses
  /\ free_current \in Addresses
  /\ obj \in [Handles -> Pointer \cup {NULL}]
  /\ answer \in BOOLEAN
  /\ lost \subseteq Addresses
  /\ tainted \subseteq Addresses
  /\ wild \in BOOLEAN
  /\ destroyed \in BOOLEAN

\* While the arena lives, what alloc_current_ and free_current_ point to is
\* registered, and what is registered is mapped: neither malloc() nor free()
\* starts with a chunk that shrink() has unmapped or dropped.
CurrentsRegistered ==
  ~ destroyed =>
    /\ {alloc_current, free_current} \subseteq chunks
    /\ chunks \subseteq allocated

(***************************************************************************)
(* free() returns TRUE whatever it is given, a pointer of another thread's *)
(* arena or one into a chunk that was dropped included.  pool::free relies *)
(* on FALSE to pass the pointer on: thread_miss_free is never reached.     *)
(***************************************************************************)
FreeNeverRefuses == answer

\* The pointers of the client that point into chunk c.
Live(c) == { o \in Held : InRange(obj[o], c) }

(***************************************************************************)
(* A chunk that has never taken in a pointer of another one keeps its      *)
(* client apart: no two pointers name the same block of it, and none is    *)
(* left into it when it is not mapped, nor when empty() says it is unused. *)
(***************************************************************************)
CleanChunksSound ==
  \A c \in Addresses \ tainted :
    /\ \A o, p \in Live(c) : obj[o] = obj[p] => o = p
    /\ c \notin allocated /\ ~ destroyed => Live(c) = {}
    /\ IsEmpty(chunk[c]) /\ ~ destroyed => Live(c) = {}

(***************************************************************************)
(* What keeps it so: the free list of such a chunk is the tail of its      *)
(* blocks, and the client's pointers into it name blocks before the tail.  *)
(* A free() of one of its blocks that goes to another chunk writes into a  *)
(* block before the tail only.                                             *)
(***************************************************************************)
CleanFreeLists ==
  ~ destroyed =>
    \A c \in Addresses \ tainted :
      /\ c \in allocated =>
           /\ FreeListIsTheTail(chunk[c])
           /\ \A o \in Live(c) : \E i \in Blocks :
                i < Used(chunk[c]) /\ obj[o] = Address(c, i)
      /\ c \notin allocated => Live(c) = {}

\* The first block outside a chunk that is touched belongs to a tainted chunk
\* or is touched through a pointer into one: without a free() that goes wrong,
\* the arena stays in its memory.
WildOnlyWhenTainted == wild => tainted # {}

=============================================================================

-------------------------------- MODULE Chunk --------------------------------
(***************************************************************************)
(* One chunk (include/chunk.hpp) and its client.  The client allocates     *)
(* blocks, gives back blocks it holds, and hands the chunk pointers that   *)
(* belong to other chunks: arena::free does so whenever the block being    *)
(* freed is not in the chunk it tries first.                               *)
(***************************************************************************)
EXTENDS ChunkOps

CONSTANTS
  Begin,      \* address of the first block
  Outside     \* addresses of blocks of other chunks

ASSUME BeginAssumption == Begin \in Nat

ASSUME OutsideAssumption ==
  Outside \subseteq { ptr \in Nat : ~ InRange(ptr, Begin) }

VARIABLES
  chunk,      \* free_blocks_, position_ and the link bytes
  held,       \* indices of the blocks the client holds
  outside     \* history: release() was called with a pointer of another chunk

vars == <<chunk, held, outside>>

Init ==
  /\ chunk = NewChunk
  /\ held = {}
  /\ outside = FALSE

(***************************************************************************)
(* allocate(): NULL when no block is free, else the block at position_.    *)
(***************************************************************************)
Allocate ==
  /\ CanAllocate(chunk)
  /\ \E next \in NextPositions(chunk) : chunk' = Allocated(chunk, next)
  /\ held' = held \cup {chunk.position}
  /\ UNCHANGED outside

AllocateNull == ~ CanAllocate(chunk) /\ UNCHANGED vars

(***************************************************************************)
(* release(ptr): the client's pointer is gone whatever release() answers.  *)
(***************************************************************************)
DoRelease(ptr) ==
  chunk' = IF Refuses(ptr, Begin) THEN chunk
           ELSE Released(chunk, BlockIndex(ptr, Begin))

ReleaseHeld(i) ==
  /\ i \in held
  /\ held' = held \ {i}
  /\ DoRelease(Address(Begin, i))
  /\ UNCHANGED outside

ReleaseOutside(ptr) ==
  /\ DoRelease(ptr)
  /\ outside' = TRUE
  /\ UNCHANGED held

OwnNext == Allocate \/ AllocateNull \/ \E i \in held : ReleaseHeld(i)

Next == OwnNext \/ \E ptr \in Outside : ReleaseOutside(ptr)

Spec == Init /\ [][Next]_vars

\* The behaviours in which the client only returns blocks of this chunk.
OwnSpec == Init /\ [][OwnNext]_vars

-----------------------------------------------------------------------------
\* The type of the state.  held may hold index MAX_BLOCKS, one past the last
\* block: an outside pointer can leave that in position_.
TypeOK ==
  /\ chunk \in ChunkState
  /\ held \subseteq Byte
  /\ outside \in BOOLEAN

(***************************************************************************)
(* Until a pointer of another chunk comes in, the free list is the tail of *)
(* the chunk in address order, the counter is its length, and every block  *)
(* the client holds lies before it.                                        *)
(***************************************************************************)
FreeListIsTail ==
  ~ outside => FreeListIsTheTail(chunk) /\ \A i \in held : i < Used(chunk)

\* allocate() never hands out a block the client still holds, nor one past the
\* end, as long as release() has not been given a pointer of another chunk.
NoDoubleAllocation ==
  [][~ outside' /\ chunk'.free_blocks < chunk.free_blocks
       => chunk.position \in Blocks \ held]_vars

\* empty(), on which shrink() decides to unmap a chunk, is never true while the
\* client holds a block (again, without pointers of other chunks).
EmptyMeansUnused == ~ outside /\ IsEmpty(chunk) => held = {}

\* Without pointers of other chunks, a chunk implements BlockPool.
Pool == INSTANCE BlockPool
PoolSpec == Pool!Spec

=============================================================================

------------------------------ MODULE ChunkOps ------------------------------
(***************************************************************************)
(* The chunk of include/chunk.hpp and src/chunk.cpp as operators over one  *)
(* record: free_blocks_, position_ and the link byte kept in the first     *)
(* byte of every block.  Chunk is the state machine of a single chunk;     *)
(* Arena keeps one record per chunk of an arena.                           *)
(*                                                                         *)
(* The first byte of a block holds the index of the next free block while  *)
(* the block is free, and whatever the client writes while it is not.  So  *)
(* link[i] is the SET of bytes that block i may hold: a singleton when the *)
(* chunk wrote it last, all of Byte when the client did or when it was     *)
(* never written.                                                          *)
(***************************************************************************)
EXTENDS Integers

CONSTANTS
  MAX_BLOCKS,   \* blocks of a chunk, UCHAR_MAX in the code
  BlockSize,    \* bytes of a block
  SizeT         \* how many values a size_t has, 2^64 in the code

ASSUME ChunkAssumption ==
  /\ MAX_BLOCKS \in Nat \ {0}
  /\ BlockSize \in Nat \ {0}
  /\ SizeT \in Nat \ {0}

\* uint8_t: MAX_BLOCKS is its largest value, so it has MAX_BLOCKS + 1 values.
Byte == 0 .. MAX_BLOCKS

Blocks == 0 .. MAX_BLOCKS - 1

ChunkState ==
  [free_blocks : Byte, position : Byte, link : [Blocks -> (SUBSET Byte) \ {{}}]]

(***************************************************************************)
(* Addresses.  A chunk is named by the address begin_ of its first block.  *)
(***************************************************************************)
Address(begin, i) == begin + i * BlockSize

End(begin) == begin + MAX_BLOCKS * BlockSize

InRange(ptr, begin) == ptr <= End(begin) /\ ptr >= begin

\* The distance is a size_t, the quotient is cut down to a uint8_t.
BlockIndex(ptr, begin) ==
  (((ptr - begin) % SizeT) \div BlockSize) % (MAX_BLOCKS + 1)

\* The constructor's loop writes i, not i + 1, into block i.
NewChunkLinkedToItself ==
  [free_blocks |-> MAX_BLOCKS,
   position    |-> 0,
   link        |-> [i \in Blocks |-> {i}]]

(***************************************************************************)
(* The constructor links block i to block i + 1.  Its loop stops one block *)
(* short: the link of the last block is never written.                     *)
(***************************************************************************)
NewChunk ==
  [free_blocks |-> MAX_BLOCKS,
   position    |-> 0,
   link        |-> [i \in Blocks |-> IF i < MAX_BLOCKS - 1 THEN {i + 1} ELSE Byte]]

\* The test compares an unsigned counter the wrong way.
CanAllocateAlways(c) == c.free_blocks >= 0

CanAllocate(c) == c.free_blocks # 0

\* What `position_ = *result` may read; position_ = MAX_BLOCKS is past the end.
NextPositions(c) == IF c.position \in Blocks THEN c.link[c.position] ELSE Byte

\* The link is read, but block position_ stays at the head of the free list.
AllocatedWithoutAdvance(c, next) ==
  [free_blocks |-> c.free_blocks - 1,
   position    |-> c.position,
   link        |-> [i \in Blocks |-> IF i = c.position THEN Byte ELSE c.link[i]]]

\* The chunk after allocate() handed out block c.position and read next there;
\* the block is the client's from now on, and so is its first byte.
Allocated(c, next) ==
  [free_blocks |-> c.free_blocks - 1,
   position    |-> next,
   link        |-> [i \in Blocks |-> IF i = c.position THEN Byte ELSE c.link[i]]]

ReleasedWithoutWrap(c, index) ==
  [c EXCEPT !.free_blocks = @ + 1, !.position = index]

\* release() of a pointer that passes its range test: the chunk whose free
\* list the pointer is put on (the write through the pointer is apart).
Released(c, index) ==
  [c EXCEPT !.free_blocks = (@ + 1) % (MAX_BLOCKS + 1), !.position = index]

\* The range test of release(): it gives up when the pointer IS in the chunk.
Refuses(ptr, begin) == InRange(ptr, begin)

IsEmptyOffByOne(c) == c.free_blocks >= MAX_BLOCKS - 1

\* empty()
IsEmpty(c) == c.free_blocks = MAX_BLOCKS

-----------------------------------------------------------------------------
\* What the invariants of Chunk and Arena are stated with: the free list is the
\* tail of the chunk in address order, and the counter is its length.
Used(c) == MAX_BLOCKS - c.free_blocks

FreeListIsTheTail(c) ==
  /\ c.free_blocks # 0 => c.position = Used(c)
  /\ \A i \in Blocks : Used(c) <= i /\ i < MAX_BLOCKS - 1 => c.link[i] = {i + 1}

=============================================================================

--------------------------- MODULE ChunkOpsProofs ---------------------------
(***************************************************************************)
(* Lemmas about the operators of ChunkOps, for every number of blocks and  *)
(* block size: what they return is well typed, and the addresses of a      *)
(* chunk's blocks pass its range test.                                     *)
(***************************************************************************)
EXTENDS ChunkOps, TLAPS

\* The index release() computes fits in a uint8_t, whatever the distance.
LEMMA BlockIndexIsByte ==
  ASSUME NEW ptr \in Int, NEW begin \in Int
  PROVE  BlockIndex(ptr, begin) \in Byte
<1> DEFINE distance == (ptr - begin) % SizeT
<1>1. distance \in Nat
  BY ChunkAssumption
<1>2. distance \div BlockSize \in Int
  BY <1>1, ChunkAssumption
<1> HIDE DEF distance
<1> DEFINE quotient == distance \div BlockSize
<1>3. quotient \in Int
  BY <1>2
<1> HIDE DEF quotient
<1>4. quotient % (MAX_BLOCKS + 1) \in 0 .. MAX_BLOCKS
  BY <1>3, ChunkAssumption
<1> QED
  BY <1>4 DEF BlockIndex, Byte, quotient, distance

\* The chunk just built is well typed.
LEMMA NewChunkType == NewChunk \in ChunkState
<1>1. \A i \in Blocks :
        (IF i < MAX_BLOCKS - 1 THEN {i + 1} ELSE Byte) \in (SUBSET Byte) \ {{}}
  BY ChunkAssumption DEF Blocks, Byte
<1> QED
  BY <1>1, ChunkAssumption DEF NewChunk, ChunkState, Byte, Blocks

\* Reading a link yields a byte.
LEMMA NextPositionsType ==
  ASSUME NEW c \in ChunkState, NEW next \in NextPositions(c)
  PROVE  next \in Byte
BY DEF NextPositions, ChunkState

\* Handing out a block keeps the chunk well typed.
LEMMA AllocatedType ==
  ASSUME NEW c \in ChunkState, NEW next \in Byte, CanAllocate(c)
  PROVE  Allocated(c, next) \in ChunkState
<1>1. c.free_blocks - 1 \in Byte
  BY ChunkAssumption DEF ChunkState, CanAllocate, Byte
<1>2. Byte \in (SUBSET Byte) \ {{}}
  BY ChunkAssumption DEF Byte
<1>3. \A i \in Blocks :
        (IF i = c.position THEN Byte ELSE c.link[i]) \in (SUBSET Byte) \ {{}}
  BY <1>2 DEF ChunkState
<1> QED
  BY <1>1, <1>3 DEF Allocated, ChunkState

\* Putting a pointer on the free list keeps the chunk well typed: the counter
\* wraps around instead of leaving the range of a uint8_t.
LEMMA ReleasedType ==
  ASSUME NEW c \in ChunkState, NEW index \in Byte
  PROVE  Released(c, index) \in ChunkState
<1>1. (c.free_blocks + 1) % (MAX_BLOCKS + 1) \in Byte
  BY ChunkAssumption DEF ChunkState, Byte
<1> QED
  BY <1>1 DEF Released, ChunkState

\* Every address release() can compute an index of, the end included, passes
\* the range test.
LEMMA AddressInRange ==
  ASSUME NEW begin \in Nat, NEW i \in Byte
  PROVE  Address(begin, i) \in Nat /\ InRange(Address(begin, i), begin)
<1>1. i \in Nat /\ MAX_BLOCKS - i \in Nat /\ BlockSize \in Nat
  BY ChunkAssumption DEF Byte
<1>2. (MAX_BLOCKS - i) * BlockSize >= 0 /\ i * BlockSize >= 0
  BY <1>1
<1>3. i * BlockSize <= MAX_BLOCKS * BlockSize
  BY <1>1, <1>2, ChunkAssumption
<1> QED
  BY <1>1, <1>2, <1>3, ChunkAssumption DEF InRange, Address, End

\* Two different blocks of a chunk have different addresses.
LEMMA AddressInjective ==
  ASSUME NEW begin \in Nat, NEW i \in Byte, NEW j \in Byte,
         Address(begin, i) = Address(begin, j)
  PROVE  i = j
<1>1. i \in Nat /\ j \in Nat /\ BlockSize \in Nat /\ BlockSize > 0
  BY ChunkAssumption DEF Byte
<1>2. i * BlockSize = j * BlockSize
  BY <1>1 DEF Address
<1> QED
  BY <1>1, <1>2

\* The free list of a chunk just built is the whole chunk.
LEMMA NewChunkTail ==
  FreeListIsTheTail(NewChunk) /\ Used(NewChunk) = 0
BY ChunkAssumption DEF FreeListIsTheTail, Used, NewChunk, Blocks

\* As long as the free list is the tail, the block handed out is the first one
\* of it, and what is left is the tail behind that block.
LEMMA AllocateFromTail ==
  ASSUME NEW c \in ChunkState, FreeListIsTheTail(c), CanAllocate(c),
         NEW next \in NextPositions(c)
  PROVE  /\ c.position \in Blocks
         /\ c.position = Used(c)
         /\ Used(Allocated(c, next)) = Used(c) + 1
         /\ FreeListIsTheTail(Allocated(c, next))
<1> DEFINE left == Allocated(c, next)
<1>1. c.free_blocks \in 1 .. MAX_BLOCKS
  BY DEF CanAllocate, ChunkState, Byte
<1>2. c.position = Used(c) /\ Used(c) \in Blocks
  BY <1>1, ChunkAssumption DEF FreeListIsTheTail, Used, Blocks
<1>3. left.free_blocks = c.free_blocks - 1 /\ left.position = next
  BY DEF Allocated
<1>4. Used(left) = Used(c) + 1
  BY <1>1, <1>3, ChunkAssumption DEF Used
<1>5. left.free_blocks # 0 => left.position = Used(left)
  <2> SUFFICES ASSUME left.free_blocks # 0 PROVE next = Used(c) + 1
    BY <1>3, <1>4
  <2>1. Used(c) < MAX_BLOCKS - 1
    BY <1>1, <1>3, ChunkAssumption DEF Used
  <2>2. c.link[Used(c)] = {Used(c) + 1}
    BY <1>1, <1>2, <2>1, ChunkAssumption DEF FreeListIsTheTail, Used
  <2> QED
    BY <1>2, <2>2 DEF NextPositions
<1>6. ASSUME NEW i \in Blocks, Used(left) <= i, i < MAX_BLOCKS - 1
      PROVE  left.link[i] = {i + 1}
  <2>1. i # c.position /\ Used(c) <= i
    BY <1>1, <1>2, <1>4, <1>6, ChunkAssumption DEF Blocks
  <2>2. c.link[i] = {i + 1}
    BY <1>6, <2>1 DEF FreeListIsTheTail
  <2> QED
    BY <2>1, <2>2 DEF Allocated
<1>7. FreeListIsTheTail(left)
  BY <1>5, <1>6 DEF FreeListIsTheTail
<1> QED
  BY <1>2, <1>4, <1>7

=============================================================================

----------------------------- MODULE ChunkProofs -----------------------------
(***************************************************************************)
(* Proofs about Chunk, for every number of blocks, block size, address     *)
(* and set of outside pointers.  The inductive invariant is TypeOK with    *)
(* FreeListIsTail: that no block is handed out twice cannot be kept        *)
(* without knowing where the whole free list lies.                         *)
(***************************************************************************)
EXTENDS Chunk, ChunkOpsProofs

IInv == TypeOK /\ FreeListIsTail

\* release() of a pointer into the chunk gives up: the chunk is as before.
LEMMA ReleaseInRange ==
  ASSUME NEW i \in Byte, DoRelease(Address(Begin, i))
  PROVE  chunk' = chunk
BY AddressInRange, BeginAssumption DEF DoRelease, Refuses

-----------------------------------------------------------------------------
\* TypeOK and FreeListIsTail hold for every chunk and every client: the state
\* stays well typed, and until a pointer of another chunk is released the free
\* list is the tail of the chunk.
THEOREM ChunkInvariant == Spec => []IInv
<1>1. Init => IInv
  <2> SUFFICES ASSUME Init PROVE IInv
    OBVIOUS
  <2>1. TypeOK
    BY NewChunkType DEF Init, TypeOK
  <2>2. FreeListIsTail
    BY NewChunkTail DEF Init, FreeListIsTail
  <2> QED
    BY <2>1, <2>2 DEF IInv
<1>2. IInv /\ [Next]_vars => IInv'
  <2> SUFFICES ASSUME IInv, [Next]_vars PROVE IInv'
    OBVIOUS
  <2> USE DEF IInv
  <2>1. CASE Allocate
    <3>1. PICK next \in NextPositions(chunk) : chunk' = Allocated(chunk, next)
      BY <2>1 DEF Allocate
    <3>2. CanAllocate(chunk) /\ held' = held \cup {chunk.position} /\ outside' = outside
      BY <2>1 DEF Allocate
    <3>3. chunk \in ChunkState /\ next \in Byte
      BY NextPositionsType DEF TypeOK
    <3>4. TypeOK'
      BY <3>1, <3>2, <3>3, AllocatedType DEF TypeOK, ChunkState
    <3>5. FreeListIsTail'
      <4> SUFFICES ASSUME ~ outside PROVE FreeListIsTail'
        BY <3>2 DEF FreeListIsTail
      <4>1. /\ FreeListIsTheTail(chunk')
            /\ Used(chunk') = Used(chunk) + 1
            /\ chunk.position = Used(chunk)
        BY <3>1, <3>2, <3>3, AllocateFromTail DEF FreeListIsTail
      <4>2. \A i \in held : i < Used(chunk) /\ i \in Nat
        BY DEF FreeListIsTail, TypeOK, Byte
      <4>3. Used(chunk) \in Int
        BY <3>3, ChunkAssumption DEF Used, ChunkState, Byte
      <4>4. \A i \in held' : i < Used(chunk')
        BY <3>2, <4>1, <4>2, <4>3
      <4> QED
        BY <4>1, <4>4 DEF FreeListIsTail
    <3> QED
      BY <3>4, <3>5
  <2>2. ASSUME NEW i \in held, ReleaseHeld(i)
        PROVE  IInv'
    <3>1. i \in Byte
      BY DEF TypeOK
    <3>2. chunk' = chunk /\ held' = held \ {i} /\ outside' = outside
      BY <2>2, <3>1, ReleaseInRange DEF ReleaseHeld
    <3> QED
      BY <3>2 DEF TypeOK, FreeListIsTail
  <2>3. ASSUME NEW ptr \in Outside, ReleaseOutside(ptr)
        PROVE  IInv'
    <3>1. BlockIndex(ptr, Begin) \in Byte
      BY BlockIndexIsByte, OutsideAssumption, BeginAssumption
    <3>2. chunk' \in ChunkState
      BY <2>3, <3>1, ReleasedType DEF ReleaseOutside, DoRelease, TypeOK
    <3> QED
      BY <2>3, <3>2 DEF ReleaseOutside, TypeOK, FreeListIsTail
  <2>4. CASE AllocateNull \/ UNCHANGED vars
    BY <2>4 DEF AllocateNull, vars, TypeOK, FreeListIsTail
  <2> QED
    BY <2>1, <2>2, <2>3, <2>4 DEF Next, OwnNext
<1> QED
  BY <1>1, <1>2, PTL DEF Spec

\* The bytes of a chunk stay bytes, whatever pointers are released into it.
THEOREM TypeOKAlways == Spec => []TypeOK
<1>1. IInv => TypeOK
  BY DEF IInv
<1> QED
  BY <1>1, ChunkInvariant, PTL

\* The invariant the run of MCChunk checks, for every number of blocks.
THEOREM FreeListIsTailAlways == Spec => []FreeListIsTail
<1>1. IInv => FreeListIsTail
  BY DEF IInv
<1> QED
  BY <1>1, ChunkInvariant, PTL

\* empty() tells the truth to shrink() until a pointer of another chunk comes in.
THEOREM EmptyMeansUnusedAlways == Spec => []EmptyMeansUnused
<1>1. IInv => EmptyMeansUnused
  BY ChunkAssumption
     DEF IInv, TypeOK, FreeListIsTail, EmptyMeansUnused, IsEmpty, Used, Byte
<1> QED
  BY <1>1, ChunkInvariant, PTL

\* Under the invariant, the block a call of allocate() hands out is a block of
\* the chunk that the client does not hold.
LEMMA AllocatedIsFresh ==
  ASSUME IInv, ~ outside, CanAllocate(chunk)
  PROVE  chunk.position \in Blocks \ held
<1>1. /\ chunk \in ChunkState
      /\ FreeListIsTheTail(chunk)
      /\ \A i \in held : i < Used(chunk) /\ i \in Nat
  BY DEF IInv, TypeOK, FreeListIsTail, Byte
<1>2. NextPositions(chunk) # {}
  BY <1>1, ChunkAssumption DEF NextPositions, ChunkState, Byte
<1>3. chunk.position \in Blocks /\ chunk.position = Used(chunk)
  BY <1>1, <1>2, AllocateFromTail
<1> QED
  BY <1>1, <1>3 DEF Blocks

\* No block is handed out while it is held, and none past the end of the chunk,
\* unless a pointer of another chunk was released into this one before.
THEOREM NoDoubleAllocationAlways == Spec => NoDoubleAllocation
<1>1. IInv /\ [Next]_vars
        => [~ outside' /\ chunk'.free_blocks < chunk.free_blocks
              => chunk.position \in Blocks \ held]_vars
  <2> SUFFICES ASSUME IInv, Next, ~ outside', chunk'.free_blocks < chunk.free_blocks
               PROVE  chunk.position \in Blocks \ held
    OBVIOUS
  <2>1. CASE Allocate
    BY <2>1, AllocatedIsFresh DEF Allocate
  <2>2. ASSUME chunk' = chunk
        PROVE  FALSE
    BY <2>2, ChunkAssumption DEF IInv, TypeOK, ChunkState, Byte
  <2>3. CASE AllocateNull
    BY <2>3, <2>2 DEF AllocateNull, vars
  <2>4. ASSUME NEW i \in held, ReleaseHeld(i)
        PROVE  FALSE
    <3>1. i \in Byte
      BY DEF IInv, TypeOK
    <3> QED
      BY <2>2, <2>4, <3>1, ReleaseInRange DEF ReleaseHeld
  <2>5. ASSUME NEW ptr \in Outside, ReleaseOutside(ptr)
        PROVE  FALSE
    BY <2>5 DEF ReleaseOutside
  <2> QED
    BY <2>1, <2>3, <2>4, <2>5 DEF Next, OwnNext
<1> QED
  BY <1>1, ChunkInvariant, PTL DEF Spec, NoDoubleAllocation

-----------------------------------------------------------------------------
\* A chunk whose client only returns its own blocks implements BlockPool: each
\* allocate() that hands out a block is a Take of a block nobody holds.
THEOREM ChunkImplementsBlockPool == OwnSpec => PoolSpec
<1>1. OwnSpec => Spec /\ []~outside
  <2>1. Init => ~ outside
    BY DEF Init
  <2>2. ~ outside /\ [OwnNext]_vars => ~ outside'
    BY DEF OwnNext, Allocate, AllocateNull, ReleaseHeld, vars
  <2>3. [OwnNext]_vars => [Next]_vars
    BY DEF Next
  <2> QED
    BY <2>1, <2>2, <2>3, PTL DEF OwnSpec, Spec
<1>2. Init => Pool!Init
  BY DEF Init, Pool!Init
<1>3. IInv /\ ~ outside /\ [OwnNext]_vars => [Pool!Next]_held
  <2> SUFFICES ASSUME IInv, ~ outside, OwnNext PROVE [Pool!Next]_held
    BY DEF vars
  <2>1. CASE Allocate
    <3>1. chunk.position \in Blocks /\ chunk.position \notin held
      BY <2>1, AllocatedIsFresh DEF Allocate
    <3>2. Pool!Take(chunk.position)
      BY <2>1, <3>1 DEF Allocate, Pool!Take
    <3> QED
      BY <3>1, <3>2 DEF Pool!Next
  <2>2. ASSUME NEW i \in held, ReleaseHeld(i)
        PROVE  Pool!Next
    <3>1. i \in Blocks
      BY ChunkAssumption
         DEF IInv, TypeOK, FreeListIsTail, Used, ChunkState, Byte, Blocks
    <3>2. Pool!Give(i)
      BY <2>2 DEF ReleaseHeld, Pool!Give
    <3> QED
      BY <3>1, <3>2 DEF Pool!Next
  <2>3. CASE AllocateNull
    BY <2>3 DEF AllocateNull, vars
  <2> QED
    BY <2>1, <2>2, <2>3 DEF OwnNext
<1> QED
  BY <1>1, <1>2, <1>3, ChunkInvariant, PTL DEF OwnSpec, PoolSpec, Pool!Spec

=============================================================================

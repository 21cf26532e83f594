----------------------------- MODULE ArenaProofs -----------------------------
(***************************************************************************)
(* Proofs about Arena, for every number of blocks, block size, set of      *)
(* chunk addresses and client.  The walks over the range map are any of    *)
(* Walks throughout, so the results hold however early the iteration stops.*)
(***************************************************************************)
EXTENDS Arena, ChunkOpsProofs

Safe == TypeOK /\ CurrentsRegistered /\ FreeNeverRefuses

\* The addresses of the blocks of a chunk are in its range and in no other's.
LEMMA AddressFacts ==
  ASSUME NEW c \in Addresses, NEW i \in Byte
  PROVE  /\ Address(c, i) \in Nat
         /\ Address(c, i) \in Pointer
         /\ InRange(Address(c, i), c)
         /\ \A d \in Addresses \ {c} : ~ InRange(Address(c, i), d)
         /\ Address(c, i) # NULL
<1>1. c \in Nat /\ Address(c, i) \in Nat /\ InRange(Address(c, i), c)
  BY AddressInRange, AddressAssumption
<1>2. ASSUME NEW d \in Addresses \ {c}
      PROVE  ~ InRange(Address(c, i), d)
  <2> DEFINE a == Address(c, i)
  <2>1. \A e \in Addresses : e \in Nat /\ End(e) \in Nat
    BY AddressAssumption, ChunkAssumption DEF End
  <2>2. End(c) < d \/ End(d) < c
    BY AddressAssumption
  <2>3. a \in Nat /\ c <= a /\ a <= End(c)
    BY <1>1 DEF InRange
  <2> HIDE DEF a
  <2>4. ~ (a <= End(d) /\ a >= d)
    BY <2>1, <2>2, <2>3
  <2> QED
    BY <2>4 DEF InRange, a
<1> QED
  BY <1>1, <1>2, AddressAssumption DEF Pointer

-----------------------------------------------------------------------------
\* allocate() on a registered or a new chunk keeps the free lists and the
\* client's pointers well typed.
LEMMA HandOutType ==
  ASSUME TypeOK, NEW o \in Handles, NEW c \in Addresses,
         NEW cs \in [Addresses -> ChunkState],
         CanAllocate(cs[c]), HandOut(o, c, cs)
  PROVE  /\ chunk' \in [Addresses -> ChunkState]
         /\ obj' \in [Handles -> Pointer \cup {NULL}]
         /\ wild' \in BOOLEAN
<1>1. PICK next \in NextPositions(cs[c]) :
        chunk' = [cs EXCEPT ![c] = Allocated(cs[c], next)]
  BY DEF HandOut
<1>2. cs[c] \in ChunkState
  OBVIOUS
<1>3. Allocated(cs[c], next) \in ChunkState
  BY <1>2, NextPositionsType, AllocatedType
<1>4. Address(c, cs[c].position) \in Pointer
  BY <1>2 DEF ChunkState, Pointer
<1> QED
  BY <1>1, <1>3, <1>4 DEF HandOut, TypeOK

\* The free lists stay well typed when shrink() or ~arena() resets some.
LEMMA UnmappedType ==
  ASSUME TypeOK, NEW cs
  PROVE  Unmapped(cs) \in [Addresses -> ChunkState]
BY NewChunkType DEF Unmapped, TypeOK

\* malloc() keeps the arena safe.
LEMMA MallocSafe ==
  ASSUME Safe, NEW o \in Handles, NEW walk \in Walks, Malloc(o, walk)
  PROVE  Safe'
<1> USE DEF Safe
<1>1. /\ Running
      /\ UNCHANGED <<answer, lost, tainted, destroyed>>
      /\ chunks \subseteq Addresses /\ allocated \subseteq Addresses
      /\ alloc_current \in Addresses /\ chunk \in [Addresses -> ChunkState]
  BY DEF Malloc, TypeOK
<1>2. walk \subseteq chunks /\ \A c \in walk : c \in Addresses
  BY <1>1 DEF Walks
<1>3. CASE MallocCurrent(o)
  <2>1. /\ CanAllocate(chunk[alloc_current])
        /\ HandOut(o, alloc_current, chunk)
        /\ UNCHANGED <<chunks, allocated, alloc_current, free_current>>
    BY <1>3 DEF MallocCurrent
  <2>2. TypeOK'
    BY <1>1, <2>1, HandOutType DEF TypeOK
  <2> QED
    BY <1>1, <2>1, <2>2 DEF CurrentsRegistered, FreeNeverRefuses
<1>4. CASE MallocSearch(o, walk)
  <2>1. PICK c \in walk : /\ CanAllocate(chunk[c])
                          /\ HandOut(o, c, chunk)
                          /\ alloc_current' = c
    BY <1>4 DEF MallocSearch
  <2>2. UNCHANGED <<chunks, allocated, free_current>>
    BY <1>4 DEF MallocSearch
  <2>3. TypeOK'
    BY <1>1, <1>2, <2>1, <2>2, HandOutType DEF TypeOK
  <2> QED
    BY <1>1, <1>2, <2>1, <2>2, <2>3 DEF CurrentsRegistered, FreeNeverRefuses
<1>5. CASE MallocNew(o, walk)
  <2>1. PICK new \in Addresses \ allocated :
          /\ HandOut(o, new, [chunk EXCEPT ![new] = NewChunk])
          /\ chunks' = chunks \cup {new}
          /\ allocated' = allocated \cup {new}
          /\ alloc_current' = new
          /\ free_current' = new
    BY <1>5 DEF MallocNew
  <2> DEFINE cs == [chunk EXCEPT ![new] = NewChunk]
  <2>2. cs \in [Addresses -> ChunkState] /\ CanAllocate(cs[new])
    BY <1>1, NewChunkType, ChunkAssumption DEF CanAllocate, NewChunk
  <2>3. TypeOK'
    BY <1>1, <2>1, <2>2, HandOutType DEF TypeOK
  <2> QED
    BY <1>1, <2>1, <2>3 DEF CurrentsRegistered, FreeNeverRefuses, Running
<1> QED
  BY <1>3, <1>4, <1>5 DEF Malloc

\* A malloc() that throws leaves a chunk mapped and changes nothing else.
LEMMA MallocThrowsSafe ==
  ASSUME Safe, NEW walk \in Walks, MallocThrows(walk)
  PROVE  Safe'
<1>1. PICK new \in Addresses \ allocated, next \in NextPositions(NewChunk) :
        /\ chunk' = [chunk EXCEPT ![new] = Allocated(NewChunk, next)]
        /\ allocated' = allocated \cup {new}
        /\ lost' = lost \cup {new}
  BY DEF MallocThrows
<1>2. Allocated(NewChunk, next) \in ChunkState
  <2>1. NewChunk \in ChunkState /\ CanAllocate(NewChunk)
    BY NewChunkType, ChunkAssumption DEF CanAllocate, NewChunk
  <2> QED
    BY <2>1, NextPositionsType, AllocatedType
<1> QED
  BY <1>1, <1>2
     DEF MallocThrows, Safe, TypeOK, CurrentsRegistered, FreeNeverRefuses

\* free() finds free_current_ itself when free_current_ refuses the pointer,
\* so it has an answer for every pointer.
LEMMA FreeAnswers ==
  ASSUME Safe, Running, NEW ptr, NEW found \in Finds(ptr)
  PROVE  FreeAnswer(ptr, found) /\ (found = NULL \/ found \in chunks)
<1>1. free_current \in chunks /\ chunks \subseteq Nat
  BY AddressAssumption DEF Safe, Running, CurrentsRegistered, TypeOK
<1>2. CASE Refuses(ptr, free_current)
  <2>1. free_current \in Holding(ptr)
    BY <1>1, <1>2 DEF Holding, Refuses
  <2>2. found \in Holding(ptr)
    BY <2>1 DEF Finds
  <2> QED
    BY <1>1, <2>2, AddressAssumption DEF FreeAnswer, Holding
<1>3. CASE ~ Refuses(ptr, free_current)
  BY <1>3 DEF FreeAnswer, Finds, Holding
<1> QED
  BY <1>2, <1>3

\* What free() does to the free lists keeps them well typed.
LEMMA DoFreeSafe ==
  ASSUME Safe, Running, NEW ptr \in Nat, NEW found \in Finds(ptr),
         NEW still_held \in BOOLEAN, DoFree(ptr, found, still_held)
  PROVE  /\ answer'
         /\ chunk' \in [Addresses -> ChunkState]
         /\ free_current' \in chunks
         /\ tainted' \subseteq Addresses
         /\ wild' \in BOOLEAN
<1>1. /\ free_current \in chunks /\ chunks \subseteq Addresses
      /\ chunk \in [Addresses -> ChunkState]
      /\ tainted \subseteq Addresses /\ wild \in BOOLEAN
  BY DEF Safe, Running, CurrentsRegistered, TypeOK
<1>2. answer' /\ (found = NULL \/ found \in chunks)
  BY FreeAnswers DEF DoFree
<1> DEFINE c == Taker(ptr, found)
<1>3. CASE c = NULL
  BY <1>1, <1>2, <1>3 DEF DoFree
<1>4. CASE c # NULL
  <2>1. c \in chunks /\ c \in Addresses /\ Accept(c, ptr, still_held)
    BY <1>1, <1>2, <1>4 DEF DoFree, Taker
  <2> DEFINE written == Written(ptr, chunk[c].position, still_held)
  <2> HIDE DEF c
  <2>2. chunk[c].position \in Byte
    BY <1>1, <2>1 DEF ChunkState
  <2>3. ASSUME NEW d \in Addresses
        PROVE  written[d] \in ChunkState
    <3> DEFINE byte == chunk[c].position
    <3> DEFINE link == [i \in Blocks |->
                 IF d \notin allocated \/ Address(d, i) # ptr THEN chunk[d].link[i]
                 ELSE IF still_held THEN Byte ELSE {byte}]
    <3>1. chunk[d] \in ChunkState
      BY <1>1
    <3>2. Byte \in (SUBSET Byte) \ {{}} /\ {byte} \in (SUBSET Byte) \ {{}}
      BY <2>2
    <3>3. link \in [Blocks -> (SUBSET Byte) \ {{}}]
      BY <3>1, <3>2 DEF ChunkState
    <3>4. written[d] = [chunk[d] EXCEPT !.link = link]
      BY DEF Written
    <3> HIDE DEF link
    <3> QED
      BY <3>1, <3>3, <3>4 DEF ChunkState
  <2>4. written \in [Addresses -> ChunkState]
    BY <2>3 DEF Written
  <2> HIDE DEF written
  <2>5. BlockIndex(ptr, c) \in Byte
    BY <2>1, AddressAssumption, BlockIndexIsByte
  <2>6. chunk' = [written EXCEPT ![c] = Released(written[c], BlockIndex(ptr, c))]
    BY <2>1, <2>4 DEF Accept, written
  <2>7. Released(written[c], BlockIndex(ptr, c)) \in ChunkState
    BY <2>1, <2>4, <2>5, ReleasedType
  <2>8. chunk' \in [Addresses -> ChunkState]
    BY <2>4, <2>6, <2>7
  <2> QED
    BY <1>1, <1>2, <2>1, <2>8 DEF Accept
<1> QED
  BY <1>3, <1>4

\* free() of a pointer of the client or of another arena keeps the arena safe.
LEMMA FreeSafe ==
  ASSUME Safe,
         \/ \E o \in Held : \E found \in Finds(obj[o]) : Free(o, found)
         \/ \E ptr \in Foreign : \E found \in Finds(ptr) : FreeForeign(ptr, found)
  PROVE  Safe'
<1>1. ASSUME NEW o \in Held, NEW found \in Finds(obj[o]), Free(o, found)
      PROVE  Safe'
  <2>1. obj[o] \in Pointer /\ Running
    BY <1>1 DEF Safe, TypeOK, Held, Free
  <2>2. obj[o] \in Nat
    BY <2>1, AddressFacts DEF Pointer
  <2>3. /\ answer'
        /\ chunk' \in [Addresses -> ChunkState]
        /\ free_current' \in chunks
        /\ tainted' \subseteq Addresses
        /\ wild' \in BOOLEAN
    BY <1>1, <2>1, <2>2, DoFreeSafe DEF Free
  <2> QED
    BY <1>1, <2>3 DEF Free, Safe, TypeOK, CurrentsRegistered, FreeNeverRefuses, Running
<1>2. ASSUME NEW ptr \in Foreign, NEW found \in Finds(ptr), FreeForeign(ptr, found)
      PROVE  Safe'
  <2>1. ptr \in Nat /\ Running
    BY <1>2, AddressAssumption DEF FreeForeign
  <2>2. /\ answer'
        /\ chunk' \in [Addresses -> ChunkState]
        /\ free_current' \in chunks
        /\ tainted' \subseteq Addresses
        /\ wild' \in BOOLEAN
    BY <1>2, <2>1, DoFreeSafe DEF FreeForeign
  <2> QED
    BY <1>2, <2>2
       DEF FreeForeign, Safe, TypeOK, CurrentsRegistered, FreeNeverRefuses, Running
<1> QED
  BY <1>1, <1>2

\* shrink() leaves both current chunks registered and what is registered mapped.
LEMMA ShrinkSafe ==
  ASSUME Safe, NEW walk \in Walks, Shrink(walk)
  PROVE  Safe'
<1>1. /\ walk \subseteq chunks /\ chunks \subseteq allocated
      /\ chunks \subseteq Addresses /\ allocated \subseteq Addresses
  BY DEF Safe, Shrink, Running, Walks, CurrentsRegistered, TypeOK
<1>2. UNCHANGED <<obj, answer, lost, tainted, wild, destroyed>>
  BY DEF Shrink
<1>3. CASE ShrinkToKept(walk)
  <2>1. /\ chunks' = walk \ Empties(walk)
        /\ allocated' = allocated \ Empties(walk)
        /\ chunk' = Unmapped(Empties(walk))
        /\ alloc_current' \in chunks'
        /\ free_current' \in chunks'
    BY <1>3 DEF ShrinkToKept
  <2>2. chunk' \in [Addresses -> ChunkState]
    BY <2>1, UnmappedType DEF Safe
  <2> QED
    BY <1>1, <1>2, <2>1, <2>2 DEF Safe, TypeOK, CurrentsRegistered, FreeNeverRefuses
<1>4. CASE ShrinkToNew(walk)
  <2>1. PICK new \in Addresses :
          /\ chunks' = {new}
          /\ allocated' = (allocated \ Empties(walk)) \cup {new}
          /\ chunk' = Unmapped(Empties(walk) \cup {new})
          /\ alloc_current' = new
          /\ free_current' = new
    BY <1>4 DEF ShrinkToNew
  <2>2. chunk' \in [Addresses -> ChunkState]
    BY <2>1, UnmappedType DEF Safe
  <2> QED
    BY <1>1, <1>2, <2>1, <2>2 DEF Safe, TypeOK, CurrentsRegistered, FreeNeverRefuses
<1> QED
  BY <1>3, <1>4 DEF Shrink

\* ~arena() keeps the types; nothing is registered afterwards.
LEMMA DestroySafe ==
  ASSUME Safe, NEW walk \in Walks, Destroy(walk)
  PROVE  Safe'
<1>1. chunk' \in [Addresses -> ChunkState]
  BY UnmappedType DEF Safe, Destroy
<1> QED
  BY <1>1 DEF Safe, Destroy, TypeOK, CurrentsRegistered, FreeNeverRefuses

LEMMA InitSafe == Init => Safe
<1> SUFFICES ASSUME Init PROVE Safe
  OBVIOUS
<1>1. PICK first \in Addresses :
        /\ chunks = {first} /\ allocated = {first}
        /\ alloc_current = first /\ free_current = first
  BY DEF Init
<1>2. chunk \in [Addresses -> ChunkState]
  BY NewChunkType DEF Init
<1> QED
  BY <1>1, <1>2 DEF Init, Safe, TypeOK, CurrentsRegistered, FreeNeverRefuses

LEMMA StepSafe == Safe /\ [Next]_vars => Safe'
<1> SUFFICES ASSUME Safe, [Next]_vars PROVE Safe'
  OBVIOUS
<1>1. ASSUME NEW walk \in Walks, NEW o \in Handles, Malloc(o, walk)
      PROVE  Safe'
  BY <1>1, MallocSafe
<1>2. ASSUME NEW walk \in Walks, Shrink(walk) \/ MallocThrows(walk)
      PROVE  Safe'
  BY <1>2, ShrinkSafe, MallocThrowsSafe
<1>3. ASSUME NEW walk \in Walks, Destroy(walk)
      PROVE  Safe'
  BY <1>3, DestroySafe
<1>4. CASE \/ \E o \in Held : \E found \in Finds(obj[o]) : Free(o, found)
           \/ \E ptr \in Foreign : \E found \in Finds(ptr) : FreeForeign(ptr, found)
  BY <1>4, FreeSafe
<1>5. CASE UNCHANGED vars
  BY <1>5 DEF vars, Safe, TypeOK, CurrentsRegistered, FreeNeverRefuses
<1> QED
  BY <1>1, <1>2, <1>3, <1>4, <1>5 DEF Next

(***************************************************************************)
(* The arena is well typed, its current chunks are registered and what is  *)
(* registered is mapped, and free() returns TRUE, in every reachable state.*)
(***************************************************************************)
THEOREM ArenaSafe == Spec => []Safe
BY InitSafe, StepSafe, PTL DEF Spec

\* Free lists, counters and pointers keep their ranges, whatever is released
\* into whichever chunk.
THEOREM TypeOKAlways == Spec => []TypeOK
<1>1. Safe => TypeOK
  BY DEF Safe
<1> QED
  BY <1>1, ArenaSafe, PTL

\* free() never passes a pointer on: pool::thread_miss_free is dead code.
THEOREM FreeNeverRefusesAlways == Spec => []FreeNeverRefuses
<1>1. Safe => FreeNeverRefuses
  BY DEF Safe
<1> QED
  BY <1>1, ArenaSafe, PTL

\* Neither malloc() nor free() ever starts with a chunk that is not registered.
THEOREM CurrentsRegisteredAlways == Spec => []CurrentsRegistered
<1>1. Safe => CurrentsRegistered
  BY DEF Safe
<1> QED
  BY <1>1, ArenaSafe, PTL
-----------------------------------------------------------------------------
(***************************************************************************)
(* Chunks that have never taken in a pointer of another chunk.  That two   *)
(* pointers never name one block is kept because the next block to be      *)
(* handed out lies behind every block a pointer names: CleanFreeLists.     *)
(***************************************************************************)
CleanApart ==
  \A c \in Addresses \ tainted : \A o, p \in Live(c) : obj[o] = obj[p] => o = p

CleanInv == Safe /\ CleanFreeLists /\ CleanApart /\ WildOnlyWhenTainted

\* Under the invariant an empty clean chunk, mapped or not, has no live pointer.
LEMMA EmptyIsUnused ==
  ASSUME TypeOK, CleanFreeLists, ~ destroyed,
         NEW c \in Addresses \ tainted, IsEmpty(chunk[c])
  PROVE  Live(c) = {}
<1>1. Used(chunk[c]) = 0
  BY ChunkAssumption DEF Used, IsEmpty
<1>2. \A i \in Blocks : ~ (i < 0)
  BY DEF Blocks
<1> QED
  BY <1>1, <1>2 DEF CleanFreeLists

\* Handing out a block of chunk d leaves the clean chunks as they should be.
LEMMA HandOutClean ==
  ASSUME CleanInv, Running, NEW o \in Handles, obj[o] = NULL,
         NEW d \in Addresses, NEW cs \in [Addresses -> ChunkState],
         CanAllocate(cs[d]), HandOut(o, d, cs),
         \A c \in Addresses \ {d} : cs[c] = chunk[c],
         allocated' = allocated \cup {d}, tainted' = tainted, destroyed' = destroyed,
         d \notin tainted =>
           /\ FreeListIsTheTail(cs[d])
           /\ \A p \in Live(d) : \E i \in Blocks :
                i < Used(cs[d]) /\ obj[p] = Address(d, i)
  PROVE  CleanFreeLists' /\ CleanApart' /\ WildOnlyWhenTainted'
<1> USE DEF CleanInv, Safe
<1>1. PICK next \in NextPositions(cs[d]) :
        chunk' = [cs EXCEPT ![d] = Allocated(cs[d], next)]
  BY DEF HandOut
<1> DEFINE pos == cs[d].position
<1>2. pos \in Byte /\ Address(d, pos) \in Nat
  BY AddressFacts DEF ChunkState
<1>3. obj' = [obj EXCEPT ![o] = Address(d, pos)] /\ wild' = (pos \notin Blocks)
  BY DEF HandOut
<1>4. obj \in [Handles -> Pointer \cup {NULL}] /\ ~ destroyed
  BY DEF TypeOK, Running
<1>5. ASSUME NEW c \in Addresses \ tainted, c # d
      PROVE  /\ chunk'[c] = chunk[c]
             /\ Live(c)' = Live(c)
             /\ \A p \in Live(c) : obj'[p] = obj[p]
             /\ c \in allocated' <=> c \in allocated
  <2>1. chunk'[c] = chunk[c]
    BY <1>1, <1>5
  <2>2. ~ InRange(Address(d, pos), c)
    BY <1>2, <1>5, AddressFacts
  <2>3. \A p \in Handles : p # o => obj'[p] = obj[p]
    BY <1>3, <1>4
  <2>4. obj'[o] = Address(d, pos)
    BY <1>3, <1>4
  <2> QED
    BY <1>5, <2>1, <2>2, <2>3, <2>4 DEF Live, Held
<1>6. ASSUME d \notin tainted
      PROVE  /\ pos \in Blocks /\ pos = Used(cs[d])
             /\ Used(chunk'[d]) = pos + 1
             /\ FreeListIsTheTail(chunk'[d])
             /\ Live(d)' \subseteq Live(d) \cup {o}
             /\ \A p \in Live(d) : /\ p # o /\ obj'[p] = obj[p]
                                   /\ \E i \in Blocks : i < pos /\ obj[p] = Address(d, i)
             /\ obj'[o] = Address(d, pos)
  <2>1. /\ pos \in Blocks /\ pos = Used(cs[d])
        /\ Used(Allocated(cs[d], next)) = Used(cs[d]) + 1
        /\ FreeListIsTheTail(Allocated(cs[d], next))
    BY <1>6, AllocateFromTail
  <2>2. chunk'[d] = Allocated(cs[d], next)
    BY <1>1
  <2>3. \A p \in Handles : p # o => obj'[p] = obj[p]
    BY <1>3, <1>4
  <2>4. obj'[o] = Address(d, pos)
    BY <1>3, <1>4
  <2>5. Live(d)' \subseteq Live(d) \cup {o}
    BY <2>3 DEF Live, Held
  <2>6. \A p \in Live(d) : p # o
    BY DEF Live, Held
  <2> HIDE DEF pos
  <2> QED
    BY <1>6, <2>1, <2>2, <2>3, <2>4, <2>5, <2>6 DEF Live, Held
<1> HIDE DEF pos
<1>7. CleanFreeLists'
  <2> SUFFICES ASSUME NEW c \in Addresses \ tainted
               PROVE  /\ c \in allocated' =>
                           /\ FreeListIsTheTail(chunk'[c])
                           /\ \A p \in Live(c)' : \E i \in Blocks :
                                i < Used(chunk'[c]) /\ obj'[p] = Address(c, i)
                      /\ c \notin allocated' => Live(c)' = {}
    BY DEF CleanFreeLists
  <2>1. CASE c # d
    BY <1>4, <1>5, <2>1 DEF CleanFreeLists
  <2>2. CASE c = d
    <3>1. ASSUME NEW p \in Live(d)'
          PROVE  \E i \in Blocks : i < pos + 1 /\ obj'[p] = Address(d, i)
      <4>1. CASE p = o
        BY <1>6, <2>2, <4>1 DEF Blocks
      <4>2. CASE p \in Live(d)
        BY <1>6, <2>2, <4>2 DEF Blocks
      <4> QED
        BY <1>6, <2>2, <3>1, <4>1, <4>2
    <3> QED
      BY <1>6, <2>2, <3>1
  <2> QED
    BY <2>1, <2>2
<1>8. CleanApart'
  <2> SUFFICES ASSUME NEW c \in Addresses \ tainted,
                      NEW p \in Live(c)', NEW q \in Live(c)', obj'[p] = obj'[q]
               PROVE  p = q
    BY DEF CleanApart
  <2>1. CASE c # d
    BY <1>5, <2>1 DEF CleanApart
  <2>2. CASE c = d
    <3>1. \A r \in Live(d) : obj'[r] # Address(d, pos)
      <4> SUFFICES ASSUME NEW r \in Live(d), obj'[r] = Address(d, pos) PROVE FALSE
        OBVIOUS
      <4>1. PICK i \in Blocks : i < pos /\ obj'[r] = Address(d, i)
        BY <1>6, <2>2
      <4>2. i \in Byte /\ d \in Nat /\ pos \in Byte
        BY <1>2, AddressAssumption, ChunkAssumption DEF Blocks, Byte
      <4>3. i = pos
        BY <4>1, <4>2, AddressInjective
      <4> QED
        BY <4>1, <4>2, <4>3 DEF Byte
    <3>2. p \in Live(d) \cup {o} /\ q \in Live(d) \cup {o}
      BY <1>6, <2>2
    <3> QED
      BY <1>6, <2>2, <3>1, <3>2 DEF CleanApart
  <2> QED
    BY <2>1, <2>2
<1>9. WildOnlyWhenTainted'
  BY <1>3, <1>6 DEF WildOnlyWhenTainted
<1> QED
  BY <1>7, <1>8, <1>9

\* malloc() leaves the clean chunks as they should be.
LEMMA MallocClean ==
  ASSUME CleanInv, NEW o \in Handles, NEW walk \in Walks, Malloc(o, walk)
  PROVE  CleanFreeLists' /\ CleanApart' /\ WildOnlyWhenTainted'
<1> USE DEF CleanInv, Safe
<1>1. /\ Running /\ obj[o] = NULL
      /\ UNCHANGED <<answer, lost, tainted, destroyed>>
      /\ chunk \in [Addresses -> ChunkState]
      /\ walk \subseteq chunks /\ chunks \subseteq allocated /\ alloc_current \in chunks
      /\ allocated \subseteq Addresses
  BY DEF Malloc, TypeOK, CurrentsRegistered, Running, Walks
<1>2. \A d \in allocated \ tainted :
        /\ FreeListIsTheTail(chunk[d])
        /\ \A p \in Live(d) : \E i \in Blocks :
             i < Used(chunk[d]) /\ obj[p] = Address(d, i)
  BY <1>1 DEF CleanFreeLists, Running
<1>3. ASSUME NEW d \in allocated, CanAllocate(chunk[d]), HandOut(o, d, chunk),
             allocated' = allocated
      PROVE  CleanFreeLists' /\ CleanApart' /\ WildOnlyWhenTainted'
  BY <1>1, <1>2, <1>3, HandOutClean
<1>4. CASE MallocCurrent(o)
  BY <1>1, <1>3, <1>4 DEF MallocCurrent
<1>5. CASE MallocSearch(o, walk)
  BY <1>1, <1>3, <1>5 DEF MallocSearch
<1>6. CASE MallocNew(o, walk)
  <2>1. PICK new \in Addresses \ allocated :
          /\ HandOut(o, new, [chunk EXCEPT ![new] = NewChunk])
          /\ allocated' = allocated \cup {new}
    BY <1>6 DEF MallocNew
  <2> DEFINE cs == [chunk EXCEPT ![new] = NewChunk]
  <2>2. /\ cs \in [Addresses -> ChunkState] /\ cs[new] = NewChunk
        /\ \A c \in Addresses \ {new} : cs[c] = chunk[c]
    BY <1>1, NewChunkType
  <2>3. CanAllocate(cs[new])
    BY <2>2, ChunkAssumption DEF CanAllocate, NewChunk
  <2>4. new \notin tainted => Live(new) = {}
    BY <1>1, <2>1 DEF CleanFreeLists, Running
  <2>5. FreeListIsTheTail(cs[new])
    BY <2>2, NewChunkTail
  <2>6. HandOut(o, new, cs)
    BY <2>1
  <2> HIDE DEF cs
  <2> QED
    BY <1>1, <2>1, <2>2, <2>3, <2>4, <2>5, <2>6, HandOutClean
<1> QED
  BY <1>4, <1>5, <1>6 DEF Malloc

\* Nor does a malloc() that throws disturb them: no pointer is left into the
\* chunk that is lost.
LEMMA MallocThrowsClean ==
  ASSUME CleanInv, NEW walk \in Walks, MallocThrows(walk)
  PROVE  CleanFreeLists' /\ CleanApart' /\ WildOnlyWhenTainted'
<1> USE DEF CleanInv, Safe
<1>1. PICK new \in Addresses \ allocated, next \in NextPositions(NewChunk) :
        /\ chunk' = [chunk EXCEPT ![new] = Allocated(NewChunk, next)]
        /\ allocated' = allocated \cup {new}
  BY DEF MallocThrows
<1>2. UNCHANGED <<obj, tainted, wild, destroyed>> /\ ~ destroyed
  BY DEF MallocThrows, Running
<1>3. FreeListIsTheTail(Allocated(NewChunk, next))
  <2>1. NewChunk \in ChunkState /\ CanAllocate(NewChunk)
    BY NewChunkType, ChunkAssumption DEF CanAllocate, NewChunk
  <2> QED
    BY <2>1, NewChunkTail, AllocateFromTail
<1>4. \A c \in Addresses : Live(c)' = Live(c)
  BY <1>2 DEF Live, Held
<1>5. new \notin tainted => Live(new) = {}
  BY <1>1, <1>2 DEF CleanFreeLists
<1>6. /\ chunk'[new] = Allocated(NewChunk, next)
      /\ \A c \in Addresses \ {new} : chunk'[c] = chunk[c]
  BY <1>1 DEF TypeOK
<1>7. CleanFreeLists'
  BY <1>1, <1>2, <1>3, <1>4, <1>5, <1>6 DEF CleanFreeLists
<1> QED
  BY <1>2, <1>4, <1>7 DEF CleanApart, WildOnlyWhenTainted

\* A free() that goes to another chunk writes before the tail of a clean one.
LEMMA FreeClean ==
  ASSUME CleanInv, Running, NEW ptr \in Nat, NEW found \in Finds(ptr),
         NEW still_held \in BOOLEAN, DoFree(ptr, found, still_held),
         allocated' = allocated, destroyed' = destroyed,
         \A p \in Handles : obj'[p] \in {obj[p], NULL},
         \A c \in allocated \ tainted, i \in Blocks :
           Address(c, i) = ptr => i < Used(chunk[c])
  PROVE  CleanFreeLists' /\ CleanApart' /\ WildOnlyWhenTainted'
<1> USE DEF CleanInv, Safe
<1> DEFINE t == Taker(ptr, found)
<1>1. tainted \subseteq tainted' /\ (t # NULL => t \in tainted')
  BY DEF DoFree, Accept
<1>2. \A c \in Addresses : Live(c)' \subseteq Live(c)
  BY DEF Live, Held
<1>3. \A c \in Addresses : \A p \in Live(c)' : obj'[p] = obj[p]
  BY DEF Live, Held
<1>4. ASSUME NEW c \in Addresses \ tainted', c \in allocated
      PROVE  Used(chunk'[c]) = Used(chunk[c]) /\ FreeListIsTheTail(chunk'[c])
  <2>1. FreeListIsTheTail(chunk[c]) /\ chunk[c] \in ChunkState
    BY <1>1, <1>4 DEF CleanFreeLists, Running, TypeOK
  <2>2. CASE t = NULL
    BY <2>1, <2>2 DEF DoFree
  <2>3. CASE t # NULL
    <3>1. c # t /\ c \notin tainted
      BY <1>1, <1>4, <2>3
    <3>2. Accept(t, ptr, still_held)
      BY <2>3 DEF DoFree
    <3> HIDE DEF t
    <3> DEFINE byte == chunk[t].position
    <3>3. chunk'[c] = Written(ptr, byte, still_held)[c]
      BY <3>1, <3>2 DEF Accept, Written
    <3>4. /\ chunk'[c].free_blocks = chunk[c].free_blocks
          /\ chunk'[c].position = chunk[c].position
          /\ \A i \in Blocks : Address(c, i) # ptr => chunk'[c].link[i] = chunk[c].link[i]
      BY <2>1, <3>3 DEF Written, ChunkState
    <3>5. Used(chunk'[c]) = Used(chunk[c])
      BY <3>4 DEF Used
    <3>6. ASSUME NEW i \in Blocks, Used(chunk[c]) <= i
          PROVE  chunk'[c].link[i] = chunk[c].link[i]
      <4>1. Address(c, i) # ptr
        <5>1. Used(chunk[c]) \in Int /\ i \in Int
          BY <2>1, ChunkAssumption DEF Used, ChunkState, Byte, Blocks
        <5>2. ~ (i < Used(chunk[c]))
          BY <3>6, <5>1
        <5> QED
          BY <1>4, <3>1, <5>2
      <4> QED
        BY <3>4, <4>1
    <3> QED
      BY <2>1, <3>4, <3>5, <3>6 DEF FreeListIsTheTail
  <2> QED
    BY <2>2, <2>3
<1>5. CleanFreeLists'
  BY <1>1, <1>2, <1>3, <1>4 DEF CleanFreeLists
<1>6. CleanApart'
  BY <1>1, <1>2, <1>3 DEF CleanApart
<1>7. WildOnlyWhenTainted'
  BY <1>1 DEF WildOnlyWhenTainted, DoFree
<1> QED
  BY <1>5, <1>6, <1>7

\* The block of the client that free() gets lies before the tail of its chunk.
LEMMA FreedBlockIsUsed ==
  ASSUME CleanInv, Running, NEW o \in Held,
         NEW c \in allocated \ tainted, NEW i \in Blocks, Address(c, i) = obj[o]
  PROVE  i < Used(chunk[c])
<1>1. c \in Addresses /\ c \in Nat /\ i \in Byte
  BY AddressAssumption, ChunkAssumption
     DEF CleanInv, Safe, TypeOK, Blocks, Byte
<1>2. o \in Live(c)
  BY <1>1, AddressFacts DEF Live
<1>3. PICK j \in Blocks : j < Used(chunk[c]) /\ obj[o] = Address(c, j)
  BY <1>1, <1>2 DEF CleanInv, CleanFreeLists, Running
<1>4. j \in Byte
  BY ChunkAssumption DEF Blocks, Byte
<1> QED
  BY <1>1, <1>3, <1>4, AddressInjective

\* shrink() unmaps no clean chunk with live pointers; a chunk mapped anew has none.
LEMMA ShrinkClean ==
  ASSUME CleanInv, NEW walk \in Walks, Shrink(walk)
  PROVE  CleanFreeLists' /\ CleanApart' /\ WildOnlyWhenTainted'
<1> USE DEF CleanInv, Safe
<1>1. /\ UNCHANGED <<obj, tainted, wild, destroyed>> /\ ~ destroyed
      /\ walk \subseteq allocated /\ allocated \subseteq Addresses
  BY DEF Shrink, Running, Walks, CurrentsRegistered, TypeOK
<1>2. \A c \in Addresses : Live(c)' = Live(c)
  BY <1>1 DEF Live, Held
<1>3. \A c \in Empties(walk) \ tainted : Live(c) = {}
  BY <1>1, EmptyIsUnused DEF Empties
<1>4. ASSUME NEW cs, allocated \ Empties(walk) \subseteq allocated',
             allocated' \subseteq (allocated \ Empties(walk)) \cup cs,
             chunk' = Unmapped(cs),
             \A c \in cs : c \in Empties(walk) \/ c \notin allocated
      PROVE  CleanFreeLists'
  <2> SUFFICES ASSUME NEW c \in Addresses \ tainted
               PROVE  /\ c \in allocated' =>
                           /\ FreeListIsTheTail(chunk'[c])
                           /\ \A p \in Live(c) : \E i \in Blocks :
                                i < Used(chunk'[c]) /\ obj[p] = Address(c, i)
                      /\ c \notin allocated' => Live(c) = {}
    BY <1>1, <1>2 DEF CleanFreeLists
  <2>1. CASE c \in cs
    <3>1. Live(c) = {}
      BY <1>1, <1>3, <1>4, <2>1 DEF CleanFreeLists
    <3>2. chunk'[c] = NewChunk
      BY <1>4, <2>1 DEF Unmapped
    <3> QED
      BY <3>1, <3>2, NewChunkTail
  <2>2. CASE c \notin cs /\ c \in allocated'
    <3>1. chunk'[c] = chunk[c] /\ c \in allocated
      BY <1>4, <2>2 DEF Unmapped
    <3> QED
      BY <1>1, <2>2, <3>1 DEF CleanFreeLists
  <2>3. CASE c \notin cs /\ c \notin allocated'
    <3>1. c \notin allocated \/ c \in Empties(walk)
      BY <1>4, <2>3
    <3> QED
      BY <1>1, <1>3, <2>3, <3>1 DEF CleanFreeLists
  <2> QED
    BY <2>1, <2>2, <2>3
<1>5. CASE ShrinkToKept(walk)
  <2>1. /\ allocated' = allocated \ Empties(walk)
        /\ chunk' = Unmapped(Empties(walk))
    BY <1>5 DEF ShrinkToKept
  <2>2. CleanFreeLists'
    BY <1>4, <2>1
  <2> QED
    BY <1>1, <1>2, <2>2 DEF CleanApart, WildOnlyWhenTainted
<1>6. CASE ShrinkToNew(walk)
  <2>1. PICK new \in Addresses \ (allocated \ Empties(walk)) :
          /\ allocated' = (allocated \ Empties(walk)) \cup {new}
          /\ chunk' = Unmapped(Empties(walk) \cup {new})
    BY <1>6 DEF ShrinkToNew
  <2>2. CleanFreeLists'
    BY <1>4, <2>1
  <2> QED
    BY <1>1, <1>2, <2>2 DEF CleanApart, WildOnlyWhenTainted
<1> QED
  BY <1>5, <1>6 DEF Shrink

\* The invariant of the clean chunks is inductive.
THEOREM ArenaClean == Spec => []CleanInv
<1>1. Init => CleanFreeLists /\ CleanApart /\ WildOnlyWhenTainted
  BY NewChunkTail
     DEF Init, CleanFreeLists, CleanApart, WildOnlyWhenTainted, Live, Held
<1>2. CleanInv /\ [Next]_vars => CleanFreeLists' /\ CleanApart' /\ WildOnlyWhenTainted'
  <2> SUFFICES ASSUME CleanInv, [Next]_vars
               PROVE  CleanFreeLists' /\ CleanApart' /\ WildOnlyWhenTainted'
    OBVIOUS
  <2>1. ASSUME NEW walk \in Walks, NEW o \in Handles, Malloc(o, walk)
        PROVE  CleanFreeLists' /\ CleanApart' /\ WildOnlyWhenTainted'
    BY <2>1, MallocClean
  <2>2. ASSUME NEW walk \in Walks, Shrink(walk) \/ MallocThrows(walk)
        PROVE  CleanFreeLists' /\ CleanApart' /\ WildOnlyWhenTainted'
    BY <2>2, ShrinkClean, MallocThrowsClean
  <2>3. ASSUME NEW walk \in Walks, Destroy(walk)
        PROVE  CleanFreeLists' /\ CleanApart' /\ WildOnlyWhenTainted'
    BY <2>3
       DEF Destroy, CleanInv, CleanFreeLists, CleanApart, WildOnlyWhenTainted, Live, Held
  <2>4. ASSUME NEW o \in Held, NEW found \in Finds(obj[o]), Free(o, found)
        PROVE  CleanFreeLists' /\ CleanApart' /\ WildOnlyWhenTainted'
    <3>1. obj \in [Handles -> Pointer \cup {NULL}] /\ obj[o] \in Pointer /\ Running
      BY <2>4 DEF CleanInv, Safe, TypeOK, Held, Free
    <3>2. obj[o] \in Nat
      BY <3>1, AddressFacts DEF Pointer
    <3>3. \A p \in Handles : obj'[p] \in {obj[p], NULL}
      BY <2>4, <3>1 DEF Free
    <3>4. \A c \in allocated \ tainted, i \in Blocks :
            Address(c, i) = obj[o] => i < Used(chunk[c])
      BY <3>1, FreedBlockIsUsed
    <3> QED
      BY <2>4, <3>1, <3>2, <3>3, <3>4, FreeClean DEF Free
  <2>5. ASSUME NEW ptr \in Foreign, NEW found \in Finds(ptr), FreeForeign(ptr, found)
        PROVE  CleanFreeLists' /\ CleanApart' /\ WildOnlyWhenTainted'
    <3>1. \A c \in allocated \ tainted, i \in Blocks : Address(c, i) # ptr
      <4>1. \A i \in Blocks : i \in Byte
        BY ChunkAssumption DEF Blocks, Byte
      <4> QED
        BY <4>1, AddressFacts, AddressAssumption DEF CleanInv, Safe, TypeOK
    <3>2. ptr \in Nat /\ Running /\ obj' = obj
      BY <2>5, AddressAssumption DEF FreeForeign
    <3> QED
      BY <2>5, <3>1, <3>2, FreeClean DEF FreeForeign
  <2>6. CASE UNCHANGED vars
    BY <2>6
       DEF vars, CleanInv, CleanFreeLists, CleanApart, WildOnlyWhenTainted, Live, Held
  <2> QED
    BY <2>1, <2>2, <2>3, <2>4, <2>5, <2>6 DEF Next
<1> QED
  BY <1>1, <1>2, ArenaSafe, PTL DEF Spec, CleanInv

\* The free list of a chunk that never took in a pointer of another is its tail.
THEOREM CleanFreeListsAlways == Spec => []CleanFreeLists
<1>1. CleanInv => CleanFreeLists
  BY DEF CleanInv
<1> QED
  BY <1>1, ArenaClean, PTL

\* No two pointers name one block of a clean chunk, and no pointer is left into
\* one that shrink() took for unused or that is not mapped.
THEOREM CleanChunksSoundAlways == Spec => []CleanChunksSound
<1>1. CleanInv => CleanChunksSound
  BY EmptyIsUnused
     DEF CleanInv, Safe, CleanFreeLists, CleanApart, CleanChunksSound
<1> QED
  BY <1>1, ArenaClean, PTL

\* No memory outside of the blocks is touched before some chunk took in a
\* pointer of another one.
THEOREM WildOnlyWhenTaintedAlways == Spec => []WildOnlyWhenTainted
<1>1. CleanInv => WildOnlyWhenTainted
  BY DEF CleanInv
<1> QED
  BY <1>1, ArenaClean, PTL

=============================================================================

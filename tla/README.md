# Verification of the small object allocator

TLA+ models of the allocator in `include/` and `src/`, TLC configurations that
check them on small instances, and TLAPS proofs of what matters most, for every
number of threads, blocks, chunks and arenas.

    tlasany M.tla                      # parse
    tlc -config MCPool.cfg MCPool      # model-check
    tlapm PoolProofs.tla               # check proofs

## The system

A program derives classes from `smallobject::object`, whose `operator new` goes
through these parts:

    object -> object_allocator -> pool (one of 14, by size)
                                    |-- list of arenas (lock-free)
                                    `-- arena (one per thread)
                                          |-- range_map: chunk ranges -> chunks
                                          `-- chunk (255 blocks)

| Part | State | Operations | Who calls it |
|---|---|---|---|
| `chunk` | `free_blocks_`, `position_` (one byte each); in each free block a byte that names the next one | constructor, `allocate`, `release`, `empty` | arena |
| `range_map` | a binary search tree: root, per node parent, children and an `int8_t` height | `insert`, `erase`, `find`, `clear`, iteration | arena |
| `arena` | its chunks in a range map, the chunk to allocate from, the chunk to free to, the flag `reserved_`, a read-write lock | `malloc`, `free`, `synch_free`, `reserve`, `release`, `shrink`, destructor | pool |
| `pool` | an arena pointer per thread, the list of all arenas | `malloc`, `free`, thread exit (a callback of `boost::thread_specific_ptr`), destructor | object_allocator |
| `list` | an atomic head, atomic `prev_` and `next_` per node | `push_front`, iteration, `erase`, destructor | pool |
| `object_allocator` | one instance behind an atomic pointer and a mutex; the pools | `instance`, `malloc`, `free`, `release` at exit | object |
| `heap_allocator` (Windows build) | the same, and a heap | `instance`, `allocate`, `release`, `release` at exit | `sys::xmalloc`, so everything |
| `object` | a reference count | `operator new`, `operator delete`, add and release a reference | the program |
| `read_write_barrier` | a read-write lock of the system, or the upgrade mutex of boost | guards `read_lock`, `write_lock` | arena |
| `critical_section` | a mutex or spin lock | guard `unique_lock` | object_allocator, heap_allocator |
| `sys::allocator` | none | `allocate` (throws), `deallocate` | list, range_map, arena |

What interacts: threads meet in the list (pushes and walks race), in the
`reserved_` flag of an arena (a thread that ends gives its arena to whoever
takes it first), in a free list, when a block is freed by another thread than
the one that allocated it, in the first call of `instance()`, and in the count of
an object they share. An arena meets the map by iteration: `malloc` searches a
block, `shrink` and the destructor look for chunks by walking it. The singletons
meet the program in `exit()`, which runs the functions given to `atexit` backwards.

What is hard: the races of the list and of the flags; walks that see an old
list; nodes erased beside a push, and their storage used again; arenas that pile
up while threads come and go; locals read before a lock and used under it;
pointers that reach the wrong chunk and leave damage that shows many calls later;
one-byte counters and indices at their limit; iteration that ends early; an
allocation that fails half way through `reserve` or `malloc`; creation and release
of two singletons of which one lies in the other. `PROJECT.json` lists each hazard
at its line.

What makes each part correct:

* chunk: a block handed out is a block of the chunk that nobody holds; `empty()`
  is never true while a block is held. (That an unused chunk is `empty()` is not
  claimed: `release` refuses the chunk's own blocks, so it seldom is.)
* range_map: a set of ranges; a lookup finds the range that holds the key;
  iteration visits each range once, in order.
* arena: never uses a chunk that is not mapped, never unmaps one in use. It should
  map a new one only when the others are full, and lose none; both are true of the
  chunks that a walk is sure to reach, the first three, and false of others.
* list: no push is lost, a walk sees the list as it was when it began, pushes are
  lock-free: while some are under way, one of them succeeds.
* pool: one thread per arena; a flag is set exactly while a thread has the
  arena; every arena can be found again; there are never more than needed.
* locks of an arena: what one thread writes no other touches at that time; every
  call gets its lock.
* object_allocator, heap_allocator: one of each, constructed before anyone gets
  it, released once, the allocator before the heap it is in; a size selects a
  pool there is, whose blocks are large enough.
* object: deleted once, after its last owner has let go, into the pool it is from.

## The modules

| Module | Models | Kind |
|---|---|---|
| `ChunkOps` | the operations of a chunk on one record | operators |
| `Chunk` | one chunk and its client | state machine |
| `BlockPool` | what a chunk promises | abstract specification |
| `AvlTree` | the tree under the range map, operation by operation | operators |
| `RangeMap` | the range map and its client | state machine |
| `RangeSet` | what a range map promises | abstract specification |
| `Arena` | an arena and its client, over a set of chunks | state machine |
| `ArenaTree` | the arena with the search tree in it | refines `Arena` |
| `ArenaLocks` | several threads in one arena: each access with the lock around it | state machine |
| `RWBarrier` | the read-write lock and its guards | operators, used by `ArenaLocks` |
| `LockFreeList` | `push_front` and walks, one action per atomic access | state machine |
| `ListErase` | `erase`, the destructor and the storage of nodes | extends `LockFreeList` |
| `PushList` | what the list promises to the pool | abstract specification |
| `Pool` | threads, arenas and the list | composes with `LockFreeList` |
| `ObjectAllocator` | the two singletons and `exit()` | state machine |
| `Object` | objects, their owners and their memory | composes with `ObjectAllocator` |
| `MC...` | values of the constants for TLC | instances |
| `...Proofs` | theorems | proofs |

### How they correspond to the code

**ChunkOps, Chunk.** `free_blocks` and `position` are bytes with `MAX_BLOCKS + 1`
values, as `uint8_t` has one more than `UCHAR_MAX`; arithmetic wraps. `link[i]`
is the set of bytes the first byte of block `i` may hold: what the chunk wrote,
or anything when the client owns the block or nobody wrote it yet (the last
block, which the loop of the constructor leaves out, `chunk.cpp:14`). Pointers
are numbers, and the distance of a pointer to the chunk is taken modulo `SizeT`,
as a `size_t`. `release` has its range test as it stands in the code
(`chunk.hpp:63`): it refuses the pointers of its own chunk and takes all others.
The client of `Chunk` holds blocks, returns them, and passes pointers of other
chunks, as the arena does.

**AvlTree, RangeMap.** A node is named by its range. The record holds the fields
of all nodes; the operators are the member functions, with the same order of
assignments where it matters (`ReplaceChild`, `RotateLeft`, `Unlink`). Heights are
`int8_t`. A loop is `Loop` of one turn of it, a function of what the turn changes;
as many turns are taken as the tree can have nodes, and that no loop of the code
takes more is proved. `NoNode` is NULL. `balance()` does not keep the tree flat: it
compares the heights of one node and asks nothing about its child, and there are
orders of insertion with which the height stays next to the number of nodes (118
with 120 nodes). Past 127 a height wraps around and the tree is no longer turned by
what it looks like; nothing in the code rules that out. `Room` says that it has not
come to that: there are fewer than 127 ranges in the map at this time, of however
many that may come and go. What is proved of the map and of the arena's tree is
proved of behaviours in which there is always `Room`; the model itself wraps, and
the runs have `HeightMax` as it is in the code. `RangeSet` is a safety
specification, for which an `insert` that refuses a valid range is a step that does
nothing; that `insert` refuses no chunk is `TreeHoldsChunks` of the arena.

**Arena.** A chunk is named by the address of its first block. `Malloc`, `Free`,
`Shrink` and `Destroy` are whole calls of the thread that has the arena;
`MallocThrows` is the call whose `insert()` finds no memory for its node, after
which nothing knows the new chunk (`lost`). What a
walk over the map sees is a parameter: some chunks with the lowest addresses
(`Walks`), for iteration may end early. `Finds` is what a lookup may return. The
write of `chunk::release` through the pointer is `Written`: it goes into the block
the pointer points to, wherever that is. A block that a second pointer of the
client still names has the client's data in it, so its link byte may be
anything. `wild` records an access outside of every block; nothing is modelled
after it. `FreeForeign` is a free of a block of another arena.

**ArenaTree.** `Arena` with `Walks` replaced by the walk over the tree of `AvlTree`
and `Finds` by its lookup; `insert` and `clear` act on the tree. It extends `Arena`
and `RangeMap` and has the variables of `Arena`, so the refinement mapping is the identity, and the property
`ArenaSpec` is the specification of `Arena`.

**RWBarrier, ArenaLocks.** One arena and all threads that enter it. A step is one
access to what they share, or the taking or giving back of the lock; the content
of the chunks is left out, so that whether a chunk has a block is a choice, and a
walk may end at any chunk. `two_step` is the build with the mutex of boost, whose
writer first takes the right to upgrade. `SynchFree` may be called by any thread at
any time: the code that would call it is in the library, but is never reached
(`FreeNeverRefuses`). `Reserve` and `Release` are the flag, as the pool uses it.
`Reads` and `Writes` say which shared fields the next step of a thread touches.

**LockFreeList.** Each thread has a program point and the locals of `push_front`.
Every load, exchange and compare-and-exchange is one action, taken in one total
order. That is what the memory orders give here: all shared accesses are atomic,
a node's `next_` is written before the releasing compare-and-exchange that
publishes it, and read after an acquiring (or consuming) load of the head. The
weak compare-and-exchange may fail without a cause. `order` is a history
variable, the list as the abstract specification sees it.

**ListErase.** Adds to these steps the statements of `erase`, the loop of the
destructor (one node per step: `it` is its local, the history variable `doomed` the
nodes it has still to free), and `live`, the nodes that have storage: a push takes
any node that has none, as an allocator gives an address again. The code of `erase`
tests nothing but `end()` and a NULL `prev()`, and the library never calls it. Two
callers are modelled. Both erase inner nodes only (the erasure of the first leaves
`head_` pointing to it, that of the last follows a NULL `next()`), one at a time and
with no iterator in use; neither can work otherwise, in any order of steps.

* `AtWillSpec` erases when it likes. A push that has loaded a node as the head writes
  its `prev_` one step later; in between other threads push, the node becomes an inner one
  and is erased, and the write goes into freed memory. The run `list_erase` finds this,
  against "thread safe forward list with erase in the midle support"
  (`lockfreelist.hpp:233-234`).
* `EraseSpec` lets a grace period pass first (`MayErase`): every push under way has
  begun after some node was in front of the one to be erased (`covered`), and a walk
  shows that its `prev()` is the node in front of it. A caller can see to both: it
  walks, notes which calls of `push_front` have not returned, waits for those, and
  looks at `prev()`. It needs to know nothing of what these calls are doing. The
  second condition fails when two pushes have raced for the node and left it with the
  wrong `prev_`; it cannot be erased then, unless its neighbour goes first.

In the run `list` an address comes back while another thread has it in one way only:
as the value a failed compare-and-exchange leaves in `old_head`, which the loop
loads again before it is used. `TouchesLiveOnly` says that no other use is left, under
`EraseSpec`.

**Pool.** Extends `LockFreeList`; a node stands for the arena it holds. `stage` is
where a thread is in its life and in `reserve()`, whose steps on the shared state
(the load of the head, each test of a flag, each `++it`, the push) are separate
actions. `arena_` is thread-specific, so assigning it goes with the step before.
`release_arena` is two steps. The memory of an arena is not here; the pool knows
of it that `free` always answers TRUE, which is `FreeNeverRefuses` of `Arena`, so
`thread_miss_free` has no action. `home` is the arena each pointer of the client
points into. `Destroy` is `~pool()`, when the other threads have ended: the
program that runs it earlier has no defined behaviour to model.

**ObjectAllocator.** `instance()` of both classes is the same code; `frames` is the
stack of calls a thread is in, for `new object_allocator()` gets its memory from
`heap_allocator::instance()` in the Windows build (`private_heap`). Each load,
store, lock and unlock is a step, in one total order; the stores that publish
release and the loads acquire or consume. `handlers` is what `atexit` was given;
`exit()` is called when the other threads are out of the library. `Get` and the
constants are those of `get()`, over every size.

**Object.** The memory of an object is named by the allocator and the pool it is
from (`home`). `ref_count_` changes by whole `fetch_add` and `fetch_sub`; what the
latter returned is `before`, a local. An arena is made by the first request of its
thread in its pool and its blocks have the size of that request (`pool.cpp:42`),
which is what `BlocksFit` is about. A thread that frees without an arena in the
pool ends the program (`crashed`, `pool.hpp:27`); the static pointers of the program,
whose destructors run in `exit()`, are its `Statics`. Sizes are multiples of a word
and not below two words, as the compiler makes them for a class with a virtual
function table and a count.

## The runs

| Run | Instance | Shows |
|---|---|---|
| `chunk` | 3 blocks, 4 foreign pointers | until a pointer of another chunk is released the free list is the tail of the chunk, no block is handed out twice, `empty()` is never true while a block is held |
| `range_map` | 7 ranges, one nested, one overlapping | links stay mutual, ranges in order, lookups exact, iteration a sorted prefix, the map implements `RangeSet` |
| `arena` | 2 chunks of 2 blocks, 3 pointers, a foreign block | the current chunks are always registered and mapped; `free` answers TRUE whatever it is given; a chunk no foreign pointer went into is sound; nothing outside the blocks is touched before one did |
| `arena_tree` | 5 chunks of 2 blocks, 1 pointer, a foreign block, the real tree | implements `Arena`; the tree holds exactly the registered chunks; a chunk that is forgotten, or has room when another is mapped, lies behind three others |
| `arena_locks` | 3 threads, 3 chunks, both locks | the owner is alone; chunks kept across a lock are not stale; only `free` of the owner and `synch_free` are unordered; every call returns |
| `list` | 2 threads, 4 nodes | nothing lost, no node touched that is gone, storage exact, `prev_` leads back but after a race, implements `PushList`, pushes are lock-free, walks end |
| `pool` | 2 threads, 3 arenas, 1 pointer, 1 failing push | one thread per arena, flags in step with owners, every arena in the list but that of the failed push, never more arenas than threads, `reserve` ends, an arena is given up |
| `allocator` | 2 threads, 2 objects of 104, 112 or 136 bytes, 1 static pointer, both builds | one allocator and one heap, released once and in order; objects deleted by the last owner, into their pool; blocks large enough; all operations and `exit` end |

Runs that find the code in disagreement with its comments:

| Run | What TLC finds |
|---|---|
| `arena_tree_destroy` | with four chunks iteration may end before the last, and the destructor leaves it mapped (`range_map.hpp:301`) |
| `list_erase` | an `erase` of an inner node beside a push lets the push write to freed memory (`lockfreelist.hpp:304`, `362`) |
| `pool_stray` | a block freed by another thread goes to the arena of that thread, NULL included (`pool.hpp:27`) |
| `small_sizes` | an object of 128 bytes selects the pool behind the last (`object_allocator.hpp:50`) |

What else was met while modelling, and has no run of its own:

* The range test of `chunk::release` is inverted (`chunk.hpp:63`): a chunk refuses its
  own blocks, so that what a client gives back is never used again, and takes all
  other pointers, although it "Releases previusly allocated memory if pointer is from
  this chunk". `FreeNeverRefuses`, `CleanChunksSound` and `pool_stray` show what comes of it.
* A walk that ends early has two more victims than the destructor. `shrink` clears the
  map and puts back what it has seen, so that a fourth chunk in use is dropped: it
  stays mapped and is in no map (`arena.cpp:86`, `101`). `ForgetsOnlyFar` says that the
  first three are safe. `malloc` can map a chunk although another has room, against
  "no free space left, create new chunk" (`arena.cpp:64`). This takes more: until a
  `shrink` only the current chunk can have room, and `malloc` tries that one before it
  walks; `shrink` puts the chunks back in ascending order, for which a walk over the
  operators of `AvlTree` is complete with up to 12 chunks, and visits 7 of 13. That is
  beyond the run, in which no such step occurs; `GrowsOnlyWhenFull` is stated so that it
  is true of any number.
* `balance()` looks at the child on the wrong side (`range_map.hpp:275`), so that the
  tree is a search tree and not an AVL tree: three ranges inserted in order stay a
  chain.
* The index `release` computes of a foreign pointer can be 255 (`chunk.hpp:67`),
  after which `malloc` returns the address behind the last block.
* After a foreign pointer went into a chunk its counter is too high, and `shrink` can
  unmap the chunk while blocks of it are in use (`arena.cpp:90`). `CleanChunksSound`
  says that this is the only way.
* Two pushes that race for one old head leave its `prev_` with either
  (`lockfreelist.hpp:304`); `BackLinked` says that nothing else does.
* Between the store to `_instance` and the `atexit` after it (`object_allocator.cpp:22`)
  another thread uses the allocator already: a static object it finishes then is
  destroyed after the pools. `DanglesOnlyThroughEarly` says that only such objects,
  and those older than the allocator, can use memory that is gone. In the
  Windows build the same window lets a program that uses the heap on its own have it
  destroyed before the allocator; hence `~ direct` in `HeapOutlivesAllocator`.
* A static object that is destroyed after `release()` and lets go of an object makes
  `instance()` create a second allocator during `exit()`.

### Bounds

* Chunk: three blocks have a first, a middle and a last one. The foreign pointers
  lie on both sides of the chunk, so that the distance is positive and wraps, and
  give indices inside and past the end.
* Range map: five ranges in a row reach both rotations, erasure of a leaf, of a
  node with one child and of one with two, and iteration that ends early (four
  ranges suffice); the nested and the overlapping one are refused by `insert`.
* Arena: two chunks are needed for a pointer to be in the wrong one, and three
  pointers for two to meet in one block while a chunk holds another.
* ArenaTree: with three chunks iteration is complete, with four it may miss the last,
  with five a chunk is missed that others have been mapped after. `arena_tree_destroy`
  has four, which is what it takes. Two blocks a chunk let
  a chunk that is not the current one have room. `MCFewTainted` ends a behaviour
  in which an arena of more than one chunk (`MCTaintedChunks`) has a chunk that took in
  a pointer of another: what follows is in `arena`, and one chunk still meets it
  here. The mutants of all four properties are found within these bounds.
* ArenaLocks: one thread has the arena, one frees into it, one waits to take it
  over; three chunks give a walk, a new one and one that `shrink` drops.
* List: four nodes are the fewest with which an inner node can be erased beside a
  push and its storage be used again by that thread or the other; three in the list
  and one in the push suffice for `list_erase`. Pushes by more
  than two threads are in the proofs, for any number of them.
* Pool: `Nodes` bounds the arenas that may be made, one more than there are
  threads, so that `ArenasBounded` can fail; `MaxOrphans` bounds the failing pushes. Two threads
  already give every pair of steps; that a third adds nothing to the safety
  properties is proved.
* Objects: `MaxMade` is two, the allocator and the one made again during `exit`. The
  sizes share a pool or are its neighbours, so that a rounding too many or too few
  is seen; 136 is above `MAX_SIZE`. `small_sizes` has the two limits, 16 and 128.
* `SYMMETRY` is used in runs without liveness only, over values that are only
  compared.
* `CHECK_DEADLOCK FALSE` is set where the system does stop: after the destructor,
  and after an access from which nothing is defined.

### Fairness

`ListErase`: each thread that is in `push_front`, in a walk or in `erase` is scheduled
until it is done (weak fairness of its steps), as the scheduler of any system the
library runs on does. A weak compare-and-exchange may fail though the head has
not moved, when its cache line is lost: this ends some time, or pushes succeed for
ever all the same. Nothing is assumed of a push that others overtake again and again:
it may never return, and `PushesProgress` promises only that one of those under way
succeeds. Nothing is assumed of threads that are idle: they need not begin anything.

`Pool`: weak fairness of what a thread does inside `reserve`, the steps of a push
included, and in `release_arena`; a thread need not allocate, free or end. Here the
compare-and-exchange is strongly fair as well (`PushDone`): a push is made by a thread
that has just made an arena, so that there are never more of them than arenas
(`ArenasBounded` bounds these by the threads), and none can be overtaken for ever; what the
strong fairness leaves out is a compare-and-exchange that fails spuriously for ever.

`Object`: a thread in an operation, or in `exit`, goes on (weak fairness); the critical
sections need no more, for each is entered by as many calls as there are threads and
then never again before `exit`.

`ArenaLocks`: steps that do not wait are weakly fair; the taking of the lock is
strongly fair, that is, a thread does not wait for ever for a lock that is free
again and again. The lock of the system has to keep this promise only against
one reader, the owner, and writers that wait for each other.

## What is proved

All theorems hold for every value of the constants, under the named assumptions:
`ChunkAssumption`, `BeginAssumption`, `OutsideAssumption` (positive sizes, foreign
pointers outside the chunk), `AddressAssumption` (chunk headers keep the ranges of
chunks apart; foreign blocks are in no chunk), `RangeAssumption` (a range ends after
it begins, as its constructor asserts), `HeightAssumption` (finitely many ranges there
may be, of any number), `KeyAssumption` (keys are integers), `MapAssumption`
(the ranges of the tree of an arena are those of its chunks), `NullAssumption`,
`LocksAssumption` and `NoThreadAssumption` (NULL is no node, thread or chunk),
`ThreadAssumption` (finitely many threads), `AllocatorAssumption` (names are apart,
a word has at least a byte), `SizeAssumption` (sizes are multiples of a word, at
least two) and `NoBlockAssumption` (NULL is no block). A module that extends several
others has the assumptions of all of them: the theorems of `PoolProofs` are about
finitely many threads. One hypothesis is about behaviours and stands in the theorems:
those of `RangeMapProofs` and `ArenaTreeProofs` have `[]Room`, fewer than 127 ranges in the
map at any one time, which the code does not see to.

* `ChunkProofs`: `FreeListIsTail`, `EmptyMeansUnused`, `NoDoubleAllocation`, and that a
  chunk whose client returns only its own blocks implements `BlockPool`. The
  inductive invariant is the type and `FreeListIsTail`: that the next block is not
  held follows from its index being the number of blocks in use. `ChunkOpsProofs`
  has the lemmas about the operations, shared with the arena.
* `ArenaProofs`: `CurrentsRegistered` and `FreeNeverRefuses` first, from one
  invariant (`Safe`): `free` is TRUE for every pointer because `free_current_` is
  registered, so what it refuses is found by the lookup. Then `CleanChunksSound`
  and `WildOnlyWhenTainted`. "No two pointers name one block" is not inductive; it
  needs that the free list of a clean chunk is its tail and that pointers name
  blocks before the tail (`CleanFreeLists`), also for what frees of other chunks
  write into it.
* `RangeMapProofs`: `SearchTree`, `FindExact`, `IterationIsSortedPrefix`, and that the map
  implements `RangeSet`. The invariant (`MapInv`) is that the tree is `Sane`: there is a
  family of sets of nodes, one for each node, that are the subtrees (`Shape`,
  `Sound`: a node and what is below it, smaller ones to the left, larger ones to the
  right, links back up), and the heights have not wrapped around. With the family
  in hand nothing needs an induction over trees: each loop has a set, most often of
  the nodes still ahead of it, that gets smaller every turn (`LoopEnds`). A rotation
  keeps the order and the nodes (`Lifted`), whatever the heights made of it, which
  is why an unbalanced tree is a search tree all the same. `erase` of a node with two
  children is the tree with that node moved under the last of its left subtree
  (`Lowered`), from which it is then spliced out. `IncNode` is followed to the next
  node of the order or to an end that comes early, so that iteration visits the
  ranges in order up to one of them.
* `ArenaTreeProofs`: `TreeHoldsChunks`, and that an arena with this tree implements
  `Arena`: a walk over the tree is one of `Walks`, a lookup one of `Finds`. The
  invariant (`TreeInv`) joins `Safe` of the arena with `Sane` of the tree for the ranges of the
  registered chunks; that `insert` refuses no chunk needs that chunks do not overlap.
  Then `GrowsOnlyWhenFull` and `ForgetsOnlyFar`, for any number of chunks and of blocks: a
  walk that ends early has visited three chunks, and all that lie before the last of
  those it visited. More cannot be said: `arena_tree_destroy` finds a fourth chunk that is lost.
* `PoolProofs`, first part, the list: `NothingLost` and `PushersApart`, inductive together
  with `TypeOK`: the node about to be published already points to the head it
  expects, so that a successful compare-and-exchange extends the chain by one. From
  them, every step is a step of `PushList` or leaves it unchanged.
* `PoolProofs`, second part, `ListErase`: `StorageExact`, `NothingLost`, `TouchesLiveOnly`
  and `BackLinked` with `erase`, the destructor and storage that comes back, and that
  all this implements `PushList`. The invariant (`EInv`) has, beside the invariants of
  the pushes, what `prev_` of each node leads to in the middle of an erasure too
  (`PrevLeadsBack`); that the nodes covered when a push began stay covered as long as
  they are listed (`CoveredListed`), and that what a push has read as the head is not
  among them (`OldHeadsKept`), so that `MayErase` keeps it until that push is over: nobody
  looks at `old_head`, it follows from a push reading the head after it has begun;
  the node behind and the node before the victim (`EraseUnderWay`); and that the nodes the destructor has still to free are a chain
  through `next_` from `it` (`DestroyUnderWay`), so that it ends at the last.
* `PoolProofs`, third part, the pool: `OneThreadPerArena` and `ArenasListed`, from an invariant that adds how
  the place of a thread in `reserve` goes with its place in the list's code
  (`Stage`). Every step of the pool is a step of the list, so that the
  invariant of the list is taken over as it is.
* `PoolProofs`, at its end: `ArenasBounded`. The argument is not local: a thread that
  makes an arena has walked past all the older ones, each of which was taken when it
  passed, but may have been given up since. The invariant `Crowd` counts threads
  instead: of the threads that stand at one of the oldest `i` arenas of
  the list, as owner or looking at it, or are past its end, there are at most
  (threads - arenas + i). A thread gets deeper than an arena only while another
  has it; a push moves everyone one deeper and is paid for by the thread that
  pushes. With `i = 0` and one thread past the end, there is room for one more.
* `ArenaLocksProofs`: `OwnerAlone`, `CurrentNotStale`, `RacesOnlyWithPlainFree`, from one
  invariant: which threads are in the scope of the write lock (`Excluded`), what
  points each function has (`InPlace`) and that the owner is alone. `OwnerAlone` is
  what makes the reads without a lock safe; that the chunk in `cursor` stays
  registered follows, for only `shrink` of the owner takes chunks away.
* `ObjectAllocatorProofs`: first, every step of `Object` is a step of `ObjectAllocator`
  or leaves it unchanged, so that what holds of the singletons holds in the program.
  `OneInstance` needs what may be on the stack of a thread (`Nested`), that all past
  the lock have it (`Held`), and that up to the store nobody else has made one
  (`Begun`, `First`). `DeletedByTheLast` follows from two facts: the count is the
  number of owners (`Counted`), and an object that has memory but no owner has
  exactly one thread that works on it (`Tended`); so the `fetch_sub` that returns 1
  is of the last owner, and no other can return 1 until it is gone. `ReleasedOnce`
  and `HeapOutlivesAllocator` relate the handlers to the instances (`HandledOnce`,
  `HeapFirst`): the heap is created inside the creation of the allocator, so its
  handler lies below. `PoolIndex` bounds what `get()` computes, and says that two
  sizes with one pool are equal, from which `BlocksFit`.
  `FreesWhereAllocated` and `DanglesOnlyThroughEarly` are about `exit()` and need each
  other's invariant (`HInv`): all small memory is from the first allocator, for no
  object is made once a second may be (`Departed`, `Homed`); whoever is to allocate or
  to free is in its call for the allocator or has got the one there is (`Gotten`);
  the allocator of an object that is let go of stays until it is freed (`Backed`);
  and a static pointer that runs before the allocator's handler runs while the first
  allocator is there (`Ordered`), the others having been registered before it.

The type invariants are proved too (`TypeOK` of `Chunk`, `Arena`, `ArenaLocks` and
`LockFreeList`, `PoolTypeOK`, `ObjectTypeOK`), as are `CleanFreeLists` and `PushersApart`,
the strengthenings above; the runs do not check these again.

Only model-checked: liveness, for the prover has no fairness, and what the runs
that end in a violation find. The rounding of the model's loops to a fixed number of
turns is not taken on trust: `LoopEnds` is what each proof about a loop starts from.

## What is not modelled

* Exhaustion of memory where the code does not answer it: `xmalloc` of POSIX returns
  NULL and the constructor of the chunk writes through it (`arena.cpp:10`, `chunk.cpp:7`);
  `shrink` is `noexcept` and inserts nodes (`arena.cpp:101`), so that an exception there
  ends the program; `HeapCreate` answers NULL and is tested for another value
  (`heapallocator.cpp:15`). In all of these the program ends at once.
* The repetition of `operator new` around the new_handler (`object.cpp:14`), and
  `pool::thread_miss_free` with `arena::synch_free` in the program: both are never
  reached, the first because `pool::malloc` does not return NULL, the second because
  `arena::free` does not return false. `ArenaLocks` shows what `synch_free` would meet.
* `synchronized_range_map` (`range_map.hpp:756`), a range map with a lock, which nothing
  uses: the arena has the plain one and a lock of its own.
* `try_lock` of the critical sections, which nothing calls; the one over a spin lock
  answers the wrong way round (`spinlock.hpp:29`).
* The order in which `_smtx` and other static objects of different files are
  constructed, and threads that still run in the library during `exit()` or after
  `~pool()`: neither has a defined behaviour.
* The interior of an arena is not composed with the pool: the pool has no chunks, an
  arena no threads. They meet in two facts, each proved: an arena has one thread
  (`OneThreadPerArena`, `OwnerAlone`) and `free` answers TRUE (`FreeNeverRefuses`).
* `test/main.cpp`: a benchmark. Build files, `config.hpp`: nothing to model.

## Plan

Done: all parts of the table above. What could be added:

1. The pool over an abstract list (`PushList` in place of `LockFreeList`), so that its
   proof does not depend on the steps of a push.
2. `BlockPool` for the clean chunks of an arena, as a refinement.

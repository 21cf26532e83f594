------------------------------ MODULE ArenaTree ------------------------------
(***************************************************************************)
(* The arena with its range map: the operations of Arena, which take what  *)
(* a walk or a lookup finds as a parameter, get it from the search tree of *)
(* RangeMap, and every insert() and clear() of the code acts on that tree. *)
(* The nodes of the tree are the chunks with their block ranges.           *)
(***************************************************************************)
EXTENDS Arena, RangeMap

RangeOf(c) == [min |-> c, max |-> End(c)]

ASSUME MapAssumption == Ranges = { RangeOf(c) : c \in Addresses }

allvars == <<vars, tree>>

\* The chunks `for (it = begin(); it != end(); ++it)` over chunks_ visits.
Walk == LET visited == Iterate(tree) IN { visited[i].min : i \in DOMAIN visited }

\* chunks_.find(ptr)
Found(ptr) ==
  LET node == Find(tree, ptr) IN IF node = NoNode THEN NULL ELSE node.min

TreeInit ==
  /\ Init
  /\ \E first \in chunks : tree = Inserted(EmptyTree, RangeOf(first))

\* The new chunk, if any, is inserted last.
TreeMalloc(o) ==
  /\ Malloc(o, Walk)
  /\ \/ allocated' = allocated /\ UNCHANGED tree
     \/ \E new \in allocated' \ allocated : tree' = Inserted(tree, RangeOf(new))

TreeMallocThrows == MallocThrows(Walk) /\ UNCHANGED tree

TreeFree(o) == Free(o, Found(obj[o])) /\ UNCHANGED tree

TreeFreeForeign(ptr) == FreeForeign(ptr, Found(ptr)) /\ UNCHANGED tree

\* t after the chunks that are kept are inserted in the order of the walk.
InsertKept(t) ==
  LET visited == Iterate(tree)
      after[i \in 0 .. Len(visited)] ==
        IF i = 0 THEN t
        ELSE IF IsEmpty(chunk[visited[i].min]) THEN after[i - 1]
        ELSE Inserted(after[i - 1], visited[i])
  IN  after[Len(visited)]

\* The chunks are registered anew without a clear() before.
TreeShrinkWithoutClear ==
  /\ Shrink(Walk)
  /\ IF Walk = Empties(Walk)
     THEN \E new \in chunks' : tree' = Inserted(tree, RangeOf(new))
     ELSE tree' = InsertKept(tree)

\* clear(), then the chunks that are kept, or the new one.
TreeShrink ==
  /\ Shrink(Walk)
  /\ IF Walk = Empties(Walk)
     THEN \E new \in chunks' : tree' = Inserted(Cleared(tree), RangeOf(new))
     ELSE tree' = InsertKept(Cleared(tree))

\* ~arena() and the destructor of chunks_, which clears it.
TreeDestroy ==
  /\ Destroy(Walk)
  /\ tree' = Cleared(tree)

TreeNext ==
  \/ \E o \in Handles : TreeMalloc(o)
  \/ TreeMallocThrows
  \/ \E o \in Held : TreeFree(o)
  \/ \E ptr \in Foreign : TreeFreeForeign(ptr)
  \/ TreeShrink
  \/ TreeDestroy

TreeSpec == TreeInit /\ [][TreeNext]_allvars

-----------------------------------------------------------------------------
\* The tree holds exactly the registered chunks: inserting a chunk is never
\* refused and clear() forgets nothing.
TreeHoldsChunks == { n.min : n \in tree.nodes } = chunks

(***************************************************************************)
(* With its search tree the arena is still one of the arenas of Arena: the *)
(* walks see the chunks up to one of them, the lookups find the chunk that *)
(* holds the pointer, and what holds of Arena holds here.                  *)
(***************************************************************************)
ArenaSpec == Spec

(***************************************************************************)
(* inc_node() may end a walk early, but not before three chunks.           *)
(***************************************************************************)
Far(c) == Cardinality({ d \in chunks : d < c }) >= 3

(***************************************************************************)
(* malloc() comments its last resort with "no free space left, create new  *)
(* chunk" (arena.cpp:64).  True of the first three chunks only: when       *)
(* another chunk is mapped, a registered one that still has a free block   *)
(* lies behind three others.                                               *)
(***************************************************************************)
GrowsOnlyWhenFull ==
  [][allocated \subseteq allocated' /\ allocated # allocated'
       => \A c \in chunks : CanAllocate(chunk[c]) => Far(c)]_allvars

(***************************************************************************)
(* shrink() and ~arena() unmap a registered chunk or, but for ~arena(),    *)
(* keep it registered.  One that stays mapped and is forgotten, so that    *)
(* neither malloc() nor the destructor finds it again, lay behind three    *)
(* others.                                                                 *)
(***************************************************************************)
ForgetsOnlyFar ==
  [][\A c \in chunks \cap allocated' : c \in chunks' \/ Far(c)]_allvars

\* ~arena(): "Releases arena and all allocated virtual memory", but for what
\* insert() has lost.
DestroyReleasesAll == destroyed => allocated \subseteq lost

=============================================================================

------------------------------ MODULE RangeMap ------------------------------
(***************************************************************************)
(* basic_range_map of include/range_map.hpp: the public operations over    *)
(* the search tree of AvlTree.                                             *)
(***************************************************************************)
EXTENDS AvlTree

CONSTANT Keys     \* keys that are looked up

ASSUME KeyAssumption == Keys \subseteq Int

VARIABLE tree

MapInit == tree = EmptyTree

Insert(r) == tree' = Inserted(tree, r)

\* erase(find(key)): nothing happens when there is no such range.
Erase(key) ==
  /\ Find(tree, key) # NoNode
  /\ tree' = Erased(tree, Find(tree, key))

Clear == tree' = Cleared(tree)

MapNext ==
  \/ \E r \in Ranges : Insert(r)
  \/ \E key \in Keys : Erase(key)
  \/ Clear

MapSpec == MapInit /\ [][MapNext]_tree

-----------------------------------------------------------------------------
(***************************************************************************)
(* The heights can count the nodes, and one more.  balance() does not keep *)
(* the tree flat, so that its height may come near the number of its       *)
(* nodes, and once an int8_t has wrapped around a rotation may find no     *)
(* child to lift: nothing is claimed of a map with more ranges than that.  *)
(***************************************************************************)
Room == Cardinality(tree.nodes) < HeightMax

TreeTypeOK == tree \in Tree

\* The children of the nodes ns, and the nodes of the subtree of n.
Children(t, ns) == ({ t.left[n] : n \in ns } \cup { t.right[n] : n \in ns }) \ {NoNode}

Below(t, n) ==
  IF n = NoNode THEN {}
  ELSE Loop([ns \in SUBSET Node |-> ns \cup Children(t, ns)], {n})

(***************************************************************************)
(* Rotations and erasures keep the links mutual: every child names its     *)
(* parent, only the root has none, and the existing nodes are exactly      *)
(* those below the root, so that clear() destroys each of them once.       *)
(***************************************************************************)
TreeShape ==
  /\ TreeTypeOK
  /\ tree.root # NoNode => tree.top[tree.root] = NoNode
  /\ \A n \in tree.nodes : \A c \in Children(tree, {n}) : tree.top[c] = n
  /\ Below(tree, tree.root) = tree.nodes

\* r lies to the left of s, at both ends.
Before(r, s) == r.min < s.min /\ r.max < s.max

\* Every node has its left subtree to the left of it and its right one to the
\* right, so that no node is below two others.
Ordered ==
  \A n \in tree.nodes :
    /\ \A m \in Below(tree, tree.left[n]) : Before(m, n)
    /\ \A m \in Below(tree, tree.right[n]) : Before(n, m)

\* After any sequence of insertions and erasures the nodes are a search tree.
SearchTree == TreeShape /\ Ordered

\* find() returns a range that holds the key (both ends included) whenever the
\* map has one: arena::lookup_chunk_and_free finds every chunk of the arena.
FindExact ==
  \A key \in Keys :
    LET holding == { n \in tree.nodes : n.min <= key /\ key <= n.max } IN
    IF holding = {} THEN Find(tree, key) = NoNode ELSE Find(tree, key) \in holding

(***************************************************************************)
(* Iteration goes through the ranges in order and never visits one twice.  *)
(* It may stop before the end, but it visits three first.                  *)
(***************************************************************************)
IterationIsSortedPrefix ==
  LET sorted  == Iterate(tree)
      visited == { sorted[i] : i \in DOMAIN sorted }
  IN  /\ \A i, j \in DOMAIN sorted : i < j => Before(sorted[i], sorted[j])
      /\ visited \subseteq tree.nodes
      /\ \A m \in visited, n \in tree.nodes : Before(n, m) => n \in visited
      /\ visited = tree.nodes \/ Cardinality(visited) >= 3

\* The map implements the set of its ranges.
Set == INSTANCE RangeSet WITH stored <- tree.nodes
SetSpec == Set!Spec

=============================================================================

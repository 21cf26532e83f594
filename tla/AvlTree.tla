------------------------------- MODULE AvlTree -------------------------------
(***************************************************************************)
(* The search tree under basic_range_map (include/range_map.hpp) as        *)
(* operators over a record of its links.  A node is named by the range it  *)
(* is keyed with, which never changes while the node exists:               *)
(*   root       the root node or NoNode, which is NULL in the code         *)
(*   nodes      the nodes that exist                                       *)
(*   top, left, right, height    the fields of every node                  *)
(*   leaked     history: nothing points any more to a node that still exists *)
(*                                                                         *)
(* A loop of the code is Loop of one turn of it, see there.                *)
(***************************************************************************)
EXTENDS Integers, Sequences, FiniteSets

CONSTANTS
  Ranges,       \* the ranges the client may insert, [min |-> .., max |-> ..]
  NoNode,
  HeightMax     \* largest int8_t, 127 in the code

\* The assertion of range's constructor.
ASSUME RangeAssumption ==
  /\ \A r \in Ranges : r.min \in Int /\ r.max \in Int /\ r.min < r.max
  /\ NoNode \notin Ranges

\* An address space has finitely many ranges.
ASSUME HeightAssumption == HeightMax \in Nat \ {0} /\ IsFiniteSet(Ranges)

Node == Ranges

Link == Node \cup {NoNode}

Int8 == (- HeightMax - 1) .. HeightMax

Tree ==
  [root : Link, nodes : SUBSET Node, leaked : BOOLEAN,
   top : [Node -> Link], left : [Node -> Link], right : [Node -> Link],
   height : [Node -> Int8]]

(***************************************************************************)
(* What a loop leaves of x: turn is the function of its state that one     *)
(* turn computes, and leaves alone a state in which the loop is over.  No  *)
(* loop over the tree takes more turns than the tree can have nodes.       *)
(***************************************************************************)
Loop(turn, x) ==
  LET after[turns \in 0 .. Cardinality(Ranges)] ==
        IF turns = 0 THEN x ELSE turn[after[turns - 1]]
  IN  after[Cardinality(Ranges)]

\* Conversion of an int to an int8_t.
ToInt8(n) == ((n + HeightMax + 1) % (2 * HeightMax + 2)) - (HeightMax + 1)

-----------------------------------------------------------------------------
(***************************************************************************)
(* class range                                                             *)
(***************************************************************************)
\* Orders nested ranges too.
CompareToByMin(r, s) ==
  IF s.min < r.min THEN 1 ELSE IF r.min < s.min THEN -1 ELSE 0

\* compare_to: 0 unless both ends are on the same side, so for nested ranges.
CompareTo(r, s) ==
  IF s.min < r.min /\ s.max < r.max THEN 1
  ELSE IF r.max < s.max /\ r.min < s.min THEN -1
  ELSE 0

\* The range does not hold its upper end.
CompareToKeyHalfOpen(r, key) ==
  IF key < r.min THEN -1 ELSE IF r.max <= key THEN 1 ELSE 0

\* compare_to_key: the range is closed at both ends.
CompareToKey(r, key) ==
  IF key < r.min THEN -1 ELSE IF r.max < key THEN 1 ELSE 0

-----------------------------------------------------------------------------
(***************************************************************************)
(* class avl_tree_node                                                     *)
(***************************************************************************)
EmptyTree ==
  [root |-> NoNode, nodes |-> {}, leaked |-> FALSE,
   top    |-> [n \in Node |-> NoNode],
   left   |-> [n \in Node |-> NoNode],
   right  |-> [n \in Node |-> NoNode],
   height |-> [n \in Node |-> 0]]

\* create_node: the height of a new node is 0, the height of no node at all.
CreateNode(t, n) ==
  [t EXCEPT !.nodes = @ \cup {n}, !.top[n] = NoNode, !.left[n] = NoNode,
            !.right[n] = NoNode, !.height[n] = 0]

SetTop(t, n, top) == IF n = NoNode THEN t ELSE [t EXCEPT !.top[n] = top]

SetLeft(t, n, new_left) == SetTop([t EXCEPT !.left[n] = new_left], new_left, n)

SetRight(t, n, new_right) == SetTop([t EXCEPT !.right[n] = new_right], new_right, n)

\* What `if (node == top->left()) top->set_left(c) else top->set_right(c)` does.
ReplaceChild(t, top, node, c) ==
  IF node = t.left[top] THEN SetLeft(t, top, c) ELSE SetRight(t, top, c)

MakeRoot(t, n) == [t EXCEPT !.root = n, !.top[n] = NoNode]

Height(t, n) == IF n = NoNode THEN 0 ELSE t.height[n]

FixHeight(t, n) ==
  LET hl == Height(t, t.left[n])
      hr == Height(t, t.right[n])
  IN  [t EXCEPT !.height[n] = ToInt8((IF hl > hr THEN hl ELSE hr) + 1)]

Factor(t, n) ==
  IF n = NoNode THEN 0 ELSE ToInt8(Height(t, t.left[n]) - Height(t, t.right[n]))

\* A rotation returns the node that takes the place of n with the new tree.
RotateRight(t, n) ==
  LET result == t.right[n]
      linked == SetLeft(SetRight(t, n, t.left[result]), result, n)
  IN  [node |-> result, tree |-> FixHeight(FixHeight(linked, n), result)]

\* The right subtree of result is not handed over.
RotateLeftDroppingChild(t, n) ==
  LET result == t.left[n]
      linked == SetRight(SetLeft(t, n, NoNode), result, n)
  IN  [node |-> result, tree |-> FixHeight(FixHeight(linked, n), result)]

RotateLeft(t, n) ==
  LET result == t.left[n]
      linked == SetRight(SetLeft(t, n, t.right[result]), result, n)
  IN  [node |-> result, tree |-> FixHeight(FixHeight(linked, n), result)]

\* balance(): the left-heavy case looks at the right child first, the
\* right-heavy case at the left one; a factor beyond 2 is left alone.
Balance(t, p) ==
  LET fixed == FixHeight(t, p)
      inner == IF Factor(fixed, p) = 2 THEN fixed.right[p] ELSE fixed.left[p]
  IN  CASE Factor(fixed, p) = 2 /\ Factor(fixed, inner) < 0 ->
             LET r == RotateRight(fixed, inner)
             IN  RotateLeft(SetRight(r.tree, p, r.node), p)
        [] Factor(fixed, p) = 2 /\ Factor(fixed, inner) >= 0 ->
             RotateLeft(fixed, p)
        [] Factor(fixed, p) = -2 /\ Factor(fixed, inner) > 0 ->
             LET r == RotateLeft(fixed, inner)
             IN  RotateRight(SetLeft(r.tree, p, r.node), p)
        [] Factor(fixed, p) = -2 /\ Factor(fixed, inner) <= 0 ->
             RotateRight(fixed, p)
        [] OTHER -> [node |-> p, tree |-> fixed]

LeftMost(t, n) ==
  Loop([m \in Node |-> IF t.left[m] = NoNode THEN m ELSE t.left[m]], n)

RightMost(t, n) ==
  Loop([m \in Node |-> IF t.right[m] = NoNode THEN m ELSE t.right[m]], n)

\* Goes to the right child itself, not to the leftmost node below it.
IncNodeWithoutDescent(t, from) ==
  LET top == t.top[from] IN
  IF t.right[from] # NoNode THEN t.right[from]
  ELSE IF top = NoNode \/ t.right[top] # from THEN top
  ELSE IF t.top[top] # NoNode /\ top = t.left[t.top[top]] THEN t.top[top]
  ELSE NoNode

\* Ends the iteration at every right child.
IncNodeWithoutClimb(t, from) ==
  IF t.right[from] # NoNode THEN LeftMost(t, t.right[from])
  ELSE IF t.top[from] # NoNode /\ t.right[t.top[from]] = from THEN NoNode
  ELSE t.top[from]

\* inc_node(): from a right child it climbs one level only.
IncNode(t, from) ==
  LET top == t.top[from] IN
  IF t.right[from] # NoNode THEN LeftMost(t, t.right[from])
  ELSE IF top = NoNode \/ t.right[top] # from THEN top
  ELSE IF t.top[top] # NoNode /\ top = t.left[t.top[top]] THEN t.top[top]
  ELSE NoNode

-----------------------------------------------------------------------------
(***************************************************************************)
(* class basic_range_map                                                   *)
(***************************************************************************)
Begins(t) == IF t.root = NoNode THEN NoNode ELSE LeftMost(t, t.root)

IterateTurn(t) ==
  [s \in [node : Link, visited : Seq(Node)] |->
     IF s.node = NoNode THEN s
     ELSE [node |-> IncNode(t, s.node), visited |-> Append(s.visited, s.node)]]

\* The nodes that `for (it = begin(); it != end(); ++it)` visits, in order.
Iterate(t) ==
  Loop(IterateTurn(t), [node |-> Begins(t), visited |-> <<>>]).visited

FindTurn(t, key) ==
  [it \in Link |->
     IF it = NoNode \/ CompareToKey(it, key) = 0 THEN it
     ELSE IF CompareToKey(it, key) < 0 THEN t.left[it]
     ELSE t.right[it]]

Find(t, key) == Loop(FindTurn(t, key), t.root)

\* One turn of do_rebalance_from(), the one that sets the root included.
RebalanceTurn ==
  [s \in [tree : Tree, it : Link] |->
     IF s.it = NoNode THEN s
     ELSE LET top == s.tree.top[s.it]
              b   == Balance(s.tree, s.it)
          IN  [it   |-> top,
               tree |-> IF top = NoNode THEN MakeRoot(b.tree, b.node)
                        ELSE ReplaceChild(b.tree, top, s.it, b.node)]]

RebalanceFrom(t, from) == Loop(RebalanceTurn, [tree |-> t, it |-> from]).tree

InsertTurn(t, v) ==
  [it \in Link |->
     IF it = NoNode \/ CompareTo(v, it) = 0 THEN NoNode
     ELSE LET below == IF CompareTo(v, it) = 1 THEN t.right[it] ELSE t.left[it]
          IN  IF below = NoNode THEN it ELSE below]

\* do_insert_node(): the node v is linked under, or NoNode when v compares equal
\* to a node on the way down.
InsertPosition(t, v) == Loop(InsertTurn(t, v), t.root)

Inserted(t, v) ==
  IF t.root = NoNode THEN [CreateNode(t, v) EXCEPT !.root = v]
  ELSE LET into    == InsertPosition(t, v)
           created == CreateNode(t, v)
           linked  == IF CompareTo(v, into) = 1 THEN SetRight(created, into, v)
                      ELSE SetLeft(created, into, v)
       IN  IF into = NoNode THEN t ELSE RebalanceFrom(linked, into)

\* Puts c, the subtree that takes the place of node, under the parent of node.
Unlink(t, node, c) ==
  IF t.top[node] = NoNode THEN MakeRoot(t, c) ELSE ReplaceChild(t, t.top[node], node, c)

\* The fields of a node that does not exist have the values of EmptyTree.
DestroyNode(t, n) ==
  [t EXCEPT !.nodes = @ \ {n}, !.top[n] = NoNode, !.left[n] = NoNode,
            !.right[n] = NoNode, !.height[n] = 0]

\* What the early return for a lone root does.
LeakRoot(t) ==
  [DestroyNode(t, t.root) EXCEPT !.root = NoNode, !.leaked = TRUE]

(***************************************************************************)
(* do_erase_node().  A node with two children leaves its place to the left *)
(* one, and the right one goes under the last node of the left subtree.    *)
(* A lone root is unlinked and returned on early: its node is not destroyed.*)
(***************************************************************************)
Erased(t, node) ==
  LET top   == t.top[node]
      left  == t.left[node]
      right == t.right[node]
  IN  CASE left = NoNode /\ right = NoNode /\ top = NoNode -> LeakRoot(t)
        [] left # NoNode /\ right # NoNode ->
             LET last == RightMost(t, left)
                 cut  == DestroyNode(Unlink(SetRight(t, last, right), node, left), node)
             IN  RebalanceFrom(cut, IF top = NoNode THEN left ELSE last)
        [] OTHER ->
             LET child == IF left # NoNode THEN left ELSE right
                 cut   == DestroyNode(Unlink(t, node, child), node)
             IN  RebalanceFrom(cut, IF top = NoNode THEN child ELSE top)

\* The node do_destroy_tree() stops at when it walks down from n.
LeafBelow(t, n) ==
  Loop([m \in Node |->
          LET down == LeftMost(t, RightMost(t, m))
          IN  IF t.right[down] = NoNode THEN down ELSE t.right[down]], n)

\* Destroys a leaf, but not the root, and goes on from its parent.
DestroyTurn ==
  [s \in [tree : Tree, from : Node] |->
     LET leaf == LeafBelow(s.tree, s.from)
         top  == s.tree.top[leaf]
     IN  IF top = NoNode THEN s
         ELSE [tree |-> DestroyNode(ReplaceChild(s.tree, top, leaf, NoNode), leaf),
               from |-> top]]

\* do_destroy_tree(): destroys one leaf after the other, all but the root.
DestroyTree(t, from) == Loop(DestroyTurn, [tree |-> t, from |-> from]).tree

Cleared(t) ==
  IF t.root = NoNode THEN t
  ELSE [DestroyNode(DestroyTree(t, t.root), t.root) EXCEPT !.root = NoNode]

=============================================================================

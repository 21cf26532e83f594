---------------------------- MODULE RangeMapProofs ----------------------------
(***************************************************************************)
(* Proofs about the search tree of AvlTree and about RangeMap, for any     *)
(* ranges: as long as the heights can count the nodes (Room).              *)
(***************************************************************************)
EXTENDS RangeMap, FiniteSetTheorems, WellFoundedInduction, TLAPS

(***************************************************************************)
(* Sets of nodes, and loops                                                *)
(***************************************************************************)
\* Of some sets of nodes, one holds no other.
LEMMA SmallestSet ==
  ASSUME NEW Sets \in SUBSET (SUBSET Node), Sets # {}
  PROVE  \E s \in Sets : \A r \in Sets : r \subseteq s => r = s
<1>1. \A s \in SUBSET Node : IsFiniteSet(s)
  BY FS_Subset, HeightAssumption DEF Node
<1>2. Sets \subseteq FiniteSubsetsOf(Node)
  BY <1>1 DEF FiniteSubsetsOf
<1>3. IsWellFoundedOn(StrictSubsetOrdering(Node), FiniteSubsetsOf(Node))
  BY FS_StrictSubsetOrderingWellFounded
<1>4. PICK s \in Sets : \A r \in Sets : ~ (<<r, s>> \in StrictSubsetOrdering(Node))
  BY <1>2, <1>3, WFMin
<1> QED
  BY <1>4 DEF StrictSubsetOrdering

\* A strictly smaller set of nodes has fewer elements.
LEMMA Smaller ==
  ASSUME NEW s \in SUBSET Node, NEW r \in SUBSET s
  PROVE  /\ Cardinality(s) \in Nat /\ Cardinality(r) \in Nat
         /\ Cardinality(r) <= Cardinality(s)
         /\ r # s => Cardinality(r) + 1 <= Cardinality(s)
<1>1. IsFiniteSet(s) /\ IsFiniteSet(r) /\ Cardinality(s) <= Cardinality(Node)
  BY FS_Subset, HeightAssumption DEF Node
<1>2. Cardinality(s) \in Nat /\ Cardinality(r) \in Nat /\ Cardinality(Node) \in Nat
  BY <1>1, FS_CardinalityType, HeightAssumption DEF Node
<1>3. Cardinality(r) <= Cardinality(s) /\ (Cardinality(s) = Cardinality(r) => s = r)
  BY <1>1, FS_Subset
<1> QED
  BY <1>1, <1>2, <1>3

\* A set of numbers that holds 0 and, with a number, the next one, holds all.
LEMMA Numbers ==
  ASSUME NEW T, 0 \in T, \A k \in Nat : k \in T => k + 1 \in T
  PROVE  Nat \subseteq T
<1>1. SUFFICES ASSUME Nat \ T # {}
               PROVE  FALSE
  OBVIOUS
<1>2. PICK k \in Nat \ T : \A m \in Nat \ T : ~ (<<m, k>> \in OpToRel(<, Nat))
  BY <1>1, WFMin, NatLessThanWellFounded
<1>3. \A m \in Nat \ T : ~ (m < k)
  BY <1>2 DEF OpToRel
<1>4. k \in Nat /\ k \notin T
  OBVIOUS
<1>5. k - 1 \in Nat
  BY <1>4
<1>6. k - 1 \in T
  BY <1>3, <1>5
<1> QED
  BY <1>4, <1>5, <1>6
\* A loop runs its turns one after the other.
LEMMA LoopTurns ==
  ASSUME NEW turn, NEW x
  PROVE  \E f : /\ f[0] = x
                /\ \A k \in Nat : k < Cardinality(Ranges) => f[k + 1] = turn[f[k]]
                /\ Loop(turn, x) = f[Cardinality(Ranges)]
<1> DEFINE Runs(p, n) ==
             p = [k \in 0 .. n |-> IF k = 0 THEN x ELSE turn[p[k - 1]]]
           T == { n \in Nat : \E g : Runs(g, n) }
<1>1. 0 \in T
  <2>1. Runs([k \in 0 .. 0 |-> x], 0)
    OBVIOUS
  <2> QED
    BY <2>1
<1>2. ASSUME NEW n \in Nat, n \in T
      PROVE  n + 1 \in T
  <2>1. PICK g : Runs(g, n)
    BY <1>2
  <2> DEFINE q == [k \in 0 .. n + 1 |-> IF k <= n THEN g[k] ELSE turn[g[n]]]
  <2>2. ASSUME NEW k \in 0 .. n + 1
        PROVE  q[k] = IF k = 0 THEN x ELSE turn[q[k - 1]]
    <3>1. CASE k = 0
      BY <2>1, <3>1
    <3>2. CASE k # 0 /\ k <= n
      <4>1. g[k] = turn[g[k - 1]]
        BY <2>1, <3>2
      <4> QED
        BY <3>2, <4>1
    <3>3. CASE k = n + 1
      BY <3>3
    <3> QED
      BY <3>1, <3>2, <3>3
  <2>3. Runs(q, n + 1)
    BY <2>2
  <2> HIDE DEF q
  <2>4. \E h : Runs(h, n + 1)
    BY <2>3
  <2> QED
    BY <2>4
<1>3. Cardinality(Ranges) \in Nat
  BY FS_CardinalityType, HeightAssumption
<1>4. Cardinality(Ranges) \in T
  <2> HIDE DEF T
  <2>1. Nat \subseteq T
    BY <1>1, <1>2, Numbers
  <2> QED
    BY <1>3, <2>1
<1> DEFINE f == CHOOSE h : Runs(h, Cardinality(Ranges))
<1>5. Runs(f, Cardinality(Ranges))
  BY <1>4
<1>6. Loop(turn, x) = f[Cardinality(Ranges)]
  BY DEF Loop
<1>7. f[0] = x /\ \A k \in Nat : k < Cardinality(Ranges) => f[k + 1] = turn[f[k]]
  <2> HIDE DEF f
  <2> QED
    BY <1>3, <1>5
<1> QED
  BY <1>6, <1>7

\* A loop makes less of the tree left to see.
Narrower(r, s) == r \subseteq s /\ r # s

(***************************************************************************)
(* The state a loop ends in: every turn stays among the States and, before *)
(* the loop is over (Over), leaves it less of the tree to see.             *)
(***************************************************************************)
LEMMA LoopEnds ==
  ASSUME NEW turn, NEW States, NEW Over, NEW ahead \in [States -> SUBSET Node],
         NEW x \in States,
         \A s \in States :
           /\ turn[s] \in States
           /\ s \in Over => turn[s] \in Over
           /\ s \notin Over => Narrower(ahead[turn[s]], ahead[s])
  PROVE  Loop(turn, x) \in States \cap Over
<1> DEFINE N == Cardinality(Ranges)
<1>1. N \in Nat
  BY FS_CardinalityType, HeightAssumption
<1>2. PICK f : /\ f[0] = x
               /\ \A k \in Nat : k < N => f[k + 1] = turn[f[k]]
               /\ Loop(turn, x) = f[N]
  BY LoopTurns
<1> DEFINE T == { k \in Nat : k <= N =>
                    /\ f[k] \in States
                    /\ f[k] \in Over \/ Cardinality(ahead[f[k]]) + k <= N }
<1>3. 0 \in T
  <2>1. Cardinality(ahead[x]) <= N /\ Cardinality(ahead[x]) \in Nat
    BY FS_Subset, FS_CardinalityType, HeightAssumption DEF Node
  <2> QED
    BY <1>2, <2>1
<1>4. ASSUME NEW k \in Nat, k \in T
      PROVE  k + 1 \in T
  <2>1. SUFFICES ASSUME k + 1 <= N
                 PROVE  /\ f[k + 1] \in States
                        /\ f[k + 1] \in Over \/ Cardinality(ahead[f[k + 1]]) + (k + 1) <= N
    BY <1>1
  <2>2. f[k + 1] = turn[f[k]] /\ f[k] \in States
    BY <1>1, <1>2, <1>4, <2>1
  <2>3. f[k + 1] \in States
    BY <2>2
  <2>4. CASE f[k] \in Over
    BY <2>2, <2>3, <2>4
  <2>5. CASE f[k] \notin Over
    <3>1. Cardinality(ahead[f[k]]) + k <= N
      BY <1>1, <1>4, <2>1, <2>5
    <3>2. /\ ahead[f[k + 1]] \subseteq ahead[f[k]]
          /\ ahead[f[k + 1]] # ahead[f[k]]
          /\ ahead[f[k]] \in SUBSET Node
      BY <2>2, <2>5 DEF Narrower
    <3>3. /\ Cardinality(ahead[f[k]]) \in Nat
          /\ Cardinality(ahead[f[k + 1]]) \in Nat
          /\ Cardinality(ahead[f[k + 1]]) + 1 <= Cardinality(ahead[f[k]])
      BY <3>2, Smaller
    <3> QED
      BY <1>1, <2>3, <3>1, <3>3
  <2> QED
    BY <2>4, <2>5
<1>5. f[N] \in States /\ (f[N] \in Over \/ Cardinality(ahead[f[N]]) + N <= N)
  <2>1. Nat \subseteq T
    <3> HIDE DEF T
    <3> QED
      BY <1>3, <1>4, Numbers
  <2> QED
    BY <1>1, <2>1
<1>6. f[N] \in Over
  <2>1. SUFFICES ASSUME f[N] \notin Over
                 PROVE  FALSE
    OBVIOUS
  <2>2. /\ ahead[turn[f[N]]] \subseteq ahead[f[N]]
        /\ ahead[turn[f[N]]] # ahead[f[N]]
        /\ ahead[f[N]] \in SUBSET Node
    BY <1>5, <2>1 DEF Narrower
  <2>3. /\ Cardinality(ahead[f[N]]) \in Nat
        /\ Cardinality(ahead[turn[f[N]]]) \in Nat
        /\ Cardinality(ahead[turn[f[N]]]) + 1 <= Cardinality(ahead[f[N]])
    BY <2>2, Smaller
  <2> QED
    BY <1>1, <1>5, <2>1, <2>3
<1> QED
  BY <1>2, <1>5, <1>6

-----------------------------------------------------------------------------
(***************************************************************************)
(* The shape of a search tree, where b[n] are the nodes of the subtree     *)
(* of n                                                                    *)
(***************************************************************************)
Sub(b, n) == IF n = NoNode THEN {} ELSE b[n]

\* Node n, its links to its children and what lies below it.
Sound(t, b, n) ==
  /\ t.left[n] \in t.nodes \cup {NoNode}
  /\ t.right[n] \in t.nodes \cup {NoNode}
  /\ b[n] = {n} \cup Sub(b, t.left[n]) \cup Sub(b, t.right[n])
  /\ \A m \in Sub(b, t.left[n]) : Before(m, n)
  /\ \A m \in Sub(b, t.right[n]) : Before(n, m)
  /\ t.left[n] # NoNode => t.top[t.left[n]] = n
  /\ t.right[n] # NoNode => t.top[t.right[n]] = n

Shape(t, b) ==
  /\ t.nodes \subseteq Node
  /\ b \in [Node -> SUBSET Node]
  /\ t.nodes = {} => t.root = NoNode
  /\ t.nodes # {} =>
       /\ t.root \in t.nodes
       /\ t.top[t.root] = NoNode
       /\ b[t.root] = t.nodes
  /\ \A n \in t.nodes : Sound(t, b, n)

\* Before is a strict order.
LEMMA BeforeOrders ==
  /\ \A n \in Node : ~ Before(n, n)
  /\ \A n, m \in Node : Before(n, m) => ~ Before(m, n) /\ n # m
  /\ \A n, m, k \in Node : Before(n, m) /\ Before(m, k) => Before(n, k)
BY RangeAssumption DEF Before, Node

\* A node is not below its children, and NoNode is no node.
LEMMA Child ==
  ASSUME NEW t, NEW b, Shape(t, b), NEW n \in t.nodes,
         NEW c \in {t.left[n], t.right[n]} \ {NoNode}
  PROVE  /\ c \in t.nodes /\ c \in Node /\ c # n /\ t.top[c] = n
         /\ c \in b[c] /\ c \in b[n] /\ n \in b[n] /\ n \notin b[c]
         /\ b[c] \subseteq b[n] /\ b[c] # b[n]
         /\ b[n] \in SUBSET Node
<1>1. /\ n \in Node /\ c \in t.nodes /\ c \in Node /\ t.top[c] = n /\ n \in b[n]
      /\ b[c] \subseteq b[n] /\ b[n] \in SUBSET Node
  BY DEF Shape, Sound, Sub
<1>2. c \in b[c]
  BY <1>1 DEF Shape, Sound
<1>3. n \notin b[c]
  BY <1>1, BeforeOrders DEF Shape, Sound, Sub
<1> QED
  BY <1>1, <1>2, <1>3

\* What holds of a node as soon as it holds of its children, holds of all.
LEMMA BottomUp ==
  ASSUME NEW t, NEW b, Shape(t, b), NEW Good,
         \A n \in t.nodes :
           (\A c \in {t.left[n], t.right[n]} \ {NoNode} : c \in Good) => n \in Good
  PROVE  t.nodes \subseteq Good
<1>1. SUFFICES ASSUME t.nodes \ Good # {}
               PROVE  FALSE
  OBVIOUS
<1> DEFINE Sets == { b[n] : n \in t.nodes \ Good }
<1>2. Sets \in SUBSET (SUBSET Node) /\ Sets # {}
  BY <1>1 DEF Shape
<1>3. PICK s \in Sets : \A r \in Sets : r \subseteq s => r = s
  BY <1>2, SmallestSet
<1>4. PICK n \in t.nodes \ Good : s = b[n]
  BY <1>3
<1>5. \A c \in {t.left[n], t.right[n]} \ {NoNode} : c \in Good
  <2>1. SUFFICES ASSUME NEW c \in {t.left[n], t.right[n]} \ {NoNode}, c \notin Good
                 PROVE  FALSE
    OBVIOUS
  <2>2. c \in t.nodes /\ b[c] \subseteq b[n] /\ b[c] # b[n]
    BY <1>4, Child
  <2>3. b[c] \in Sets
    BY <2>1, <2>2
  <2> QED
    BY <1>3, <1>4, <2>2, <2>3
<1> QED
  BY <1>4, <1>5

(***************************************************************************)
(* Subtrees are nested, and each but the root of one has its parent in it. *)
(***************************************************************************)
LEMMA Nested ==
  ASSUME NEW t, NEW b, Shape(t, b), NEW n \in t.nodes
  PROVE  /\ n \in b[n] /\ b[n] \subseteq t.nodes
         /\ \A m \in b[n] :
              /\ b[m] \subseteq b[n]
              /\ m # n => /\ t.top[m] \in b[n]
                          /\ m \in {t.left[t.top[m]], t.right[t.top[m]]}
<1> DEFINE P(k) == /\ b[k] \subseteq t.nodes
                   /\ \A m \in b[k] :
                        /\ b[m] \subseteq b[k]
                        /\ m # k => /\ t.top[m] \in b[k]
                                    /\ m \in {t.left[t.top[m]], t.right[t.top[m]]}
           Good == { k \in t.nodes : P(k) }
<1>1. \A k \in t.nodes : k \in b[k]
  BY DEF Shape, Sound
<1>2. ASSUME NEW k \in t.nodes,
             \A c \in {t.left[k], t.right[k]} \ {NoNode} : c \in Good
      PROVE  P(k)
  <2>1. b[k] = {k} \cup Sub(b, t.left[k]) \cup Sub(b, t.right[k])
    BY DEF Shape, Sound
  <2>2. ASSUME NEW c \in {t.left[k], t.right[k]} \ {NoNode}, NEW m \in b[c]
        PROVE  /\ m \in t.nodes
               /\ b[m] \subseteq b[k]
               /\ t.top[m] \in b[k]
               /\ m \in {t.left[t.top[m]], t.right[t.top[m]]}
    <3>1. /\ c \in t.nodes /\ t.top[c] = k /\ k \in b[k] /\ b[c] \subseteq b[k]
      BY Child
    <3>2. P(c)
      BY <1>2
    <3>3. CASE m = c
      BY <3>1, <3>3
    <3>4. CASE m # c
      BY <3>1, <3>2, <3>4
    <3> QED
      BY <3>3, <3>4
  <2>3. \A m \in b[k] : m # k => \E c \in {t.left[k], t.right[k]} \ {NoNode} : m \in b[c]
    BY <2>1 DEF Sub
  <2> HIDE DEF Good
  <2> QED
    BY <2>2, <2>3
<1>3. t.nodes \subseteq Good
  <2>1. \A k \in t.nodes :
          (\A c \in {t.left[k], t.right[k]} \ {NoNode} : c \in Good) => k \in Good
    BY <1>2
  <2> HIDE DEF Good
  <2> QED
    BY <2>1, BottomUp
<1> QED
  BY <1>1, <1>3

\* A node outside of a subtree lies to one side of all of it.
LEMMA Beside ==
  ASSUME NEW t, NEW b, Shape(t, b), NEW n \in t.nodes, NEW m \in t.nodes \ b[n]
  PROVE  \/ \A x \in b[n] : Before(x, m)
         \/ \A x \in b[n] : Before(m, x)
<1> DEFINE P(a) == n \in b[a] /\ m \in b[a] =>
                     \/ \A x \in b[n] : Before(x, m)
                     \/ \A x \in b[n] : Before(m, x)
           Good == { a \in t.nodes : P(a) }
<1>1. ASSUME NEW a \in t.nodes,
             \A c \in {t.left[a], t.right[a]} \ {NoNode} : c \in Good
      PROVE  P(a)
  <2>1. /\ b[a] = {a} \cup Sub(b, t.left[a]) \cup Sub(b, t.right[a])
        /\ \A x \in Sub(b, t.left[a]) : Before(x, a)
        /\ \A x \in Sub(b, t.right[a]) : Before(a, x)
        /\ b[a] \subseteq Node
    BY DEF Shape, Sound
  <2>2. SUFFICES ASSUME n \in b[a], m \in b[a]
                 PROVE  \/ \A x \in b[n] : Before(x, m)
                        \/ \A x \in b[n] : Before(m, x)
    OBVIOUS
  <2>3. n # a
    BY <2>2
  <2>4. ASSUME NEW c \in {t.left[a], t.right[a]} \ {NoNode}, n \in b[c]
        PROVE  b[n] \subseteq b[c] /\ P(c)
    <3>1. c \in t.nodes
      BY Child
    <3>2. b[n] \subseteq b[c]
      BY <2>4, <3>1, Nested
    <3> QED
      BY <1>1, <2>4, <3>2
  <2> HIDE DEF Good
  <2>5. CASE n \in Sub(b, t.left[a])
    <3>1. t.left[a] # NoNode /\ n \in b[t.left[a]]
      BY <2>5 DEF Sub
    <3>2. b[n] \subseteq b[t.left[a]] /\ P(t.left[a])
      BY <2>4, <3>1
    <3>3. \A x \in b[n] : x \in Sub(b, t.left[a]) /\ x \in Node
      BY <2>1, <3>1, <3>2 DEF Sub
    <3>4. CASE m \in Sub(b, t.left[a])
      BY <3>1, <3>2, <3>4 DEF Sub
    <3>5. CASE m = a \/ m \in Sub(b, t.right[a])
      BY <2>1, <2>2, <3>3, <3>5, BeforeOrders
    <3> QED
      BY <2>1, <2>2, <3>4, <3>5
  <2>6. CASE n \in Sub(b, t.right[a])
    <3>1. t.right[a] # NoNode /\ n \in b[t.right[a]]
      BY <2>6 DEF Sub
    <3>2. b[n] \subseteq b[t.right[a]] /\ P(t.right[a])
      BY <2>4, <3>1
    <3>3. \A x \in b[n] : x \in Sub(b, t.right[a]) /\ x \in Node
      BY <2>1, <3>1, <3>2 DEF Sub
    <3>4. CASE m \in Sub(b, t.right[a])
      BY <3>1, <3>2, <3>4 DEF Sub
    <3>5. CASE m = a \/ m \in Sub(b, t.left[a])
      BY <2>1, <2>2, <3>3, <3>5, BeforeOrders
    <3> QED
      BY <2>1, <2>2, <3>4, <3>5
  <2> QED
    BY <2>1, <2>2, <2>3, <2>5, <2>6
<1>2. t.nodes \subseteq Good
  <2>1. \A a \in t.nodes :
          (\A c \in {t.left[a], t.right[a]} \ {NoNode} : c \in Good) => a \in Good
    BY <1>1
  <2> HIDE DEF Good
  <2> QED
    BY <2>1, BottomUp
<1>3. t.root \in t.nodes /\ b[t.root] = t.nodes
  BY DEF Shape
<1> QED
  BY <1>2, <1>3

\* Two nodes are not below each other.
LEMMA NotMutual ==
  ASSUME NEW t, NEW b, Shape(t, b), NEW n \in t.nodes, NEW m \in b[n], n \in b[m]
  PROVE  m = n
<1>1. SUFFICES ASSUME m # n
               PROVE  FALSE
  OBVIOUS
<1>2. PICK c \in {t.left[n], t.right[n]} \ {NoNode} : m \in b[c]
  BY <1>1 DEF Shape, Sound, Sub
<1>3. c \in t.nodes /\ n \notin b[c]
  BY Child
<1>4. b[m] \subseteq b[c]
  BY <1>2, <1>3, Nested
<1> QED
  BY <1>3, <1>4

\* The parent of a node; only the root has none.
LEMMA Parent ==
  ASSUME NEW t, NEW b, Shape(t, b), NEW n \in t.nodes
  PROVE  /\ t.top[n] = NoNode <=> n = t.root
         /\ n # t.root =>
              /\ t.top[n] \in t.nodes
              /\ t.top[n] # NoNode
              /\ n \in {t.left[t.top[n]], t.right[t.top[n]]} \ {NoNode}
              /\ t.left[t.top[n]] # t.right[t.top[n]]
              /\ n \in b[t.top[n]] /\ b[n] \subseteq b[t.top[n]]
              /\ t.top[n] \notin b[n] /\ t.top[n] # n
<1>1. /\ t.root \in t.nodes /\ t.top[t.root] = NoNode /\ b[t.root] = t.nodes
      /\ NoNode \notin t.nodes
  BY RangeAssumption DEF Shape, Node
<1>2. SUFFICES ASSUME n # t.root
               PROVE  /\ t.top[n] \in t.nodes
                      /\ t.top[n] # NoNode
                      /\ n \in {t.left[t.top[n]], t.right[t.top[n]]} \ {NoNode}
                      /\ t.left[t.top[n]] # t.right[t.top[n]]
                      /\ n \in b[t.top[n]] /\ b[n] \subseteq b[t.top[n]]
                      /\ t.top[n] \notin b[n] /\ t.top[n] # n
  BY <1>1
<1>3. t.top[n] \in t.nodes /\ n \in {t.left[t.top[n]], t.right[t.top[n]]}
  BY <1>1, <1>2, Nested
<1>4. t.left[t.top[n]] # t.right[t.top[n]]
  <2>1. n # NoNode
    BY <1>1
  <2>2. n \in b[n] /\ n \in Node /\ t.top[n] \in Node
    BY <1>3, Nested DEF Shape
  <2> QED
    BY <1>3, <2>1, <2>2, BeforeOrders DEF Shape, Sound, Sub
<1> QED
  BY <1>1, <1>3, <1>4, Child

-----------------------------------------------------------------------------
(***************************************************************************)
(* What the operators on nodes change                                      *)
(***************************************************************************)
\* An int8_t wraps around, and holds what fits.
LEMMA ToInt8Facts ==
  ASSUME NEW n \in Int
  PROVE  /\ ToInt8(n) \in Int8
         /\ n \in Int8 => ToInt8(n) = n
<1> DEFINE m == 2 * HeightMax + 2
           k == n + HeightMax + 1
<1>1. m \in Nat /\ m > 0 /\ k \in Int /\ HeightMax \in Nat
  BY HeightAssumption
<1>2. k % m \in 0 .. (m - 1)
  <2> HIDE DEF m, k
  <2> QED
    BY <1>1
<1>3. n \in Int8 => k \in 0 .. (m - 1)
  BY <1>1 DEF Int8
<1>4. k \in 0 .. (m - 1) => k % m = k
  <2> HIDE DEF m, k
  <2> QED
    BY <1>1
<1>5. ToInt8(n) = (k % m) - (HeightMax + 1)
  BY DEF ToInt8
<1>6. ToInt8(n) \in Int8
  <2>1. PICK j \in 0 .. (m - 1) : j = k % m
    BY <1>2
  <2>2. j - (HeightMax + 1) \in Int8
    BY <1>1, <2>1 DEF Int8
  <2> QED
    BY <1>5, <2>1, <2>2
<1>7. n \in Int8 => ToInt8(n) = n
  <2>1. SUFFICES ASSUME n \in Int8
                 PROVE  ToInt8(n) = n
    OBVIOUS
  <2>2. ToInt8(n) = k - (HeightMax + 1)
    BY <1>3, <1>4, <1>5, <2>1
  <2> QED
    BY <1>1, <2>2
<1> QED
  BY <1>6, <1>7

\* The links that set_left() and set_right() write.
LEMMA SetLeftLinks ==
  ASSUME NEW t \in Tree, NEW n \in Node, NEW c \in Link
  PROVE  LET u == SetLeft(t, n, c) IN
         /\ u \in Tree
         /\ u.root = t.root /\ u.nodes = t.nodes /\ u.leaked = t.leaked
         /\ u.left = [t.left EXCEPT ![n] = c]
         /\ u.right = t.right /\ u.height = t.height
         /\ \A m \in Node : u.top[m] = IF m = c THEN n ELSE t.top[m]
<1>1. CASE c = NoNode
  BY <1>1, RangeAssumption DEF SetLeft, SetTop, Tree, Link, Node
<1>2. CASE c # NoNode
  BY <1>2 DEF SetLeft, SetTop, Tree, Link
<1> QED
  BY <1>1, <1>2

LEMMA SetRightLinks ==
  ASSUME NEW t \in Tree, NEW n \in Node, NEW c \in Link
  PROVE  LET u == SetRight(t, n, c) IN
         /\ u \in Tree
         /\ u.root = t.root /\ u.nodes = t.nodes /\ u.leaked = t.leaked
         /\ u.right = [t.right EXCEPT ![n] = c]
         /\ u.left = t.left /\ u.height = t.height
         /\ \A m \in Node : u.top[m] = IF m = c THEN n ELSE t.top[m]
<1>1. CASE c = NoNode
  BY <1>1, RangeAssumption DEF SetRight, SetTop, Tree, Link, Node
<1>2. CASE c # NoNode
  BY <1>2 DEF SetRight, SetTop, Tree, Link
<1> QED
  BY <1>1, <1>2

\* The height that fix_height() gives a node.
Fixed(t, n) ==
  ToInt8((IF Height(t, t.left[n]) > Height(t, t.right[n]) THEN Height(t, t.left[n])
          ELSE Height(t, t.right[n])) + 1)

LEMMA FixHeightLinks ==
  ASSUME NEW t \in Tree, NEW n \in Node
  PROVE  LET u == FixHeight(t, n) IN
         /\ u \in Tree
         /\ u.root = t.root /\ u.nodes = t.nodes /\ u.leaked = t.leaked
         /\ u.top = t.top /\ u.left = t.left /\ u.right = t.right
         /\ u.height = [t.height EXCEPT ![n] = Fixed(t, n)]
<1> DEFINE h == Fixed(t, n)
<1>1. \A c \in Link : Height(t, c) \in Int
  BY HeightAssumption DEF Height, Tree, Int8, Link
<1>2. t.left[n] \in Link /\ t.right[n] \in Link
  BY DEF Tree
<1>3. h \in Int8
  BY <1>1, <1>2, ToInt8Facts DEF Fixed
<1>4. FixHeight(t, n) = [t EXCEPT !.height[n] = h]
  BY DEF FixHeight, Fixed
<1> HIDE DEF h
<1>5. [t EXCEPT !.height[n] = h] \in Tree
  BY <1>3 DEF Tree
<1> QED
  BY <1>4, <1>5 DEF Tree, h

\* A tree with the subtree of p hung on q, where p was, or made the root.
Attached(t, q, p, c) == IF q = NoNode THEN MakeRoot(t, c) ELSE ReplaceChild(t, q, p, c)

LEMMA AttachedLinks ==
  ASSUME NEW t \in Tree, NEW q \in Link, NEW p \in Node, NEW c \in Link,
         q = NoNode => c # NoNode
  PROVE  LET u == Attached(t, q, p, c) IN
         /\ u \in Tree
         /\ u.root = IF q = NoNode THEN c ELSE t.root
         /\ u.nodes = t.nodes /\ u.leaked = t.leaked /\ u.height = t.height
         /\ \A m \in Node :
              /\ u.left[m] = IF m = q /\ t.left[q] = p THEN c ELSE t.left[m]
              /\ u.right[m] = IF m = q /\ t.left[q] # p THEN c ELSE t.right[m]
              /\ u.top[m] = IF m = c THEN q ELSE t.top[m]
<1> DEFINE u == Attached(t, q, p, c)
<1>1. t.left \in [Node -> Link] /\ t.right \in [Node -> Link] /\ t.top \in [Node -> Link]
  BY DEF Tree
<1>2. CASE q = NoNode
  <2>1. q \notin Node /\ c \in Node /\ c \in Link /\ NoNode \in Link
    BY <1>2, RangeAssumption DEF Node, Link
  <2>2. u = [t EXCEPT !.root = c, !.top[c] = NoNode]
    BY <1>2 DEF Attached, MakeRoot
  <2> HIDE DEF u
  <2>3. /\ u \in Tree /\ u.root = c
        /\ u.nodes = t.nodes /\ u.leaked = t.leaked /\ u.height = t.height
        /\ u.left = t.left /\ u.right = t.right /\ u.top = [t.top EXCEPT ![c] = NoNode]
    BY <2>1, <2>2 DEF Tree
  <2>4. \A m \in Node :
           /\ u.left[m] = IF m = q /\ t.left[q] = p THEN c ELSE t.left[m]
           /\ u.right[m] = IF m = q /\ t.left[q] # p THEN c ELSE t.right[m]
           /\ u.top[m] = IF m = c THEN q ELSE t.top[m]
    BY <1>1, <1>2, <2>1, <2>3
  <2> QED
    BY <1>2, <2>3, <2>4 DEF u
<1>3. CASE q # NoNode
  <2>1. q \in Node
    BY <1>3 DEF Link
  <2>2. CASE p = t.left[q]
    <3>1. u = SetLeft(t, q, c)
      BY <1>3, <2>2 DEF Attached, ReplaceChild
    <3> HIDE DEF u
    <3>2. /\ u \in Tree
          /\ u.root = t.root /\ u.nodes = t.nodes /\ u.leaked = t.leaked
          /\ u.left = [t.left EXCEPT ![q] = c]
          /\ u.right = t.right /\ u.height = t.height
          /\ \A m \in Node : u.top[m] = IF m = c THEN q ELSE t.top[m]
      BY <2>1, <3>1, SetLeftLinks
    <3> QED
      BY <1>1, <1>3, <2>1, <2>2, <3>2 DEF u
  <2>3. CASE p # t.left[q]
    <3>1. u = SetRight(t, q, c)
      BY <1>3, <2>3 DEF Attached, ReplaceChild
    <3> HIDE DEF u
    <3>2. /\ u \in Tree
          /\ u.root = t.root /\ u.nodes = t.nodes /\ u.leaked = t.leaked
          /\ u.right = [t.right EXCEPT ![q] = c]
          /\ u.left = t.left /\ u.height = t.height
          /\ \A m \in Node : u.top[m] = IF m = c THEN q ELSE t.top[m]
      BY <2>1, <3>1, SetRightLinks
    <3> QED
      BY <1>1, <1>3, <2>1, <2>3, <3>2 DEF u
  <2> QED
    BY <2>2, <2>3
<1> QED
  BY <1>2, <1>3

-----------------------------------------------------------------------------
(***************************************************************************)
(* Rotations                                                               *)
(***************************************************************************)
\* A tree in which only the subtree of p has been rearranged, under the new root
\* r, is a search tree if that subtree is one.
LEMMA Rearranged ==
  ASSUME NEW t, NEW b, Shape(t, b), NEW p \in t.nodes, NEW r \in b[p],
         NEW u, NEW d \in [Node -> SUBSET Node],
         u.nodes = t.nodes,
         u.root = IF p = t.root THEN r ELSE t.root,
         u.top[r] = t.top[p],
         d[r] = b[p],
         \A n \in b[p] : Sound(u, d, n),
         \A n \in t.nodes \ b[p] :
           /\ u.left[n] = IF t.left[n] = p THEN r ELSE t.left[n]
           /\ u.right[n] = IF t.right[n] = p THEN r ELSE t.right[n]
           /\ u.top[n] = t.top[n]
           /\ d[n] = b[n]
  PROVE  Shape(u, d)
<1>1. r \in t.nodes /\ p \in b[p] /\ b[p] \subseteq t.nodes /\ t.nodes \subseteq Node
  BY Nested DEF Shape
<1>2. ASSUME NEW n \in t.nodes \ b[p]
      PROVE  Sound(u, d, n)
  <2>1. Sound(t, b, n) /\ NoNode \notin t.nodes
    BY RangeAssumption DEF Shape, Node
  <2>2. ASSUME NEW c \in {t.left[n], t.right[n]} \ {NoNode}, c # p
        PROVE  d[c] = b[c] /\ u.top[c] = n
    <3>1. c \in t.nodes /\ t.top[c] = n
      BY Child
    <3>2. c \notin b[p]
      BY <2>2, <3>1, Nested
    <3> QED
      BY <3>1, <3>2
  <2>3. p \in {t.left[n], t.right[n]} => t.top[p] = n
    BY <2>1 DEF Sound
  <2>4. ASSUME NEW c \in {t.left[n], t.right[n]}
        PROVE  Sub(d, IF c = p THEN r ELSE c) = Sub(b, c)
    BY <1>1, <2>1, <2>2 DEF Sub
  <2>5. Sub(d, u.left[n]) = Sub(b, t.left[n]) /\ Sub(d, u.right[n]) = Sub(b, t.right[n])
    BY <2>4
  <2>6. /\ u.left[n] # NoNode => u.top[u.left[n]] = n
        /\ u.right[n] # NoNode => u.top[u.right[n]] = n
    BY <2>2, <2>3
  <2> QED
    BY <1>1, <2>1, <2>5, <2>6 DEF Sound
<1>3. \A n \in u.nodes : Sound(u, d, n)
  BY <1>2
<1>4. t.root \in t.nodes /\ t.top[t.root] = NoNode /\ b[t.root] = t.nodes
  BY DEF Shape
<1>5. /\ u.root \in u.nodes
      /\ u.top[u.root] = NoNode
      /\ d[u.root] = u.nodes
  <2>1. CASE p = t.root
    BY <1>1, <1>4, <2>1
  <2>2. CASE p # t.root
    <3>1. t.root \notin b[p]
      BY <1>1, <1>4, <2>2, NotMutual
    <3> QED
      BY <1>4, <2>2, <3>1
  <2> QED
    BY <2>1, <2>2
<1> QED
  BY <1>1, <1>3, <1>5 DEF Shape

\* rotate_left() lifts the left child r of p and hands its right subtree over.
LEMMA RotateLeftLinks ==
  ASSUME NEW t \in Tree, NEW p \in Node, NEW r \in Node, r = t.left[p],
         p # r, t.right[r] \notin {p, r}, t.left[r] # r, t.right[p] \notin {p, r}
  PROVE  LET u == RotateLeft(t, p).tree IN
         /\ RotateLeft(t, p).node = r
         /\ u \in Tree
         /\ u.root = t.root /\ u.nodes = t.nodes /\ u.leaked = t.leaked
         /\ \A m \in Node :
              /\ u.left[m] = IF m = p THEN t.right[r] ELSE t.left[m]
              /\ u.right[m] = IF m = r THEN p ELSE t.right[m]
              /\ u.top[m] = IF m = p THEN r ELSE IF m = t.right[r] THEN p ELSE t.top[m]
              /\ u.height[m] = IF m \in {p, r} THEN Fixed(u, m) ELSE t.height[m]
<1> DEFINE a == SetLeft(t, p, t.right[r])
           v == SetRight(a, r, p)
           w == FixHeight(v, p)
           u == FixHeight(w, r)
<1>1. RotateLeft(t, p).node = r /\ RotateLeft(t, p).tree = u
  BY DEF RotateLeft
<1>2. t.right[r] \in Link /\ p \in Link /\ NoNode \notin Node
  BY RangeAssumption DEF Tree, Link, Node
<1>3. /\ a \in Tree
      /\ a.root = t.root /\ a.nodes = t.nodes /\ a.leaked = t.leaked
      /\ a.left = [t.left EXCEPT ![p] = t.right[r]]
      /\ a.right = t.right /\ a.height = t.height
      /\ \A m \in Node : a.top[m] = IF m = t.right[r] THEN p ELSE t.top[m]
  BY <1>2, SetLeftLinks
<1> HIDE DEF a, v, w, u
<1>4. /\ v \in Tree
      /\ v.root = a.root /\ v.nodes = a.nodes /\ v.leaked = a.leaked
      /\ v.right = [a.right EXCEPT ![r] = p]
      /\ v.left = a.left /\ v.height = a.height
      /\ \A m \in Node : v.top[m] = IF m = p THEN r ELSE a.top[m]
  BY <1>2, <1>3, SetRightLinks DEF v
<1>5. /\ w \in Tree
      /\ w.root = v.root /\ w.nodes = v.nodes /\ w.leaked = v.leaked
      /\ w.top = v.top /\ w.left = v.left /\ w.right = v.right
      /\ w.height = [v.height EXCEPT ![p] = Fixed(v, p)]
  BY <1>4, FixHeightLinks DEF w
<1>6. /\ u \in Tree
      /\ u.root = w.root /\ u.nodes = w.nodes /\ u.leaked = w.leaked
      /\ u.top = w.top /\ u.left = w.left /\ u.right = w.right
      /\ u.height = [w.height EXCEPT ![r] = Fixed(w, r)]
  BY <1>5, FixHeightLinks DEF u
<1>7. \A m \in Node :
        /\ u.left[m] = IF m = p THEN t.right[r] ELSE t.left[m]
        /\ u.right[m] = IF m = r THEN p ELSE t.right[m]
        /\ u.top[m] = IF m = p THEN r ELSE IF m = t.right[r] THEN p ELSE t.top[m]
  BY <1>3, <1>4, <1>5, <1>6 DEF Tree
<1>8. /\ v.height \in [Node -> Int8] /\ w.height \in [Node -> Int8]
      /\ u.left \in [Node -> Link] /\ u.right \in [Node -> Link]
  BY <1>4, <1>5, <1>6 DEF Tree
<1>9. u.height[p] = Fixed(u, p)
  <2>1. \A c \in Link : c \notin {p, r} => Height(v, c) = Height(u, c)
    BY <1>2, <1>5, <1>6, <1>8 DEF Height, Link
  <2>2. u.left[p] = v.left[p] /\ u.right[p] = v.right[p]
    BY <1>5, <1>6
  <2>3. u.left[p] \in Link \ {p, r} /\ u.right[p] \in Link \ {p, r}
    BY <1>7, <1>8
  <2>4. Fixed(u, p) = Fixed(v, p)
    BY <2>1, <2>2, <2>3 DEF Fixed
  <2> QED
    BY <1>5, <1>6, <1>8, <2>4
<1>10. u.height[r] = Fixed(u, r)
  <2>1. \A c \in Link : c # r => Height(w, c) = Height(u, c)
    BY <1>2, <1>6, <1>8 DEF Height, Link
  <2>2. u.left[r] = w.left[r] /\ u.right[r] = w.right[r]
    BY <1>6
  <2>3. u.left[r] \in Link \ {r} /\ u.right[r] \in Link \ {r}
    BY <1>7, <1>8
  <2>4. Fixed(u, r) = Fixed(w, r)
    BY <2>1, <2>2, <2>3 DEF Fixed
  <2> QED
    BY <1>6, <1>8, <2>4
<1>11. \A m \in Node : m \notin {p, r} => u.height[m] = t.height[m]
  BY <1>3, <1>4, <1>5, <1>6, <1>8
<1> QED
  BY <1>1, <1>3, <1>4, <1>5, <1>6, <1>7, <1>9, <1>10, <1>11

\* rotate_right() lifts the right child r of p and hands its left subtree over.
LEMMA RotateRightLinks ==
  ASSUME NEW t \in Tree, NEW p \in Node, NEW r \in Node, r = t.right[p],
         p # r, t.left[r] \notin {p, r}, t.right[r] # r, t.left[p] \notin {p, r}
  PROVE  LET u == RotateRight(t, p).tree IN
         /\ RotateRight(t, p).node = r
         /\ u \in Tree
         /\ u.root = t.root /\ u.nodes = t.nodes /\ u.leaked = t.leaked
         /\ \A m \in Node :
              /\ u.right[m] = IF m = p THEN t.left[r] ELSE t.right[m]
              /\ u.left[m] = IF m = r THEN p ELSE t.left[m]
              /\ u.top[m] = IF m = p THEN r ELSE IF m = t.left[r] THEN p ELSE t.top[m]
              /\ u.height[m] = IF m \in {p, r} THEN Fixed(u, m) ELSE t.height[m]
<1> DEFINE a == SetRight(t, p, t.left[r])
           v == SetLeft(a, r, p)
           w == FixHeight(v, p)
           u == FixHeight(w, r)
<1>1. RotateRight(t, p).node = r /\ RotateRight(t, p).tree = u
  BY DEF RotateRight
<1>2. t.left[r] \in Link /\ p \in Link /\ NoNode \notin Node
  BY RangeAssumption DEF Tree, Link, Node
<1>3. /\ a \in Tree
      /\ a.root = t.root /\ a.nodes = t.nodes /\ a.leaked = t.leaked
      /\ a.right = [t.right EXCEPT ![p] = t.left[r]]
      /\ a.left = t.left /\ a.height = t.height
      /\ \A m \in Node : a.top[m] = IF m = t.left[r] THEN p ELSE t.top[m]
  BY <1>2, SetRightLinks
<1> HIDE DEF a, v, w, u
<1>4. /\ v \in Tree
      /\ v.root = a.root /\ v.nodes = a.nodes /\ v.leaked = a.leaked
      /\ v.left = [a.left EXCEPT ![r] = p]
      /\ v.right = a.right /\ v.height = a.height
      /\ \A m \in Node : v.top[m] = IF m = p THEN r ELSE a.top[m]
  BY <1>2, <1>3, SetLeftLinks DEF v
<1>5. /\ w \in Tree
      /\ w.root = v.root /\ w.nodes = v.nodes /\ w.leaked = v.leaked
      /\ w.top = v.top /\ w.right = v.right /\ w.left = v.left
      /\ w.height = [v.height EXCEPT ![p] = Fixed(v, p)]
  BY <1>4, FixHeightLinks DEF w
<1>6. /\ u \in Tree
      /\ u.root = w.root /\ u.nodes = w.nodes /\ u.leaked = w.leaked
      /\ u.top = w.top /\ u.right = w.right /\ u.left = w.left
      /\ u.height = [w.height EXCEPT ![r] = Fixed(w, r)]
  BY <1>5, FixHeightLinks DEF u
<1>7. \A m \in Node :
        /\ u.right[m] = IF m = p THEN t.left[r] ELSE t.right[m]
        /\ u.left[m] = IF m = r THEN p ELSE t.left[m]
        /\ u.top[m] = IF m = p THEN r ELSE IF m = t.left[r] THEN p ELSE t.top[m]
  BY <1>3, <1>4, <1>5, <1>6 DEF Tree
<1>8. /\ v.height \in [Node -> Int8] /\ w.height \in [Node -> Int8]
      /\ u.right \in [Node -> Link] /\ u.left \in [Node -> Link]
  BY <1>4, <1>5, <1>6 DEF Tree
<1>9. u.height[p] = Fixed(u, p)
  <2>1. \A c \in Link : c \notin {p, r} => Height(v, c) = Height(u, c)
    BY <1>2, <1>5, <1>6, <1>8 DEF Height, Link
  <2>2. u.right[p] = v.right[p] /\ u.left[p] = v.left[p]
    BY <1>5, <1>6
  <2>3. u.right[p] \in Link \ {p, r} /\ u.left[p] \in Link \ {p, r}
    BY <1>7, <1>8
  <2>4. Fixed(u, p) = Fixed(v, p)
    BY <2>1, <2>2, <2>3 DEF Fixed
  <2> QED
    BY <1>5, <1>6, <1>8, <2>4
<1>10. u.height[r] = Fixed(u, r)
  <2>1. \A c \in Link : c # r => Height(w, c) = Height(u, c)
    BY <1>2, <1>6, <1>8 DEF Height, Link
  <2>2. u.right[r] = w.right[r] /\ u.left[r] = w.left[r]
    BY <1>6
  <2>3. u.right[r] \in Link \ {r} /\ u.left[r] \in Link \ {r}
    BY <1>7, <1>8
  <2>4. Fixed(u, r) = Fixed(w, r)
    BY <2>1, <2>2, <2>3 DEF Fixed
  <2> QED
    BY <1>6, <1>8, <2>4
<1>11. \A m \in Node : m \notin {p, r} => u.height[m] = t.height[m]
  BY <1>3, <1>4, <1>5, <1>6, <1>8
<1> QED
  BY <1>1, <1>3, <1>4, <1>5, <1>6, <1>7, <1>9, <1>10, <1>11

\* The height of a node lies between 0 and the size of its subtree: it does not
\* wrap around, and NoNode is the only one that can pass for less than a leaf.
GoodHeight(t, b, n) == t.height[n] \in 0 .. Cardinality(b[n])

\* All heights but those of x and its ancestors are good.
HeightsAside(t, b, x) == \A n \in t.nodes : x \notin b[n] => GoodHeight(t, b, n)

\* So is the height of x.
HeightsUpTo(t, b, x) ==
  \A n \in t.nodes : x \notin b[n] \/ n = x => GoodHeight(t, b, n)

\* The heights can count the nodes.
Countable(t) == Cardinality(t.nodes) <= HeightMax

LEMMA SubtreeCounted ==
  ASSUME NEW t, NEW b, Shape(t, b), Countable(t), NEW n \in t.nodes
  PROVE  Cardinality(b[n]) \in Nat /\ Cardinality(b[n]) <= HeightMax
<1>1. b[n] \in SUBSET t.nodes /\ t.nodes \in SUBSET Node
  BY Nested DEF Shape
<1>2. /\ Cardinality(b[n]) \in Nat /\ Cardinality(t.nodes) \in Nat
      /\ Cardinality(b[n]) <= Cardinality(t.nodes)
  BY <1>1, Smaller
<1> QED
  BY <1>2, HeightAssumption DEF Countable

LEMMA FixedIsGood ==
  ASSUME NEW t \in Tree, NEW b, Shape(t, b), Countable(t), NEW n \in t.nodes,
         \A c \in {t.left[n], t.right[n]} \ {NoNode} : GoodHeight(t, b, c)
  PROVE  Fixed(t, n) \in 0 .. Cardinality(b[n])
<1>1. ASSUME NEW c \in {t.left[n], t.right[n]}
      PROVE  /\ Height(t, c) \in Nat
             /\ Height(t, c) + 1 <= Cardinality(b[n])
  <2>1. b[n] \in SUBSET Node /\ n \in b[n] /\ n \in Node
    BY DEF Shape, Sound
  <2>2. CASE c = NoNode
    <3>1. {n} # {} /\ {n} \in SUBSET b[n]
      BY <2>1
    <3>2. Cardinality({n}) = 1
      BY FS_Singleton
    <3>3. Cardinality(b[n]) \in Nat /\ 1 <= Cardinality(b[n])
      BY <2>1, <3>1, <3>2, Smaller
    <3> QED
      BY <2>2, <3>3 DEF Height
  <2>3. CASE c # NoNode
    <3>1. b[c] \in SUBSET b[n] /\ b[c] # b[n]
      BY <2>3, Child
    <3>2. /\ Cardinality(b[n]) \in Nat /\ Cardinality(b[c]) \in Nat
          /\ Cardinality(b[c]) + 1 <= Cardinality(b[n])
      BY <2>1, <3>1, Smaller
    <3>3. Height(t, c) \in 0 .. Cardinality(b[c])
      BY <2>3 DEF Height, GoodHeight
    <3> QED
      BY <3>2, <3>3
  <2> QED
    BY <2>2, <2>3
<1> DEFINE hl == Height(t, t.left[n])
           hr == Height(t, t.right[n])
           h  == (IF hl > hr THEN hl ELSE hr) + 1
<1>2. hl \in Nat /\ hr \in Nat /\ hl + 1 <= Cardinality(b[n]) /\ hr + 1 <= Cardinality(b[n])
  BY <1>1
<1>3. Cardinality(b[n]) \in Nat /\ Cardinality(b[n]) <= HeightMax
  BY SubtreeCounted
<1>4. h \in Nat /\ h <= Cardinality(b[n]) /\ h \in Int /\ h \in Int8
  <2> HIDE DEF hl, hr
  <2> QED
    BY <1>2, <1>3, HeightAssumption DEF Int8
<1>5. Fixed(t, n) = ToInt8(h)
  BY DEF Fixed
<1> HIDE DEF h
<1>6. Fixed(t, n) = h
  BY <1>4, <1>5, ToInt8Facts
<1> QED
  BY <1>3, <1>4, <1>6

(***************************************************************************)
(* A rotation at p with the rotated subtree hung where p was: the tree is  *)
(* a search tree of the same nodes, with r where p was.                    *)
(***************************************************************************)
Lifted(t, b, p, r, u) ==
  /\ u \in Tree
  /\ u.nodes = t.nodes /\ u.leaked = t.leaked
  /\ r \in t.nodes
  /\ u.top[r] = t.top[p]
  /\ \A n \in t.nodes \ b[p] :
       /\ u.left[n] = IF t.left[n] = p THEN r ELSE t.left[n]
       /\ u.right[n] = IF t.right[n] = p THEN r ELSE t.right[n]
       /\ u.top[n] = t.top[n]
  /\ \E d : /\ Shape(u, d)
            /\ d[r] = b[p]
            /\ \A n \in t.nodes \ b[p] : d[n] = b[n]
            /\ HeightsUpTo(u, d, r)

LEMMA LiftLeft ==
  ASSUME NEW t \in Tree, NEW b, Shape(t, b), Countable(t), NEW p \in t.nodes,
         t.left[p] # NoNode, HeightsAside(t, b, p)
  PROVE  LET rotated == RotateLeft(t, p) IN
         Lifted(t, b, p, rotated.node,
                Attached(rotated.tree, t.top[p], p, rotated.node))
<1> DEFINE r == t.left[p]
           x == t.right[r]
           y == t.right[p]
           q == t.top[p]
           v == RotateLeft(t, p).tree
           u == Attached(v, q, p, r)
           d == [b EXCEPT ![p] = {p} \cup Sub(b, x) \cup Sub(b, y), ![r] = b[p]]
<1>1. /\ t.left \in [Node -> Link] /\ t.right \in [Node -> Link] /\ t.top \in [Node -> Link]
      /\ t.nodes \subseteq Node /\ NoNode \notin Node
      /\ b \in [Node -> SUBSET Node]
  BY RangeAssumption DEF Tree, Shape, Node
<1>2. /\ r \in t.nodes /\ p # r /\ t.top[r] = p /\ r \in b[r] /\ r \in b[p] /\ p \in b[p]
      /\ p \notin b[r] /\ b[r] \subseteq b[p]
  BY Child
<1>3. /\ Sound(t, b, p) /\ Sound(t, b, r)
  BY <1>2 DEF Shape
<1>4. x # NoNode => /\ x \in t.nodes /\ x # r /\ x # p /\ t.top[x] = r
                    /\ x \in b[x] /\ x \in b[r] /\ r \notin b[x] /\ b[x] \subseteq b[r]
  <2>1. SUFFICES ASSUME x # NoNode
                 PROVE  /\ x \in t.nodes /\ x # r /\ x # p /\ t.top[x] = r
                        /\ x \in b[x] /\ x \in b[r] /\ r \notin b[x] /\ b[x] \subseteq b[r]
    OBVIOUS
  <2>2. x \in {t.left[r], t.right[r]} \ {NoNode}
    BY <2>1
  <2> HIDE DEF x, r
  <2>3. /\ x \in t.nodes /\ x # r /\ t.top[x] = r
        /\ x \in b[x] /\ x \in b[r] /\ r \notin b[x] /\ b[x] \subseteq b[r]
    BY <1>2, <2>2, Child
  <2> QED
    BY <1>2, <2>3
<1>5. y # NoNode => /\ y \in t.nodes /\ y # p /\ t.top[y] = p /\ y \in b[y]
                    /\ p \notin b[y] /\ b[y] \subseteq b[p]
  <2>1. SUFFICES ASSUME y # NoNode
                 PROVE  /\ y \in t.nodes /\ y # p /\ t.top[y] = p /\ y \in b[y]
                        /\ p \notin b[y] /\ b[y] \subseteq b[p]
    OBVIOUS
  <2>2. y \in {t.left[p], t.right[p]} \ {NoNode}
    BY <2>1
  <2> HIDE DEF y
  <2> QED
    BY <2>2, Child
<1>6. y # r
  <2>1. r \in Sub(b, r)
    BY <1>1, <1>2 DEF Sub
  <2>2. Before(r, p)
    BY <1>3, <2>1 DEF Sound
  <2>3. ~ Before(p, r)
    BY <1>1, <1>2, <2>2, BeforeOrders
  <2> QED
    BY <1>3, <2>1, <2>3 DEF Sound
<1>7. t.left[r] # r
  BY <1>2, <1>3, <1>1, Child
<1>8. x \notin {p, r} /\ y \notin {p, r}
  BY <1>1, <1>2, <1>4, <1>5, <1>6
<1>9. /\ RotateLeft(t, p).node = r
      /\ v \in Tree
      /\ v.root = t.root /\ v.nodes = t.nodes /\ v.leaked = t.leaked
      /\ \A m \in Node :
           /\ v.left[m] = IF m = p THEN x ELSE t.left[m]
           /\ v.right[m] = IF m = r THEN p ELSE t.right[m]
           /\ v.top[m] = IF m = p THEN r ELSE IF m = x THEN p ELSE t.top[m]
           /\ v.height[m] = IF m \in {p, r} THEN Fixed(v, m) ELSE t.height[m]
  <2> HIDE DEF v
  <2> SUFFICES LET w == RotateLeft(t, p).tree IN
         /\ RotateLeft(t, p).node = r
         /\ w \in Tree
         /\ w.root = t.root /\ w.nodes = t.nodes /\ w.leaked = t.leaked
         /\ \A m \in Node :
              /\ w.left[m] = IF m = p THEN t.right[r] ELSE t.left[m]
              /\ w.right[m] = IF m = r THEN p ELSE t.right[m]
              /\ w.top[m] = IF m = p THEN r ELSE IF m = t.right[r] THEN p ELSE t.top[m]
              /\ w.height[m] = IF m \in {p, r} THEN Fixed(w, m) ELSE t.height[m]
    BY DEF v
  <2> HIDE DEF r
  <2> QED
    BY <1>1, <1>2, <1>7, <1>8, RotateLeftLinks DEF r
<1>10. q \in Link /\ r \in Link /\ r # NoNode /\ r \in Node /\ p \in Node
  BY <1>1, <1>2 DEF Link
<1>11. /\ u \in Tree
       /\ u.root = IF q = NoNode THEN r ELSE t.root
       /\ u.nodes = t.nodes /\ u.leaked = t.leaked /\ u.height = v.height
       /\ \A m \in Node :
            /\ u.left[m] = IF m = q /\ v.left[q] = p THEN r ELSE v.left[m]
            /\ u.right[m] = IF m = q /\ v.left[q] # p THEN r ELSE v.right[m]
            /\ u.top[m] = IF m = r THEN q ELSE v.top[m]
  <2> HIDE DEF v, r, q
  <2> QED
    BY <1>9, <1>10, AttachedLinks
<1>12. /\ p = t.root <=> q = NoNode
       /\ p # t.root =>
            /\ q \in t.nodes /\ q # NoNode /\ q # p /\ q \notin b[p]
            /\ p \in {t.left[q], t.right[q]} /\ t.left[q] # t.right[q]
  <2> HIDE DEF q
  <2> QED
    BY Parent DEF q
<1> HIDE DEF u, v, q, x, y, r
<1>13. \A n \in t.nodes \ b[p] : n # p /\ n # r /\ n # x /\ n \in Node
  BY <1>1, <1>2, <1>4
<1>14. \A n \in t.nodes : p \in {t.left[n], t.right[n]} => n = q
  BY <1>1 DEF q, Shape, Sound
<1>15. ASSUME NEW n \in t.nodes \ b[p]
       PROVE  /\ u.left[n] = IF t.left[n] = p THEN r ELSE t.left[n]
              /\ u.right[n] = IF t.right[n] = p THEN r ELSE t.right[n]
              /\ u.top[n] = t.top[n]
  <2>1. v.left[n] = t.left[n] /\ v.right[n] = t.right[n] /\ v.top[n] = t.top[n]
    BY <1>9, <1>13
  <2>2. CASE n = q
    <3>1. p \in {t.left[n], t.right[n]} /\ t.left[n] # t.right[n]
      BY <1>1, <1>12, <2>2
    <3>2. CASE t.left[n] = p
      BY <1>11, <1>13, <2>1, <2>2, <3>1, <3>2
    <3>3. CASE t.right[n] = p
      BY <1>11, <1>13, <2>1, <2>2, <3>1, <3>3
    <3> QED
      BY <3>1, <3>2, <3>3
  <2>3. CASE n # q
    <3>1. p \notin {t.left[n], t.right[n]}
      BY <1>14, <2>3
    <3>2. u.left[n] = v.left[n] /\ u.right[n] = v.right[n] /\ u.top[n] = v.top[n]
      BY <1>11, <1>13, <2>3
    <3> QED
      BY <2>1, <3>1, <3>2
  <2> QED
    BY <2>2, <2>3
<1>16. /\ d \in [Node -> SUBSET Node]
       /\ d[p] = {p} \cup Sub(b, x) \cup Sub(b, y) /\ d[r] = b[p]
       /\ \A n \in Node \ {p, r} : d[n] = b[n]
  <2>1. Sub(b, x) \subseteq Node /\ Sub(b, y) \subseteq Node
    BY <1>1, <1>4, <1>5 DEF Sub
  <2> QED
    BY <1>1, <1>2, <1>10, <2>1
<1> HIDE DEF d
<1>17. ASSUME NEW n \in b[p], n \notin {p, r}
       PROVE  /\ Sound(u, d, n)
              /\ u.left[n] = t.left[n] /\ u.right[n] = t.right[n]
              /\ \A c \in {t.left[n], t.right[n]} : c \notin {p, r}
  <2>1. n \in t.nodes /\ n \in Node /\ Sound(t, b, n) /\ n # q
    BY <1>1, <1>12, Nested DEF Shape, q
  <2>2. ASSUME NEW c \in {t.left[n], t.right[n]} \ {NoNode}
        PROVE  c \notin {p, r, x} /\ c \in Node /\ d[c] = b[c] /\ u.top[c] = n
    <3>1. c \in t.nodes /\ t.top[c] = n /\ c \in Node
      BY <2>1, Child
    <3>2. c # p
      BY <1>14, <2>1
    <3>3. c # r /\ c # x
      BY <1>2, <1>4, <1>17, <3>1
    <3> QED
      BY <1>9, <1>11, <1>16, <3>1, <3>2, <3>3
  <2>3. u.left[n] = t.left[n] /\ u.right[n] = t.right[n] /\ d[n] = b[n]
    BY <1>9, <1>11, <1>16, <1>17, <2>1
  <2>4. Sub(d, t.left[n]) = Sub(b, t.left[n]) /\ Sub(d, t.right[n]) = Sub(b, t.right[n])
    BY <2>2 DEF Sub
  <2>5. Sound(u, d, n)
    <3>1. u.nodes = t.nodes
      BY <1>11
    <3>2. /\ t.left[n] # NoNode => u.top[t.left[n]] = n
          /\ t.right[n] # NoNode => u.top[t.right[n]] = n
      BY <2>2
    <3>3. /\ Sub(d, u.left[n]) = Sub(b, t.left[n])
          /\ Sub(d, u.right[n]) = Sub(b, t.right[n])
      BY <2>3, <2>4
    <3>4. /\ u.left[n] \in u.nodes \cup {NoNode}
          /\ u.right[n] \in u.nodes \cup {NoNode}
          /\ d[n] = {n} \cup Sub(d, u.left[n]) \cup Sub(d, u.right[n])
      BY <2>1, <2>3, <3>1, <3>3 DEF Sound
    <3>5. /\ \A m \in Sub(d, u.left[n]) : Before(m, n)
          /\ \A m \in Sub(d, u.right[n]) : Before(n, m)
      BY <2>1, <3>3 DEF Sound
    <3>6. /\ u.left[n] # NoNode => u.top[u.left[n]] = n
          /\ u.right[n] # NoNode => u.top[u.right[n]] = n
      BY <2>3, <3>2
    <3> QED
      BY <3>4, <3>5, <3>6 DEF Sound
  <2>6. \A c \in {t.left[n], t.right[n]} : c \notin {p, r}
    BY <1>1, <1>10, <2>2
  <2> QED
    BY <2>3, <2>5, <2>6
<1>18. /\ u.left[p] = x /\ u.right[p] = y /\ u.top[p] = r
       /\ u.left[r] = t.left[r] /\ u.right[r] = p
       /\ x # NoNode => u.top[x] = p
       /\ y # NoNode => u.top[y] = p
       /\ t.left[r] # NoNode => u.top[t.left[r]] = r
  <2>1. q \notin {p, r}
    BY <1>1, <1>2, <1>12
  <2>2. /\ u.left[p] = x /\ u.right[p] = y /\ u.top[p] = r
        /\ u.left[r] = t.left[r] /\ u.right[r] = p
    BY <1>2, <1>9, <1>10, <1>11, <2>1 DEF y
  <2>3. (x # NoNode => u.top[x] = p) /\ (y # NoNode => u.top[y] = p)
    BY <1>1, <1>4, <1>5, <1>8, <1>9, <1>11
  <2>4. t.left[r] # NoNode => u.top[t.left[r]] = r
    <3>1. SUFFICES ASSUME t.left[r] # NoNode
                   PROVE  u.top[t.left[r]] = r
      OBVIOUS
    <3>2. t.left[r] \in t.nodes /\ t.top[t.left[r]] = r /\ t.left[r] # r
      BY <1>2, <3>1, Child
    <3>3. t.left[r] # p /\ t.left[r] # x
      <4>1. t.left[r] # p
        BY <1>2, <1>14, <2>1
      <4>2. t.left[r] # x
        <5>1. SUFFICES ASSUME t.left[r] = x
                       PROVE  FALSE
          OBVIOUS
        <5>2. x \in b[x] /\ x # NoNode /\ x \in Node /\ r \in Node
          BY <1>1, <1>4, <1>10, <3>1, <5>1
        <5>3. x \in Sub(b, t.left[r]) /\ x \in Sub(b, t.right[r])
          BY <5>1, <5>2 DEF Sub, x
        <5>4. Before(x, r) /\ Before(r, x)
          BY <1>3, <5>3 DEF Sound
        <5> QED
          BY <5>2, <5>4, BeforeOrders
      <4> QED
        BY <4>1, <4>2
    <3> QED
      BY <1>1, <1>9, <1>11, <3>2, <3>3
  <2> QED
    BY <2>2, <2>3, <2>4
<1>19. /\ \A m \in b[p] : m \in Node
       /\ b[p] = {p} \cup b[r] \cup Sub(b, y)
       /\ b[r] = {r} \cup Sub(b, t.left[r]) \cup Sub(b, x)
       /\ \A m \in b[r] : Before(m, p)
       /\ \A m \in Sub(b, y) : Before(p, m)
       /\ \A m \in Sub(b, t.left[r]) : Before(m, r)
       /\ \A m \in Sub(b, x) : Before(r, m)
  BY <1>1, <1>3, <1>10 DEF Sound, Sub, x, y, r
<1>20. Sub(d, x) = Sub(b, x) /\ Sub(d, y) = Sub(b, y) /\ Sub(d, t.left[r]) = Sub(b, t.left[r])
  <2>1. t.left[r] \in Node \cup {NoNode} /\ t.left[r] \notin {p, r}
    BY <1>1, <1>2, <1>7, <1>12, <1>14, <1>10 DEF Link
  <2> QED
    BY <1>1, <1>4, <1>5, <1>8, <1>16, <2>1 DEF Sub
<1>21. Sound(u, d, p)
  <2>1. \A m \in Sub(b, x) : Before(m, p)
    BY <1>19
  <2>2. x \in t.nodes \cup {NoNode} /\ y \in t.nodes \cup {NoNode}
    BY <1>4, <1>5
  <2> QED
    BY <1>11, <1>16, <1>18, <1>19, <1>20, <2>1, <2>2 DEF Sound
<1>22. Sound(u, d, r)
  <2>1. Sub(d, p) = {p} \cup Sub(b, x) \cup Sub(b, y)
    BY <1>1, <1>10, <1>16 DEF Sub
  <2>2. Before(r, p)
    BY <1>2, <1>19
  <2>3. \A m \in Sub(d, p) : Before(r, m)
    <3>1. \A m \in Sub(b, y) : m \in Node /\ Before(r, m)
      BY <1>10, <1>19, <2>2, BeforeOrders
    <3> QED
      BY <1>19, <2>1, <2>2, <3>1
  <2>4. t.left[r] \in t.nodes \cup {NoNode}
    BY <1>3 DEF Sound
  <2>5. d[r] = {r} \cup Sub(d, t.left[r]) \cup Sub(d, p)
    BY <1>16, <1>19, <1>20, <2>1
  <2> QED
    BY <1>2, <1>11, <1>18, <1>19, <1>20, <2>3, <2>4, <2>5 DEF Sound
<1>23. Shape(u, d)
  <2>1. \A n \in b[p] : Sound(u, d, n)
    BY <1>17, <1>21, <1>22
  <2>2. u.root = IF p = t.root THEN r ELSE t.root
    BY <1>11, <1>12
  <2>3. u.top[r] = t.top[p]
    BY <1>10, <1>11 DEF q
  <2>4. \A n \in t.nodes \ b[p] : d[n] = b[n]
    BY <1>13, <1>16
  <2> QED
    BY <1>2, <1>11, <1>15, <1>16, <2>1, <2>2, <2>3, <2>4, Rearranged
<1>24. HeightsUpTo(u, d, r)
  <2>2. /\ \A m \in {p, r} : u.height[m] = Fixed(u, m)
        /\ \A m \in Node \ {p, r} : u.height[m] = t.height[m]
    <3>1. /\ u.left[p] = v.left[p] /\ u.right[p] = v.right[p]
          /\ u.left[r] = v.left[r] /\ u.right[r] = v.right[r]
      BY <1>1, <1>2, <1>10, <1>11, <1>12
    <3>2. \A m \in {p, r} : Fixed(u, m) = Fixed(v, m)
      BY <1>11, <3>1 DEF Fixed, Height
    <3> QED
      BY <1>9, <1>10, <1>11, <3>2
  <2>3. ASSUME NEW n \in t.nodes, n \notin {p, r}, p \notin b[n]
        PROVE  GoodHeight(u, d, n)
    <3>1. GoodHeight(t, b, n)
      BY <2>3 DEF HeightsAside
    <3> QED
      BY <1>1, <1>16, <2>2, <2>3, <3>1 DEF GoodHeight
  <2>4. \A c \in {x, y, t.left[r]} \ {NoNode} : GoodHeight(u, d, c)
    <3>1. \A c \in {x, y} \ {NoNode} : c \in t.nodes /\ c \notin {p, r} /\ p \notin b[c]
      BY <1>2, <1>4, <1>5, <1>8
    <3>2. t.left[r] # NoNode => /\ t.left[r] \in t.nodes /\ t.left[r] \notin {p, r}
                                /\ p \notin b[t.left[r]]
      <4>1. SUFFICES ASSUME t.left[r] # NoNode
                     PROVE  /\ t.left[r] \in t.nodes /\ t.left[r] \notin {p, r}
                            /\ p \notin b[t.left[r]]
        OBVIOUS
      <4>2. t.left[r] \in t.nodes /\ b[t.left[r]] \subseteq b[r] /\ t.left[r] \in b[r]
        BY <1>2, <4>1, Child
      <4> QED
        BY <1>2, <1>7, <4>2
    <3> QED
      BY <2>3, <3>1, <3>2
  <2>5. GoodHeight(u, d, p)
    <3>1. \A c \in {u.left[p], u.right[p]} \ {NoNode} : GoodHeight(u, d, c)
      BY <1>18, <2>4
    <3>2. p \in u.nodes
      BY <1>11
    <3> QED
      BY <1>11, <1>23, <2>2, <3>1, <3>2, FixedIsGood DEF GoodHeight, Countable
  <2>6. GoodHeight(u, d, r)
    <3>1. \A c \in {u.left[r], u.right[r]} \ {NoNode} : GoodHeight(u, d, c)
      BY <1>18, <2>4, <2>5
    <3>2. r \in u.nodes
      BY <1>2, <1>11
    <3> QED
      BY <1>11, <1>23, <2>2, <3>1, <3>2, FixedIsGood DEF GoodHeight, Countable
  <2>7. ASSUME NEW n \in t.nodes, n \notin {p, r}, r \notin d[n]
        PROVE  p \notin b[n]
    <3>1. n \in Node /\ d[n] = b[n]
      BY <1>1, <1>16, <2>7
    <3>2. p \in b[n] => b[p] \subseteq b[n]
      BY Nested
    <3> QED
      BY <1>2, <2>7, <3>1, <3>2
  <2>8. \A n \in t.nodes : r \notin d[n] \/ n = r => GoodHeight(u, d, n)
    BY <2>3, <2>5, <2>6, <2>7
  <2> QED
    BY <1>11, <2>8 DEF HeightsUpTo
<1>25. Lifted(t, b, p, r, u)
  <2>1. u.top[r] = t.top[p]
    BY <1>10, <1>11 DEF q
  <2>2. \E e : /\ Shape(u, e)
               /\ e[r] = b[p]
               /\ \A n \in t.nodes \ b[p] : e[n] = b[n]
               /\ HeightsUpTo(u, e, r)
    BY <1>13, <1>16, <1>23, <1>24
  <2> QED
    BY <1>2, <1>11, <1>15, <2>1, <2>2 DEF Lifted
<1> QED
  BY <1>9, <1>25 DEF u, v, q

LEMMA LiftRight ==
  ASSUME NEW t \in Tree, NEW b, Shape(t, b), Countable(t), NEW p \in t.nodes,
         t.right[p] # NoNode, HeightsAside(t, b, p)
  PROVE  LET rotated == RotateRight(t, p) IN
         Lifted(t, b, p, rotated.node,
                Attached(rotated.tree, t.top[p], p, rotated.node))
<1> DEFINE r == t.right[p]
           x == t.left[r]
           y == t.left[p]
           q == t.top[p]
           v == RotateRight(t, p).tree
           u == Attached(v, q, p, r)
           d == [b EXCEPT ![p] = {p} \cup Sub(b, x) \cup Sub(b, y), ![r] = b[p]]
<1>1. /\ t.right \in [Node -> Link] /\ t.left \in [Node -> Link] /\ t.top \in [Node -> Link]
      /\ t.nodes \subseteq Node /\ NoNode \notin Node
      /\ b \in [Node -> SUBSET Node]
  BY RangeAssumption DEF Tree, Shape, Node
<1>2. /\ r \in t.nodes /\ p # r /\ t.top[r] = p /\ r \in b[r] /\ r \in b[p] /\ p \in b[p]
      /\ p \notin b[r] /\ b[r] \subseteq b[p]
  BY Child
<1>3. /\ Sound(t, b, p) /\ Sound(t, b, r)
  BY <1>2 DEF Shape
<1>4. x # NoNode => /\ x \in t.nodes /\ x # r /\ x # p /\ t.top[x] = r
                    /\ x \in b[x] /\ x \in b[r] /\ r \notin b[x] /\ b[x] \subseteq b[r]
  <2>1. SUFFICES ASSUME x # NoNode
                 PROVE  /\ x \in t.nodes /\ x # r /\ x # p /\ t.top[x] = r
                        /\ x \in b[x] /\ x \in b[r] /\ r \notin b[x] /\ b[x] \subseteq b[r]
    OBVIOUS
  <2>2. x \in {t.right[r], t.left[r]} \ {NoNode}
    BY <2>1
  <2> HIDE DEF x, r
  <2>3. /\ x \in t.nodes /\ x # r /\ t.top[x] = r
        /\ x \in b[x] /\ x \in b[r] /\ r \notin b[x] /\ b[x] \subseteq b[r]
    BY <1>2, <2>2, Child
  <2> QED
    BY <1>2, <2>3
<1>5. y # NoNode => /\ y \in t.nodes /\ y # p /\ t.top[y] = p /\ y \in b[y]
                    /\ p \notin b[y] /\ b[y] \subseteq b[p]
  <2>1. SUFFICES ASSUME y # NoNode
                 PROVE  /\ y \in t.nodes /\ y # p /\ t.top[y] = p /\ y \in b[y]
                        /\ p \notin b[y] /\ b[y] \subseteq b[p]
    OBVIOUS
  <2>2. y \in {t.right[p], t.left[p]} \ {NoNode}
    BY <2>1
  <2> HIDE DEF y
  <2> QED
    BY <2>2, Child
<1>6. y # r
  <2>1. r \in Sub(b, r)
    BY <1>1, <1>2 DEF Sub
  <2>2. Before(p, r)
    BY <1>3, <2>1 DEF Sound
  <2>3. ~ Before(r, p)
    BY <1>1, <1>2, <2>2, BeforeOrders
  <2> QED
    BY <1>3, <2>1, <2>3 DEF Sound
<1>7. t.right[r] # r
  BY <1>2, <1>3, <1>1, Child
<1>8. x \notin {p, r} /\ y \notin {p, r}
  BY <1>1, <1>2, <1>4, <1>5, <1>6
<1>9. /\ RotateRight(t, p).node = r
      /\ v \in Tree
      /\ v.root = t.root /\ v.nodes = t.nodes /\ v.leaked = t.leaked
      /\ \A m \in Node :
           /\ v.right[m] = IF m = p THEN x ELSE t.right[m]
           /\ v.left[m] = IF m = r THEN p ELSE t.left[m]
           /\ v.top[m] = IF m = p THEN r ELSE IF m = x THEN p ELSE t.top[m]
           /\ v.height[m] = IF m \in {p, r} THEN Fixed(v, m) ELSE t.height[m]
  <2> HIDE DEF v
  <2> SUFFICES LET w == RotateRight(t, p).tree IN
         /\ RotateRight(t, p).node = r
         /\ w \in Tree
         /\ w.root = t.root /\ w.nodes = t.nodes /\ w.leaked = t.leaked
         /\ \A m \in Node :
              /\ w.right[m] = IF m = p THEN t.left[r] ELSE t.right[m]
              /\ w.left[m] = IF m = r THEN p ELSE t.left[m]
              /\ w.top[m] = IF m = p THEN r ELSE IF m = t.left[r] THEN p ELSE t.top[m]
              /\ w.height[m] = IF m \in {p, r} THEN Fixed(w, m) ELSE t.height[m]
    BY DEF v
  <2> HIDE DEF r
  <2> QED
    BY <1>1, <1>2, <1>7, <1>8, RotateRightLinks DEF r
<1>10. q \in Link /\ r \in Link /\ r # NoNode /\ r \in Node /\ p \in Node
  BY <1>1, <1>2 DEF Link
<1>11. /\ u \in Tree
       /\ u.root = IF q = NoNode THEN r ELSE t.root
       /\ u.nodes = t.nodes /\ u.leaked = t.leaked /\ u.height = v.height
       /\ \A m \in Node :
            /\ u.left[m] = IF m = q /\ v.left[q] = p THEN r ELSE v.left[m]
            /\ u.right[m] = IF m = q /\ v.left[q] # p THEN r ELSE v.right[m]
            /\ u.top[m] = IF m = r THEN q ELSE v.top[m]
  <2> HIDE DEF v, r, q
  <2> QED
    BY <1>9, <1>10, AttachedLinks
<1>12. /\ p = t.root <=> q = NoNode
       /\ p # t.root =>
            /\ q \in t.nodes /\ q # NoNode /\ q # p /\ q \notin b[p]
            /\ p \in {t.right[q], t.left[q]} /\ t.right[q] # t.left[q]
  <2> HIDE DEF q
  <2> QED
    BY Parent DEF q
<1> HIDE DEF u, v, q, x, y, r
<1>13. \A n \in t.nodes \ b[p] : n # p /\ n # r /\ n # x /\ n \in Node
  BY <1>1, <1>2, <1>4
<1>14. \A n \in t.nodes : p \in {t.right[n], t.left[n]} => n = q
  BY <1>1 DEF q, Shape, Sound
<1>15. ASSUME NEW n \in t.nodes \ b[p]
       PROVE  /\ u.right[n] = IF t.right[n] = p THEN r ELSE t.right[n]
              /\ u.left[n] = IF t.left[n] = p THEN r ELSE t.left[n]
              /\ u.top[n] = t.top[n]
  <2>1. v.right[n] = t.right[n] /\ v.left[n] = t.left[n] /\ v.top[n] = t.top[n]
    BY <1>9, <1>13
  <2>2. CASE n = q
    <3>1. p \in {t.right[n], t.left[n]} /\ t.right[n] # t.left[n]
      BY <1>1, <1>12, <2>2
    <3>2. CASE t.right[n] = p
      BY <1>11, <1>13, <2>1, <2>2, <3>1, <3>2
    <3>3. CASE t.left[n] = p
      BY <1>11, <1>13, <2>1, <2>2, <3>1, <3>3
    <3> QED
      BY <3>1, <3>2, <3>3
  <2>3. CASE n # q
    <3>1. p \notin {t.right[n], t.left[n]}
      BY <1>14, <2>3
    <3>2. u.right[n] = v.right[n] /\ u.left[n] = v.left[n] /\ u.top[n] = v.top[n]
      BY <1>11, <1>13, <2>3
    <3> QED
      BY <2>1, <3>1, <3>2
  <2> QED
    BY <2>2, <2>3
<1>16. /\ d \in [Node -> SUBSET Node]
       /\ d[p] = {p} \cup Sub(b, x) \cup Sub(b, y) /\ d[r] = b[p]
       /\ \A n \in Node \ {p, r} : d[n] = b[n]
  <2>1. Sub(b, x) \subseteq Node /\ Sub(b, y) \subseteq Node
    BY <1>1, <1>4, <1>5 DEF Sub
  <2> QED
    BY <1>1, <1>2, <1>10, <2>1
<1> HIDE DEF d
<1>17. ASSUME NEW n \in b[p], n \notin {p, r}
       PROVE  /\ Sound(u, d, n)
              /\ u.right[n] = t.right[n] /\ u.left[n] = t.left[n]
              /\ \A c \in {t.right[n], t.left[n]} : c \notin {p, r}
  <2>1. n \in t.nodes /\ n \in Node /\ Sound(t, b, n) /\ n # q
    BY <1>1, <1>12, Nested DEF Shape, q
  <2>2. ASSUME NEW c \in {t.right[n], t.left[n]} \ {NoNode}
        PROVE  c \notin {p, r, x} /\ c \in Node /\ d[c] = b[c] /\ u.top[c] = n
    <3>1. c \in t.nodes /\ t.top[c] = n /\ c \in Node
      BY <2>1, Child
    <3>2. c # p
      BY <1>14, <2>1
    <3>3. c # r /\ c # x
      BY <1>2, <1>4, <1>17, <3>1
    <3> QED
      BY <1>9, <1>11, <1>16, <3>1, <3>2, <3>3
  <2>3. u.right[n] = t.right[n] /\ u.left[n] = t.left[n] /\ d[n] = b[n]
    BY <1>9, <1>11, <1>16, <1>17, <2>1
  <2>4. Sub(d, t.right[n]) = Sub(b, t.right[n]) /\ Sub(d, t.left[n]) = Sub(b, t.left[n])
    BY <2>2 DEF Sub
  <2>5. Sound(u, d, n)
    <3>1. u.nodes = t.nodes
      BY <1>11
    <3>2. /\ t.right[n] # NoNode => u.top[t.right[n]] = n
          /\ t.left[n] # NoNode => u.top[t.left[n]] = n
      BY <2>2
    <3>3. /\ Sub(d, u.right[n]) = Sub(b, t.right[n])
          /\ Sub(d, u.left[n]) = Sub(b, t.left[n])
      BY <2>3, <2>4
    <3>4. /\ u.right[n] \in u.nodes \cup {NoNode}
          /\ u.left[n] \in u.nodes \cup {NoNode}
          /\ d[n] = {n} \cup Sub(d, u.right[n]) \cup Sub(d, u.left[n])
      BY <2>1, <2>3, <3>1, <3>3 DEF Sound
    <3>5. /\ \A m \in Sub(d, u.right[n]) : Before(n, m)
          /\ \A m \in Sub(d, u.left[n]) : Before(m, n)
      BY <2>1, <3>3 DEF Sound
    <3>6. /\ u.right[n] # NoNode => u.top[u.right[n]] = n
          /\ u.left[n] # NoNode => u.top[u.left[n]] = n
      BY <2>3, <3>2
    <3> QED
      BY <3>4, <3>5, <3>6 DEF Sound
  <2>6. \A c \in {t.right[n], t.left[n]} : c \notin {p, r}
    BY <1>1, <1>10, <2>2
  <2> QED
    BY <2>3, <2>5, <2>6
<1>18. /\ u.right[p] = x /\ u.left[p] = y /\ u.top[p] = r
       /\ u.right[r] = t.right[r] /\ u.left[r] = p
       /\ x # NoNode => u.top[x] = p
       /\ y # NoNode => u.top[y] = p
       /\ t.right[r] # NoNode => u.top[t.right[r]] = r
  <2>1. q \notin {p, r}
    BY <1>1, <1>2, <1>12
  <2>2. /\ u.right[p] = x /\ u.left[p] = y /\ u.top[p] = r
        /\ u.right[r] = t.right[r] /\ u.left[r] = p
    BY <1>2, <1>9, <1>10, <1>11, <2>1 DEF y
  <2>3. (x # NoNode => u.top[x] = p) /\ (y # NoNode => u.top[y] = p)
    BY <1>1, <1>4, <1>5, <1>8, <1>9, <1>11
  <2>4. t.right[r] # NoNode => u.top[t.right[r]] = r
    <3>1. SUFFICES ASSUME t.right[r] # NoNode
                   PROVE  u.top[t.right[r]] = r
      OBVIOUS
    <3>2. t.right[r] \in t.nodes /\ t.top[t.right[r]] = r /\ t.right[r] # r
      BY <1>2, <3>1, Child
    <3>3. t.right[r] # p /\ t.right[r] # x
      <4>1. t.right[r] # p
        BY <1>2, <1>14, <2>1
      <4>2. t.right[r] # x
        <5>1. SUFFICES ASSUME t.right[r] = x
                       PROVE  FALSE
          OBVIOUS
        <5>2. x \in b[x] /\ x # NoNode /\ x \in Node /\ r \in Node
          BY <1>1, <1>4, <1>10, <3>1, <5>1
        <5>3. x \in Sub(b, t.right[r]) /\ x \in Sub(b, t.left[r])
          BY <5>1, <5>2 DEF Sub, x
        <5>4. Before(r, x) /\ Before(x, r)
          BY <1>3, <5>3 DEF Sound
        <5> QED
          BY <5>2, <5>4, BeforeOrders
      <4> QED
        BY <4>1, <4>2
    <3> QED
      BY <1>1, <1>9, <1>11, <3>2, <3>3
  <2> QED
    BY <2>2, <2>3, <2>4
<1>19. /\ \A m \in b[p] : m \in Node
       /\ b[p] = {p} \cup b[r] \cup Sub(b, y)
       /\ b[r] = {r} \cup Sub(b, t.right[r]) \cup Sub(b, x)
       /\ \A m \in b[r] : Before(p, m)
       /\ \A m \in Sub(b, y) : Before(m, p)
       /\ \A m \in Sub(b, t.right[r]) : Before(r, m)
       /\ \A m \in Sub(b, x) : Before(m, r)
  BY <1>1, <1>3, <1>10 DEF Sound, Sub, x, y, r
<1>20. Sub(d, x) = Sub(b, x) /\ Sub(d, y) = Sub(b, y) /\ Sub(d, t.right[r]) = Sub(b, t.right[r])
  <2>1. t.right[r] \in Node \cup {NoNode} /\ t.right[r] \notin {p, r}
    BY <1>1, <1>2, <1>7, <1>12, <1>14, <1>10 DEF Link
  <2> QED
    BY <1>1, <1>4, <1>5, <1>8, <1>16, <2>1 DEF Sub
<1>21. Sound(u, d, p)
  <2>1. \A m \in Sub(b, x) : Before(p, m)
    BY <1>19
  <2>2. x \in t.nodes \cup {NoNode} /\ y \in t.nodes \cup {NoNode}
    BY <1>4, <1>5
  <2> QED
    BY <1>11, <1>16, <1>18, <1>19, <1>20, <2>1, <2>2 DEF Sound
<1>22. Sound(u, d, r)
  <2>1. Sub(d, p) = {p} \cup Sub(b, x) \cup Sub(b, y)
    BY <1>1, <1>10, <1>16 DEF Sub
  <2>2. Before(p, r)
    BY <1>2, <1>19
  <2>3. \A m \in Sub(d, p) : Before(m, r)
    <3>1. \A m \in Sub(b, y) : m \in Node /\ Before(m, r)
      BY <1>10, <1>19, <2>2, BeforeOrders
    <3> QED
      BY <1>19, <2>1, <2>2, <3>1
  <2>4. t.right[r] \in t.nodes \cup {NoNode}
    BY <1>3 DEF Sound
  <2>5. d[r] = {r} \cup Sub(d, t.right[r]) \cup Sub(d, p)
    BY <1>16, <1>19, <1>20, <2>1
  <2> QED
    BY <1>2, <1>11, <1>18, <1>19, <1>20, <2>3, <2>4, <2>5 DEF Sound
<1>23. Shape(u, d)
  <2>1. \A n \in b[p] : Sound(u, d, n)
    BY <1>17, <1>21, <1>22
  <2>2. u.root = IF p = t.root THEN r ELSE t.root
    BY <1>11, <1>12
  <2>3. u.top[r] = t.top[p]
    BY <1>10, <1>11 DEF q
  <2>4. \A n \in t.nodes \ b[p] : d[n] = b[n]
    BY <1>13, <1>16
  <2> QED
    BY <1>2, <1>11, <1>15, <1>16, <2>1, <2>2, <2>3, <2>4, Rearranged
<1>24. HeightsUpTo(u, d, r)
  <2>2. /\ \A m \in {p, r} : u.height[m] = Fixed(u, m)
        /\ \A m \in Node \ {p, r} : u.height[m] = t.height[m]
    <3>1. /\ u.right[p] = v.right[p] /\ u.left[p] = v.left[p]
          /\ u.right[r] = v.right[r] /\ u.left[r] = v.left[r]
      BY <1>1, <1>2, <1>10, <1>11, <1>12
    <3>2. \A m \in {p, r} : Fixed(u, m) = Fixed(v, m)
      BY <1>11, <3>1 DEF Fixed, Height
    <3> QED
      BY <1>9, <1>10, <1>11, <3>2
  <2>3. ASSUME NEW n \in t.nodes, n \notin {p, r}, p \notin b[n]
        PROVE  GoodHeight(u, d, n)
    <3>1. GoodHeight(t, b, n)
      BY <2>3 DEF HeightsAside
    <3> QED
      BY <1>1, <1>16, <2>2, <2>3, <3>1 DEF GoodHeight
  <2>4. \A c \in {x, y, t.right[r]} \ {NoNode} : GoodHeight(u, d, c)
    <3>1. \A c \in {x, y} \ {NoNode} : c \in t.nodes /\ c \notin {p, r} /\ p \notin b[c]
      BY <1>2, <1>4, <1>5, <1>8
    <3>2. t.right[r] # NoNode => /\ t.right[r] \in t.nodes /\ t.right[r] \notin {p, r}
                                /\ p \notin b[t.right[r]]
      <4>1. SUFFICES ASSUME t.right[r] # NoNode
                     PROVE  /\ t.right[r] \in t.nodes /\ t.right[r] \notin {p, r}
                            /\ p \notin b[t.right[r]]
        OBVIOUS
      <4>2. t.right[r] \in t.nodes /\ b[t.right[r]] \subseteq b[r] /\ t.right[r] \in b[r]
        BY <1>2, <4>1, Child
      <4> QED
        BY <1>2, <1>7, <4>2
    <3> QED
      BY <2>3, <3>1, <3>2
  <2>5. GoodHeight(u, d, p)
    <3>1. \A c \in {u.right[p], u.left[p]} \ {NoNode} : GoodHeight(u, d, c)
      BY <1>18, <2>4
    <3>2. p \in u.nodes
      BY <1>11
    <3> QED
      BY <1>11, <1>23, <2>2, <3>1, <3>2, FixedIsGood DEF GoodHeight, Countable
  <2>6. GoodHeight(u, d, r)
    <3>1. \A c \in {u.right[r], u.left[r]} \ {NoNode} : GoodHeight(u, d, c)
      BY <1>18, <2>4, <2>5
    <3>2. r \in u.nodes
      BY <1>2, <1>11
    <3> QED
      BY <1>11, <1>23, <2>2, <3>1, <3>2, FixedIsGood DEF GoodHeight, Countable
  <2>7. ASSUME NEW n \in t.nodes, n \notin {p, r}, r \notin d[n]
        PROVE  p \notin b[n]
    <3>1. n \in Node /\ d[n] = b[n]
      BY <1>1, <1>16, <2>7
    <3>2. p \in b[n] => b[p] \subseteq b[n]
      BY Nested
    <3> QED
      BY <1>2, <2>7, <3>1, <3>2
  <2>8. \A n \in t.nodes : r \notin d[n] \/ n = r => GoodHeight(u, d, n)
    BY <2>3, <2>5, <2>6, <2>7
  <2> QED
    BY <1>11, <2>8 DEF HeightsUpTo
<1>25. Lifted(t, b, p, r, u)
  <2>1. u.top[r] = t.top[p]
    BY <1>10, <1>11 DEF q
  <2>2. \E e : /\ Shape(u, e)
               /\ e[r] = b[p]
               /\ \A n \in t.nodes \ b[p] : e[n] = b[n]
               /\ HeightsUpTo(u, e, r)
    BY <1>13, <1>16, <1>23, <1>24
  <2> QED
    BY <1>2, <1>11, <1>15, <2>1, <2>2 DEF Lifted
<1> QED
  BY <1>9, <1>25 DEF u, v, q

-----------------------------------------------------------------------------
(***************************************************************************)
(* balance()                                                               *)
(***************************************************************************)
\* The shape is a matter of the links alone.
LEMMA SameLinks ==
  ASSUME NEW t, NEW b, Shape(t, b), NEW u,
         u.root = t.root, u.nodes = t.nodes, u.top = t.top,
         u.left = t.left, u.right = t.right
  PROVE  Shape(u, b)
BY DEF Shape, Sound

\* b_factor() tells which child there is.
LEMMA FactorTells ==
  ASSUME NEW t \in Tree, NEW b, Shape(t, b), Countable(t), NEW n \in t.nodes,
         \A c \in {t.left[n], t.right[n]} \ {NoNode} : GoodHeight(t, b, c)
  PROVE  /\ Factor(t, n) > 0 => t.left[n] # NoNode
         /\ Factor(t, n) < 0 => t.right[n] # NoNode
<1>1. ASSUME NEW c \in {t.left[n], t.right[n]}
      PROVE  Height(t, c) \in 0 .. HeightMax /\ (c = NoNode => Height(t, c) = 0)
  <2>1. CASE c = NoNode
    BY <2>1, HeightAssumption DEF Height
  <2>2. CASE c # NoNode
    <3>1. t.height[c] \in 0 .. Cardinality(b[c]) /\ b[c] \in SUBSET Node
      BY <2>2, Child DEF GoodHeight, Shape
    <3>2. Cardinality(b[c]) \in Nat /\ Cardinality(b[c]) <= HeightMax
      BY <2>2, Child, SubtreeCounted
    <3> QED
      BY <2>2, <3>1, <3>2, HeightAssumption DEF Height
  <2> QED
    BY <2>1, <2>2
<1> DEFINE hl == Height(t, t.left[n])
           hr == Height(t, t.right[n])
<1>2. /\ hl \in 0 .. HeightMax /\ hr \in 0 .. HeightMax
      /\ t.left[n] = NoNode => hl = 0
      /\ t.right[n] = NoNode => hr = 0
  BY <1>1
<1>3. n # NoNode
  BY RangeAssumption DEF Shape, Node
<1>4. Factor(t, n) = ToInt8(hl - hr)
  BY <1>3 DEF Factor
<1> HIDE DEF hl, hr
<1>5. hl - hr \in Int8 /\ hl - hr \in Int
  BY <1>2, HeightAssumption DEF Int8
<1>6. Factor(t, n) = hl - hr
  BY <1>4, <1>5, ToInt8Facts
<1> QED
  BY <1>2, <1>6

\* What is lifted to the place of p in w, which differs from t below p only, is
\* lifted there in t.
LEMMA LiftedAgain ==
  ASSUME NEW t, NEW b, Shape(t, b), NEW p \in t.nodes,
         NEW w, w.nodes = t.nodes, w.leaked = t.leaked, w.top[p] = t.top[p],
         \A n \in t.nodes \ b[p] : /\ w.left[n] = t.left[n]
                                   /\ w.right[n] = t.right[n]
                                   /\ w.top[n] = t.top[n],
         NEW d, d[p] = b[p], \A n \in t.nodes \ b[p] : d[n] = b[n],
         NEW r, NEW u, Lifted(w, d, p, r, u)
  PROVE  Lifted(t, b, p, r, u)
<1>1. PICK e : /\ Shape(u, e)
               /\ e[r] = d[p]
               /\ \A n \in w.nodes \ d[p] : e[n] = d[n]
               /\ HeightsUpTo(u, e, r)
  BY DEF Lifted
<1>2. \E f : /\ Shape(u, f)
             /\ f[r] = b[p]
             /\ \A n \in t.nodes \ b[p] : f[n] = b[n]
             /\ HeightsUpTo(u, f, r)
  BY <1>1
<1> QED
  BY <1>2 DEF Lifted

\* What is good but for the ancestors of x, is good but for those of its parent.
LEMMA ParentAside ==
  ASSUME NEW t, NEW b, Shape(t, b), NEW x \in t.nodes, x # t.root,
         HeightsUpTo(t, b, x)
  PROVE  HeightsAside(t, b, t.top[x])
<1>1. SUFFICES ASSUME NEW n \in t.nodes, t.top[x] \notin b[n]
               PROVE  x \notin b[n] \/ n = x
  BY DEF HeightsUpTo, HeightsAside
<1> QED
  BY <1>1, Nested

\* The left child of p is lifted, after a left-heavy p has had its right child
\* rotated.
LEMMA LiftLeftTwice ==
  ASSUME NEW t \in Tree, NEW b, Shape(t, b), Countable(t), NEW p \in t.nodes,
         t.left[p] # NoNode, t.right[p] # NoNode, t.right[t.right[p]] # NoNode,
         HeightsAside(t, b, p)
  PROVE  LET inner   == RotateRight(t, t.right[p])
             w       == SetRight(inner.tree, p, inner.node)
             rotated == RotateLeft(w, p)
         IN  Lifted(t, b, p, rotated.node,
                    Attached(rotated.tree, t.top[p], p, rotated.node))
<1> DEFINE i == t.right[p]
           v == RotateRight(t, i).tree
           c == RotateRight(t, i).node
           w == SetRight(v, p, c)
           x == Attached(v, t.top[i], i, c)
<1>1. /\ i \in t.nodes /\ t.top[i] = p /\ p \notin b[i] /\ b[i] \subseteq b[p]
      /\ p \in Node /\ p # i /\ p # NoNode /\ p \in b[p]
  BY Child, RangeAssumption DEF Shape, Node
<1>2. HeightsAside(t, b, i)
  <2>1. \A n \in t.nodes : i \notin b[n] => p \notin b[n]
    BY <1>1, Nested
  <2> QED
    BY <2>1 DEF HeightsAside
<1>3. Lifted(t, b, i, c, x)
  <2> HIDE DEF i
  <2> QED
    BY <1>1, <1>2, LiftRight DEF i
<1>4. x = w
  <2>1. x = ReplaceChild(v, p, i, c)
    BY <1>1 DEF Attached
  <2>2. i # v.left[p]
    <3>1. i # t.left[p]
      BY <1>1, Parent
    <3>2. v.left[p] = t.left[p]
      <4>1. /\ t.right[i] \in t.nodes /\ t.right[i] # i /\ t.right[i] \in b[i]
            /\ t.right[i] # p
        BY <1>1, Child
      <4>2. t.left[t.right[i]] \notin {i, t.right[i]} /\ t.left[i] \notin {i, t.right[i]}
        <5>1. \A k \in {t.left[t.right[i]], t.left[i]} \ {NoNode} : k \in t.nodes /\ b[k] \subseteq b[i]
          BY <1>1, <4>1, Child
        <5>2. i \notin b[t.right[i]] /\ t.right[i] \in b[t.right[i]]
          BY <1>1, Child
        <5>3. t.left[t.right[i]] # NoNode =>
                /\ t.right[i] \notin b[t.left[t.right[i]]]
                /\ t.left[t.right[i]] \in b[t.right[i]]
                /\ t.left[t.right[i]] \in b[t.left[t.right[i]]]
          BY <4>1, Child
        <5>4. t.left[i] # NoNode => t.left[i] # i
          BY <1>1, Child
        <5>5. t.left[i] # t.right[i]
          <6>1. t.top[t.right[i]] = i /\ t.right[i] # t.root
            BY <1>1, <4>1, Child, Parent, RangeAssumption DEF Shape, Node
          <6> QED
            BY <4>1, <6>1, Parent
        <5>6. i # NoNode /\ t.right[i] # NoNode
          BY <1>1, RangeAssumption DEF Shape, Node
        <5> QED
          BY <5>2, <5>3, <5>4, <5>5, <5>6
      <4>3. \A m \in Node : v.left[m] = IF m = t.right[i] THEN i ELSE t.left[m]
        <5> DEFINE r == t.right[i]
        <5>1. i \in Node /\ r \in Node /\ r = t.right[i] /\ i # r /\ t.left[r] \notin {i, r}
              /\ t.left[i] \notin {i, r} /\ t.right[r] # r
          <6>1. t.right[r] # NoNode => t.right[r] # r
            BY <4>1, Child
          <6> QED
            BY <1>1, <4>1, <4>2, <6>1, RangeAssumption DEF Shape, Node
        <5> HIDE DEF r, i
        <5> QED
          BY <5>1, RotateRightLinks
      <4> QED
        BY <1>1, <4>1, <4>3
    <3> QED
      BY <3>1, <3>2
  <2> QED
    BY <2>1, <2>2 DEF ReplaceChild
<1> HIDE DEF i, v, c, w, x
<1>5. PICK d : /\ Shape(w, d)
               /\ d[c] = b[i]
               /\ \A n \in t.nodes \ b[i] : d[n] = b[n]
               /\ HeightsUpTo(w, d, c)
  BY <1>3, <1>4 DEF Lifted
<1>6. /\ w \in Tree /\ w.nodes = t.nodes /\ w.leaked = t.leaked /\ c \in w.nodes
      /\ w.top[c] = p
      /\ w.left[p] = t.left[p] /\ w.top[p] = t.top[p] /\ d[p] = b[p]
  <2>1. t.left[p] # i
    BY <1>1, Parent DEF i
  <2> QED
    BY <1>1, <1>3, <1>4, <1>5, <2>1 DEF Lifted
<1>7. HeightsAside(w, d, p)
  <2>1. c # w.root
    BY <1>1, <1>5, <1>6 DEF Shape
  <2> QED
    BY <1>5, <1>6, <2>1, ParentAside
<1>8. Lifted(w, d, p, RotateLeft(w, p).node,
             Attached(RotateLeft(w, p).tree, t.top[p], p, RotateLeft(w, p).node))
  BY <1>5, <1>6, <1>7, LiftLeft DEF Countable
<1>9. \A n \in t.nodes \ b[p] : /\ w.left[n] = t.left[n]
                                /\ w.right[n] = t.right[n]
                                /\ w.top[n] = t.top[n]
                                /\ d[n] = b[n]
  <2>1. SUFFICES ASSUME NEW n \in t.nodes \ b[p]
                 PROVE  /\ w.left[n] = t.left[n]
                        /\ w.right[n] = t.right[n]
                        /\ w.top[n] = t.top[n]
                        /\ d[n] = b[n]
    OBVIOUS
  <2>2. n \notin b[i] /\ n # p
    BY <1>1
  <2>3. i \notin {t.left[n], t.right[n]}
    BY <1>1, <2>2, RangeAssumption DEF Shape, Sound, Node
  <2> QED
    BY <1>3, <1>4, <1>5, <2>2, <2>3 DEF Lifted
<1>10. Lifted(t, b, p, RotateLeft(w, p).node,
              Attached(RotateLeft(w, p).tree, t.top[p], p, RotateLeft(w, p).node))
  BY <1>6, <1>8, <1>9, LiftedAgain
<1> QED
  BY <1>10 DEF w, v, c, i

\* The right child of p is lifted, after a right-heavy p has had its left child
\* rotated.
LEMMA LiftRightTwice ==
  ASSUME NEW t \in Tree, NEW b, Shape(t, b), Countable(t), NEW p \in t.nodes,
         t.right[p] # NoNode, t.left[p] # NoNode, t.left[t.left[p]] # NoNode,
         HeightsAside(t, b, p)
  PROVE  LET inner   == RotateLeft(t, t.left[p])
             w       == SetLeft(inner.tree, p, inner.node)
             rotated == RotateRight(w, p)
         IN  Lifted(t, b, p, rotated.node,
                    Attached(rotated.tree, t.top[p], p, rotated.node))
<1> DEFINE i == t.left[p]
           v == RotateLeft(t, i).tree
           c == RotateLeft(t, i).node
           w == SetLeft(v, p, c)
           x == Attached(v, t.top[i], i, c)
<1>1. /\ i \in t.nodes /\ t.top[i] = p /\ p \notin b[i] /\ b[i] \subseteq b[p]
      /\ p \in Node /\ p # i /\ p # NoNode /\ p \in b[p]
  BY Child, RangeAssumption DEF Shape, Node
<1>2. HeightsAside(t, b, i)
  <2>1. \A n \in t.nodes : i \notin b[n] => p \notin b[n]
    BY <1>1, Nested
  <2> QED
    BY <2>1 DEF HeightsAside
<1>3. Lifted(t, b, i, c, x)
  <2> HIDE DEF i
  <2> QED
    BY <1>1, <1>2, LiftLeft DEF i
<1>4. x = w
  <2>1. x = ReplaceChild(v, p, i, c)
    BY <1>1 DEF Attached
  <2>2. i = v.left[p]
    <3> DEFINE r == t.left[i]
    <3>1. r \in t.nodes /\ r # i /\ r \in b[i] /\ r # p /\ i \notin b[r] /\ r \in b[r]
      BY <1>1, Child
    <3>2. t.right[r] \notin {i, r} /\ t.left[r] # r /\ t.right[i] \notin {i, r}
      <4>1. t.right[r] # NoNode => t.right[r] # r /\ t.right[r] \in b[r]
        BY <3>1, Child
      <4>2. t.left[r] # NoNode => t.left[r] # r
        BY <3>1, Child
      <4>3. t.right[i] # NoNode => t.right[i] # i
        BY <1>1, Child
      <4>4. t.right[i] # r
        <5>1. t.top[r] = i /\ r # t.root
          BY <1>1, <3>1, Child, Parent, RangeAssumption DEF Shape, Node
        <5> QED
          BY <3>1, <5>1, Parent
      <4>5. i # NoNode /\ r # NoNode
        BY <1>1, <3>1, RangeAssumption DEF Shape, Node
      <4> QED
        BY <3>1, <4>1, <4>2, <4>3, <4>4, <4>5
    <3>3. i \in Node /\ r \in Node /\ r = t.left[i]
      BY <1>1, <3>1 DEF Shape
    <3> HIDE DEF r, i
    <3>4. v.left[p] = t.left[p]
      BY <1>1, <3>1, <3>2, <3>3, RotateLeftLinks
    <3> QED
      BY <3>4 DEF i
  <2> QED
    BY <2>1, <2>2 DEF ReplaceChild
<1> HIDE DEF i, v, c, w, x
<1>5. PICK d : /\ Shape(w, d)
               /\ d[c] = b[i]
               /\ \A n \in t.nodes \ b[i] : d[n] = b[n]
               /\ HeightsUpTo(w, d, c)
  BY <1>3, <1>4 DEF Lifted
<1>6. /\ w \in Tree /\ w.nodes = t.nodes /\ w.leaked = t.leaked /\ c \in w.nodes
      /\ w.top[c] = p
      /\ w.right[p] = t.right[p] /\ w.top[p] = t.top[p] /\ d[p] = b[p]
  <2>1. t.right[p] # i
    BY <1>1, Parent DEF i
  <2> QED
    BY <1>1, <1>3, <1>4, <1>5, <2>1 DEF Lifted
<1>7. HeightsAside(w, d, p)
  <2>1. c # w.root
    BY <1>1, <1>5, <1>6 DEF Shape
  <2> QED
    BY <1>5, <1>6, <2>1, ParentAside
<1>8. Lifted(w, d, p, RotateRight(w, p).node,
             Attached(RotateRight(w, p).tree, t.top[p], p, RotateRight(w, p).node))
  BY <1>5, <1>6, <1>7, LiftRight DEF Countable
<1>9. \A n \in t.nodes \ b[p] : /\ w.right[n] = t.right[n]
                                /\ w.left[n] = t.left[n]
                                /\ w.top[n] = t.top[n]
                                /\ d[n] = b[n]
  <2>1. SUFFICES ASSUME NEW n \in t.nodes \ b[p]
                 PROVE  /\ w.right[n] = t.right[n]
                        /\ w.left[n] = t.left[n]
                        /\ w.top[n] = t.top[n]
                        /\ d[n] = b[n]
    OBVIOUS
  <2>2. n \notin b[i] /\ n # p
    BY <1>1
  <2>3. i \notin {t.right[n], t.left[n]}
    BY <1>1, <2>2, RangeAssumption DEF Shape, Sound, Node
  <2> QED
    BY <1>3, <1>4, <1>5, <2>2, <2>3 DEF Lifted
<1>10. Lifted(t, b, p, RotateRight(w, p).node,
              Attached(RotateRight(w, p).tree, t.top[p], p, RotateRight(w, p).node))
  BY <1>6, <1>8, <1>9, LiftedAgain
<1> QED
  BY <1>10 DEF w, v, c, i

\* balance() lifts a node to the place of p, if it is p itself.
LEMMA BalanceLifts ==
  ASSUME NEW t \in Tree, NEW b, Shape(t, b), Countable(t), NEW p \in t.nodes,
         HeightsAside(t, b, p)
  PROVE  LET balanced == Balance(t, p) IN
         Lifted(t, b, p, balanced.node,
                Attached(balanced.tree, t.top[p], p, balanced.node))
<1> DEFINE f == FixHeight(t, p)
           i == IF Factor(f, p) = 2 THEN f.right[p] ELSE f.left[p]
           r == Balance(t, p)
           Hung(x) == Lifted(f, b, p, x.node, Attached(x.tree, t.top[p], p, x.node))
<1>1. /\ p \in Node /\ NoNode \notin Node /\ t.nodes \subseteq Node
      /\ t.top[p] \in Link /\ p \in Link /\ p # NoNode
  BY RangeAssumption DEF Shape, Node, Tree, Link
<1>2. /\ f \in Tree
      /\ f.root = t.root /\ f.nodes = t.nodes /\ f.leaked = t.leaked
      /\ f.top = t.top /\ f.left = t.left /\ f.right = t.right
      /\ f.height = [t.height EXCEPT ![p] = Fixed(t, p)]
  BY <1>1, FixHeightLinks
<1> HIDE DEF f
<1>3. Shape(f, b) /\ Countable(f)
  BY <1>2, SameLinks DEF Countable
<1>4. HeightsUpTo(f, b, p)
  <2>1. \A c \in {t.left[p], t.right[p]} \ {NoNode} : GoodHeight(t, b, c)
    BY Child DEF HeightsAside
  <2>2. Fixed(t, p) \in 0 .. Cardinality(b[p])
    BY <2>1, FixedIsGood
  <2>3. \A n \in t.nodes : f.height[n] = IF n = p THEN Fixed(t, p) ELSE t.height[n]
    BY <1>1, <1>2 DEF Tree
  <2> QED
    BY <1>2, <2>2, <2>3 DEF HeightsUpTo, HeightsAside, GoodHeight
<1>5. HeightsAside(f, b, p)
  BY <1>4 DEF HeightsUpTo, HeightsAside
<1>6. /\ Factor(f, p) > 0 => f.left[p] # NoNode
      /\ Factor(f, p) < 0 => f.right[p] # NoNode
  <2>1. \A c \in {f.left[p], f.right[p]} \ {NoNode} : GoodHeight(f, b, c)
    BY <1>2, <1>3, <1>5, Child DEF HeightsAside
  <2> QED
    BY <1>2, <1>3, <2>1, FactorTells
<1>7. i # NoNode =>
        /\ Factor(f, i) > 0 => f.left[i] # NoNode
        /\ Factor(f, i) < 0 => f.right[i] # NoNode
  <2>1. SUFFICES ASSUME i # NoNode
                 PROVE  /\ Factor(f, i) > 0 => f.left[i] # NoNode
                        /\ Factor(f, i) < 0 => f.right[i] # NoNode
    OBVIOUS
  <2>2. i \in {f.left[p], f.right[p]} \ {NoNode}
    BY <2>1
  <2> HIDE DEF i
  <2>3. i \in f.nodes /\ p \notin b[i]
    BY <1>2, <1>3, <2>2, Child
  <2>4. ASSUME NEW c \in {f.left[i], f.right[i]} \ {NoNode}
        PROVE  GoodHeight(f, b, c)
    <3>1. c \in f.nodes /\ b[c] \subseteq b[i]
      BY <1>3, <2>3, Child
    <3> QED
      BY <1>5, <2>3, <3>1 DEF HeightsAside
  <2> QED
    BY <1>2, <1>3, <2>3, <2>4, FactorTells
<1>8. Factor(f, NoNode) = 0
  BY DEF Factor
<1>9. Factor(f, p) \in Int /\ Factor(f, i) \in Int
  <2>1. \A c \in Link : Height(f, c) \in Int
    BY <1>2, HeightAssumption DEF Height, Tree, Int8, Link
  <2>2. \A n \in Node : Factor(f, n) \in Int
    <3>1. ASSUME NEW n \in Node
          PROVE  Height(f, f.left[n]) - Height(f, f.right[n]) \in Int
      BY <1>2, <2>1 DEF Tree
    <3>2. \A k \in Int : ToInt8(k) \in Int
      BY ToInt8Facts, HeightAssumption DEF Int8
    <3> QED
      BY <3>1, <3>2 DEF Factor
  <2>3. i \in Link
    BY <1>1, <1>2 DEF Tree
  <2> QED
    BY <1>1, <1>8, <2>2, <2>3 DEF Link
<1>10. ASSUME Hung(r)
       PROVE  Lifted(t, b, p, r.node, Attached(r.tree, t.top[p], p, r.node))
  <2> HIDE DEF r
  <2> QED
    BY <1>2, <1>10, LiftedAgain
<1>11. CASE Factor(f, p) = 2 /\ Factor(f, i) < 0
  <2>1. f.left[p] # NoNode /\ f.right[p] # NoNode /\ f.right[f.right[p]] # NoNode
    BY <1>6, <1>7, <1>8, <1>11
  <2> DEFINE inner == RotateRight(f, f.right[p])
  <2>2. r = RotateLeft(SetRight(inner.tree, p, inner.node), p)
    BY <1>9, <1>11 DEF Balance, f
  <2> HIDE DEF r
  <2>3. Hung(r)
    BY <1>2, <1>3, <1>5, <2>1, <2>2, LiftLeftTwice
  <2> QED
    BY <1>10, <2>3 DEF r
<1>12. CASE Factor(f, p) = 2 /\ Factor(f, i) >= 0
  <2>1. f.left[p] # NoNode
    BY <1>6, <1>12
  <2>2. r = RotateLeft(f, p)
    BY <1>9, <1>12 DEF Balance, f
  <2> HIDE DEF r
  <2>3. Hung(r)
    BY <1>2, <1>3, <1>5, <2>1, <2>2, LiftLeft
  <2> QED
    BY <1>10, <2>3 DEF r
<1>13. CASE Factor(f, p) = -2 /\ Factor(f, i) > 0
  <2>1. f.right[p] # NoNode /\ f.left[p] # NoNode /\ f.left[f.left[p]] # NoNode
    BY <1>6, <1>7, <1>8, <1>13
  <2> DEFINE inner == RotateLeft(f, f.left[p])
  <2>2. r = RotateRight(SetLeft(inner.tree, p, inner.node), p)
    BY <1>9, <1>13 DEF Balance, f
  <2> HIDE DEF r
  <2>3. Hung(r)
    BY <1>2, <1>3, <1>5, <2>1, <2>2, LiftRightTwice
  <2> QED
    BY <1>10, <2>3 DEF r
<1>14. CASE Factor(f, p) = -2 /\ Factor(f, i) <= 0
  <2>1. f.right[p] # NoNode
    BY <1>6, <1>14
  <2>2. r = RotateRight(f, p)
    BY <1>9, <1>14 DEF Balance, f
  <2> HIDE DEF r
  <2>3. Hung(r)
    BY <1>2, <1>3, <1>5, <2>1, <2>2, LiftRight
  <2> QED
    BY <1>10, <2>3 DEF r
<1>15. CASE Factor(f, p) \notin {2, -2}
  <2> DEFINE q == t.top[p]
             u == Attached(f, q, p, p)
  <2>1. r = [node |-> p, tree |-> f]
    BY <1>15 DEF Balance, f
  <2>2. /\ u \in Tree
        /\ u.root = IF q = NoNode THEN p ELSE f.root
        /\ u.nodes = f.nodes /\ u.leaked = f.leaked /\ u.height = f.height
        /\ \A m \in Node :
             /\ u.left[m] = IF m = q /\ f.left[q] = p THEN p ELSE f.left[m]
             /\ u.right[m] = IF m = q /\ f.left[q] # p THEN p ELSE f.right[m]
             /\ u.top[m] = IF m = p THEN q ELSE f.top[m]
    <3>1. q \in Link /\ f \in Tree /\ p \in Node /\ p \in Link
      BY <1>1, <1>2
    <3>2. q = NoNode => p # NoNode
      BY <1>1
    <3> HIDE DEF q
    <3> QED
      BY <3>1, <3>2, AttachedLinks
  <2> HIDE DEF u
  <2>3. /\ p = f.root <=> q = NoNode
        /\ q # NoNode => p \in {f.left[q], f.right[q]}
    BY <1>2, <1>3, Parent
  <2>4. u.left = f.left /\ u.right = f.right /\ u.top = f.top /\ u.root = f.root
    <3>1. \A m \in Node : /\ u.left[m] = f.left[m] /\ u.right[m] = f.right[m]
                          /\ u.top[m] = f.top[m]
      BY <1>1, <1>2, <2>2, <2>3
    <3> QED
      BY <1>2, <2>2, <2>3, <3>1 DEF Tree
  <2>5. Shape(u, b)
    BY <1>3, <2>2, <2>4, SameLinks
  <2>6. HeightsUpTo(u, b, p)
    BY <1>4, <2>2 DEF HeightsUpTo, GoodHeight
  <2>7. Lifted(f, b, p, p, u)
    BY <1>2, <2>2, <2>4, <2>5, <2>6 DEF Lifted
  <2>8. Hung(r)
    <3>1. r.node = p /\ Attached(r.tree, q, p, r.node) = u
      BY <2>1 DEF u
    <3> HIDE DEF r
    <3> QED
      BY <2>7, <3>1
  <2> QED
    BY <1>10, <2>8
<1>16. \/ Factor(f, p) = 2 /\ Factor(f, i) < 0
       \/ Factor(f, p) = 2 /\ Factor(f, i) >= 0
       \/ Factor(f, p) = -2 /\ Factor(f, i) > 0
       \/ Factor(f, p) = -2 /\ Factor(f, i) <= 0
       \/ Factor(f, p) \notin {2, -2}
  <2> HIDE DEF i
  <2> QED
    BY <1>9
<1> QED
  BY <1>11, <1>12, <1>13, <1>14, <1>15, <1>16

-----------------------------------------------------------------------------
(***************************************************************************)
(* The loops over the tree                                                 *)
(***************************************************************************)
\* The subtrees of a search tree are the sets that Below() collects.
LEMMA BelowIs ==
  ASSUME NEW t \in Tree, NEW b, Shape(t, b), NEW n \in t.nodes
  PROVE  Below(t, n) = b[n]
<1> DEFINE turn   == [ns \in SUBSET Node |-> ns \cup Children(t, ns)]
           States == { s \in SUBSET Node : n \in s /\ s \subseteq b[n] }
           Over   == { s \in States : Children(t, s) \subseteq s }
           ahead  == [s \in States |-> b[n] \ s]
<1>1. /\ n \in Node /\ NoNode \notin Node /\ n \in b[n] /\ b[n] \in SUBSET Node
      /\ b[n] \subseteq t.nodes
  BY Nested, RangeAssumption DEF Shape, Node
<1>2. ASSUME NEW s \in States
      PROVE  Children(t, s) \subseteq b[n]
  <2>1. \A m \in s : \A c \in {t.left[m], t.right[m]} \ {NoNode} : c \in b[n]
    <3>1. SUFFICES ASSUME NEW m \in s, NEW c \in {t.left[m], t.right[m]} \ {NoNode}
                   PROVE  c \in b[n]
      OBVIOUS
    <3>2. m \in t.nodes /\ b[m] \subseteq b[n]
      BY <1>1, Nested
    <3>3. c \in b[m]
      BY <3>2, Child
    <3> QED
      BY <3>2, <3>3
  <2> QED
    BY <2>1 DEF Children
<1>3. \A s \in States :
        /\ turn[s] \in States
        /\ s \in Over => turn[s] \in Over
        /\ s \notin Over => Narrower(ahead[turn[s]], ahead[s])
  <2>1. SUFFICES ASSUME NEW s \in States
                 PROVE  /\ turn[s] \in States
                        /\ s \in Over => turn[s] \in Over
                        /\ s \notin Over => Narrower(ahead[turn[s]], ahead[s])
    OBVIOUS
  <2>2. turn[s] = s \cup Children(t, s) /\ Children(t, s) \subseteq b[n]
    BY <1>2
  <2>3. turn[s] \in States
    BY <1>1, <2>2
  <2>4. s \in Over => turn[s] = s
    BY <2>2
  <2>5. ASSUME s \notin Over
        PROVE  Narrower(ahead[turn[s]], ahead[s])
    <3>1. ahead[s] = b[n] \ s /\ ahead[turn[s]] = b[n] \ (s \cup Children(t, s))
      BY <2>2, <2>3
    <3>2. PICK c \in Children(t, s) : c \notin s
      BY <2>5
    <3> QED
      BY <2>2, <3>1, <3>2 DEF Narrower
  <2> QED
    BY <2>3, <2>4, <2>5
<1> DEFINE start == {n}
           r     == Loop(turn, start)
<1>4. start \in States /\ ahead \in [States -> SUBSET Node]
  BY <1>1
<1>5. r \in States \cap Over
  <2> HIDE DEF turn, States, Over, ahead, start
  <2> QED
    BY <1>3, <1>4, LoopEnds
<1> HIDE DEF turn, r
<1>6. b[n] \subseteq r
  <2> DEFINE Good == { k \in t.nodes : k \in r => b[k] \subseteq r }
  <2>1. ASSUME NEW k \in t.nodes,
               \A c \in {t.left[k], t.right[k]} \ {NoNode} : c \in Good
        PROVE  k \in Good
    <3>1. SUFFICES ASSUME k \in r
                   PROVE  b[k] \subseteq r
      OBVIOUS
    <3>2. \A c \in {t.left[k], t.right[k]} \ {NoNode} : c \in r
      BY <1>5, <3>1 DEF Children
    <3>3. b[k] = {k} \cup Sub(b, t.left[k]) \cup Sub(b, t.right[k])
      BY DEF Shape, Sound
    <3> QED
      BY <2>1, <3>1, <3>2, <3>3 DEF Sub
  <2> HIDE DEF Good
  <2>2. t.nodes \subseteq Good
    BY <2>1, BottomUp
  <2> QED
    BY <1>5, <2>2 DEF Good
<1>7. Below(t, n) = r
  BY <1>1 DEF Below, r, turn
<1> QED
  BY <1>5, <1>6, <1>7

\* The leftmost node of a subtree comes before all others of it.
LEMMA LeftMostIs ==
  ASSUME NEW t \in Tree, NEW b, Shape(t, b), NEW n \in t.nodes
  PROVE  /\ LeftMost(t, n) \in b[n]
         /\ t.left[LeftMost(t, n)] = NoNode
         /\ \A x \in b[n] : x = LeftMost(t, n) \/ Before(LeftMost(t, n), x)
<1> DEFINE turn   == [m \in Node |-> IF t.left[m] = NoNode THEN m ELSE t.left[m]]
           States == { m \in b[n] : \A x \in b[n] \ b[m] : \A y \in b[m] : Before(y, x) }
           Over   == { m \in States : t.left[m] = NoNode }
           ahead  == [m \in States |-> b[m]]
<1>1. /\ n \in Node /\ n \in b[n] /\ b[n] \in SUBSET Node /\ b[n] \subseteq t.nodes
  BY Nested DEF Shape
<1>2. ASSUME NEW m \in States
      PROVE  /\ m \in Node /\ m \in t.nodes
             /\ m \in Over => turn[m] = m
             /\ m \notin Over => /\ turn[m] \in States
                                 /\ b[turn[m]] \subseteq b[m]
                                 /\ b[turn[m]] # b[m]
  <2>1. m \in t.nodes /\ m \in Node /\ b[m] \subseteq b[n] /\ b[m] \in SUBSET Node
    BY <1>1, Nested DEF Shape
  <2>2. ASSUME m \notin Over
        PROVE  /\ turn[m] \in States
               /\ b[turn[m]] \subseteq b[m]
               /\ b[turn[m]] # b[m]
    <3> DEFINE c == t.left[m]
    <3>1. turn[m] = c /\ c # NoNode
      BY <2>1, <2>2
    <3>2. c \in t.nodes /\ c \in b[m] /\ b[c] \subseteq b[m] /\ b[c] # b[m]
      BY <2>1, <3>1, Child
    <3>3. /\ b[m] = {m} \cup b[c] \cup Sub(b, t.right[m])
          /\ \A y \in b[c] : Before(y, m)
          /\ \A x \in Sub(b, t.right[m]) : Before(m, x)
      BY <2>1, <3>1 DEF Shape, Sound, Sub
    <3> HIDE DEF c
    <3>4. \A x \in b[n] \ b[c] : \A y \in b[c] : Before(y, x)
      BY <2>1, <3>2, <3>3, BeforeOrders
    <3> HIDE DEF turn
    <3> QED
      BY <2>1, <3>1, <3>2, <3>4
  <2> QED
    BY <2>1, <2>2
<1>3. \A m \in States :
        /\ turn[m] \in States
        /\ m \in Over => turn[m] \in Over
        /\ m \notin Over => Narrower(ahead[turn[m]], ahead[m])
  <2> HIDE DEF turn
  <2> QED
    BY <1>2 DEF Narrower
<1>4. n \in States /\ ahead \in [States -> SUBSET Node]
  BY <1>1 DEF Shape
<1>5. Loop(turn, n) \in States \cap Over
  <2> HIDE DEF turn, States, Over, ahead
  <2> QED
    BY <1>3, <1>4, LoopEnds
<1>6. Loop(turn, n) = LeftMost(t, n)
  BY DEF LeftMost
<1> DEFINE m == LeftMost(t, n)
<1> HIDE DEF m, turn
<1>7. m \in b[n] /\ m \in t.nodes /\ m \in b[m] /\ t.left[m] = NoNode
  BY <1>1, <1>5, <1>6, Nested DEF m
<1>8. ASSUME NEW x \in b[n]
      PROVE  x = m \/ Before(m, x)
  <2>1. x \notin b[m] => Before(m, x)
    BY <1>5, <1>6, <1>7 DEF m
  <2>2. x \in b[m] => x = m \/ x \in Sub(b, t.right[m])
    BY <1>7 DEF Shape, Sound, Sub
  <2> QED
    BY <1>7, <2>1, <2>2 DEF Shape, Sound
<1> QED
  BY <1>7, <1>8 DEF m

\* The rightmost node of a subtree comes after all others of it.
LEMMA RightMostIs ==
  ASSUME NEW t \in Tree, NEW b, Shape(t, b), NEW n \in t.nodes
  PROVE  /\ RightMost(t, n) \in b[n]
         /\ t.right[RightMost(t, n)] = NoNode
         /\ \A x \in b[n] : x = RightMost(t, n) \/ Before(x, RightMost(t, n))
<1> DEFINE turn   == [m \in Node |-> IF t.right[m] = NoNode THEN m ELSE t.right[m]]
           States == { m \in b[n] : \A x \in b[n] \ b[m] : \A y \in b[m] : Before(x, y) }
           Over   == { m \in States : t.right[m] = NoNode }
           ahead  == [m \in States |-> b[m]]
<1>1. /\ n \in Node /\ n \in b[n] /\ b[n] \in SUBSET Node /\ b[n] \subseteq t.nodes
  BY Nested DEF Shape
<1>2. ASSUME NEW m \in States
      PROVE  /\ m \in Node /\ m \in t.nodes
             /\ m \in Over => turn[m] = m
             /\ m \notin Over => /\ turn[m] \in States
                                 /\ b[turn[m]] \subseteq b[m]
                                 /\ b[turn[m]] # b[m]
  <2>1. m \in t.nodes /\ m \in Node /\ b[m] \subseteq b[n] /\ b[m] \in SUBSET Node
    BY <1>1, Nested DEF Shape
  <2>2. ASSUME m \notin Over
        PROVE  /\ turn[m] \in States
               /\ b[turn[m]] \subseteq b[m]
               /\ b[turn[m]] # b[m]
    <3> DEFINE c == t.right[m]
    <3>1. turn[m] = c /\ c # NoNode
      BY <2>1, <2>2
    <3>2. c \in t.nodes /\ c \in b[m] /\ b[c] \subseteq b[m] /\ b[c] # b[m]
      BY <2>1, <3>1, Child
    <3>3. /\ b[m] = {m} \cup b[c] \cup Sub(b, t.left[m])
          /\ \A y \in b[c] : Before(m, y)
          /\ \A x \in Sub(b, t.left[m]) : Before(x, m)
      BY <2>1, <3>1 DEF Shape, Sound, Sub
    <3> HIDE DEF c
    <3>4. \A x \in b[n] \ b[c] : \A y \in b[c] : Before(x, y)
      BY <2>1, <3>2, <3>3, BeforeOrders
    <3> HIDE DEF turn
    <3> QED
      BY <2>1, <3>1, <3>2, <3>4
  <2> QED
    BY <2>1, <2>2
<1>3. \A m \in States :
        /\ turn[m] \in States
        /\ m \in Over => turn[m] \in Over
        /\ m \notin Over => Narrower(ahead[turn[m]], ahead[m])
  <2> HIDE DEF turn
  <2> QED
    BY <1>2 DEF Narrower
<1>4. n \in States /\ ahead \in [States -> SUBSET Node]
  BY <1>1 DEF Shape
<1>5. Loop(turn, n) \in States \cap Over
  <2> HIDE DEF turn, States, Over, ahead
  <2> QED
    BY <1>3, <1>4, LoopEnds
<1>6. Loop(turn, n) = RightMost(t, n)
  BY DEF RightMost
<1> DEFINE m == RightMost(t, n)
<1> HIDE DEF m, turn
<1>7. m \in b[n] /\ m \in t.nodes /\ m \in b[m] /\ t.right[m] = NoNode
  BY <1>1, <1>5, <1>6, Nested DEF m
<1>8. ASSUME NEW x \in b[n]
      PROVE  x = m \/ Before(x, m)
  <2>1. x \notin b[m] => Before(x, m)
    BY <1>5, <1>6, <1>7 DEF m
  <2>2. x \in b[m] => x = m \/ x \in Sub(b, t.left[m])
    BY <1>7 DEF Shape, Sound, Sub
  <2> QED
    BY <1>7, <2>1, <2>2 DEF Shape, Sound
<1> QED
  BY <1>7, <1>8 DEF m

\* find() returns a node that holds the key, if there is one.
LEMMA FindIs ==
  ASSUME NEW t \in Tree, NEW b, Shape(t, b), NEW key \in Int
  PROVE  LET holding == { n \in t.nodes : n.min <= key /\ key <= n.max } IN
         IF holding = {} THEN Find(t, key) = NoNode ELSE Find(t, key) \in holding
<1> DEFINE holding == { n \in t.nodes : n.min <= key /\ key <= n.max }
           turn    == FindTurn(t, key)
           States  == { it \in t.nodes \cup {NoNode} : holding \subseteq Sub(b, it) }
           Over    == { it \in States : it = NoNode \/ CompareToKey(it, key) = 0 }
           ahead   == [it \in States |-> Sub(b, it)]
<1>1. /\ t.nodes \subseteq Node /\ NoNode \notin Node /\ b \in [Node -> SUBSET Node]
      /\ t.nodes \cup {NoNode} \subseteq Link
      /\ \A n \in Node : n.min \in Int /\ n.max \in Int /\ n.min < n.max
  BY RangeAssumption DEF Shape, Node, Link
<1>2. ASSUME NEW it \in States, it \notin Over
      PROVE  /\ turn[it] \in States
             /\ Sub(b, turn[it]) \subseteq Sub(b, it)
             /\ Sub(b, turn[it]) # Sub(b, it)
  <2>1. /\ it # NoNode /\ it \in t.nodes /\ it \in Node /\ it \in Link
        /\ CompareToKey(it, key) # 0
        /\ holding \subseteq b[it]
    BY <1>1, <1>2 DEF Sub
  <2>2. /\ t.left[it] \in t.nodes \cup {NoNode} /\ t.right[it] \in t.nodes \cup {NoNode}
        /\ b[it] = {it} \cup Sub(b, t.left[it]) \cup Sub(b, t.right[it])
        /\ \A m \in Sub(b, t.left[it]) : Before(m, it)
        /\ \A m \in Sub(b, t.right[it]) : Before(it, m)
        /\ b[it] \subseteq Node
    BY <1>1, <2>1 DEF Shape, Sound
  <2>3. /\ CompareToKey(it, key) < 0 <=> key < it.min
        /\ ~ (CompareToKey(it, key) < 0) <=> it.max < key
    BY <1>1, <2>1 DEF CompareToKey
  <2>4. turn[it] = IF key < it.min THEN t.left[it] ELSE t.right[it]
    BY <2>1, <2>3 DEF FindTurn
  <2> HIDE DEF turn
  <2>5. holding \subseteq Sub(b, turn[it])
    <3>1. SUFFICES ASSUME NEW h \in holding
                   PROVE  h \in Sub(b, turn[it])
      OBVIOUS
    <3>2. /\ h \in b[it] /\ h \in Node /\ h.min <= key /\ key <= h.max
          /\ it.min \in Int /\ it.max \in Int /\ h.min \in Int /\ h.max \in Int
      BY <1>1, <2>1
    <3>3. CASE key < it.min
      <4>1. ~ Before(it, h) /\ h # it
        BY <3>2, <3>3 DEF Before
      <4> QED
        BY <2>2, <2>4, <3>2, <3>3, <4>1
    <3>4. CASE ~ (key < it.min)
      <4>1. it.max < key
        BY <2>3, <3>4
      <4>2. ~ Before(h, it) /\ h # it
        BY <3>2, <4>1 DEF Before
      <4> QED
        BY <2>2, <2>4, <3>2, <3>4, <4>2
    <3> QED
      BY <3>3, <3>4
  <2>6. it \notin Sub(b, turn[it]) /\ it \in b[it] /\ Sub(b, it) = b[it]
    BY <1>1, <2>1, <2>2, <2>4, BeforeOrders DEF Sub
  <2> QED
    BY <2>2, <2>4, <2>5, <2>6
<1>3. \A it \in Over : turn[it] = it
  BY <1>1 DEF FindTurn
<1>4. \A it \in States :
        /\ turn[it] \in States
        /\ it \in Over => turn[it] \in Over
        /\ it \notin Over => Narrower(ahead[turn[it]], ahead[it])
  <2> HIDE DEF turn
  <2>1. SUFFICES ASSUME NEW it \in States
                 PROVE  /\ turn[it] \in States
                        /\ it \in Over => turn[it] \in Over
                        /\ it \notin Over => Narrower(ahead[turn[it]], ahead[it])
    OBVIOUS
  <2>2. CASE it \in Over
    BY <1>3, <2>2
  <2>3. CASE it \notin Over
    BY <1>2, <2>3 DEF Narrower
  <2> QED
    BY <2>2, <2>3
<1>5. t.root \in States /\ ahead \in [States -> SUBSET Node]
  <2>1. t.root \in States
    BY <1>1 DEF Shape, Sub
  <2>2. \A it \in States : Sub(b, it) \in SUBSET Node
    BY <1>1 DEF Sub
  <2> QED
    BY <2>1, <2>2
<1>6. Loop(turn, t.root) \in States \cap Over
  <2> HIDE DEF turn, States, Over, ahead
  <2> QED
    BY <1>4, <1>5, LoopEnds
<1>7. Find(t, key) = Loop(turn, t.root)
  BY DEF Find
<1> DEFINE f == Find(t, key)
<1> HIDE DEF f, turn
<1>8. f \in States /\ f \in Over
  BY <1>6, <1>7 DEF f
<1>9. CASE f = NoNode
  BY <1>8, <1>9 DEF f, Sub
<1>10. CASE f # NoNode
  <2>1. f \in t.nodes /\ f \in Node /\ CompareToKey(f, key) = 0
    BY <1>1, <1>8, <1>10
  <2>2. f \in holding
    BY <1>1, <2>1 DEF CompareToKey
  <2> QED
    BY <2>2 DEF f
<1> QED
  BY <1>9, <1>10

\* A search tree of the nodes ns with no height that has wrapped around.
Sane(t, ns) ==
  /\ t \in Tree
  /\ t.nodes = ns
  /\ \E b : Shape(t, b) /\ \A n \in ns : GoodHeight(t, b, n)

\* do_rebalance_from() on a tree whose heights are good but for the ancestors of
\* the node it starts from.
LEMMA Rebalances ==
  ASSUME NEW t \in Tree, NEW b, Shape(t, b), Countable(t), NEW from \in t.nodes,
         HeightsAside(t, b, from)
  PROVE  /\ Sane(RebalanceFrom(t, from), t.nodes)
         /\ RebalanceFrom(t, from).leaked = t.leaked
<1> DEFINE N      == t.nodes
           Kept(s, d) == /\ Shape(s.tree, d)
                         /\ s.it = NoNode => \A n \in N : GoodHeight(s.tree, d, n)
                         /\ s.it # NoNode => s.it \in N /\ HeightsAside(s.tree, d, s.it)
           States == { s \in [tree : Tree, it : Link] :
                         s.tree.nodes = N /\ s.tree.leaked = t.leaked /\ \E d : Kept(s, d) }
           Over   == { s \in States : s.it = NoNode }
           ahead  == [s \in States |-> IF s.it = NoNode THEN {}
                                       ELSE (N \ Below(s.tree, s.it)) \cup {s.it}]
           turn   == RebalanceTurn
<1>1. N \subseteq Node /\ NoNode \notin Node /\ NoNode \in Link /\ N \subseteq Link
  BY RangeAssumption DEF Shape, Node, Link
<1>2. ASSUME NEW s \in States, s \notin Over
      PROVE  /\ turn[s] \in States
             /\ Narrower(ahead[turn[s]], ahead[s])
  <2> DEFINE it  == s.it
             top == s.tree.top[s.it]
             bal == Balance(s.tree, s.it)
             u   == Attached(bal.tree, top, it, bal.node)
  <2>1. /\ s \in [tree : Tree, it : Link] /\ s.tree \in Tree /\ it # NoNode
        /\ s.tree.nodes = N /\ s.tree.leaked = t.leaked
    BY <1>2
  <2>2. PICK d : Kept(s, d)
    BY <1>2
  <2>3. Shape(s.tree, d) /\ it \in N /\ HeightsAside(s.tree, d, it)
    BY <2>1, <2>2
  <2>4. Lifted(s.tree, d, it, bal.node, u)
    BY <2>1, <2>3, BalanceLifts DEF Countable
  <2>5. turn[s] = [it |-> top, tree |-> u]
    <3>1. turn[s] = [it   |-> top,
                     tree |-> IF top = NoNode THEN MakeRoot(bal.tree, bal.node)
                              ELSE ReplaceChild(bal.tree, top, it, bal.node)]
      BY <2>1 DEF RebalanceTurn
    <3> QED
      BY <3>1 DEF Attached
  <2> DEFINE r == bal.node
  <2> HIDE DEF bal, u, turn, r
  <2>6. /\ u \in Tree
        /\ u.nodes = N /\ u.leaked = t.leaked
        /\ r \in N /\ u.top[r] = top
    BY <2>1, <2>4 DEF Lifted, r
  <2>7. PICK e : /\ Shape(u, e)
                 /\ e[r] = d[it]
                 /\ \A n \in N \ d[it] : e[n] = d[n]
                 /\ HeightsUpTo(u, e, r)
    BY <2>1, <2>4 DEF Lifted, r
  <2>8. /\ top = NoNode <=> it = s.tree.root
        /\ it # s.tree.root => /\ top \in N /\ it \in d[top] /\ d[it] \subseteq d[top]
                               /\ top \notin d[it] /\ top # it
    BY <2>1, <2>3, Parent
  <2>9. /\ top = NoNode <=> r = u.root
    BY <2>6, <2>7, Parent
  <2>10. ahead[s] = (N \ d[it]) \cup {it} /\ it \in d[it]
    <3>1. Below(s.tree, it) = d[it] /\ it \in d[it]
      BY <2>1, <2>3, BelowIs, Nested
    <3> QED
      BY <1>2, <2>1, <3>1
  <2>11. CASE top = NoNode
    <3>1. \A n \in N : GoodHeight(u, e, n)
      <4>1. SUFFICES ASSUME NEW n \in N
                     PROVE  r \notin e[n] \/ n = r
        BY <2>6, <2>7 DEF HeightsUpTo
      <4>2. n \in e[r]
        BY <2>6, <2>7, <2>9, <2>11 DEF Shape
      <4> QED
        BY <2>6, <2>7, <4>2, NotMutual
    <3>2. turn[s] \in [tree : Tree, it : Link]
      BY <1>1, <2>5, <2>6, <2>11
    <3>3. Kept(turn[s], e)
      BY <2>5, <2>7, <2>11, <3>1
    <3>4. turn[s] \in States
      BY <2>5, <2>6, <3>2, <3>3
    <3>5. turn[s].it = NoNode
      BY <2>5, <2>11
    <3>6. ahead[turn[s]] = {}
      BY <3>4, <3>5
    <3> HIDE DEF ahead, States
    <3> QED
      BY <2>10, <3>4, <3>6 DEF Narrower
  <2>12. CASE top # NoNode
    <3>1. HeightsAside(u, e, top) /\ top \in N
      BY <2>6, <2>7, <2>8, <2>9, <2>12, ParentAside
    <3>2. turn[s] \in [tree : Tree, it : Link]
      BY <1>1, <2>5, <2>6, <3>1
    <3>3. Kept(turn[s], e)
      BY <2>5, <2>7, <2>12, <3>1
    <3>4. turn[s] \in States
      BY <2>5, <2>6, <3>2, <3>3
    <3>5. turn[s].it = top /\ turn[s].tree = u
      BY <2>5
    <3>6. Below(u, top) = d[top]
      <4>1. e[top] = d[top]
        BY <2>7, <2>8, <2>12
      <4> QED
        BY <2>6, <2>7, <3>1, <4>1, BelowIs
    <3>7. ahead[turn[s]] = (N \ d[top]) \cup {top}
      BY <2>12, <3>4, <3>5, <3>6
    <3> HIDE DEF ahead, States
    <3> QED
      BY <2>3, <2>8, <2>10, <2>12, <3>4, <3>7 DEF Narrower
  <2> QED
    BY <2>11, <2>12
<1>3. \A s \in Over : turn[s] = s
  BY DEF RebalanceTurn
<1>4. \A s \in States :
        /\ turn[s] \in States
        /\ s \in Over => turn[s] \in Over
        /\ s \notin Over => Narrower(ahead[turn[s]], ahead[s])
  <2> HIDE DEF turn, ahead
  <2>1. \A s \in States \ Over : /\ turn[s] \in States
                                 /\ Narrower(ahead[turn[s]], ahead[s])
    BY <1>2
  <2>2. Over \subseteq States
    OBVIOUS
  <2> HIDE DEF States, Over
  <2> QED
    BY <1>3, <2>1, <2>2
<1> DEFINE start == [tree |-> t, it |-> from]
<1>5. start \in States
  <2>1. Kept(start, b)
    BY <1>1
  <2>2. start \in [tree : Tree, it : Link]
    BY <1>1
  <2> QED
    BY <2>1, <2>2
<1>6. ahead \in [States -> SUBSET Node]
  <2>1. \A s \in States : s.it # NoNode => s.it \in N
    OBVIOUS
  <2> QED
    BY <1>1, <2>1
<1>7. Loop(turn, start) \in States \cap Over
  <2> HIDE DEF turn, States, Over, ahead, start
  <2> QED
    BY <1>4, <1>5, <1>6, LoopEnds
<1> DEFINE r == Loop(turn, start)
<1>8. RebalanceFrom(t, from) = r.tree
  BY DEF RebalanceFrom
<1> HIDE DEF turn, start, r
<1>9. /\ r.tree \in Tree /\ r.tree.nodes = N /\ r.tree.leaked = t.leaked
      /\ \E d : Shape(r.tree, d) /\ \A n \in N : GoodHeight(r.tree, d, n)
  BY <1>7 DEF r
<1> QED
  BY <1>8, <1>9 DEF Sane

-----------------------------------------------------------------------------
(***************************************************************************)
(* insert()                                                                *)
(***************************************************************************)
\* compare_to() tells on which side of m the range v lies, or that it overlaps.
LEMMA Sides ==
  ASSUME NEW v \in Node, NEW m \in Node
  PROVE  /\ CompareTo(v, m) = 1 <=> Before(m, v)
         /\ CompareTo(v, m) = 0 <=> ~ Before(m, v) /\ ~ Before(v, m)
BY RangeAssumption DEF CompareTo, Before, Node

\* m lies on the same side of v as of all the nodes ns.
SameSide(m, v, ns) ==
  \/ Before(m, v) /\ \A x \in ns : Before(m, x)
  \/ Before(v, m) /\ \A x \in ns : Before(x, m)

(***************************************************************************)
(* do_insert_node() finds the node to link v under, with every other node  *)
(* on the same side of v as of the subtree of that node, and the place on  *)
(* the side of v free; or it finds a node that v overlaps.                 *)
(***************************************************************************)
LEMMA InsertPositionIs ==
  ASSUME NEW t \in Tree, NEW b, Shape(t, b), NEW v \in Node, t.nodes # {}
  PROVE  LET into == InsertPosition(t, v) IN
         \/ into = NoNode /\ \E m \in t.nodes : CompareTo(v, m) = 0
         \/ /\ into \in t.nodes
            /\ \A m \in t.nodes \ b[into] : SameSide(m, v, b[into])
            /\ \/ Before(into, v) /\ t.right[into] = NoNode
               \/ Before(v, into) /\ t.left[into] = NoNode
<1> DEFINE turn == InsertTurn(t, v)
           Side(it) == IF Before(it, v) THEN t.right[it] ELSE t.left[it]
           States == { it \in t.nodes \cup {NoNode} :
                         /\ it = NoNode => \E m \in t.nodes : CompareTo(v, m) = 0
                         /\ it # NoNode => \A m \in t.nodes \ b[it] : SameSide(m, v, b[it]) }
           Over   == { it \in States :
                         it # NoNode => CompareTo(v, it) # 0 /\ Side(it) = NoNode }
           ahead  == [it \in States |-> Sub(b, it)]
<1>1. /\ t.nodes \subseteq Node /\ NoNode \notin Node /\ b \in [Node -> SUBSET Node]
      /\ t.nodes \cup {NoNode} \subseteq Link
  BY RangeAssumption DEF Shape, Node, Link
<1>2. \A it \in t.nodes :
        turn[it] = IF CompareTo(v, it) = 0 THEN NoNode
                   ELSE IF Side(it) = NoNode THEN it ELSE Side(it)
  BY <1>1, Sides DEF InsertTurn
<1>3. NoNode \in Link /\ turn[NoNode] = NoNode
  BY DEF InsertTurn, Link
<1> HIDE DEF turn
<1>4. ASSUME NEW it \in States, it \notin Over
      PROVE  turn[it] \in States /\ Narrower(Sub(b, turn[it]), Sub(b, it))
  <2>1. /\ it # NoNode /\ it \in t.nodes /\ it \in Node
        /\ \A m \in t.nodes \ b[it] : SameSide(m, v, b[it])
        /\ it \in b[it] /\ Sub(b, it) = b[it]
    BY <1>1, <1>4, Nested DEF Sub
  <2>2. CASE CompareTo(v, it) = 0
    <3>1. turn[it] = NoNode
      BY <1>2, <2>1, <2>2
    <3>2. turn[it] \in States
      BY <2>1, <2>2, <3>1
    <3> QED
      BY <2>1, <3>1, <3>2 DEF Sub, Narrower
  <2>3. CASE CompareTo(v, it) # 0
    <3> DEFINE c == Side(it)
    <3>1. c # NoNode
      BY <1>4, <2>1, <2>3
    <3>2. turn[it] = c
      BY <1>2, <2>1, <2>3, <3>1
    <3>3. c \in {t.left[it], t.right[it]} \ {NoNode}
      BY <3>1
    <3>4. /\ Before(it, v) => c = t.right[it]
          /\ ~ Before(it, v) => c = t.left[it] /\ Before(v, it)
      BY <2>1, <2>3, Sides
    <3> HIDE DEF c
    <3>5. c \in t.nodes /\ b[c] \subseteq b[it] /\ b[c] # b[it]
      BY <2>1, <3>3, Child
    <3>6. ASSUME NEW m \in t.nodes \ b[c]
          PROVE  SameSide(m, v, b[c])
      <4>1. CASE m \notin b[it]
        BY <2>1, <3>5, <4>1 DEF SameSide
      <4>2. CASE m \in b[it] /\ Before(it, v)
        <5>1. \A x \in b[c] : Before(it, x) /\ x \in Node
          BY <1>1, <2>1, <3>1, <3>4, <3>5, <4>2 DEF Shape, Sound, Sub
        <5>2. m = it \/ (Before(m, it) /\ m \in Node)
          BY <1>1, <2>1, <3>4, <4>2 DEF Shape, Sound, Sub
        <5> QED
          BY <2>1, <4>2, <5>1, <5>2, BeforeOrders DEF SameSide
      <4>3. CASE m \in b[it] /\ ~ Before(it, v)
        <5>1. \A x \in b[c] : Before(x, it) /\ x \in Node
          BY <1>1, <2>1, <3>1, <3>4, <3>5, <4>3 DEF Shape, Sound, Sub
        <5>2. m = it \/ (Before(it, m) /\ m \in Node)
          BY <1>1, <2>1, <3>4, <4>3 DEF Shape, Sound, Sub
        <5> QED
          BY <2>1, <3>4, <4>3, <5>1, <5>2, BeforeOrders DEF SameSide
      <4> QED
        BY <4>1, <4>2, <4>3
    <3>7. turn[it] \in States
      BY <1>1, <3>1, <3>2, <3>5, <3>6
    <3> QED
      BY <2>1, <3>1, <3>2, <3>5, <3>7 DEF Sub, Narrower
  <2> QED
    BY <2>2, <2>3
<1>5. \A it \in Over : turn[it] = it
  BY <1>2, <1>3
<1>6. \A it \in States :
        /\ turn[it] \in States
        /\ it \in Over => turn[it] \in Over
        /\ it \notin Over => Narrower(ahead[turn[it]], ahead[it])
  <2>1. Over \subseteq States
    OBVIOUS
  <2> HIDE DEF States, Over
  <2> QED
    BY <1>4, <1>5, <2>1
<1>7. t.root \in States /\ ahead \in [States -> SUBSET Node]
  <2>1. t.root \in t.nodes /\ b[t.root] = t.nodes
    BY DEF Shape
  <2>2. t.root \in States
    BY <1>1, <2>1
  <2>3. \A it \in States : Sub(b, it) \in SUBSET Node
    BY <1>1 DEF Sub
  <2> QED
    BY <2>2, <2>3
<1>8. Loop(turn, t.root) \in States \cap Over
  <2> HIDE DEF States, Over, ahead
  <2> QED
    BY <1>6, <1>7, LoopEnds
<1> DEFINE into == InsertPosition(t, v)
<1>9. into = Loop(turn, t.root)
  BY DEF InsertPosition, turn
<1> HIDE DEF into
<1>10. into \in States /\ into \in Over
  BY <1>8, <1>9
<1>11. CASE into = NoNode
  BY <1>10, <1>11 DEF into
<1>12. CASE into # NoNode
  <2>1. /\ into \in t.nodes /\ into \in Node
        /\ \A m \in t.nodes \ b[into] : SameSide(m, v, b[into])
        /\ CompareTo(v, into) # 0 /\ Side(into) = NoNode
    BY <1>1, <1>10, <1>12
  <2>2. \/ Before(into, v) /\ t.right[into] = NoNode
        \/ Before(v, into) /\ t.left[into] = NoNode
    BY <2>1, Sides
  <2> QED
    BY <2>1, <2>2 DEF into
<1> QED
  BY <1>11, <1>12

\* The links of a tree with the new node v.
LEMMA CreateNodeLinks ==
  ASSUME NEW t \in Tree, NEW v \in Node
  PROVE  LET u == CreateNode(t, v) IN
         /\ u \in Tree
         /\ u.root = t.root /\ u.nodes = t.nodes \cup {v} /\ u.leaked = t.leaked
         /\ \A m \in Node :
              /\ u.top[m] = IF m = v THEN NoNode ELSE t.top[m]
              /\ u.left[m] = IF m = v THEN NoNode ELSE t.left[m]
              /\ u.right[m] = IF m = v THEN NoNode ELSE t.right[m]
              /\ u.height[m] = IF m = v THEN 0 ELSE t.height[m]
<1>1. NoNode \in Link /\ 0 \in Int8
  BY HeightAssumption DEF Link, Int8
<1> QED
  BY <1>1 DEF CreateNode, Tree

\* A new leaf v under the node that do_insert_node() found for it.
LEMMA LeafLinked ==
  ASSUME NEW t \in Tree, NEW b, Shape(t, b), NEW v \in Node \ t.nodes,
         NEW into \in t.nodes,
         \A m \in t.nodes \ b[into] : SameSide(m, v, b[into]),
         \A n \in t.nodes : GoodHeight(t, b, n),
         NEW u \in Tree,
         u.root = t.root, u.nodes = t.nodes \cup {v},
         u.left[v] = NoNode, u.right[v] = NoNode, u.height[v] = 0,
         \A m \in t.nodes \ {into} : u.left[m] = t.left[m] /\ u.right[m] = t.right[m],
         \/ /\ Before(into, v) /\ t.right[into] = NoNode
            /\ u.left[into] = t.left[into] /\ u.right[into] = v
         \/ /\ Before(v, into) /\ t.left[into] = NoNode
            /\ u.left[into] = v /\ u.right[into] = t.right[into],
         u.top[v] = into,
         \A m \in t.nodes : u.top[m] = t.top[m] /\ u.height[m] = t.height[m]
  PROVE  \E d : Shape(u, d) /\ HeightsAside(u, d, into)
<1> DEFINE d == [n \in Node |-> IF n = v THEN {v}
                                ELSE IF n \in t.nodes /\ into \in b[n] THEN b[n] \cup {v}
                                ELSE b[n]]
<1>1. /\ t.nodes \subseteq Node /\ NoNode \notin Node /\ b \in [Node -> SUBSET Node]
      /\ v # NoNode /\ into \in Node /\ into # v
  BY RangeAssumption DEF Shape, Node
<1>2. /\ d \in [Node -> SUBSET Node] /\ d[v] = {v}
      /\ \A n \in t.nodes : d[n] = IF into \in b[n] THEN b[n] \cup {v} ELSE b[n]
  BY <1>1
<1> HIDE DEF d
<1>3. Sound(u, d, v)
  BY <1>2 DEF Sound, Sub
<1>4. ASSUME NEW n \in t.nodes
      PROVE  Sound(u, d, n)
  <2>1. Sound(t, b, n) /\ n \in Node /\ n # v
    BY <1>1 DEF Shape
  <2>2. \A c \in {t.left[n], t.right[n]} \ {NoNode} :
           /\ c \in t.nodes /\ c # v /\ u.top[c] = n
           /\ c \in b[n] /\ b[c] \subseteq b[n] /\ n \notin b[c]
    BY Child
  <2>3. CASE n = into
    <3>1. \A c \in {t.left[n], t.right[n]} \ {NoNode} : d[c] = b[c]
      <4>1. SUFFICES ASSUME NEW c \in {t.left[n], t.right[n]} \ {NoNode}
                     PROVE  d[c] = b[c]
        OBVIOUS
      <4>2. c \in t.nodes /\ into \notin b[c]
        BY <2>2, <2>3
      <4> QED
        BY <1>2, <4>2
    <3>2. /\ Sub(d, t.left[n]) = Sub(b, t.left[n])
          /\ Sub(d, t.right[n]) = Sub(b, t.right[n])
      BY <3>1 DEF Sub
    <3>3. d[n] = b[n] \cup {v}
      <4>1. n \in b[n]
        BY Nested
      <4> QED
        BY <1>2, <2>3, <4>1
    <3>4. Sub(d, v) = {v} /\ Sub(d, NoNode) = {} /\ Sub(b, NoNode) = {}
      BY <1>1, <1>2 DEF Sub
    <3>5. CASE u.right[n] = v /\ Before(n, v) /\ t.right[n] = NoNode /\ u.left[n] = t.left[n]
      BY <2>1, <2>2, <2>3, <3>2, <3>3, <3>4, <3>5 DEF Sound
    <3>6. CASE u.left[n] = v /\ Before(v, n) /\ t.left[n] = NoNode /\ u.right[n] = t.right[n]
      BY <2>1, <2>2, <2>3, <3>2, <3>3, <3>4, <3>6 DEF Sound
    <3> QED
      BY <2>3, <3>5, <3>6
  <2>4. CASE n # into
    <3>1. u.left[n] = t.left[n] /\ u.right[n] = t.right[n]
      BY <2>4
    <3>2. \A c \in {t.left[n], t.right[n]} :
             Sub(d, c) = IF into \in Sub(b, c) THEN Sub(b, c) \cup {v} ELSE Sub(b, c)
      <4>1. SUFFICES ASSUME NEW c \in {t.left[n], t.right[n]}
                     PROVE  Sub(d, c) = IF into \in Sub(b, c) THEN Sub(b, c) \cup {v}
                                        ELSE Sub(b, c)
        OBVIOUS
      <4>2. CASE c = NoNode
        BY <4>2 DEF Sub
      <4>3. CASE c # NoNode
        <5>1. c \in t.nodes
          BY <2>2, <4>3
        <5>2. d[c] = IF into \in b[c] THEN b[c] \cup {v} ELSE b[c]
          BY <1>2, <5>1
        <5> QED
          BY <4>3, <5>2 DEF Sub
      <4> QED
        BY <4>2, <4>3
    <3>3. d[n] = {n} \cup Sub(d, u.left[n]) \cup Sub(d, u.right[n])
      <4>1. b[n] = {n} \cup Sub(b, t.left[n]) \cup Sub(b, t.right[n])
        BY <2>1 DEF Sound
      <4>2. d[n] = IF into \in b[n] THEN b[n] \cup {v} ELSE b[n]
        BY <1>2
      <4>3. /\ Sub(d, t.left[n]) = IF into \in Sub(b, t.left[n]) THEN Sub(b, t.left[n]) \cup {v}
                                   ELSE Sub(b, t.left[n])
            /\ Sub(d, t.right[n]) = IF into \in Sub(b, t.right[n]) THEN Sub(b, t.right[n]) \cup {v}
                                    ELSE Sub(b, t.right[n])
        BY <3>2
      <4>4. into \in b[n] <=> into \in Sub(b, t.left[n]) \/ into \in Sub(b, t.right[n])
        BY <2>4, <4>1
      <4>5. d[n] = {n} \cup Sub(d, t.left[n]) \cup Sub(d, t.right[n])
        BY <4>1, <4>2, <4>3, <4>4
      <4> QED
        BY <3>1, <4>5
    <3>4. into \in b[n] => SameSide(n, v, b[into]) /\ into \in b[into]
      BY <2>4, Nested, NotMutual
    <3>5. into \in Sub(b, t.left[n]) => Before(v, n)
      BY <1>1, <2>1, <3>4, BeforeOrders DEF Sound, SameSide
    <3>6. into \in Sub(b, t.right[n]) => Before(n, v)
      BY <1>1, <2>1, <3>4, BeforeOrders DEF Sound, SameSide
    <3>7. /\ \A m \in Sub(d, u.left[n]) : Before(m, n)
          /\ \A m \in Sub(d, u.right[n]) : Before(n, m)
      BY <2>1, <3>1, <3>2, <3>5, <3>6 DEF Sound
    <3> QED
      BY <2>1, <2>2, <3>1, <3>3, <3>7 DEF Sound
  <2> QED
    BY <2>3, <2>4
<1>5. Shape(u, d)
  <2>1. t.root \in t.nodes /\ t.top[t.root] = NoNode /\ b[t.root] = t.nodes
    BY DEF Shape
  <2>2. d[u.root] = u.nodes /\ u.top[u.root] = NoNode /\ u.root \in u.nodes
    BY <1>2, <2>1
  <2> QED
    BY <1>1, <1>2, <1>3, <1>4, <2>2 DEF Shape
<1>6. HeightsAside(u, d, into)
  <2>1. SUFFICES ASSUME NEW n \in u.nodes, into \notin d[n]
                 PROVE  GoodHeight(u, d, n)
    BY DEF HeightsAside
  <2>2. CASE n = v
    <3>1. Cardinality(d[v]) = 1
      <4> DEFINE single == {v}
      <4>1. Cardinality(single) = 1 /\ d[v] = single
        BY <1>2, FS_Singleton
      <4> HIDE DEF single
      <4> QED
        BY <4>1
    <3> QED
      BY <2>2, <3>1 DEF GoodHeight
  <2>3. CASE n # v
    <3>1. n \in t.nodes
      BY <2>3
    <3>2. into \notin b[n]
      BY <1>2, <2>1, <3>1
    <3>3. d[n] = b[n]
      BY <1>2, <3>1, <3>2
    <3> QED
      BY <3>1, <3>3 DEF GoodHeight
  <2> QED
    BY <2>2, <2>3
<1> QED
  BY <1>5, <1>6

\* insert() adds the range, unless there is one that it does not lie beside.
LEMMA Inserts ==
  ASSUME NEW t, NEW ns, Sane(t, ns), NEW v \in Node,
         Cardinality(ns) < HeightMax
  PROVE  /\ (\A m \in ns : Before(m, v) \/ Before(v, m)) =>
               Sane(Inserted(t, v), ns \cup {v})
         /\ ~ (\A m \in ns : Before(m, v) \/ Before(v, m)) => Inserted(t, v) = t
<1> DEFINE created == CreateNode(t, v)
           into    == InsertPosition(t, v)
           linked  == IF CompareTo(v, into) = 1 THEN SetRight(created, into, v)
                      ELSE SetLeft(created, into, v)
<1>1. PICK b : Shape(t, b) /\ \A n \in ns : GoodHeight(t, b, n)
  BY DEF Sane
<1>2. /\ t \in Tree /\ t.nodes = ns /\ ns \subseteq Node /\ NoNode \notin Node
      /\ v \in Link /\ v # NoNode
  BY <1>1, RangeAssumption DEF Sane, Shape, Node, Link
<1>3. /\ created \in Tree
      /\ created.root = t.root /\ created.nodes = ns \cup {v} /\ created.leaked = t.leaked
      /\ \A m \in Node :
           /\ created.top[m] = IF m = v THEN NoNode ELSE t.top[m]
           /\ created.left[m] = IF m = v THEN NoNode ELSE t.left[m]
           /\ created.right[m] = IF m = v THEN NoNode ELSE t.right[m]
           /\ created.height[m] = IF m = v THEN 0 ELSE t.height[m]
  BY <1>2, CreateNodeLinks
<1> HIDE DEF created
<1>4. CASE ns = {}
  <2> DEFINE u == [created EXCEPT !.root = v]
             d == [n \in Node |-> {v}]
  <2>1. Inserted(t, v) = u
    BY <1>1, <1>2, <1>4 DEF Inserted, Shape, created
  <2>2. /\ u \in Tree /\ u.root = v /\ u.nodes = {v}
        /\ u.top[v] = NoNode /\ u.left[v] = NoNode /\ u.right[v] = NoNode
        /\ u.height[v] = 0
    BY <1>2, <1>3, <1>4 DEF Tree
  <2> HIDE DEF u
  <2>3. d \in [Node -> SUBSET Node] /\ d[v] = {v}
    OBVIOUS
  <2> HIDE DEF d
  <2>4. Shape(u, d)
    BY <2>2, <2>3 DEF Shape, Sound, Sub
  <2>5. GoodHeight(u, d, v)
    <3>1. Cardinality({v}) = 1
      BY FS_Singleton
    <3> QED
      BY <2>2, <2>3, <3>1 DEF GoodHeight
  <2> QED
    BY <1>4, <2>1, <2>2, <2>4, <2>5 DEF Sane
<1>5. CASE ns # {}
  <2>1. t.root # NoNode
    BY <1>1, <1>2, <1>5 DEF Shape
  <2>2. Inserted(t, v) = IF into = NoNode THEN t ELSE RebalanceFrom(linked, into)
    BY <2>1 DEF Inserted, created
  <2>3. \/ into = NoNode /\ \E m \in ns : CompareTo(v, m) = 0
        \/ /\ into \in ns
           /\ \A m \in ns \ b[into] : SameSide(m, v, b[into])
           /\ \/ Before(into, v) /\ t.right[into] = NoNode
              \/ Before(v, into) /\ t.left[into] = NoNode
    BY <1>1, <1>2, <1>5, InsertPositionIs
  <2> HIDE DEF into
  <2>4. CASE into = NoNode
    <3>1. ~ (\A m \in ns : Before(m, v) \/ Before(v, m))
      BY <1>2, <2>3, <2>4, Sides
    <3> QED
      BY <2>2, <2>4, <3>1
  <2>5. CASE into # NoNode
    <3>1. /\ into \in ns /\ into \in Node /\ into \in b[into]
          /\ \A m \in ns \ b[into] : SameSide(m, v, b[into])
          /\ \/ Before(into, v) /\ ~ Before(v, into) /\ t.right[into] = NoNode
             \/ Before(v, into) /\ ~ Before(into, v) /\ t.left[into] = NoNode
      BY <1>1, <1>2, <2>3, <2>5, BeforeOrders, Nested
    <3>2. Sound(t, b, into) /\ b[into] \subseteq Node
      BY <1>1, <1>2, <3>1 DEF Shape
    <3>3. ASSUME NEW m \in ns
          PROVE  Before(m, v) \/ Before(v, m)
      <4>1. CASE m \notin b[into]
        BY <3>1, <4>1 DEF SameSide
      <4>2. CASE m \in b[into]
        <5>1. \/ m = into
              \/ m \in Sub(b, t.left[into]) /\ Before(m, into)
              \/ m \in Sub(b, t.right[into]) /\ Before(into, m)
          BY <3>2, <4>2 DEF Sound
        <5> QED
          BY <1>2, <3>1, <5>1, BeforeOrders DEF Sub
      <4> QED
        BY <4>1, <4>2
    <3>4. v \notin ns
      BY <1>2, <3>3, BeforeOrders
    <3>5. /\ CompareTo(v, into) = 1 <=> Before(into, v)
      BY <3>1, Sides
    <3>6. /\ linked \in Tree
          /\ linked.root = created.root /\ linked.nodes = created.nodes
          /\ linked.height = created.height
          /\ \A m \in Node :
               /\ linked.right[m] = IF m = into /\ Before(into, v) THEN v ELSE created.right[m]
               /\ linked.left[m] = IF m = into /\ ~ Before(into, v) THEN v ELSE created.left[m]
               /\ linked.top[m] = IF m = v THEN into ELSE created.top[m]
      <4>1. CASE Before(into, v)
        <5>1. linked = SetRight(created, into, v)
          BY <3>5, <4>1
        <5> HIDE DEF linked
        <5>2. /\ linked \in Tree
              /\ linked.root = created.root /\ linked.nodes = created.nodes
              /\ linked.right = [created.right EXCEPT ![into] = v]
              /\ linked.left = created.left /\ linked.height = created.height
              /\ \A m \in Node : linked.top[m] = IF m = v THEN into ELSE created.top[m]
          BY <1>2, <1>3, <3>1, <5>1, SetRightLinks
        <5>3. created.right \in [Node -> Link]
          BY <1>3 DEF Tree
        <5> QED
          BY <3>1, <4>1, <5>2, <5>3
      <4>2. CASE ~ Before(into, v)
        <5>1. linked = SetLeft(created, into, v)
          BY <3>5, <4>2
        <5> HIDE DEF linked
        <5>2. /\ linked \in Tree
              /\ linked.root = created.root /\ linked.nodes = created.nodes
              /\ linked.left = [created.left EXCEPT ![into] = v]
              /\ linked.right = created.right /\ linked.height = created.height
              /\ \A m \in Node : linked.top[m] = IF m = v THEN into ELSE created.top[m]
          BY <1>2, <1>3, <3>1, <5>1, SetLeftLinks
        <5>3. created.left \in [Node -> Link]
          BY <1>3 DEF Tree
        <5> QED
          BY <3>1, <4>2, <5>2, <5>3
      <4> QED
        BY <4>1, <4>2
    <3> HIDE DEF linked
    <3>7. \E d : Shape(linked, d) /\ HeightsAside(linked, d, into)
      <4>1. \A m \in ns : m \in Node /\ m # v
        BY <1>2, <3>4
      <4>2. /\ linked.left[v] = NoNode /\ linked.right[v] = NoNode
            /\ linked.height[v] = 0 /\ linked.top[v] = into
        BY <1>3, <3>1, <3>4, <3>6
      <4>3. \A m \in ns \ {into} : /\ linked.left[m] = t.left[m]
                                   /\ linked.right[m] = t.right[m]
        BY <1>3, <3>6, <4>1
      <4>4. \/ /\ Before(into, v) /\ t.right[into] = NoNode
               /\ linked.left[into] = t.left[into] /\ linked.right[into] = v
            \/ /\ Before(v, into) /\ t.left[into] = NoNode
               /\ linked.left[into] = v /\ linked.right[into] = t.right[into]
        BY <1>3, <3>1, <3>6, <4>1
      <4>5. \A m \in ns : linked.top[m] = t.top[m] /\ linked.height[m] = t.height[m]
        BY <1>3, <3>6, <4>1
      <4> QED
        BY <1>1, <1>2, <1>3, <3>1, <3>4, <3>6, <4>2, <4>3, <4>4, <4>5, LeafLinked
    <3>8. Countable(linked)
      <4>1. IsFiniteSet(ns)
        BY <1>2, HeightAssumption, FS_Subset DEF Node
      <4>2. Cardinality(ns) \in Nat /\ Cardinality(ns \cup {v}) = Cardinality(ns) + 1
        BY <3>4, <4>1, FS_AddElement, FS_CardinalityType
      <4> QED
        BY <1>3, <3>6, <4>2, HeightAssumption DEF Countable
    <3>9. Sane(RebalanceFrom(linked, into), linked.nodes)
      BY <1>3, <3>1, <3>6, <3>7, <3>8, Rebalances
    <3> QED
      BY <1>3, <2>2, <2>5, <3>3, <3>6, <3>9
  <2> QED
    BY <2>4, <2>5
<1> QED
  BY <1>4, <1>5

-----------------------------------------------------------------------------
(***************************************************************************)
(* erase() and clear()                                                     *)
(***************************************************************************)
\* The links that the destruction of n leaves.
LEMMA DestroyNodeLinks ==
  ASSUME NEW t \in Tree, NEW n \in Node
  PROVE  LET u == DestroyNode(t, n) IN
         /\ u \in Tree
         /\ u.root = t.root /\ u.nodes = t.nodes \ {n} /\ u.leaked = t.leaked
         /\ \A m \in Node :
              /\ u.top[m] = IF m = n THEN NoNode ELSE t.top[m]
              /\ u.left[m] = IF m = n THEN NoNode ELSE t.left[m]
              /\ u.right[m] = IF m = n THEN NoNode ELSE t.right[m]
              /\ u.height[m] = IF m = n THEN 0 ELSE t.height[m]
<1>1. NoNode \in Link /\ 0 \in Int8
  BY HeightAssumption DEF Link, Int8
<1> QED
  BY <1>1 DEF DestroyNode, Tree

\* The subtrees without node x.
Without(b, x) == [n \in Node |-> b[n] \ {x}]

\* A tree without node x, whose only child c, if any, has taken its place.
LEMMA Spliced ==
  ASSUME NEW t, NEW b, Shape(t, b), NEW x \in t.nodes, NEW c,
         \/ (c = t.left[x] /\ t.right[x] = NoNode)
         \/ (c = t.right[x] /\ t.left[x] = NoNode),
         t.top[x] = NoNode => c # NoNode,
         NEW u,
         u.nodes = t.nodes \ {x},
         u.root = IF t.top[x] = NoNode THEN c ELSE t.root,
         \A m \in t.nodes \ {x} :
           /\ u.left[m] = IF t.left[m] = x THEN c ELSE t.left[m]
           /\ u.right[m] = IF t.right[m] = x THEN c ELSE t.right[m]
           /\ u.top[m] = IF m = c THEN t.top[x] ELSE t.top[m]
  PROVE  Shape(u, Without(b, x))
<1> DEFINE d == Without(b, x)
<1>1. /\ t.nodes \subseteq Node /\ NoNode \notin Node /\ b \in [Node -> SUBSET Node]
      /\ x \in Node /\ x # NoNode
  BY RangeAssumption DEF Shape, Node
<1>2. d \in [Node -> SUBSET Node] /\ \A n \in Node : d[n] = b[n] \ {x}
  BY <1>1 DEF Without
<1> HIDE DEF d
<1>3. b[x] = {x} \cup Sub(b, c)
  BY DEF Shape, Sound, Sub
<1>4. c # NoNode => /\ c \in t.nodes /\ c # x /\ t.top[c] = x
                    /\ b[x] = {x} \cup b[c] /\ x \notin b[c]
  <2>1. SUFFICES ASSUME c # NoNode
                 PROVE  /\ c \in t.nodes /\ c # x /\ t.top[c] = x
                        /\ b[x] = {x} \cup b[c] /\ x \notin b[c]
    OBVIOUS
  <2>2. c \in {t.left[x], t.right[x]} \ {NoNode}
    BY <2>1
  <2> QED
    BY <1>3, <2>1, <2>2, Child DEF Sub
<1>5. ASSUME NEW n \in t.nodes \ {x}
      PROVE  Sound(u, d, n)
  <2> DEFINE To(k) == IF k = x THEN c ELSE k
  <2>1. Sound(t, b, n) /\ n \in Node
    BY <1>1 DEF Shape
  <2>2. u.left[n] = To(t.left[n]) /\ u.right[n] = To(t.right[n])
    OBVIOUS
  <2>3. ASSUME NEW k \in {t.left[n], t.right[n]}
        PROVE  /\ To(k) \in u.nodes \cup {NoNode}
               /\ Sub(d, To(k)) = Sub(b, k) \ {x}
               /\ To(k) # NoNode => u.top[To(k)] = n
    <3>1. CASE k = NoNode
      <4>1. To(k) = NoNode
        BY <1>1, <3>1
      <4> QED
        BY <3>1, <4>1 DEF Sub
    <3>2. CASE k = x
      <4>1. To(k) = c /\ t.top[x] = n /\ Sub(b, k) = b[x]
        BY <1>1, <2>1, <3>2 DEF Sound, Sub
      <4>2. CASE c = NoNode
        BY <1>3, <4>1, <4>2 DEF Sub
      <4>3. CASE c # NoNode
        <5>1. c \in u.nodes /\ u.top[c] = n
          BY <1>4, <4>1, <4>3
        <5>2. Sub(d, c) = b[c] \ {x}
          BY <1>1, <1>2, <1>4, <4>3 DEF Sub
        <5> QED
          BY <1>4, <4>1, <4>3, <5>1, <5>2
      <4> QED
        BY <4>2, <4>3
    <3>3. CASE k # NoNode /\ k # x
      <4>1. To(k) = k /\ k \in t.nodes /\ t.top[k] = n
        BY <3>3, Child
      <4>2. k # c
        BY <1>4, <3>3, <4>1
      <4>3. Sub(d, k) = b[k] \ {x} /\ Sub(b, k) = b[k]
        BY <1>1, <1>2, <3>3, <4>1 DEF Sub
      <4> QED
        BY <3>3, <4>1, <4>2, <4>3
    <3> QED
      BY <3>1, <3>2, <3>3
  <2> HIDE DEF To
  <2>4. /\ To(t.left[n]) \in u.nodes \cup {NoNode}
        /\ Sub(d, To(t.left[n])) = Sub(b, t.left[n]) \ {x}
        /\ To(t.left[n]) # NoNode => u.top[To(t.left[n])] = n
    BY <2>3
  <2>5. /\ To(t.right[n]) \in u.nodes \cup {NoNode}
        /\ Sub(d, To(t.right[n])) = Sub(b, t.right[n]) \ {x}
        /\ To(t.right[n]) # NoNode => u.top[To(t.right[n])] = n
    BY <2>3
  <2>6. d[n] = {n} \cup Sub(d, u.left[n]) \cup Sub(d, u.right[n])
    <3>1. b[n] = {n} \cup Sub(b, t.left[n]) \cup Sub(b, t.right[n]) /\ d[n] = b[n] \ {x}
      BY <1>2, <2>1 DEF Sound
    <3> QED
      BY <2>2, <2>4, <2>5, <3>1
  <2>7. /\ \A m \in Sub(d, u.left[n]) : Before(m, n)
        /\ \A m \in Sub(d, u.right[n]) : Before(n, m)
    BY <2>1, <2>2, <2>4, <2>5 DEF Sound
  <2> QED
    BY <2>2, <2>4, <2>5, <2>6, <2>7 DEF Sound
<1>6. u.root \in u.nodes /\ u.top[u.root] = NoNode /\ d[u.root] = u.nodes
  <2>1. /\ t.root \in t.nodes /\ t.top[t.root] = NoNode /\ b[t.root] = t.nodes
        /\ t.top[x] = NoNode <=> x = t.root
    BY Parent DEF Shape
  <2>2. CASE t.top[x] = NoNode
    <3>1. u.root = c /\ c # NoNode /\ x = t.root
      BY <2>1, <2>2
    <3>2. c \in u.nodes /\ u.top[c] = NoNode
      BY <1>4, <2>2, <3>1
    <3>3. d[c] = u.nodes
      BY <1>1, <1>2, <1>4, <2>1, <3>1
    <3> QED
      BY <3>1, <3>2, <3>3
  <2>3. CASE t.top[x] # NoNode
    <3>1. u.root = t.root /\ t.root # x /\ t.root # c
      BY <1>1, <1>4, <2>1, <2>3
    <3> QED
      BY <1>1, <1>2, <2>1, <3>1
  <2> QED
    BY <2>2, <2>3
<1> QED
  BY <1>1, <1>2, <1>5, <1>6 DEF Shape, d

\* Only the parent of x names it as a child, and only once.
OneParent(t, x) ==
  /\ \A m \in t.nodes : x \in {t.left[m], t.right[m]} => m = t.top[x]
  /\ t.top[x] # NoNode => /\ t.top[x] \in t.nodes
                          /\ x \in {t.left[t.top[x]], t.right[t.top[x]]}
                          /\ t.left[t.top[x]] # t.right[t.top[x]]

LEMMA ShapeOneParent ==
  ASSUME NEW t, NEW b, Shape(t, b), NEW x \in t.nodes
  PROVE  OneParent(t, x)
<1>1. x # NoNode
  BY RangeAssumption DEF Shape, Node
<1>2. \A m \in t.nodes : x \in {t.left[m], t.right[m]} => m = t.top[x]
  BY <1>1 DEF Shape, Sound
<1> QED
  BY <1>2, Parent DEF OneParent

\* The links of the tree without x, which c has taken the place of.
LEMMA CutLinks ==
  ASSUME NEW t \in Tree, t.nodes \subseteq Node, NEW x \in t.nodes, OneParent(t, x),
         NEW c \in Link \ {x}, t.top[x] = NoNode => c # NoNode
  PROVE  LET u == DestroyNode(Unlink(t, x, c), x) IN
         /\ u \in Tree
         /\ u.root = IF t.top[x] = NoNode THEN c ELSE t.root
         /\ u.nodes = t.nodes \ {x} /\ u.leaked = t.leaked
         /\ \A m \in t.nodes \ {x} :
              /\ u.left[m] = IF t.left[m] = x THEN c ELSE t.left[m]
              /\ u.right[m] = IF t.right[m] = x THEN c ELSE t.right[m]
              /\ u.top[m] = IF m = c THEN t.top[x] ELSE t.top[m]
              /\ u.height[m] = t.height[m]
<1> DEFINE q == t.top[x]
           v == Unlink(t, x, c)
           u == DestroyNode(v, x)
<1>1. x \in Node /\ q \in Link /\ NoNode \notin Node /\ (q = NoNode => c # NoNode)
  BY RangeAssumption DEF Tree, Node
<1>2. v = Attached(t, q, x, c)
  BY DEF Unlink, Attached
<1> HIDE DEF u, v, q
<1>3. /\ v \in Tree
      /\ v.root = IF q = NoNode THEN c ELSE t.root
      /\ v.nodes = t.nodes /\ v.leaked = t.leaked /\ v.height = t.height
      /\ \A m \in Node :
           /\ v.left[m] = IF m = q /\ t.left[q] = x THEN c ELSE t.left[m]
           /\ v.right[m] = IF m = q /\ t.left[q] # x THEN c ELSE t.right[m]
           /\ v.top[m] = IF m = c THEN q ELSE t.top[m]
  BY <1>1, <1>2, AttachedLinks
<1>4. /\ u \in Tree
      /\ u.root = v.root /\ u.nodes = v.nodes \ {x} /\ u.leaked = v.leaked
      /\ \A m \in Node :
           /\ u.top[m] = IF m = x THEN NoNode ELSE v.top[m]
           /\ u.left[m] = IF m = x THEN NoNode ELSE v.left[m]
           /\ u.right[m] = IF m = x THEN NoNode ELSE v.right[m]
           /\ u.height[m] = IF m = x THEN 0 ELSE v.height[m]
  BY <1>1, <1>3, DestroyNodeLinks DEF u
<1>5. ASSUME NEW m \in t.nodes \ {x}
      PROVE  /\ u.left[m] = IF t.left[m] = x THEN c ELSE t.left[m]
             /\ u.right[m] = IF t.right[m] = x THEN c ELSE t.right[m]
             /\ u.top[m] = IF m = c THEN q ELSE t.top[m]
             /\ u.height[m] = t.height[m]
  <2>1. m \in Node /\ m # NoNode
    BY <1>1
  <2>2. CASE m = q
    <3>1. x \in {t.left[m], t.right[m]} /\ t.left[m] # t.right[m]
      BY <2>1, <2>2 DEF OneParent, q
    <3> QED
      BY <1>3, <1>4, <2>1, <2>2, <3>1
  <2>3. CASE m # q
    <3>1. x \notin {t.left[m], t.right[m]}
      BY <2>3 DEF OneParent, q
    <3> QED
      BY <1>3, <1>4, <2>1, <2>3, <3>1
  <2> QED
    BY <2>2, <2>3
<1> QED
  BY <1>3, <1>4, <1>5 DEF u, v, q

(***************************************************************************)
(* A tree in which x, with two children, has been moved under the last     *)
(* node of its left subtree, the root of which has taken its place: what   *)
(* do_erase_node() leaves is this tree with x spliced out.                 *)
(***************************************************************************)
Lowered(t, x, last) ==
  [t EXCEPT
     !.root  = IF x = t.root THEN t.left[x] ELSE t.root,
     !.left  = [m \in Node |-> IF m = x THEN NoNode
                               ELSE IF t.left[m] = x THEN t.left[x] ELSE t.left[m]],
     !.right = [m \in Node |-> IF m = last THEN x
                               ELSE IF t.right[m] = x THEN t.left[x] ELSE t.right[m]],
     !.top   = [m \in Node |-> IF m = x THEN last
                               ELSE IF m = t.left[x] THEN t.top[x] ELSE t.top[m]]]

LoweredSets(t, b, x, last) ==
  [n \in Node |-> IF n = x THEN {x} \cup b[t.right[x]]
                  ELSE IF n \in b[t.left[x]] /\ last \in b[n]
                  THEN b[n] \cup {x} \cup b[t.right[x]]
                  ELSE b[n]]

LEMMA LoweredShape ==
  ASSUME NEW t \in Tree, NEW b, Shape(t, b), NEW x \in t.nodes,
         t.left[x] # NoNode, t.right[x] # NoNode,
         NEW last \in b[t.left[x]], t.right[last] = NoNode,
         \A m \in b[t.left[x]] : m = last \/ Before(m, last)
  PROVE  Shape(Lowered(t, x, last), LoweredSets(t, b, x, last))
<1> DEFINE l == t.left[x]
           r == t.right[x]
           q == t.top[x]
           v == Lowered(t, x, last)
           e == LoweredSets(t, b, x, last)
<1>1. /\ t.nodes \subseteq Node /\ NoNode \notin Node /\ b \in [Node -> SUBSET Node]
      /\ x \in Node /\ x # NoNode
  BY RangeAssumption DEF Shape, Node
<1>2. /\ l \in t.nodes /\ l # x /\ t.top[l] = x /\ l \in b[l] /\ x \notin b[l]
      /\ b[l] \subseteq b[x] /\ l \in Node
  BY Child
<1>3. /\ r \in t.nodes /\ r # x /\ t.top[r] = x /\ r \in b[r] /\ x \notin b[r]
      /\ b[r] \subseteq b[x] /\ r \in Node
  BY Child
<1>4. /\ b[x] = {x} \cup b[l] \cup b[r]
      /\ \A m \in b[l] : Before(m, x)
      /\ \A m \in b[r] : Before(x, m)
      /\ b[x] \subseteq t.nodes
  BY <1>1, Nested DEF Shape, Sound, Sub
<1>5. b[l] \cap b[r] = {}
  BY <1>1, <1>4, BeforeOrders
<1>6. /\ last \in t.nodes /\ last \in b[last] /\ last # x /\ last \in b[x] /\ last \in b[l]
      /\ \A m \in b[l] : m = last \/ Before(m, last)
  BY <1>2, <1>4, Nested
<1> HIDE DEF l, r, q, v, e
<1>7. /\ v.nodes = t.nodes
      /\ v.root = IF x = t.root THEN l ELSE t.root
      /\ \A m \in Node :
           /\ v.left[m] = IF m = x THEN NoNode ELSE IF t.left[m] = x THEN l ELSE t.left[m]
           /\ v.right[m] = IF m = last THEN x ELSE IF t.right[m] = x THEN l ELSE t.right[m]
           /\ v.top[m] = IF m = x THEN last ELSE IF m = l THEN q ELSE t.top[m]
  BY DEF v, Lowered, Tree, l, q
<1>8. /\ e \in [Node -> SUBSET Node]
      /\ e[x] = {x} \cup b[r]
      /\ \A n \in Node \ {x} : e[n] = IF n \in b[l] /\ last \in b[n]
                                      THEN b[n] \cup {x} \cup b[r] ELSE b[n]
  BY <1>1, <1>2, <1>3 DEF e, LoweredSets, l, r
<1>9. \A n \in t.nodes : x \in {t.left[n], t.right[n]} => n = q
  BY ShapeOneParent DEF OneParent, q
<1>10. q \notin b[x]
  <2>1. q = NoNode \/ q \notin b[x]
    BY Parent DEF q
  <2> QED
    BY <1>1, <1>4, <2>1
<1>11. ASSUME NEW n \in b[x], n # x
       PROVE  /\ n \in t.nodes /\ Sound(t, b, n)
              /\ v.left[n] = t.left[n]
              /\ n # last => v.right[n] = t.right[n]
              /\ \A c \in {t.left[n], t.right[n]} \ {NoNode} :
                   /\ c \in t.nodes /\ c \in Node /\ c # x /\ v.top[c] = n
                   /\ b[c] \subseteq b[n] /\ n \notin b[c] /\ c \in b[n]
  <2>1. n \in t.nodes /\ n \in Node /\ Sound(t, b, n) /\ n # q
    BY <1>1, <1>4, <1>10, <1>11 DEF Shape
  <2>2. x \notin {t.left[n], t.right[n]}
    BY <1>9, <2>1
  <2>3. v.left[n] = t.left[n] /\ (n # last => v.right[n] = t.right[n])
    BY <1>7, <1>11, <2>1, <2>2
  <2>4. ASSUME NEW c \in {t.left[n], t.right[n]} \ {NoNode}
        PROVE  /\ c \in t.nodes /\ c \in Node /\ c # x /\ v.top[c] = n
               /\ b[c] \subseteq b[n] /\ n \notin b[c] /\ c \in b[n]
    <3>1. /\ c \in t.nodes /\ c \in Node /\ t.top[c] = n
          /\ b[c] \subseteq b[n] /\ n \notin b[c] /\ c \in b[n]
      BY <2>1, Child
    <3>2. c # x /\ c # l
      BY <1>2, <1>11, <2>2, <3>1
    <3> QED
      BY <1>7, <3>1, <3>2
  <2> QED
    BY <2>1, <2>3, <2>4
<1>12. ASSUME NEW n \in b[r]
       PROVE  Sound(v, e, n)
  <2>1. n \in b[x] /\ n # x /\ n # last /\ n \in Node
    BY <1>1, <1>3, <1>4, <1>5, <1>6
  <2>2. \A k \in b[r] : e[k] = b[k]
    BY <1>1, <1>3, <1>4, <1>5, <1>8
  <2>3. ASSUME NEW c \in {t.left[n], t.right[n]}
        PROVE  Sub(e, c) = Sub(b, c) /\ (c # NoNode => v.top[c] = n)
    <3>1. c # NoNode => c \in b[r] /\ v.top[c] = n
      <4>1. b[n] \subseteq b[r]
        BY <1>3, Nested
      <4> QED
        BY <1>11, <2>1, <4>1
    <3> QED
      BY <2>2, <3>1 DEF Sub
  <2>4. v.left[n] = t.left[n] /\ v.right[n] = t.right[n] /\ Sound(t, b, n)
    BY <1>11, <2>1
  <2>5. e[n] = b[n]
    BY <2>2
  <2>6. /\ Sub(e, t.left[n]) = Sub(b, t.left[n]) /\ (t.left[n] # NoNode => v.top[t.left[n]] = n)
        /\ Sub(e, t.right[n]) = Sub(b, t.right[n])
        /\ (t.right[n] # NoNode => v.top[t.right[n]] = n)
    BY <2>3
  <2> QED
    BY <1>7, <2>4, <2>5, <2>6 DEF Sound
<1>13. Sound(v, e, x)
  <2>1. v.left[x] = NoNode /\ v.right[x] = r /\ v.top[r] = x
    <3>1. r # l
      BY <1>2, <1>3, <1>5
    <3>2. t.right[x] = r
      BY DEF r
    <3> QED
      BY <1>1, <1>3, <1>6, <1>7, <3>1, <3>2
  <2>2. Sub(e, NoNode) = {} /\ Sub(e, r) = b[r]
    <3>1. r \notin b[l]
      BY <1>3, <1>5
    <3> QED
      BY <1>1, <1>3, <1>8, <3>1 DEF Sub
  <2> QED
    BY <1>1, <1>3, <1>4, <1>7, <1>8, <2>1, <2>2 DEF Sound
<1>14. \A m \in b[l] : Before(m, x) /\ \A k \in b[r] : Before(m, k)
  BY <1>1, <1>2, <1>4, BeforeOrders
<1>15. Sound(v, e, last)
  <2> DEFINE c == t.left[last]
  <2>1. v.left[last] = c /\ v.right[last] = x /\ Sound(t, b, last) /\ v.top[x] = last
    BY <1>1, <1>6, <1>7, <1>11
  <2>2. b[last] = {last} \cup Sub(b, c) /\ e[last] = b[last] \cup {x} \cup b[r]
    <3>1. last \in Node
      BY <1>1, <1>6
    <3>2. e[last] = b[last] \cup {x} \cup b[r]
      BY <1>6, <1>8, <3>1
    <3> QED
      BY <2>1, <3>2 DEF Sound, Sub
  <2>3. Sub(e, c) = Sub(b, c) /\ (c # NoNode => v.top[c] = last)
    <3>1. c # NoNode => c \in Node /\ c # x /\ last \notin b[c] /\ v.top[c] = last
      BY <1>6, <1>11
    <3> QED
      BY <1>8, <3>1 DEF Sub
  <2>4. Sub(e, x) = {x} \cup b[r]
    BY <1>1, <1>8 DEF Sub
  <2>5. \A m \in Sub(e, x) : Before(last, m)
    BY <1>6, <1>14, <2>4
  <2> QED
    BY <1>7, <1>1, <2>1, <2>2, <2>3, <2>4, <2>5 DEF Sound
<1>16. ASSUME NEW n \in b[l], n # last
       PROVE  Sound(v, e, n)
  <2>1. n \in b[x] /\ n # x /\ n \in Node /\ b[n] \subseteq b[l]
    BY <1>1, <1>2, <1>4, Nested
  <2>2. /\ v.left[n] = t.left[n] /\ v.right[n] = t.right[n] /\ Sound(t, b, n)
        /\ n \in t.nodes
    BY <1>11, <1>16, <2>1
  <2>3. ASSUME NEW c \in {t.left[n], t.right[n]}
        PROVE  /\ Sub(e, c) = IF last \in Sub(b, c) THEN Sub(b, c) \cup {x} \cup b[r]
                              ELSE Sub(b, c)
               /\ c # NoNode => v.top[c] = n
    <3>1. CASE c = NoNode
      BY <3>1 DEF Sub
    <3>2. CASE c # NoNode
      <4>1. c \in Node /\ c # x /\ c \in b[l] /\ v.top[c] = n
        BY <1>11, <2>1, <3>2
      <4>2. e[c] = IF last \in b[c] THEN b[c] \cup {x} \cup b[r] ELSE b[c]
        BY <1>8, <4>1
      <4> QED
        BY <3>2, <4>1, <4>2 DEF Sub
    <3> QED
      BY <3>1, <3>2
  <2>4. last \notin Sub(b, t.left[n])
    <3>1. Before(n, last)
      BY <1>6, <1>16
    <3>2. ~ Before(last, n)
      BY <1>1, <1>6, <2>1, <3>1, BeforeOrders
    <3> QED
      BY <2>2, <3>2 DEF Sound
  <2>5. b[n] = {n} \cup Sub(b, t.left[n]) \cup Sub(b, t.right[n])
    BY <2>2 DEF Sound
  <2>6. /\ Sub(e, t.left[n]) = Sub(b, t.left[n])
        /\ Sub(e, t.right[n]) = IF last \in Sub(b, t.right[n])
                                THEN Sub(b, t.right[n]) \cup {x} \cup b[r]
                                ELSE Sub(b, t.right[n])
        /\ t.left[n] # NoNode => v.top[t.left[n]] = n
        /\ t.right[n] # NoNode => v.top[t.right[n]] = n
    BY <2>3, <2>4
  <2>7. e[n] = IF last \in Sub(b, t.right[n]) THEN b[n] \cup {x} \cup b[r] ELSE b[n]
    <3>1. last \in b[n] <=> last \in Sub(b, t.right[n])
      BY <1>16, <2>4, <2>5
    <3> QED
      BY <1>8, <2>1, <3>1
  <2>8. e[n] = {n} \cup Sub(e, v.left[n]) \cup Sub(e, v.right[n])
    BY <2>2, <2>5, <2>6, <2>7
  <2>9. /\ \A m \in Sub(e, v.left[n]) : Before(m, n)
        /\ \A m \in Sub(e, v.right[n]) : Before(n, m)
    BY <1>14, <2>2, <2>6 DEF Sound
  <2> QED
    BY <1>7, <2>2, <2>6, <2>8, <2>9 DEF Sound
<1>17. ASSUME NEW n \in b[x]
       PROVE  Sound(v, e, n)
  <2>1. CASE n \in b[r]
    BY <1>12, <2>1
  <2>2. CASE n = x
    BY <1>13, <2>2
  <2>3. CASE n \in b[l] /\ n = last
    BY <1>15, <2>3
  <2>4. CASE n \in b[l] /\ n # last
    BY <1>16, <2>4
  <2> QED
    BY <1>4, <2>1, <2>2, <2>3, <2>4
<1>18. e[l] = b[x]
  BY <1>2, <1>4, <1>6, <1>8
<1>19. ASSUME NEW n \in t.nodes \ b[x]
       PROVE  /\ v.left[n] = IF t.left[n] = x THEN l ELSE t.left[n]
              /\ v.right[n] = IF t.right[n] = x THEN l ELSE t.right[n]
              /\ v.top[n] = t.top[n]
              /\ e[n] = b[n]
  <2>1. n \in Node /\ n # x /\ n # last /\ n # l /\ n \notin b[l]
    BY <1>1, <1>2, <1>4, <1>6
  <2> QED
    BY <1>7, <1>8, <2>1
<1>20. v.top[l] = t.top[x]
  BY <1>2, <1>7 DEF q
<1> QED
  BY <1>2, <1>7, <1>8, <1>17, <1>18, <1>19, <1>20, Rearranged DEF v, e

\* A height that was good for a subtree is good for a larger one.
LEMMA StillGood ==
  ASSUME NEW t, NEW u, NEW b, NEW d, NEW n, GoodHeight(t, b, n),
         d[n] \in SUBSET Node, b[n] \subseteq d[n], u.height[n] = t.height[n]
  PROVE  GoodHeight(u, d, n)
<1>1. /\ Cardinality(b[n]) \in Nat /\ Cardinality(d[n]) \in Nat
      /\ Cardinality(b[n]) <= Cardinality(d[n])
  BY Smaller
<1> QED
  BY <1>1 DEF GoodHeight

\* Without one of its nodes a tree is countable too.
LEMMA StillCountable ==
  ASSUME NEW ns \in SUBSET Node, Cardinality(ns) <= HeightMax, NEW x,
         NEW u, u.nodes = ns \ {x}
  PROVE  Countable(u)
<1>1. ns \ {x} \in SUBSET ns
  OBVIOUS
<1>2. /\ Cardinality(ns) \in Nat /\ Cardinality(ns \ {x}) \in Nat
      /\ Cardinality(ns \ {x}) <= Cardinality(ns)
  BY <1>1, Smaller
<1> QED
  BY <1>2, HeightAssumption DEF Countable

\* do_erase_node() for a node with one child at most.
LEMMA ErasesWithOneChild ==
  ASSUME NEW t, NEW ns, Sane(t, ns), Cardinality(ns) <= HeightMax, NEW x \in ns,
         t.left[x] = NoNode \/ t.right[x] = NoNode,
         ~ (t.left[x] = NoNode /\ t.right[x] = NoNode /\ t.top[x] = NoNode)
  PROVE  Sane(Erased(t, x), ns \ {x})
<1> DEFINE c     == IF t.left[x] # NoNode THEN t.left[x] ELSE t.right[x]
           u     == DestroyNode(Unlink(t, x, c), x)
           start == IF t.top[x] = NoNode THEN c ELSE t.top[x]
<1>1. PICK b : Shape(t, b) /\ \A n \in ns : GoodHeight(t, b, n)
  BY DEF Sane
<1>2. /\ t \in Tree /\ t.nodes = ns /\ ns \subseteq Node /\ NoNode \notin Node
      /\ b \in [Node -> SUBSET Node]
  BY <1>1, RangeAssumption DEF Sane, Shape, Node
<1>3. Erased(t, x) = RebalanceFrom(u, start)
  BY DEF Erased
<1>4. /\ c \in Link \ {x}
      /\ \/ (c = t.left[x] /\ t.right[x] = NoNode)
         \/ (c = t.right[x] /\ t.left[x] = NoNode)
      /\ t.top[x] = NoNode => c # NoNode
      /\ c # NoNode => c \in ns
  <2>1. /\ t.left[x] \in Link /\ t.right[x] \in Link /\ x # NoNode
    BY <1>2 DEF Tree
  <2>2. /\ t.left[x] # NoNode => t.left[x] # x /\ t.left[x] \in ns
        /\ t.right[x] # NoNode => t.right[x] # x /\ t.right[x] \in ns
    BY <1>1, <1>2, Child
  <2>3. c = IF t.left[x] # NoNode THEN t.left[x] ELSE t.right[x]
    OBVIOUS
  <2> DEFINE k == t.left[x]
             r == t.right[x]
  <2>4. t.top[x] = NoNode => k # NoNode \/ r # NoNode
    OBVIOUS
  <2>5. k = NoNode \/ r = NoNode
    OBVIOUS
  <2>6. /\ c = IF k # NoNode THEN k ELSE r
        /\ k \in Link /\ r \in Link /\ x # NoNode
        /\ k # NoNode => k # x /\ k \in ns
        /\ r # NoNode => r # x /\ r \in ns
    BY <2>1, <2>2, <2>3
  <2>7. k = t.left[x] /\ r = t.right[x]
    OBVIOUS
  <2> HIDE DEF c, k, r
  <2>8. /\ c \in Link \ {x}
        /\ (c = k /\ r = NoNode) \/ (c = r /\ k = NoNode)
        /\ t.top[x] = NoNode => c # NoNode
        /\ c # NoNode => c \in ns
    BY <2>4, <2>5, <2>6
  <2> QED
    BY <2>7, <2>8
<1> HIDE DEF c
<1>5. /\ u \in Tree
      /\ u.root = IF t.top[x] = NoNode THEN c ELSE t.root
      /\ u.nodes = ns \ {x} /\ u.leaked = t.leaked
      /\ \A m \in ns \ {x} :
           /\ u.left[m] = IF t.left[m] = x THEN c ELSE t.left[m]
           /\ u.right[m] = IF t.right[m] = x THEN c ELSE t.right[m]
           /\ u.top[m] = IF m = c THEN t.top[x] ELSE t.top[m]
           /\ u.height[m] = t.height[m]
  BY <1>1, <1>2, <1>4, CutLinks, ShapeOneParent
<1> HIDE DEF u
<1> DEFINE d == Without(b, x)
<1>6. Shape(u, d)
  BY <1>1, <1>2, <1>4, <1>5, Spliced
<1>7. \A n \in Node : d[n] = b[n] \ {x}
  BY DEF Without
<1> HIDE DEF d
<1>8. /\ t.top[x] = NoNode <=> x = t.root
      /\ x # t.root => t.top[x] \in ns /\ t.top[x] # x
      /\ b[t.root] = ns
  BY <1>1, <1>2, Parent DEF Shape
<1>9. start \in u.nodes
  BY <1>4, <1>5, <1>8
<1>10. HeightsAside(u, d, start)
  <2>1. SUFFICES ASSUME NEW n \in ns \ {x}, start \notin d[n]
                 PROVE  GoodHeight(u, d, n)
    BY <1>5 DEF HeightsAside
  <2>2. x \notin b[n]
    <3>1. SUFFICES ASSUME x \in b[n]
                   PROVE  FALSE
      OBVIOUS
    <3>2. CASE t.top[x] = NoNode
      <4>1. n \in b[x]
        BY <1>8, <3>2
      <4> QED
        BY <1>1, <1>2, <3>1, <4>1, NotMutual
    <3>3. CASE t.top[x] # NoNode
      <4>1. t.top[x] \in b[n]
        BY <1>1, <1>2, <3>1, Nested
      <4> QED
        BY <1>2, <1>7, <1>8, <2>1, <3>3, <4>1
    <3> QED
      BY <3>2, <3>3
  <2>3. b[n] \subseteq d[n] /\ d[n] \in SUBSET Node
    BY <1>2, <1>7, <2>2
  <2> QED
    BY <1>1, <1>5, <2>3, StillGood
<1>11. Countable(u)
  BY <1>2, <1>5, StillCountable
<1>12. Sane(RebalanceFrom(u, start), u.nodes)
  BY <1>5, <1>6, <1>9, <1>10, <1>11, Rebalances
<1> QED
  BY <1>3, <1>5, <1>12

\* do_erase_node() for a node with two children.
LEMMA ErasesWithTwoChildren ==
  ASSUME NEW t, NEW ns, Sane(t, ns), Cardinality(ns) <= HeightMax, NEW x \in ns,
         t.left[x] # NoNode, t.right[x] # NoNode
  PROVE  Sane(Erased(t, x), ns \ {x})
<1> DEFINE l     == t.left[x]
           r     == t.right[x]
           q     == t.top[x]
           last  == RightMost(t, l)
           w     == SetRight(t, last, r)
           u     == DestroyNode(Unlink(w, x, l), x)
           start == IF q = NoNode THEN l ELSE last
<1>1. PICK b : Shape(t, b) /\ \A n \in ns : GoodHeight(t, b, n)
  BY DEF Sane
<1>2. /\ t \in Tree /\ t.nodes = ns /\ ns \subseteq Node /\ NoNode \notin Node
      /\ b \in [Node -> SUBSET Node] /\ x \in Node /\ x # NoNode
  BY <1>1, RangeAssumption DEF Sane, Shape, Node
<1>3. Erased(t, x) = RebalanceFrom(u, start)
  BY DEF Erased
<1>4. /\ l \in ns /\ l # x /\ l # NoNode /\ x \notin b[l] /\ b[l] \subseteq b[x]
      /\ r \in ns /\ r # x /\ r # NoNode /\ x \notin b[r] /\ b[r] \subseteq b[x]
      /\ l \in Link /\ r \in Link
  BY <1>1, <1>2, Child DEF Link
<1>5. /\ last \in b[l] /\ last \in ns /\ last # x /\ last \in b[x] /\ last \in Node
      /\ t.right[last] = NoNode
      /\ \A m \in b[l] : m = last \/ Before(m, last)
  <2> HIDE DEF l, last
  <2>1. /\ last \in b[l] /\ t.right[last] = NoNode
        /\ \A m \in b[l] : m = last \/ Before(m, last)
    BY <1>1, <1>2, <1>4, RightMostIs DEF last
  <2>2. b[l] \subseteq ns
    BY <1>1, <1>2, <1>4, Nested
  <2> QED
    BY <1>2, <1>4, <2>1, <2>2
<1> DEFINE v == Lowered(t, x, last)
           e == LoweredSets(t, b, x, last)
<1>6. Shape(v, e)
  BY <1>1, <1>2, <1>5, LoweredShape
<1>7. /\ v.nodes = ns
      /\ v.root = IF x = t.root THEN l ELSE t.root
      /\ \A m \in Node :
           /\ v.left[m] = IF m = x THEN NoNode ELSE IF t.left[m] = x THEN l ELSE t.left[m]
           /\ v.right[m] = IF m = last THEN x ELSE IF t.right[m] = x THEN l ELSE t.right[m]
           /\ v.top[m] = IF m = x THEN last ELSE IF m = l THEN q ELSE t.top[m]
  BY <1>2 DEF Lowered, Tree
<1>8. /\ e[x] = {x} \cup b[r]
      /\ \A n \in Node \ {x} : e[n] = IF n \in b[l] /\ last \in b[n]
                                      THEN b[n] \cup {x} \cup b[r] ELSE b[n]
  BY <1>2 DEF LoweredSets
<1>9. OneParent(t, x) /\ l # r
  <2>1. Sound(t, b, x) /\ l \in b[l] /\ r \in b[r]
    BY <1>1, <1>2, <1>4, Nested DEF Shape
  <2>2. Before(l, x) /\ Before(x, r)
    BY <1>4, <2>1 DEF Sound, Sub
  <2>3. l # r
    BY <1>2, <1>4, <2>2, BeforeOrders
  <2> QED
    BY <1>1, <1>2, <2>3, ShapeOneParent
<1> HIDE DEF l, r, q, last, v, e
<1>10. /\ w \in Tree
       /\ w.root = t.root /\ w.nodes = ns /\ w.leaked = t.leaked
       /\ w.right = [t.right EXCEPT ![last] = r]
       /\ w.left = t.left /\ w.height = t.height
       /\ \A m \in Node : w.top[m] = IF m = r THEN last ELSE t.top[m]
  BY <1>2, <1>4, <1>5, SetRightLinks
<1> HIDE DEF w
<1>11. /\ w.top[x] = q
       /\ \A m \in ns : w.right[m] = IF m = last THEN r ELSE t.right[m]
  BY <1>2, <1>4, <1>10 DEF q, Tree
<1>12. /\ q = NoNode <=> x = t.root
       /\ q # NoNode => q \in ns /\ q # last
       /\ b[t.root] = ns
  BY <1>1, <1>2, <1>5, Parent, Nested DEF Shape, q
<1>13. OneParent(w, x)
  BY <1>2, <1>4, <1>9, <1>10, <1>11, <1>12 DEF OneParent, q
<1>14. /\ u \in Tree
       /\ u.root = IF q = NoNode THEN l ELSE t.root
       /\ u.nodes = ns \ {x} /\ u.leaked = t.leaked
       /\ \A m \in ns \ {x} :
            /\ u.left[m] = IF w.left[m] = x THEN l ELSE w.left[m]
            /\ u.right[m] = IF w.right[m] = x THEN l ELSE w.right[m]
            /\ u.top[m] = IF m = l THEN q ELSE w.top[m]
            /\ u.height[m] = t.height[m]
  <2>1. /\ w.nodes \subseteq Node /\ x \in w.nodes /\ l \in Link \ {x}
        /\ w.top[x] = NoNode => l # NoNode
        /\ w \in Tree
    BY <1>2, <1>4, <1>10
  <2>2. /\ u \in Tree
        /\ u.root = IF w.top[x] = NoNode THEN l ELSE w.root
        /\ u.nodes = w.nodes \ {x} /\ u.leaked = w.leaked
        /\ \A m \in w.nodes \ {x} :
             /\ u.left[m] = IF w.left[m] = x THEN l ELSE w.left[m]
             /\ u.right[m] = IF w.right[m] = x THEN l ELSE w.right[m]
             /\ u.top[m] = IF m = l THEN w.top[x] ELSE w.top[m]
             /\ u.height[m] = w.height[m]
    BY <1>13, <2>1, CutLinks
  <2> HIDE DEF u
  <2> QED
    BY <1>10, <1>11, <2>2
<1> HIDE DEF u
<1> DEFINE d == Without(e, x)
<1>15. Shape(u, d)
  <2>1. r = v.right[x] /\ v.left[x] = NoNode /\ v.top[x] = last
    BY <1>2, <1>5, <1>7, <1>4 DEF r
  <2>2. u.root = IF v.top[x] = NoNode THEN r ELSE v.root
    BY <1>2, <1>5, <1>7, <1>12, <1>14, <2>1
  <2>3. ASSUME NEW m \in ns \ {x}
        PROVE  /\ u.left[m] = IF v.left[m] = x THEN r ELSE v.left[m]
               /\ u.right[m] = IF v.right[m] = x THEN r ELSE v.right[m]
               /\ u.top[m] = IF m = r THEN v.top[x] ELSE v.top[m]
    <3>1. m \in Node /\ l # r
      BY <1>2, <1>9
    <3> QED
      BY <1>4, <1>7, <1>10, <1>11, <1>14, <2>1, <3>1
  <2>4. /\ v.nodes = ns /\ x \in v.nodes /\ u.nodes = v.nodes \ {x}
        /\ v.top[x] # NoNode
    BY <1>2, <1>5, <1>7, <1>14, <2>1
  <2> HIDE DEF d
  <2>5. Shape(u, Without(e, x))
    BY <1>6, <2>1, <2>2, <2>3, <2>4, Spliced
  <2> QED
    BY <2>5 DEF d
<1>16. \A n \in Node : d[n] = e[n] \ {x}
  BY DEF Without
<1> HIDE DEF d
<1>17. start \in u.nodes
  BY <1>4, <1>5, <1>14
<1>18. HeightsAside(u, d, start)
  <2>1. SUFFICES ASSUME NEW n \in ns \ {x}, start \notin d[n]
                 PROVE  GoodHeight(u, d, n)
    BY <1>14 DEF HeightsAside
  <2>2. e[n] = IF n \in b[l] /\ last \in b[n] THEN b[n] \cup {x} \cup b[r] ELSE b[n]
    BY <1>2, <1>8
  <2>3. x \notin b[n]
    <3>1. SUFFICES ASSUME x \in b[n]
                   PROVE  FALSE
      OBVIOUS
    <3>2. CASE q = NoNode
      <4>1. n \in b[x]
        BY <1>12, <3>2
      <4> QED
        BY <1>1, <1>2, <3>1, <4>1, NotMutual
    <3>3. CASE q # NoNode
      <4>1. b[x] \subseteq b[n]
        BY <1>1, <1>2, <3>1, Nested
      <4>2. last \in e[n]
        BY <1>5, <2>2, <4>1
      <4> QED
        BY <1>2, <1>5, <1>16, <2>1, <3>3, <4>2
    <3> QED
      BY <3>2, <3>3
  <2>4. b[n] \subseteq d[n] /\ d[n] \in SUBSET Node
    <3>1. d[n] \in SUBSET Node
      BY <1>2, <1>15 DEF Shape
    <3> QED
      BY <1>2, <1>16, <2>2, <2>3, <3>1
  <2> QED
    BY <1>1, <1>14, <2>4, StillGood
<1>19. Countable(u)
  BY <1>2, <1>14, StillCountable
<1>20. Sane(RebalanceFrom(u, start), u.nodes)
  BY <1>14, <1>15, <1>17, <1>18, <1>19, Rebalances
<1> QED
  BY <1>3, <1>14, <1>20 DEF start, u, w, last, q, l, r

\* erase() of a node: a lone root is the only node that is left undestroyed.
LEMMA Erases ==
  ASSUME NEW t, NEW ns, Sane(t, ns), Cardinality(ns) <= HeightMax, NEW x \in ns
  PROVE  Sane(Erased(t, x), ns \ {x})
<1>1. CASE t.left[x] # NoNode /\ t.right[x] # NoNode
  BY <1>1, ErasesWithTwoChildren
<1>2. CASE /\ t.left[x] = NoNode \/ t.right[x] = NoNode
           /\ ~ (t.left[x] = NoNode /\ t.right[x] = NoNode /\ t.top[x] = NoNode)
  BY <1>2, ErasesWithOneChild
<1>3. CASE t.left[x] = NoNode /\ t.right[x] = NoNode /\ t.top[x] = NoNode
  <2>1. PICK b : Shape(t, b)
    BY DEF Sane
  <2>2. /\ t \in Tree /\ t.nodes = ns /\ ns \subseteq Node /\ NoNode \notin Node
    BY <2>1, RangeAssumption DEF Sane, Shape, Node
  <2>3. x = t.root /\ b[x] = ns /\ b[x] = {x}
    BY <1>3, <2>1, <2>2, Parent DEF Shape, Sound, Sub
  <2> DEFINE u == DestroyNode(t, x)
             z == [u EXCEPT !.root = NoNode, !.leaked = TRUE]
  <2>4. Erased(t, x) = z
    BY <1>3, <2>3 DEF Erased, LeakRoot
  <2>5. u \in Tree /\ u.nodes = ns \ {x}
    BY <2>2, DestroyNodeLinks
  <2> HIDE DEF u
  <2>6. z \in Tree /\ z.root = NoNode /\ z.nodes = {}
    BY <2>3, <2>5 DEF Tree, Link
  <2> HIDE DEF z
  <2>7. Shape(z, b)
    BY <2>1, <2>6 DEF Shape
  <2> QED
    BY <2>3, <2>4, <2>6, <2>7 DEF Sane
<1> QED
  BY <1>1, <1>2, <1>3

\* The walk of do_destroy_tree() ends at a leaf.
LEMMA LeafBelowIs ==
  ASSUME NEW t \in Tree, NEW b, Shape(t, b), NEW n \in t.nodes
  PROVE  /\ LeafBelow(t, n) \in b[n]
         /\ t.left[LeafBelow(t, n)] = NoNode /\ t.right[LeafBelow(t, n)] = NoNode
<1> DEFINE turn == [m \in Node |->
                      LET down == LeftMost(t, RightMost(t, m))
                      IN  IF t.right[down] = NoNode THEN down ELSE t.right[down]]
           States == b[n]
           Over   == { m \in States : t.left[m] = NoNode /\ t.right[m] = NoNode }
           ahead  == [m \in States |-> b[m]]
<1>1. /\ n \in Node /\ n \in b[n] /\ b[n] \in SUBSET Node /\ b[n] \subseteq t.nodes
  BY Nested DEF Shape
<1>2. ASSUME NEW m \in States
      PROVE  /\ turn[m] \in States
             /\ m \in Over => turn[m] \in Over
             /\ m \notin Over => Narrower(ahead[turn[m]], ahead[m])
  <2> DEFINE right == RightMost(t, m)
             down  == LeftMost(t, right)
  <2>1. m \in t.nodes /\ m \in Node /\ b[m] \subseteq b[n] /\ m \in b[m]
    BY <1>1, Nested
  <2>2. right \in b[m] /\ right \in t.nodes
    BY <1>1, <2>1, RightMostIs
  <2>3. down \in b[right] /\ t.left[down] = NoNode /\ b[right] \subseteq b[m]
    <3> HIDE DEF right
    <3> QED
      BY <2>1, <2>2, LeftMostIs, Nested
  <2>4. turn[m] = IF t.right[down] = NoNode THEN down ELSE t.right[down]
    BY <2>1
  <2> HIDE DEF right, down, turn
  <2>5. down \in b[m] /\ down \in t.nodes /\ b[down] \subseteq b[m] /\ down \in States
    BY <1>1, <2>1, <2>2, <2>3, Nested
  <2>6. CASE t.right[down] = NoNode
    <3>1. turn[m] = down /\ down \in Over
      BY <2>3, <2>4, <2>5, <2>6
    <3>2. ASSUME m \notin Over
          PROVE  b[down] # b[m]
      <4>1. down # m
        BY <2>3, <2>6, <3>2
      <4>2. m \notin b[down]
        BY <2>1, <2>5, <4>1, NotMutual
      <4> QED
        BY <2>1, <4>2
    <3> QED
      BY <2>1, <2>5, <3>1, <3>2 DEF Narrower
  <2>7. CASE t.right[down] # NoNode
    <3> DEFINE c == t.right[down]
    <3>1. /\ c \in b[down] /\ b[c] \subseteq b[down] /\ b[c] # b[down] /\ c \in b[c]
      BY <2>5, <2>7, Child
    <3>2. turn[m] = c
      BY <2>4, <2>7
    <3>3. m \notin Over
      <4>1. SUFFICES ASSUME m \in Over
                     PROVE  FALSE
        OBVIOUS
      <4>2. b[m] = {m}
        BY <2>1, <4>1 DEF Shape, Sound, Sub
      <4> QED
        BY <2>5, <2>7, <4>1, <4>2
    <3> HIDE DEF c
    <3> QED
      BY <2>1, <2>5, <3>1, <3>2, <3>3 DEF Narrower
  <2> QED
    BY <2>6, <2>7
<1>3. n \in States /\ ahead \in [States -> SUBSET Node]
  BY <1>1 DEF Shape
<1>4. Loop(turn, n) \in States \cap Over
  <2> HIDE DEF turn, States, Over, ahead
  <2> QED
    BY <1>2, <1>3, LoopEnds
<1>5. Loop(turn, n) = LeafBelow(t, n)
  BY DEF LeafBelow
<1> HIDE DEF turn
<1> QED
  BY <1>4, <1>5

\* do_destroy_tree() leaves the root alone.
LEMMA DestroysAllButRoot ==
  ASSUME NEW t \in Tree, NEW a, Shape(t, a), t.root # NoNode
  PROVE  /\ DestroyTree(t, t.root) \in Tree
         /\ DestroyTree(t, t.root).nodes = {t.root}
<1> DEFINE States == { s \in [tree : Tree, from : Node] :
                         /\ \E b : Shape(s.tree, b)
                         /\ s.from \in s.tree.nodes
                         /\ s.tree.root = t.root }
           Over   == { s \in States : s.tree.nodes = {t.root} }
           ahead  == [s \in States |-> s.tree.nodes]
           first  == [tree |-> t, from |-> t.root]
<1>1. ASSUME NEW s \in States
      PROVE  /\ DestroyTurn[s] \in States
             /\ s \in Over => DestroyTurn[s] \in Over
             /\ s \notin Over => Narrower(ahead[DestroyTurn[s]], ahead[s])
  <2> DEFINE u    == s.tree
             leaf == LeafBelow(u, s.from)
             top  == u.top[leaf]
             v    == DestroyNode(ReplaceChild(u, top, leaf, NoNode), leaf)
  <2>1. PICK b : Shape(u, b)
    OBVIOUS
  <2>2. /\ u \in Tree /\ s.from \in u.nodes /\ u.root = t.root /\ u.nodes \subseteq Node
        /\ s \in [tree : Tree, from : Node]
    BY <2>1 DEF Shape
  <2>3. DestroyTurn[s] = IF top = NoNode THEN s ELSE [tree |-> v, from |-> top]
    BY <2>2 DEF DestroyTurn
  <2>4. leaf \in u.nodes /\ u.left[leaf] = NoNode /\ u.right[leaf] = NoNode
    <3> HIDE DEF u
    <3>1. /\ leaf \in b[s.from] /\ u.left[leaf] = NoNode /\ u.right[leaf] = NoNode
      BY <2>1, <2>2, LeafBelowIs
    <3> QED
      BY <2>1, <2>2, <3>1, Nested
  <2>5. top = NoNode <=> u.nodes = {t.root}
    <3> HIDE DEF u, leaf
    <3>1. top = NoNode <=> leaf = u.root
      BY <2>1, <2>4, Parent
    <3>2. b[leaf] = {leaf} /\ b[u.root] = u.nodes /\ u.root \in u.nodes
      BY <2>1, <2>4 DEF Shape, Sound, Sub
    <3> QED
      BY <2>2, <2>4, <3>1, <3>2
  <2>6. CASE top = NoNode
    <3>1. DestroyTurn[s] = s /\ s \in Over
      BY <2>3, <2>5, <2>6
    <3> QED
      BY <3>1
  <2>7. CASE top # NoNode
    <3>1. v = DestroyNode(Unlink(u, leaf, NoNode), leaf)
      BY <2>7 DEF Unlink
    <3> HIDE DEF u, leaf, v
    <3>2. /\ top \in u.nodes /\ top # leaf
      BY <2>1, <2>4, <2>7, Parent
    <3>3. OneParent(u, leaf)
      BY <2>1, <2>4, ShapeOneParent
    <3>4. NoNode \in Link \ {leaf}
      BY <2>2, <2>4, RangeAssumption DEF Link, Node
    <3>5. /\ v \in Tree
          /\ v.root = u.root /\ v.nodes = u.nodes \ {leaf}
          /\ \A m \in u.nodes \ {leaf} :
               /\ v.left[m] = IF u.left[m] = leaf THEN NoNode ELSE u.left[m]
               /\ v.right[m] = IF u.right[m] = leaf THEN NoNode ELSE u.right[m]
               /\ v.top[m] = IF m = NoNode THEN u.top[leaf] ELSE u.top[m]
      BY <2>2, <2>4, <2>7, <3>1, <3>3, <3>4, CutLinks
    <3>6. Shape(v, Without(b, leaf))
      BY <2>1, <2>4, <2>7, <3>5, Spliced
    <3> DEFINE next == [tree |-> v, from |-> top]
    <3>7. next \in States
      BY <2>2, <3>2, <3>5, <3>6
    <3>8. DestroyTurn[s] = next /\ next.tree = v
      BY <2>3, <2>7
    <3>9. s \notin Over /\ Narrower(v.nodes, u.nodes)
      BY <2>4, <2>5, <2>7, <3>5 DEF Narrower, u
    <3>10. ahead[next] = v.nodes /\ ahead[s] = u.nodes
      BY <3>7, <3>8 DEF u
    <3> HIDE DEF next, States, Over, ahead
    <3> QED
      BY <3>7, <3>8, <3>9, <3>10
  <2> QED
    BY <2>6, <2>7
<1>2. first \in States /\ ahead \in [States -> SUBSET Node]
  BY DEF Shape
<1>3. Loop(DestroyTurn, first) \in States \cap Over
  <2> HIDE DEF first, States, Over, ahead
  <2> QED
    BY <1>1, <1>2, LoopEnds
<1>4. DestroyTree(t, t.root) = Loop(DestroyTurn, first).tree
  BY DEF DestroyTree
<1> HIDE DEF first
<1> QED
  BY <1>3, <1>4

\* clear() destroys every node.
LEMMA Clears ==
  ASSUME NEW t, NEW ns, Sane(t, ns)
  PROVE  Sane(Cleared(t), {})
<1>1. PICK b : Shape(t, b)
  BY DEF Sane
<1>2. t \in Tree /\ t.nodes = ns
  BY DEF Sane
<1>3. CASE t.root = NoNode
  <2>1. t.nodes = {} /\ Cleared(t) = t
    BY <1>1, <1>3, RangeAssumption DEF Shape, Cleared, Node
  <2> QED
    BY <1>2, <2>1
<1>4. CASE t.root # NoNode
  <2> DEFINE u == DestroyTree(t, t.root)
             v == DestroyNode(u, t.root)
             z == [v EXCEPT !.root = NoNode]
  <2>1. u \in Tree /\ u.nodes = {t.root}
    BY <1>1, <1>2, <1>4, DestroysAllButRoot
  <2>2. Cleared(t) = z
    BY <1>4 DEF Cleared
  <2> HIDE DEF u
  <2>3. v \in Tree /\ v.nodes = {}
    <3>1. t.root \in Node
      BY <1>2, <1>4 DEF Tree, Link
    <3> QED
      BY <2>1, <3>1, DestroyNodeLinks
  <2> HIDE DEF v
  <2>4. z \in Tree /\ z.root = NoNode /\ z.nodes = {}
    BY <2>3 DEF Tree, Link
  <2> HIDE DEF z
  <2>5. Shape(z, b)
    BY <1>1, <2>4 DEF Shape
  <2> QED
    BY <2>2, <2>4, <2>5 DEF Sane
<1> QED
  BY <1>3, <1>4

-----------------------------------------------------------------------------
(***************************************************************************)
(* Iteration                                                               *)
(***************************************************************************)
\* Of the nodes outside a subtree, the same ones are to the left of all in it.
LEMMA LeftOfAll ==
  ASSUME NEW t, NEW b, Shape(t, b), NEW k \in t.nodes, NEW n \in b[k], NEW m \in b[k],
         NEW x \in t.nodes \ b[k], Before(x, m)
  PROVE  Before(x, n)
<1>1. n \in Node /\ m \in Node /\ x \in Node
  BY Nested DEF Shape
<1> QED
  BY <1>1, Beside, BeforeOrders

\* inc_node() goes to the next node, or ends; it may end early when two nodes
\* are to the left of n.
LEMMA IncNodeIs ==
  ASSUME NEW t \in Tree, NEW b, Shape(t, b), NEW n \in t.nodes
  PROVE  LET m == IncNode(t, n) IN
         /\ m \in t.nodes \cup {NoNode}
         /\ m # NoNode =>
              \A x \in t.nodes : Before(x, m) <=> x = n \/ Before(x, n)
         /\ m = NoNode =>
              \/ \A x \in t.nodes : x = n \/ Before(x, n)
              \/ \E x, y \in t.nodes : x # y /\ Before(x, n) /\ Before(y, n)
<1> DEFINE m   == IncNode(t, n)
           top == t.top[n]
           r   == t.right[n]
<1>1. /\ n \in Node /\ n \in b[n] /\ t.nodes \subseteq Node /\ NoNode \notin t.nodes
      /\ Sound(t, b, n)
  BY Nested, RangeAssumption DEF Shape, Node
\* A node after n that is next is found before all the later ones.
<1>2. ASSUME NEW k \in t.nodes, Before(n, k),
             \A x \in t.nodes : Before(x, k) => x = n \/ Before(x, n)
      PROVE  \A x \in t.nodes : Before(x, k) <=> x = n \/ Before(x, n)
  BY <1>1, <1>2, BeforeOrders
<1>3. ASSUME r = NoNode, NEW x \in b[n]
      PROVE  x = n \/ Before(x, n)
  BY <1>1, <1>3 DEF Sound, Sub
<1>4. CASE r # NoNode
  <2>1. m = LeftMost(t, r)
    BY <1>4 DEF IncNode
  <2>2. r \in t.nodes /\ r \in b[n] /\ b[r] \subseteq b[n]
    BY <1>4, Child
  <2> HIDE DEF r, m
  <2>3. /\ m \in b[r] /\ m \in t.nodes /\ m \in b[n]
        /\ \A x \in b[r] : x = m \/ Before(m, x)
    BY <2>1, <2>2, LeftMostIs, Nested
  <2>4. /\ b[n] = {n} \cup Sub(b, t.left[n]) \cup b[r]
        /\ \A x \in Sub(b, t.left[n]) : Before(x, n)
        /\ \A x \in b[r] : Before(n, x)
    BY <1>1, <1>4 DEF Sound, Sub, r
  <2>5. Before(n, m)
    BY <2>3, <2>4
  <2>6. ASSUME NEW x \in t.nodes, Before(x, m)
        PROVE  x = n \/ Before(x, n)
    <3>1. CASE x \notin b[n]
      BY <1>1, <2>3, <2>6, <3>1, LeftOfAll
    <3>2. CASE x \in b[r]
      BY <1>1, <2>3, <2>6, <3>2, BeforeOrders
    <3> QED
      BY <2>4, <3>1, <3>2
  <2>7. \A x \in t.nodes : Before(x, m) <=> x = n \/ Before(x, n)
    BY <1>2, <2>3, <2>5, <2>6
  <2> QED
    BY <1>1, <2>3, <2>7 DEF m
<1>5. CASE r = NoNode /\ top = NoNode
  <2>1. m = NoNode
    BY <1>5 DEF IncNode
  <2>2. b[n] = t.nodes
    BY <1>1, <1>5, Parent DEF Shape
  <2> HIDE DEF m, r
  <2> QED
    BY <1>3, <1>5, <2>1, <2>2 DEF m
<1>6. CASE r = NoNode /\ top # NoNode
  <2>1. /\ top \in t.nodes /\ n \in {t.left[top], t.right[top]} \ {NoNode}
        /\ t.left[top] # t.right[top] /\ n \in b[top] /\ top \in b[top]
        /\ Sound(t, b, top)
    BY <1>1, <1>6, Parent, Nested DEF Shape
  <2>2. CASE t.right[top] # n
    <3>1. m = top
      BY <1>6, <2>2 DEF IncNode
    <3> HIDE DEF m, top, r
    <3>2. /\ b[top] = {top} \cup b[n] \cup Sub(b, t.right[top])
          /\ \A x \in b[n] : Before(x, top)
          /\ \A x \in Sub(b, t.right[top]) : Before(top, x)
      BY <2>1, <2>2 DEF Sound, Sub
    <3>3. ASSUME NEW x \in t.nodes, Before(x, top)
          PROVE  x = n \/ Before(x, n)
      <4>1. CASE x \notin b[top]
        BY <2>1, <3>3, <4>1, LeftOfAll
      <4>2. CASE x \in b[top]
        <5>1. x # top /\ ~ Before(top, x)
          BY <1>1, <2>1, <3>3, BeforeOrders
        <5>2. x \in b[n]
          BY <3>2, <4>2, <5>1
        <5> QED
          BY <1>3, <1>6, <5>2
      <4> QED
        BY <4>1, <4>2
    <3>4. \A x \in t.nodes : Before(x, top) <=> x = n \/ Before(x, n)
      BY <1>1, <1>2, <2>1, <3>2, <3>3
    <3> QED
      BY <1>6, <2>1, <3>1, <3>4 DEF m
  <2>3. CASE t.right[top] = n
    <3> DEFINE g == t.top[top]
    <3>1. m = IF g # NoNode /\ top = t.left[g] THEN g ELSE NoNode
      BY <1>6, <2>3 DEF IncNode
    <3>2. /\ b[top] = {top} \cup Sub(b, t.left[top]) \cup b[n]
          /\ \A x \in Sub(b, t.left[top]) : Before(x, top)
          /\ \A x \in b[n] : Before(top, x)
      BY <2>1, <2>3 DEF Sound, Sub
    <3> HIDE DEF m, top, r
    <3>3. ASSUME NEW x \in b[top]
          PROVE  x = n \/ Before(x, n)
      <4>1. x \in Node
        BY <1>1, <2>1, <3>3, Nested
      <4>2. Before(top, n) /\ top \in Node
        BY <1>1, <2>1, <3>2
      <4> QED
        BY <1>1, <1>3, <1>6, <3>2, <3>3, <4>1, <4>2, BeforeOrders
    <3>4. CASE g = NoNode
      <4>1. b[top] = t.nodes
        BY <2>1, <3>4, Parent DEF Shape
      <4> QED
        BY <3>1, <3>3, <3>4, <4>1 DEF m
    <3>5. CASE g # NoNode
      <4>1. /\ g \in t.nodes /\ top \in {t.left[g], t.right[g]} \ {NoNode}
            /\ t.left[g] # t.right[g] /\ top \in b[g] /\ b[top] \subseteq b[g]
            /\ g \notin b[top] /\ g \in b[g]
            /\ Sound(t, b, g)
        BY <2>1, <3>5, Parent, Nested DEF Shape
      <4> HIDE DEF g
      <4>2. CASE top = t.left[g]
        <5>1. m = g
          BY <3>1, <3>5, <4>2
        <5>2. /\ b[g] = {g} \cup b[top] \cup Sub(b, t.right[g])
              /\ \A x \in b[top] : Before(x, g)
              /\ \A x \in Sub(b, t.right[g]) : Before(g, x)
          BY <1>6, <4>1, <4>2 DEF Sound, Sub
        <5>3. ASSUME NEW x \in t.nodes, Before(x, g)
              PROVE  x = n \/ Before(x, n)
          <6>1. CASE x \notin b[g]
            BY <2>1, <4>1, <5>3, <6>1, LeftOfAll
          <6>2. CASE x \in b[g]
            <7>1. x # g /\ ~ Before(g, x)
              BY <1>1, <4>1, <5>3, BeforeOrders
            <7> QED
              BY <3>3, <5>2, <6>2, <7>1
          <6> QED
            BY <6>1, <6>2
        <5>4. \A x \in t.nodes : Before(x, g) <=> x = n \/ Before(x, n)
          BY <1>2, <2>1, <4>1, <5>2, <5>3
        <5> QED
          BY <3>5, <4>1, <5>1, <5>4 DEF m
      <4>3. CASE top # t.left[g]
        <5>1. m = NoNode
          BY <3>1, <4>3
        <5>2. Before(g, n)
          <6>1. top = t.right[g]
            BY <4>1, <4>3
          <6> QED
            BY <1>6, <2>1, <4>1, <6>1 DEF Sound, Sub
        <5>3. Before(top, n)
          BY <1>1, <2>1, <3>2
        <5>4. g # top
          BY <2>1, <4>1
        <5> QED
          BY <2>1, <4>1, <5>1, <5>2, <5>3, <5>4 DEF m
      <4> QED
        BY <4>2, <4>3
    <3> QED
      BY <3>4, <3>5
  <2> QED
    BY <2>2, <2>3
<1> QED
  BY <1>4, <1>5, <1>6

\* The nodes of a sequence.
Visits(q) == { q[i] : i \in DOMAIN q }

LEMMA Appended ==
  ASSUME NEW q \in Seq(Node), NEW n \in Node,
         \A i, j \in DOMAIN q : i < j => Before(q[i], q[j]),
         \A x \in Visits(q) : Before(x, n)
  PROVE  LET a == Append(q, n) IN
         /\ a \in Seq(Node)
         /\ Visits(a) = Visits(q) \cup {n}
         /\ \A i, j \in DOMAIN a : i < j => Before(a[i], a[j])
<1> DEFINE a == Append(q, n)
<1>1. /\ a \in Seq(Node) /\ Len(q) \in Nat
      /\ DOMAIN q = 1 .. Len(q) /\ DOMAIN a = 1 .. Len(q) + 1
      /\ \A i \in 1 .. Len(q) : a[i] = q[i]
      /\ a[Len(q) + 1] = n
  OBVIOUS
<1> HIDE DEF a
<1>2. Visits(a) = Visits(q) \cup {n}
  <2>1. ASSUME NEW x \in Visits(a)
        PROVE  x \in Visits(q) \cup {n}
    BY <1>1 DEF Visits
  <2>2. ASSUME NEW x \in Visits(q)
        PROVE  x \in Visits(a)
    BY <1>1 DEF Visits
  <2>3. n \in Visits(a)
    <3>1. Len(q) + 1 \in DOMAIN a
      BY <1>1
    <3> QED
      BY <1>1, <3>1 DEF Visits
  <2> QED
    BY <2>1, <2>2, <2>3
<1>3. ASSUME NEW i \in DOMAIN a, NEW j \in DOMAIN a, i < j
      PROVE  Before(a[i], a[j])
  <2>1. i \in DOMAIN q /\ a[i] = q[i] /\ a[i] \in Visits(q)
    BY <1>1, <1>3 DEF Visits
  <2>2. CASE j = Len(q) + 1
    BY <1>1, <2>1, <2>2
  <2>3. CASE j # Len(q) + 1
    <3>1. j \in DOMAIN q /\ a[j] = q[j]
      BY <1>1, <2>3
    <3> QED
      BY <1>3, <2>1, <3>1
  <2> QED
    BY <2>2, <2>3
<1> QED
  BY <1>1, <1>2, <1>3 DEF a

\* A set with three different elements has three at least.
LEMMA ThreeAre ==
  ASSUME NEW s, IsFiniteSet(s), NEW x \in s, NEW y \in s, NEW z \in s,
         x # y, x # z, y # z
  PROVE  Cardinality(s) \in Nat /\ Cardinality(s) >= 3
<1>1. IsFiniteSet({x}) /\ Cardinality({x}) = 1
  BY FS_Singleton
<1>2. IsFiniteSet({x, y}) /\ Cardinality({x, y}) = 2
  <2>1. y \notin {x} /\ {x} \cup {y} = {x, y}
    OBVIOUS
  <2>2. IsFiniteSet({x} \cup {y}) /\ Cardinality({x} \cup {y}) = 1 + 1
    BY <1>1, <2>1, FS_AddElement
  <2> QED
    BY <2>1, <2>2
<1>3. Cardinality({x, y, z}) = 3
  <2>1. z \notin {x, y} /\ {x, y} \cup {z} = {x, y, z}
    OBVIOUS
  <2>2. Cardinality({x, y} \cup {z}) = 2 + 1
    BY <1>2, <2>1, FS_AddElement
  <2> QED
    BY <2>1, <2>2
<1>4. Cardinality({x, y, z}) <= Cardinality(s)
  <2>1. {x, y, z} \subseteq s
    OBVIOUS
  <2> QED
    BY <2>1, FS_Subset
<1>5. Cardinality(s) \in Nat
  BY FS_CardinalityType
<1> QED
  BY <1>3, <1>4, <1>5

\* What the iteration has visited when it is at node n, or ended.
Ended(t, seen) ==
  /\ \A m \in seen, n \in t.nodes : Before(n, m) => n \in seen
  /\ \/ seen = t.nodes
     \/ \E x, y, z \in seen : x # y /\ x # z /\ y # z
  /\ t.nodes # {} => seen # {}

Reached(t, n, seen) ==
  IF n = NoNode THEN Ended(t, seen)
  ELSE \A x \in t.nodes : x \in seen <=> Before(x, n)

\* The iteration goes through the nodes from left to right.
LEMMA IterateIs ==
  ASSUME NEW t \in Tree, NEW b, Shape(t, b)
  PROVE  /\ Iterate(t) \in Seq(Node)
         /\ \A i, j \in DOMAIN Iterate(t) : i < j => Before(Iterate(t)[i], Iterate(t)[j])
         /\ Visits(Iterate(t)) \subseteq t.nodes
         /\ Ended(t, Visits(Iterate(t)))
<1> DEFINE turn   == IterateTurn(t)
           States == { s \in [node : Link, visited : Seq(Node)] :
                         LET q == s.visited IN
                         /\ s.node \in t.nodes \cup {NoNode}
                         /\ \A i, j \in DOMAIN q : i < j => Before(q[i], q[j])
                         /\ Visits(q) \subseteq t.nodes
                         /\ Reached(t, s.node, Visits(q)) }
           Over   == { s \in States : s.node = NoNode }
           ahead  == [s \in States |-> t.nodes \ Visits(s.visited)]
           first  == [node |-> Begins(t), visited |-> <<>>]
<1>1. t.nodes \subseteq Node /\ NoNode \notin t.nodes /\ NoNode \in Link
      /\ t.nodes \subseteq Link
  BY RangeAssumption DEF Shape, Node, Link
<1>2. ASSUME NEW s \in States
      PROVE  /\ turn[s] \in States
             /\ s \in Over => turn[s] \in Over
             /\ s \notin Over => Narrower(ahead[turn[s]], ahead[s])
  <2> DEFINE n == s.node
             q == s.visited
             k == IncNode(t, n)
             a == Append(q, n)
             next == [node |-> k, visited |-> a]
  <2>1. /\ q \in Seq(Node) /\ n \in t.nodes \cup {NoNode}
        /\ \A i, j \in DOMAIN q : i < j => Before(q[i], q[j])
        /\ Visits(q) \subseteq t.nodes
        /\ Reached(t, n, Visits(q))
        /\ s \in [node : Link, visited : Seq(Node)]
    OBVIOUS
  <2>2. turn[s] = IF n = NoNode THEN s ELSE next
    BY <2>1 DEF IterateTurn
  <2>3. CASE n = NoNode
    <3>1. turn[s] = s /\ s \in Over
      BY <2>2, <2>3
    <3> QED
      BY <3>1
  <2>4. CASE n # NoNode
    <3>1. /\ k \in t.nodes \cup {NoNode}
          /\ k # NoNode =>
               \A x \in t.nodes : Before(x, k) <=> x = n \/ Before(x, n)
          /\ k = NoNode =>
               \/ \A x \in t.nodes : x = n \/ Before(x, n)
               \/ \E x, y \in t.nodes : x # y /\ Before(x, n) /\ Before(y, n)
      <4> HIDE DEF n
      <4> QED
        BY <2>1, <2>4, IncNodeIs
    <3> HIDE DEF n, k
    <3>2. n \in Node /\ n \in t.nodes
      BY <1>1, <2>1, <2>4
    <3>3. \A x \in t.nodes : x \in Visits(q) <=> Before(x, n)
      BY <2>1, <2>4 DEF Reached
    <3>4. \A x \in Visits(q) : Before(x, n)
      BY <2>1, <3>3
    <3> HIDE DEF q
    <3>5. /\ a \in Seq(Node)
          /\ Visits(a) = Visits(q) \cup {n}
          /\ \A i, j \in DOMAIN a : i < j => Before(a[i], a[j])
      BY <2>1, <3>2, <3>4, Appended
    <3> HIDE DEF a
    <3>6. Visits(a) \subseteq t.nodes
      BY <2>1, <3>2, <3>5
    <3>7. Reached(t, k, Visits(a))
      <4>1. CASE k # NoNode
        BY <3>1, <3>3, <3>5, <4>1 DEF Reached
      <4>2. CASE k = NoNode
        <5>1. ASSUME NEW m \in Visits(a), NEW x \in t.nodes, Before(x, m)
              PROVE  x \in Visits(a)
          <6>1. x \in Node /\ m \in Node
            BY <1>1, <3>6, <5>1
          <6>2. m = n \/ Before(m, n)
            BY <3>4, <3>5, <5>1
          <6> QED
            BY <3>2, <3>3, <3>5, <5>1, <6>1, <6>2, BeforeOrders
        <5>2. \/ Visits(a) = t.nodes
              \/ \E x, y, z \in Visits(a) : x # y /\ x # z /\ y # z
          <6>1. CASE \A x \in t.nodes : x = n \/ Before(x, n)
            BY <3>3, <3>5, <3>6, <6>1
          <6>2. ASSUME NEW x \in t.nodes, NEW y \in t.nodes,
                       x # y, Before(x, n), Before(y, n)
                PROVE  \E c, d, e \in Visits(a) : c # d /\ c # e /\ d # e
            <7>1. x # n /\ y # n
              BY <3>2, <6>2, BeforeOrders
            <7> QED
              BY <3>3, <3>5, <6>2, <7>1
          <6> QED
            BY <3>1, <4>2, <6>1, <6>2
        <5>3. Visits(a) # {}
          BY <3>5
        <5> QED
          BY <4>2, <5>1, <5>2, <5>3 DEF Reached, Ended
      <4> QED
        BY <4>1, <4>2
    <3>8. k \in Link
      BY <1>1, <3>1
    <3>9. next \in States /\ next.visited = a /\ next.node = k
      BY <3>1, <3>5, <3>6, <3>7, <3>8
    <3>10. turn[s] = next
      BY <2>2, <2>4
    <3>11. n \notin Visits(q)
      BY <3>2, <3>4, BeforeOrders
    <3>12. s \notin Over
      BY <2>4 DEF n
    <3>13. ahead[next] = t.nodes \ Visits(a) /\ ahead[s] = t.nodes \ Visits(q)
      BY <3>9 DEF q
    <3> HIDE DEF next, turn, States, Over, ahead
    <3> QED
      BY <3>2, <3>5, <3>9, <3>10, <3>11, <3>12, <3>13 DEF Narrower
  <2> QED
    BY <2>3, <2>4
<1>3. first \in States /\ ahead \in [States -> SUBSET Node]
  <2> DEFINE m == Begins(t)
             e == <<>>
  <2>1. e \in Seq(Node) /\ DOMAIN e = {} /\ Visits(e) = {}
    BY DEF Visits
  <2>2. m \in t.nodes \cup {NoNode} /\ Reached(t, m, {})
    <3>1. CASE t.nodes = {}
      <4>1. m = NoNode
        BY <3>1 DEF Shape, Begins
      <4> QED
        BY <3>1, <4>1 DEF Reached, Ended
    <3>2. CASE t.nodes # {}
      <4>1. t.root \in t.nodes /\ b[t.root] = t.nodes
        BY <3>2 DEF Shape
      <4>2. m = LeftMost(t, t.root)
        BY <1>1, <4>1 DEF Begins
      <4> HIDE DEF m
      <4>3. /\ m \in t.nodes
            /\ \A x \in t.nodes : x = m \/ Before(m, x)
        BY <4>1, <4>2, LeftMostIs
      <4>4. \A x \in t.nodes : ~ Before(x, m)
        BY <1>1, <4>3, BeforeOrders
      <4> QED
        BY <1>1, <4>3, <4>4 DEF Reached
    <3> QED
      BY <3>1, <3>2
  <2>3. first = [node |-> m, visited |-> e]
    OBVIOUS
  <2> HIDE DEF m, e, first
  <2>4. m \in Link
    BY <1>1, <2>2
  <2>5. first \in States
    BY <2>1, <2>2, <2>3, <2>4
  <2> QED
    BY <1>1, <2>5
<1>4. Loop(turn, first) \in States \cap Over
  <2> HIDE DEF turn, first, States, Over, ahead
  <2> QED
    BY <1>2, <1>3, LoopEnds
<1>5. Iterate(t) = Loop(turn, first).visited
  BY DEF Iterate
<1> HIDE DEF first, turn
<1> QED
  BY <1>4, <1>5 DEF Reached

-----------------------------------------------------------------------------
(***************************************************************************)
(* The range map                                                           *)
(***************************************************************************)
\* The inductive invariant: a search tree with good heights.
MapInv == Sane(tree, tree.nodes)

LEMMA EmptyIsSane == Sane(EmptyTree, {})
<1> DEFINE b == [n \in Node |-> {n}]
<1>1. NoNode \in Link /\ 0 \in Int8
  BY HeightAssumption DEF Link, Int8
<1>2. EmptyTree \in Tree /\ EmptyTree.nodes = {} /\ EmptyTree.root = NoNode
  BY <1>1 DEF EmptyTree, Tree, Link
<1>3. b \in [Node -> SUBSET Node]
  OBVIOUS
<1>4. Shape(EmptyTree, b)
  BY <1>2, <1>3 DEF Shape
<1> QED
  BY <1>2, <1>4 DEF Sane

\* erase(find(key)) of a node that is found.
LEMMA FindsNode ==
  ASSUME NEW t, Sane(t, t.nodes), NEW key \in Int, Find(t, key) # NoNode
  PROVE  /\ Find(t, key) \in t.nodes
         /\ Find(t, key).min <= key /\ key <= Find(t, key).max
<1>1. PICK b : Shape(t, b)
  BY DEF Sane
<1>2. t \in Tree
  BY DEF Sane
<1> QED
  BY <1>1, <1>2, FindIs

\* The heights can count the nodes there are.
LEMMA RoomCounts ==
  ASSUME MapInv, Room
  PROVE  Cardinality(tree.nodes) <= HeightMax
<1>1. tree.nodes \in SUBSET Node
  BY DEF MapInv, Sane, Tree
<1>2. Cardinality(tree.nodes) \in Nat
  BY <1>1, Smaller
<1> QED
  BY <1>2, HeightAssumption DEF Room

LEMMA MapInvKept ==
  ASSUME MapInv, Room, [MapNext]_tree
  PROVE  MapInv'
<1>1. ASSUME NEW r \in Ranges, Insert(r)
      PROVE  MapInv'
  <2>1. tree' = Inserted(tree, r) /\ r \in Node
    BY <1>1 DEF Insert, Node
  <2>2. \/ Sane(Inserted(tree, r), tree.nodes \cup {r})
        \/ Inserted(tree, r) = tree
    BY <2>1, Inserts DEF MapInv, Room
  <2> QED
    BY <2>1, <2>2 DEF MapInv, Sane
<1>2. ASSUME NEW key \in Keys, Erase(key)
      PROVE  MapInv'
  <2>1. tree' = Erased(tree, Find(tree, key)) /\ Find(tree, key) \in tree.nodes
    BY <1>2, FindsNode, KeyAssumption DEF Erase, MapInv
  <2>2. Sane(Erased(tree, Find(tree, key)), tree.nodes \ {Find(tree, key)})
    BY <2>1, RoomCounts, Erases DEF MapInv
  <2> QED
    BY <2>1, <2>2 DEF MapInv, Sane
<1>3. ASSUME Clear
      PROVE  MapInv'
  <2>1. Sane(Cleared(tree), {})
    BY Clears DEF MapInv
  <2> QED
    BY <1>3, <2>1 DEF Clear, MapInv, Sane
<1>4. ASSUME UNCHANGED tree
      PROVE  MapInv'
  BY <1>4 DEF MapInv
<1> QED
  BY <1>1, <1>2, <1>3, <1>4 DEF MapNext

\* Rotations, splices and clear() keep the tree a search tree with mutual links,
\* and its heights within their int8_t as long as these can count the nodes.
THEOREM MapInvariant == MapSpec /\ []Room => []MapInv
<1>1. MapInit => MapInv
  <2>1. EmptyTree.nodes = {}
    BY DEF EmptyTree
  <2> QED
    BY <2>1, EmptyIsSane DEF MapInit, MapInv
<1> QED
  BY <1>1, MapInvKept, PTL DEF MapSpec

\* The nodes of the record are those of the tree that hangs together from the
\* root, each of them between the nodes to its left and to its right.
THEOREM SearchTreeAlways == MapSpec /\ []Room => []SearchTree
<1>1. ASSUME MapInv
      PROVE  SearchTree
  <2>1. PICK b : Shape(tree, b)
    BY <1>1 DEF MapInv, Sane
  <2>2. tree \in Tree
    BY <1>1 DEF MapInv, Sane
  <2>3. tree.root # NoNode => tree.top[tree.root] = NoNode
    BY <2>1 DEF Shape
  <2>4. ASSUME NEW n \in tree.nodes, NEW c \in Children(tree, {n})
        PROVE  tree.top[c] = n
    <3>1. c \in {tree.left[n], tree.right[n]} \ {NoNode}
      BY <2>4 DEF Children
    <3> QED
      BY <2>1, <3>1, Child
  <2>5. Below(tree, tree.root) = tree.nodes
    <3>1. CASE tree.nodes = {}
      BY <2>1, <3>1 DEF Shape, Below
    <3>2. CASE tree.nodes # {}
      <4>1. tree.root \in tree.nodes /\ b[tree.root] = tree.nodes
        BY <2>1, <3>2 DEF Shape
      <4> QED
        BY <2>1, <2>2, <4>1, BelowIs
    <3> QED
      BY <3>1, <3>2
  <2>6. ASSUME NEW n \in tree.nodes
        PROVE  /\ \A m \in Below(tree, tree.left[n]) : Before(m, n)
               /\ \A m \in Below(tree, tree.right[n]) : Before(n, m)
    <3>1. Sound(tree, b, n)
      BY <2>1 DEF Shape
    <3>2. ASSUME NEW c \in {tree.left[n], tree.right[n]}
          PROVE  Below(tree, c) = Sub(b, c)
      <4>1. CASE c = NoNode
        BY <4>1 DEF Below, Sub
      <4>2. CASE c # NoNode
        <5>1. c \in tree.nodes
          BY <3>1, <4>2 DEF Sound
        <5> QED
          BY <2>1, <2>2, <4>2, <5>1, BelowIs DEF Sub
      <4> QED
        BY <4>1, <4>2
    <3> QED
      BY <3>1, <3>2 DEF Sound
  <2> QED
    BY <2>2, <2>3, <2>4, <2>5, <2>6 DEF SearchTree, TreeShape, TreeTypeOK, Ordered
<1> QED
  BY <1>1, MapInvariant, PTL

\* find() finds a range that holds the key whenever the map has one.
THEOREM FindExactAlways == MapSpec /\ []Room => []FindExact
<1>1. ASSUME MapInv
      PROVE  FindExact
  <2>1. PICK b : Shape(tree, b)
    BY <1>1 DEF MapInv, Sane
  <2>2. tree \in Tree
    BY <1>1 DEF MapInv, Sane
  <2>3. SUFFICES ASSUME NEW key \in Keys
                 PROVE  LET holding == { n \in tree.nodes : n.min <= key /\ key <= n.max } IN
                        IF holding = {} THEN Find(tree, key) = NoNode
                        ELSE Find(tree, key) \in holding
    BY DEF FindExact
  <2>4. key \in Int
    BY KeyAssumption
  <2> QED
    BY <2>1, <2>2, <2>4, FindIs
<1> QED
  BY <1>1, MapInvariant, PTL

\* The iteration visits ranges of the map in order, leaves none out before one
\* it visits, and ends early only after three.
THEOREM IterationIsSortedPrefixAlways ==
  MapSpec /\ []Room => []IterationIsSortedPrefix
<1>1. ASSUME MapInv
      PROVE  IterationIsSortedPrefix
  <2>1. PICK b : Shape(tree, b)
    BY <1>1 DEF MapInv, Sane
  <2>2. tree \in Tree
    BY <1>1 DEF MapInv, Sane
  <2>3. /\ \A i, j \in DOMAIN Iterate(tree) :
             i < j => Before(Iterate(tree)[i], Iterate(tree)[j])
        /\ Visits(Iterate(tree)) \subseteq tree.nodes
        /\ Ended(tree, Visits(Iterate(tree)))
    BY <2>1, <2>2, IterateIs
  <2> DEFINE seen == Visits(Iterate(tree))
  <2>4. seen # tree.nodes => Cardinality(seen) >= 3
    <3>1. seen \subseteq tree.nodes /\ tree.nodes \subseteq Node
      BY <2>1, <2>3 DEF Shape
    <3>2. IsFiniteSet(seen)
      BY <3>1, HeightAssumption, FS_Subset DEF Node
    <3> HIDE DEF seen
    <3>3. ASSUME seen # tree.nodes
          PROVE  \E x, y, z \in seen : x # y /\ x # z /\ y # z
      BY <2>3, <3>3 DEF Ended, seen
    <3> QED
      BY <3>2, <3>3, ThreeAre
  <2> QED
    BY <2>3, <2>4 DEF IterationIsSortedPrefix, Visits, Ended
<1> QED
  BY <1>1, MapInvariant, PTL

\* The map implements the set of its ranges: insert() adds a range that lies
\* beside all the others and no other one, erase() removes the one that was
\* found, clear() all.
THEOREM MapImplementsSet == MapSpec /\ []Room => SetSpec
<1>1. MapInit => Set!Init
  BY DEF MapInit, Set!Init, EmptyTree
<1>2. ASSUME MapInv, Room, [MapNext]_tree
      PROVE  [Set!Next]_(tree.nodes)
  <2>1. ASSUME NEW r \in Ranges, Insert(r)
        PROVE  [Set!Next]_(tree.nodes)
    <3>1. tree' = Inserted(tree, r) /\ r \in Node
      BY <2>1 DEF Insert, Node
    <3>2. CASE \A m \in tree.nodes : Before(m, r) \/ Before(r, m)
      <4>1. Sane(Inserted(tree, r), tree.nodes \cup {r})
        BY <1>2, <3>1, <3>2, Inserts DEF MapInv, Room
      <4>2. (tree.nodes)' = tree.nodes \cup {r}
        BY <3>1, <4>1 DEF Sane
      <4>3. \A m \in tree.nodes : Set!Beside(r, m)
        BY <3>2 DEF Before, Set!Beside
      <4> QED
        BY <4>2, <4>3 DEF Set!Next, Set!Insert
    <3>3. CASE ~ \A m \in tree.nodes : Before(m, r) \/ Before(r, m)
      <4>1. Inserted(tree, r) = tree
        BY <1>2, <3>1, <3>3, Inserts DEF MapInv, Room
      <4> QED
        BY <3>1, <4>1
    <3> QED
      BY <3>2, <3>3
  <2>2. ASSUME NEW key \in Keys, Erase(key)
        PROVE  [Set!Next]_(tree.nodes)
    <3> DEFINE x == Find(tree, key)
    <3>1. tree' = Erased(tree, x) /\ x \in tree.nodes /\ Set!Holds(x, key)
      BY <1>2, <2>2, FindsNode, KeyAssumption DEF Erase, MapInv, Set!Holds
    <3> HIDE DEF x
    <3>2. Sane(Erased(tree, x), tree.nodes \ {x})
      BY <1>2, <3>1, RoomCounts, Erases DEF MapInv
    <3>3. (tree.nodes)' = tree.nodes \ {x}
      BY <3>1, <3>2 DEF Sane
    <3> QED
      BY <3>1, <3>3 DEF Set!Next, Set!Erase
  <2>3. ASSUME Clear
        PROVE  [Set!Next]_(tree.nodes)
    <3>1. Sane(Cleared(tree), {})
      BY <1>2, Clears DEF MapInv
    <3>2. (tree.nodes)' = {}
      BY <2>3, <3>1 DEF Clear, Sane
    <3> QED
      BY <3>2 DEF Set!Next, Set!Clear
  <2>4. ASSUME UNCHANGED tree
        PROVE  [Set!Next]_(tree.nodes)
    BY <2>4
  <2> QED
    BY <1>2, <2>1, <2>2, <2>3, <2>4 DEF MapNext
<1> QED
  BY <1>1, <1>2, MapInvariant, PTL DEF MapSpec, SetSpec, Set!Spec

=============================================================================

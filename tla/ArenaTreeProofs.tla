---------------------------- MODULE ArenaTreeProofs ----------------------------
(***************************************************************************)
(* Proofs about ArenaTree, for arenas that never register as many chunks   *)
(* at once as the heights of the tree can count (Room): with the search    *)
(* tree in it the arena implements Arena, its tree holds its chunks, and   *)
(* only a chunk that lies behind three others is ever missed by a walk.    *)
(***************************************************************************)
EXTENDS ArenaTree, ArenaProofs, RangeMapProofs

\* The nodes of the chunks cs.
NodesOf(cs) == { RangeOf(c) : c \in cs }

\* The blocks of a chunk with a higher address are all behind.
LEMMA ChunkOrder ==
  ASSUME NEW c \in Addresses, NEW d \in Addresses
  PROVE  /\ RangeOf(c) \in Node /\ RangeOf(c).min = c /\ RangeOf(c).max = End(c)
         /\ c \in Int /\ End(c) \in Int
         /\ Before(RangeOf(c), RangeOf(d)) <=> c < d
         /\ c # d => Before(RangeOf(c), RangeOf(d)) \/ Before(RangeOf(d), RangeOf(c))
<1> DEFINE S == MAX_BLOCKS * BlockSize
<1>1. S \in Nat
  BY ChunkAssumption
<1>2. End(c) = c + S /\ End(d) = d + S
  BY DEF End
<1> HIDE DEF S
<1>3. c \in Int /\ d \in Int
  BY AddressAssumption
<1>4. RangeOf(c) \in Node
  BY MapAssumption DEF Node
<1>5. /\ RangeOf(c).min = c /\ RangeOf(c).max = End(c)
      /\ RangeOf(d).min = d /\ RangeOf(d).max = End(d)
  BY DEF RangeOf
<1>6. Before(RangeOf(c), RangeOf(d)) <=> c < d
  BY <1>1, <1>2, <1>3, <1>5 DEF Before
<1>7. Before(RangeOf(d), RangeOf(c)) <=> d < c
  BY <1>1, <1>2, <1>3, <1>5 DEF Before
<1>8. End(c) \in Int
  BY <1>1, <1>2, <1>3
<1> QED
  BY <1>3, <1>4, <1>5, <1>6, <1>7, <1>8

LEMMA ChunksOfNodes ==
  ASSUME NEW cs \in SUBSET Addresses
  PROVE  { n.min : n \in NodesOf(cs) } = cs
<1>1. \A c : RangeOf(c).min = c
  BY DEF RangeOf
<1>2. ASSUME NEW c \in cs
      PROVE  c \in { n.min : n \in NodesOf(cs) }
  <2>1. RangeOf(c) \in NodesOf(cs)
    BY DEF NodesOf
  <2> QED
    BY <1>1, <2>1
<1>3. ASSUME NEW n \in NodesOf(cs)
      PROVE  n.min \in cs
  BY <1>1 DEF NodesOf
<1> QED
  BY <1>2, <1>3

\* An empty map has room.
LEMMA NoNodes == NodesOf({}) = {} /\ Cardinality(NodesOf({})) < HeightMax
<1>1. NodesOf({}) = {}
  BY DEF NodesOf
<1>2. Cardinality({}) = 0
  BY FS_EmptySet
<1> QED
  BY <1>1, <1>2, HeightAssumption

\* Inserting a chunk is never refused, but when it is there already.
LEMMA InsertsChunk ==
  ASSUME NEW t, NEW cs \in SUBSET Addresses, Sane(t, NodesOf(cs)),
         Cardinality(NodesOf(cs)) < HeightMax, NEW new \in Addresses
  PROVE  Sane(Inserted(t, RangeOf(new)), NodesOf(cs \cup {new}))
<1> DEFINE v == RangeOf(new)
<1>1. v \in Node
  BY ChunkOrder
<1>2. NodesOf(cs \cup {new}) = NodesOf(cs) \cup {v}
  BY DEF NodesOf
<1>3. CASE new \notin cs
  <2>1. ASSUME NEW m \in NodesOf(cs)
        PROVE  Before(m, v) \/ Before(v, m)
    <3>1. PICK c \in cs : m = RangeOf(c)
      BY DEF NodesOf
    <3> QED
      BY <1>3, <3>1, ChunkOrder
  <2> HIDE DEF v
  <2>2. Sane(Inserted(t, v), NodesOf(cs) \cup {v})
    BY <1>1, <2>1, Inserts
  <2> QED
    BY <1>2, <2>2 DEF v
<1>4. CASE new \in cs
  <2>1. v \in NodesOf(cs) /\ ~ Before(v, v)
    BY <1>1, <1>4, BeforeOrders DEF NodesOf
  <2> HIDE DEF v
  <2>2. Inserted(t, v) = t
    BY <1>1, <2>1, Inserts
  <2>3. NodesOf(cs) \cup {v} = NodesOf(cs)
    BY <2>1
  <2> QED
    BY <1>2, <2>2, <2>3 DEF v
<1> QED
  BY <1>3, <1>4

-----------------------------------------------------------------------------
\* The tree is a search tree of the registered chunks.
TreeInv ==
  /\ Safe
  /\ Sane(tree, NodesOf(chunks))

LEMMA TreeInitInv == TreeInit => TreeInv
<1> SUFFICES ASSUME TreeInit PROVE TreeInv
  OBVIOUS
<1>1. Safe
  BY InitSafe DEF TreeInit
<1>2. PICK first \in chunks : tree = Inserted(EmptyTree, RangeOf(first))
  BY DEF TreeInit
<1>3. chunks = {first} /\ first \in Addresses
  BY <1>2 DEF TreeInit, Init
<1>4. NodesOf({}) = {} /\ Cardinality(NodesOf({})) < HeightMax
  BY NoNodes
<1>5. Sane(Inserted(EmptyTree, RangeOf(first)), NodesOf({} \cup {first}))
  BY <1>3, <1>4, EmptyIsSane, InsertsChunk
<1>6. {} \cup {first} = chunks
  BY <1>3
<1> QED
  BY <1>1, <1>2, <1>5, <1>6 DEF TreeInv

\* A walk sees the chunks up to one of them, and misses none but those behind
\* three others.
LEMMA WalkIs ==
  ASSUME TreeInv, Running
  PROVE  /\ Walk \in Walks
         /\ Walk \subseteq chunks
         /\ \A c \in chunks \ Walk : Far(c)
<1> DEFINE q == Iterate(tree)
           ns == NodesOf(chunks)
<1>1. PICK b : Shape(tree, b)
  BY DEF TreeInv, Sane
<1>2. tree \in Tree /\ tree.nodes = ns
  BY DEF TreeInv, Sane
<1>3. /\ q \in Seq(Node)
      /\ \A i, j \in DOMAIN q : i < j => Before(q[i], q[j])
      /\ Visits(q) \subseteq ns
      /\ Ended(tree, Visits(q))
  BY <1>1, <1>2, IterateIs
<1>4. chunks # {} /\ chunks \subseteq Addresses
  BY DEF TreeInv, Safe, TypeOK, CurrentsRegistered, Running
<1>5. Walk = { q[i].min : i \in DOMAIN q }
  BY DEF Walk
<1> HIDE DEF q
<1>6. \A c \in chunks : c \in Walk <=> RangeOf(c) \in Visits(q)
  <2>1. SUFFICES ASSUME NEW c \in chunks
                 PROVE  c \in Walk <=> RangeOf(c) \in Visits(q)
    OBVIOUS
  <2>2. ASSUME c \in Walk
        PROVE  RangeOf(c) \in Visits(q)
    <3>1. PICK i \in DOMAIN q : c = q[i].min
      BY <1>5, <2>2
    <3>2. q[i] \in Visits(q)
      BY DEF Visits
    <3>3. PICK d \in chunks : q[i] = RangeOf(d)
      BY <1>3, <3>2 DEF NodesOf
    <3>4. d = c
      BY <3>1, <3>3 DEF RangeOf
    <3> QED
      BY <3>2, <3>3, <3>4
  <2>3. ASSUME RangeOf(c) \in Visits(q)
        PROVE  c \in Walk
    <3>1. PICK i \in DOMAIN q : q[i] = RangeOf(c)
      BY <2>3 DEF Visits
    <3>2. q[i].min = c
      BY <3>1 DEF RangeOf
    <3> QED
      BY <1>5, <3>2
  <2> QED
    BY <2>2, <2>3
<1>7. Walk \subseteq chunks
  <2>1. SUFFICES ASSUME NEW i \in DOMAIN q
                 PROVE  q[i].min \in chunks
    BY <1>5
  <2>2. q[i] \in NodesOf(chunks)
    BY <1>3 DEF Visits
  <2> QED
    BY <2>2 DEF NodesOf, RangeOf
<1>8. Walk \in Walks
  <2>1. /\ Len(q) \in Nat /\ DOMAIN q = 1 .. Len(q)
    BY <1>3
  <2>2. Visits(q) # {}
    <3>1. ns # {}
      BY <1>4 DEF NodesOf
    <3> QED
      BY <1>2, <1>3, <3>1 DEF Ended
  <2>3. Len(q) \in DOMAIN q
    <3>1. DOMAIN q # {}
      BY <2>2 DEF Visits
    <3> QED
      BY <2>1, <3>1
  <2> DEFINE last == q[Len(q)].min
  <2>4. q[Len(q)] \in Visits(q) /\ last \in Walk /\ last \in chunks
    BY <1>5, <1>7, <2>3 DEF Visits
  <2>5. q[Len(q)] = RangeOf(last)
    <3>1. PICK d \in chunks : q[Len(q)] = RangeOf(d)
      BY <1>3, <2>4 DEF NodesOf
    <3> QED
      BY <3>1 DEF RangeOf
  <2> HIDE DEF last
  <2>6. last \in Addresses
    BY <1>4, <2>4
  <2>7. ASSUME NEW c \in Walk
        PROVE  c <= last
    <3>1. PICK i \in DOMAIN q : c = q[i].min
      BY <1>5
    <3>2. RangeOf(c) = q[i]
      <4>1. q[i] \in ns
        BY <1>3 DEF Visits
      <4>2. PICK d \in chunks : q[i] = RangeOf(d)
        BY <4>1 DEF NodesOf
      <4> QED
        BY <3>1, <4>2 DEF RangeOf
    <3>3. CASE i = Len(q)
      <4>1. c = last
        BY <3>1, <3>3 DEF last
      <4> QED
        BY <2>6, <4>1, AddressAssumption
    <3>4. CASE i # Len(q)
      <4>1. i < Len(q)
        BY <2>1, <3>4
      <4>2. Before(RangeOf(c), RangeOf(last))
        BY <1>3, <2>3, <2>5, <3>2, <4>1
      <4>3. c \in Addresses
        BY <1>4, <1>7
      <4>4. c < last /\ c \in Int /\ last \in Int
        BY <2>6, <4>2, <4>3, ChunkOrder
      <4> QED
        BY <4>4
    <3> QED
      BY <3>3, <3>4
  <2>8. ASSUME NEW c \in chunks, c <= last
        PROVE  c \in Walk
    <3>1. CASE c = last
      BY <2>4, <3>1
    <3>2. CASE c # last
      <4>1. c \in Addresses
        BY <1>4
      <4>2. c < last
        BY <2>6, <2>8, <3>2, <4>1, AddressAssumption
      <4>3. Before(RangeOf(c), RangeOf(last))
        BY <2>6, <4>1, <4>2, ChunkOrder
      <4>4. RangeOf(c) \in tree.nodes
        BY <1>2 DEF NodesOf
      <4>5. RangeOf(c) \in Visits(q)
        BY <1>3, <2>4, <2>5, <4>3, <4>4 DEF Ended
      <4> QED
        BY <1>6, <4>5
    <3> QED
      BY <3>1, <3>2
  <2>9. Walk = { c \in chunks : c <= last }
    BY <1>7, <2>7, <2>8
  <2> QED
    BY <2>4, <2>9 DEF Walks
<1>9. ASSUME NEW c \in chunks \ Walk
      PROVE  Far(c)
  <2> DEFINE before == { d \in chunks : d < c }
  <2>1. IsFiniteSet(before)
    <3> DEFINE f == [r \in Ranges |-> r.min]
    <3>1. \A d : RangeOf(d).min = d
      BY DEF RangeOf
    <3>2. f \in Surjection(Ranges, Addresses)
      BY <3>1, MapAssumption DEF Surjection
    <3> HIDE DEF f
    <3>3. IsFiniteSet(Addresses)
      BY <3>2, HeightAssumption, FS_Surjection
    <3>4. before \subseteq Addresses
      BY <1>4
    <3> QED
      BY <3>3, <3>4, FS_Subset
  <2>2. RangeOf(c) \notin Visits(q) /\ RangeOf(c) \in ns
    BY <1>6 DEF NodesOf
  <2>3. PICK x, y, z \in Visits(q) : x # y /\ x # z /\ y # z
    BY <1>2, <1>3, <2>2 DEF Ended
  <2>4. ASSUME NEW v \in Visits(q)
        PROVE  \E d \in before : v = RangeOf(d)
    <3>1. PICK d \in chunks : v = RangeOf(d)
      BY <1>3 DEF NodesOf
    <3>2. d # c /\ d \in Addresses /\ c \in Addresses
      BY <1>4, <2>2, <3>1
    <3>3. ~ Before(RangeOf(c), RangeOf(d))
      BY <1>2, <1>3, <2>2, <3>1 DEF Ended
    <3>4. d < c
      BY <3>2, <3>3, ChunkOrder
    <3> QED
      BY <3>1, <3>4
  <2>5. PICK dx \in before : x = RangeOf(dx)
    BY <2>4
  <2>6. PICK dy \in before : y = RangeOf(dy)
    BY <2>4
  <2>7. PICK dz \in before : z = RangeOf(dz)
    BY <2>4
  <2>8. dx # dy /\ dx # dz /\ dy # dz
    BY <2>3, <2>5, <2>6, <2>7
  <2> HIDE DEF before
  <2>9. Cardinality(before) >= 3
    BY <2>1, <2>8, ThreeAre
  <2> QED
    BY <2>9 DEF Far, before
<1> QED
  BY <1>7, <1>8, <1>9

\* A lookup finds the chunk that holds the pointer.
LEMMA FoundIs ==
  ASSUME TreeInv, NEW ptr \in Int
  PROVE  Found(ptr) \in Finds(ptr)
<1> DEFINE ns == NodesOf(chunks)
           x  == Find(tree, ptr)
           holding == { n \in ns : n.min <= ptr /\ ptr <= n.max }
<1>1. IF holding = {} THEN x = NoNode ELSE x \in holding
  <2>1. PICK b : Shape(tree, b)
    BY DEF TreeInv, Sane
  <2>2. tree \in Tree /\ tree.nodes = ns
    BY DEF TreeInv, Sane
  <2> QED
    BY <2>1, <2>2, FindIs
<1>2. Found(ptr) = IF x = NoNode THEN NULL ELSE x.min
  BY DEF Found
<1>3. chunks \subseteq Addresses
  BY DEF TreeInv, Safe, TypeOK
<1>4. \A c \in chunks : InRange(ptr, c) <=> RangeOf(c) \in holding
  <2>1. SUFFICES ASSUME NEW c \in chunks
                 PROVE  InRange(ptr, c) <=> RangeOf(c) \in holding
    OBVIOUS
  <2>2. RangeOf(c) \in ns /\ RangeOf(c).min = c /\ RangeOf(c).max = End(c)
    BY DEF NodesOf, RangeOf
  <2>3. c \in Int /\ End(c) \in Int
    BY <1>3, ChunkOrder
  <2> QED
    BY <2>2, <2>3 DEF InRange
<1> HIDE DEF x
<1>5. CASE holding = {}
  <2>1. Holding(ptr) = {}
    BY <1>4, <1>5 DEF Holding
  <2> QED
    BY <1>1, <1>2, <1>5, <2>1 DEF Finds
<1>6. CASE holding # {}
  <2>1. x \in holding
    BY <1>1, <1>6
  <2>2. PICK c \in chunks : x = RangeOf(c)
    BY <2>1 DEF NodesOf
  <2>3. x # NoNode
    <3>1. c \in Addresses
      BY <1>3
    <3> QED
      BY <2>2, <3>1, ChunkOrder, RangeAssumption DEF Node
  <2>4. Found(ptr) = c
    BY <1>2, <2>2, <2>3 DEF RangeOf
  <2>5. c \in Holding(ptr)
    BY <1>4, <2>1, <2>2 DEF Holding
  <2> QED
    BY <2>4, <2>5 DEF Finds
<1> QED
  BY <1>5, <1>6

\* The chunks that shrink() keeps are inserted one after the other.
LEMMA InsertsKept ==
  ASSUME TreeInv, Room, Running, NEW t, Sane(t, {})
  PROVE  Sane(InsertKept(t), NodesOf(Walk \ Empties(Walk)))
<1> DEFINE q == Iterate(tree)
           N == Len(q)
           Skips(i) == IsEmpty(chunk[q[i].min])
           Runs(p, n) ==
             p = [i \in 0 .. n |-> IF i = 0 THEN t
                                   ELSE IF Skips(i) THEN p[i - 1]
                                   ELSE Inserted(p[i - 1], q[i])]
           T == { n \in Nat : \E g : Runs(g, n) }
<1>1. q \in Seq(Node) /\ Visits(q) \subseteq NodesOf(chunks)
  <2>1. PICK b : Shape(tree, b)
    BY DEF TreeInv, Sane
  <2>2. tree \in Tree /\ tree.nodes = NodesOf(chunks)
    BY DEF TreeInv, Sane
  <2> QED
    BY <2>1, <2>2, IterateIs
<1>2. N \in Nat /\ DOMAIN q = 1 .. N
  BY <1>1
<1>3. Walk = { q[i].min : i \in 1 .. N }
  BY <1>2 DEF Walk
<1>4. \A i \in 1 .. N : q[i].min \in Addresses /\ q[i] = RangeOf(q[i].min)
  <2>1. SUFFICES ASSUME NEW i \in 1 .. N
                 PROVE  q[i].min \in Addresses /\ q[i] = RangeOf(q[i].min)
    OBVIOUS
  <2>2. q[i] \in NodesOf(chunks)
    BY <1>1, <1>2 DEF Visits
  <2>3. chunks \subseteq Addresses
    BY DEF TreeInv, Safe, TypeOK
  <2> QED
    BY <2>2, <2>3 DEF NodesOf, RangeOf
<1>5. \A i \in 1 .. N : Skips(i) <=> q[i].min \in Empties(Walk)
  BY <1>3 DEF Empties
<1>6. \E f : /\ f[0] = t
             /\ \A i \in 1 .. N : f[i] = IF Skips(i) THEN f[i - 1]
                                         ELSE Inserted(f[i - 1], q[i])
             /\ InsertKept(t) = f[N]
  <2>1. 0 \in T
    <3>1. Runs([k \in 0 .. 0 |-> t], 0)
      OBVIOUS
    <3> QED
      BY <3>1
  <2>2. ASSUME NEW n \in Nat, n \in T
        PROVE  n + 1 \in T
    <3>1. PICK g : Runs(g, n)
      BY <2>2
    <3> DEFINE last == IF Skips(n + 1) THEN g[n] ELSE Inserted(g[n], q[n + 1])
               h == [i \in 0 .. n + 1 |-> IF i <= n THEN g[i] ELSE last]
    <3>2. ASSUME NEW i \in 0 .. n + 1
          PROVE  h[i] = IF i = 0 THEN t
                        ELSE IF Skips(i) THEN h[i - 1] ELSE Inserted(h[i - 1], q[i])
      <4>1. CASE i = 0
        BY <3>1, <4>1
      <4>2. CASE i # 0 /\ i <= n
        <5>1. g[i] = IF Skips(i) THEN g[i - 1] ELSE Inserted(g[i - 1], q[i])
          BY <3>1, <4>2
        <5> HIDE DEF q, Skips
        <5> QED
          BY <4>2, <5>1
      <4>3. CASE i = n + 1
        <5> HIDE DEF q, Skips
        <5>1. h[i] = last /\ h[i - 1] = g[n]
          BY <4>3
        <5> QED
          BY <4>3, <5>1
      <4> QED
        BY <4>1, <4>2, <4>3
    <3>3. Runs(h, n + 1)
      <4> HIDE DEF q, Skips, last
      <4> QED
        BY <3>2
    <3> HIDE DEF h
    <3>4. \E p : Runs(p, n + 1)
      BY <3>3
    <3> QED
      BY <3>4
  <2>3. N \in T
    <3> HIDE DEF T
    <3>1. Nat \subseteq T
      BY <2>1, <2>2, Numbers
    <3> QED
      BY <1>2, <3>1
  <2> DEFINE f == CHOOSE p : Runs(p, N)
  <2>4. Runs(f, N)
    BY <2>3
  <2>5. InsertKept(t) = f[N]
    BY DEF InsertKept
  <2> HIDE DEF f, q, Skips
  <2>6. /\ f[0] = t
        /\ \A i \in 1 .. N : f[i] = IF Skips(i) THEN f[i - 1]
                                    ELSE Inserted(f[i - 1], q[i])
    BY <1>2, <2>4
  <2> QED
    BY <2>5, <2>6
<1>7. PICK f : /\ f[0] = t
               /\ \A i \in 1 .. N : f[i] = IF Skips(i) THEN f[i - 1]
                                           ELSE Inserted(f[i - 1], q[i])
               /\ InsertKept(t) = f[N]
  BY <1>6
<1> HIDE DEF q, N, Skips
<1> DEFINE K(i) == { q[j].min : j \in 1 .. i } \ Empties(Walk)
           G == { i \in Nat : i <= N => K(i) \subseteq Addresses /\ Sane(f[i], NodesOf(K(i))) }
<1>8. 0 \in G
  <2>1. K(0) = {}
    OBVIOUS
  <2>2. NodesOf(K(0)) = {}
    BY <2>1 DEF NodesOf
  <2> QED
    BY <1>7, <2>1, <2>2
<1>9. ASSUME NEW i \in Nat, i \in G
      PROVE  i + 1 \in G
  <2>1. SUFFICES ASSUME i + 1 <= N
                 PROVE  /\ K(i + 1) \subseteq Addresses
                        /\ Sane(f[i + 1], NodesOf(K(i + 1)))
    OBVIOUS
  <2> DEFINE new == q[i + 1].min
  <2>2. i + 1 \in 1 .. N /\ i <= N
    BY <1>2, <2>1
  <2>3. /\ new \in Addresses /\ q[i + 1] = RangeOf(new)
        /\ Skips(i + 1) <=> new \in Empties(Walk)
    BY <1>4, <1>5, <2>2
  <2>4. K(i) \subseteq Addresses /\ Sane(f[i], NodesOf(K(i)))
    BY <1>9, <2>2
  <2>5. f[i + 1] = IF Skips(i + 1) THEN f[i] ELSE Inserted(f[i], RangeOf(new))
    <3>1. (i + 1) - 1 = i
      OBVIOUS
    <3> QED
      BY <1>7, <2>2, <2>3, <3>1
  <2>6. { q[j].min : j \in 1 .. i + 1 } = { q[j].min : j \in 1 .. i } \cup {new}
    <3>1. 1 .. i + 1 = (1 .. i) \cup {i + 1}
      OBVIOUS
    <3> QED
      BY <3>1
  <2>7. Cardinality(NodesOf(K(i))) < HeightMax
    <3>1. \A j \in 1 .. i : q[j].min \in Walk
      BY <1>2, <1>3, <2>2
    <3>2. K(i) \subseteq chunks
      BY <3>1, WalkIs
    <3> HIDE DEF K
    <3>3. NodesOf(K(i)) \in SUBSET tree.nodes /\ tree.nodes \in SUBSET Node
      BY <3>2 DEF NodesOf, TreeInv, Sane, Tree
    <3>4. /\ Cardinality(NodesOf(K(i))) \in Nat /\ Cardinality(tree.nodes) \in Nat
          /\ Cardinality(NodesOf(K(i))) <= Cardinality(tree.nodes)
      BY <3>3, Smaller
    <3> QED
      BY <3>4, HeightAssumption DEF Room
  <2>8. CASE new \in Empties(Walk)
    <3>1. K(i + 1) = K(i)
      BY <2>6, <2>8
    <3> QED
      BY <2>3, <2>4, <2>5, <2>8, <3>1
  <2>9. CASE new \notin Empties(Walk)
    <3>1. K(i + 1) = K(i) \cup {new}
      BY <2>6, <2>9
    <3> HIDE DEF K, new
    <3>2. Sane(Inserted(f[i], RangeOf(new)), NodesOf(K(i) \cup {new}))
      BY <2>3, <2>4, <2>7, InsertsChunk
    <3> QED
      BY <2>3, <2>4, <2>5, <2>9, <3>1, <3>2
  <2> QED
    BY <2>8, <2>9
<1>10. Nat \subseteq G
  <2> HIDE DEF G
  <2> QED
    BY <1>8, <1>9, Numbers
<1>11. Sane(f[N], NodesOf(K(N)))
  BY <1>2, <1>10
<1>12. K(N) = Walk \ Empties(Walk)
  BY <1>3
<1> QED
  BY <1>7, <1>11, <1>12

-----------------------------------------------------------------------------
\* Every step of the arena with its tree is one of Arena.
LEMMA TreeStepIsArenaStep ==
  ASSUME TreeInv, [TreeNext]_allvars
  PROVE  [Next]_vars
<1>1. ASSUME NEW o \in Handles, TreeMalloc(o)
      PROVE  Next
  <2>1. Malloc(o, Walk) /\ Walk \in Walks
    BY <1>1, WalkIs DEF TreeMalloc, Malloc
  <2> QED
    BY <2>1 DEF Next
<1>2. ASSUME TreeMallocThrows
      PROVE  Next
  <2>1. MallocThrows(Walk) /\ Walk \in Walks
    BY <1>2, WalkIs DEF TreeMallocThrows, MallocThrows
  <2> QED
    BY <2>1 DEF Next
<1>3. ASSUME NEW o \in Held, TreeFree(o)
      PROVE  Next
  <2>1. obj[o] \in Pointer
    BY DEF Held, TreeInv, Safe, TypeOK
  <2>2. obj[o] \in Int
    BY <2>1, AddressInRange, AddressAssumption DEF Pointer
  <2>3. Found(obj[o]) \in Finds(obj[o])
    BY <2>2, FoundIs
  <2> QED
    BY <1>3, <2>3 DEF TreeFree, Next
<1>4. ASSUME NEW ptr \in Foreign, TreeFreeForeign(ptr)
      PROVE  Next
  <2>1. Found(ptr) \in Finds(ptr)
    BY FoundIs, AddressAssumption
  <2> QED
    BY <1>4, <2>1 DEF TreeFreeForeign, Next
<1>5. ASSUME TreeShrink
      PROVE  Next
  <2>1. Shrink(Walk) /\ Walk \in Walks
    BY <1>5, WalkIs DEF TreeShrink, Shrink
  <2> QED
    BY <2>1 DEF Next
<1>6. ASSUME TreeDestroy
      PROVE  Next
  <2>1. Destroy(Walk) /\ Walk \in Walks
    BY <1>6, WalkIs DEF TreeDestroy, Destroy
  <2> QED
    BY <2>1 DEF Next
<1>7. ASSUME UNCHANGED allvars
      PROVE  UNCHANGED vars
  BY <1>7 DEF allvars
<1> QED
  BY <1>1, <1>2, <1>3, <1>4, <1>5, <1>6, <1>7 DEF TreeNext

\* Every step leaves a search tree of the chunks that are registered then.
LEMMA TreeStepKeepsTree ==
  ASSUME TreeInv, Room, [TreeNext]_allvars
  PROVE  Sane(tree, NodesOf(chunks))'
<1>1. chunks \subseteq Addresses /\ Sane(tree, NodesOf(chunks))
  BY DEF TreeInv, Safe, TypeOK
<1>2. ASSUME UNCHANGED <<chunks, tree>>
      PROVE  Sane(tree, NodesOf(chunks))'
  BY <1>1, <1>2
<1>3. ASSUME NEW o \in Handles, TreeMalloc(o)
      PROVE  Sane(tree, NodesOf(chunks))'
  <2>1. /\ Malloc(o, Walk)
        /\ \/ allocated' = allocated /\ UNCHANGED tree
           \/ \E new \in allocated' \ allocated : tree' = Inserted(tree, RangeOf(new))
    BY <1>3 DEF TreeMalloc
  <2>2. CASE MallocCurrent(o) \/ MallocSearch(o, Walk)
    <3>1. UNCHANGED <<chunks, allocated>>
      BY <2>2 DEF MallocCurrent, MallocSearch
    <3> QED
      BY <1>2, <2>1, <3>1
  <2>3. CASE MallocNew(o, Walk)
    <3>1. PICK new \in Addresses \ allocated :
            chunks' = chunks \cup {new} /\ allocated' = allocated \cup {new}
      BY <2>3 DEF MallocNew
    <3>2. tree' = Inserted(tree, RangeOf(new))
      BY <2>1, <3>1
    <3>3. Cardinality(NodesOf(chunks)) < HeightMax
      BY <1>1 DEF Sane, Room
    <3>4. Sane(tree', NodesOf(chunks'))
      BY <1>1, <3>1, <3>2, <3>3, InsertsChunk
    <3> QED
      BY <3>4 DEF NodesOf
  <2> QED
    BY <2>1, <2>2, <2>3 DEF Malloc
<1>4. ASSUME TreeMallocThrows \/ (\E o \in Held : TreeFree(o))
             \/ (\E ptr \in Foreign : TreeFreeForeign(ptr))
      PROVE  Sane(tree, NodesOf(chunks))'
  <2>1. UNCHANGED <<chunks, tree>>
    BY <1>4 DEF TreeMallocThrows, MallocThrows, TreeFree, Free, TreeFreeForeign, FreeForeign
  <2> QED
    BY <1>2, <2>1
<1>5. /\ NodesOf({}) = {} /\ Sane(Cleared(tree), NodesOf({}))
      /\ Cardinality(NodesOf({})) < HeightMax
  BY <1>1, NoNodes, Clears
<1>6. ASSUME TreeShrink
      PROVE  Sane(tree, NodesOf(chunks))'
  <2>1. /\ Shrink(Walk) /\ Running
        /\ IF Walk = Empties(Walk)
           THEN \E new \in chunks' : tree' = Inserted(Cleared(tree), RangeOf(new))
           ELSE tree' = InsertKept(Cleared(tree))
    BY <1>6 DEF TreeShrink, Shrink
  <2>2. CASE ShrinkToKept(Walk)
    <3>1. chunks' = Walk \ Empties(Walk) /\ Walk # Empties(Walk)
      BY <2>2 DEF ShrinkToKept
    <3>2. Sane(InsertKept(Cleared(tree)), NodesOf(Walk \ Empties(Walk)))
      BY <1>5, <2>1, InsertsKept
    <3>3. Sane(tree', NodesOf(chunks'))
      BY <2>1, <3>1, <3>2
    <3> QED
      BY <3>3 DEF NodesOf
  <2>3. CASE ShrinkToNew(Walk)
    <3>1. PICK new \in Addresses : chunks' = {new} /\ Walk = Empties(Walk)
      BY <2>3 DEF ShrinkToNew
    <3>2. tree' = Inserted(Cleared(tree), RangeOf(new))
      BY <2>1, <3>1
    <3>3. Sane(tree', NodesOf({} \cup {new}))
      BY <1>5, <3>2, InsertsChunk
    <3>4. Sane(tree', NodesOf(chunks'))
      BY <3>1, <3>3
    <3> QED
      BY <3>4 DEF NodesOf
  <2> QED
    BY <2>1, <2>2, <2>3 DEF Shrink
<1>7. ASSUME TreeDestroy
      PROVE  Sane(tree, NodesOf(chunks))'
  <2>1. chunks' = {} /\ tree' = Cleared(tree)
    BY <1>7 DEF TreeDestroy, Destroy
  <2>2. Sane(tree', NodesOf(chunks'))
    BY <1>5, <2>1
  <2> QED
    BY <2>2 DEF NodesOf
<1>8. ASSUME UNCHANGED allvars
      PROVE  Sane(tree, NodesOf(chunks))'
  BY <1>2, <1>8 DEF allvars, vars
<1> QED
  BY <1>3, <1>4, <1>6, <1>7, <1>8 DEF TreeNext

\* The arena stays safe and its tree a search tree of its chunks.
THEOREM TreeInvariant == TreeSpec /\ []Room => []TreeInv
<1>1. TreeInv /\ Room /\ [TreeNext]_allvars => TreeInv'
  <2> SUFFICES ASSUME TreeInv, Room, [TreeNext]_allvars PROVE TreeInv'
    OBVIOUS
  <2>1. Safe'
    BY TreeStepIsArenaStep, StepSafe DEF TreeInv
  <2> QED
    BY <2>1, TreeStepKeepsTree DEF TreeInv
<1> QED
  BY <1>1, TreeInitInv, PTL DEF TreeSpec

\* The tree holds exactly the registered chunks, after any mallocs, frees and
\* shrinks: no insertion of a chunk is refused.
THEOREM TreeHoldsChunksAlways == TreeSpec /\ []Room => []TreeHoldsChunks
<1>1. ASSUME TreeInv
      PROVE  TreeHoldsChunks
  <2>1. tree.nodes = NodesOf(chunks) /\ chunks \in SUBSET Addresses
    BY <1>1 DEF TreeInv, Sane, Safe, TypeOK
  <2> QED
    BY <2>1, ChunksOfNodes DEF TreeHoldsChunks
<1> QED
  BY <1>1, TreeInvariant, PTL

\* An arena that walks and looks its chunks up in the tree is one of Arena's:
\* everything proved of Arena holds of it.
THEOREM ArenaTreeImplementsArena == TreeSpec /\ []Room => ArenaSpec
<1>1. TreeInit => Init
  BY DEF TreeInit
<1>2. TreeInv /\ [TreeNext]_allvars => [Next]_vars
  BY TreeStepIsArenaStep
<1> QED
  BY <1>1, <1>2, TreeInvariant, PTL DEF TreeSpec, ArenaSpec, Spec

(***************************************************************************)
(* Whatever the number of chunks, shrink() and the destructor forget a     *)
(* mapped one only when three registered ones lie before it.               *)
(***************************************************************************)
THEOREM ForgetsOnlyFarAlways == TreeSpec /\ []Room => ForgetsOnlyFar
<1> DEFINE Forgets == \A c \in chunks \cap allocated' : c \in chunks' \/ Far(c)
<1>1. ASSUME TreeInv, [TreeNext]_allvars
      PROVE  [Forgets]_allvars
  <2>1. SUFFICES ASSUME NEW c \in chunks \cap allocated', c \notin chunks'
                 PROVE  Far(c)
    OBVIOUS
  <2>2. Running /\ c \notin Walk => Far(c)
    BY <1>1, WalkIs
  <2>3. CASE \E o \in Handles : TreeMalloc(o)
    <3>1. chunks \subseteq chunks'
      BY <2>3 DEF TreeMalloc, Malloc, MallocCurrent, MallocSearch, MallocNew
    <3> QED
      BY <2>1, <3>1
  <2>4. CASE TreeShrink
    <3>1. Shrink(Walk) /\ Running
      BY <2>4 DEF TreeShrink, Shrink
    <3>2. CASE ShrinkToKept(Walk)
      <4>1. chunks' = Walk \ Empties(Walk) /\ allocated' = allocated \ Empties(Walk)
        BY <3>2 DEF ShrinkToKept
      <4> QED
        BY <2>1, <2>2, <3>1, <4>1
    <3>3. CASE ShrinkToNew(Walk)
      <4>1. PICK new : /\ chunks' = {new} /\ Walk = Empties(Walk)
                       /\ allocated' = (allocated \ Empties(Walk)) \cup {new}
        BY <3>3 DEF ShrinkToNew
      <4> QED
        BY <2>1, <2>2, <3>1, <4>1
    <3> QED
      BY <3>1, <3>2, <3>3 DEF Shrink
  <2>5. CASE TreeDestroy
    <3>1. Running /\ allocated' = allocated \ Walk
      BY <2>5 DEF TreeDestroy, Destroy
    <3> QED
      BY <2>1, <2>2, <3>1
  <2>6. CASE \/ TreeMallocThrows \/ UNCHANGED allvars
             \/ \E o \in Held : TreeFree(o)
             \/ \E ptr \in Foreign : TreeFreeForeign(ptr)
    <3>1. UNCHANGED chunks
      BY <2>6 DEF TreeMallocThrows, MallocThrows, TreeFree, Free, TreeFreeForeign,
                  FreeForeign, allvars, vars
    <3> QED
      BY <2>1, <3>1
  <2> QED
    BY <1>1, <2>3, <2>4, <2>5, <2>6 DEF TreeNext
<1> QED
  BY <1>1, TreeInvariant, PTL DEF TreeSpec, ForgetsOnlyFar

(***************************************************************************)
(* Nor does malloc() map another chunk while one of the first three has a  *)
(* free block.                                                             *)
(***************************************************************************)
THEOREM GrowsOnlyWhenFullAlways == TreeSpec /\ []Room => GrowsOnlyWhenFull
<1> DEFINE Grows == allocated \subseteq allocated' /\ allocated # allocated'
           Full  == \A c \in chunks : CanAllocate(chunk[c]) => Far(c)
<1>1. ASSUME TreeInv, [TreeNext]_allvars
      PROVE  [Grows => Full]_allvars
  <2>1. SUFFICES ASSUME Grows
                 PROVE  Full
    OBVIOUS
  <2>2. Running => \A c \in chunks \ Walk : Far(c)
    BY <1>1, WalkIs
  <2>3. CASE \E o \in Handles : TreeMalloc(o)
    <3>1. PICK o \in Handles : Malloc(o, Walk)
      BY <2>3 DEF TreeMalloc
    <3>2. MallocNew(o, Walk) /\ Running
      BY <2>1, <3>1 DEF Malloc, MallocCurrent, MallocSearch
    <3> QED
      BY <2>2, <3>2 DEF MallocNew
  <2>4. CASE TreeMallocThrows
    BY <2>2, <2>4 DEF TreeMallocThrows, MallocThrows
  <2>5. CASE TreeShrink
    <3>1. Shrink(Walk) /\ Running /\ Walk \subseteq chunks
      BY <1>1, <2>5, WalkIs DEF TreeShrink, Shrink
    <3>2. Empties(Walk) \subseteq allocated
      BY <1>1, <3>1 DEF Empties, TreeInv, Safe, CurrentsRegistered, Running
    <3>3. CASE ShrinkToKept(Walk)
      BY <2>1, <3>2, <3>3 DEF ShrinkToKept
    <3>4. CASE ShrinkToNew(Walk)
      <4>1. PICK new : allocated' = (allocated \ Empties(Walk)) \cup {new}
        BY <3>4 DEF ShrinkToNew
      <4>2. Walk = Empties(Walk) /\ Walk # {}
        BY <1>1, <3>1, <3>4, WalkIs, AddressAssumption
        DEF ShrinkToNew, TreeInv, Safe, TypeOK, Walks
      <4>3. new \in allocated
        BY <2>1, <3>2, <4>1, <4>2
      <4>4. allocated' \subseteq allocated
        BY <4>1, <4>3
      <4> QED
        BY <2>1, <4>4
    <3> QED
      BY <3>1, <3>3, <3>4 DEF Shrink
  <2>6. CASE TreeDestroy \/ (\E o \in Held : TreeFree(o))
             \/ (\E ptr \in Foreign : TreeFreeForeign(ptr))
    <3>1. allocated' \subseteq allocated
      BY <2>6 DEF TreeDestroy, Destroy, TreeFree, Free, TreeFreeForeign, FreeForeign
    <3> QED
      BY <2>1, <3>1
  <2>7. CASE UNCHANGED allvars
    BY <2>1, <2>7 DEF allvars, vars
  <2> QED
    BY <1>1, <2>3, <2>4, <2>5, <2>6, <2>7 DEF TreeNext
<1> QED
  BY <1>1, TreeInvariant, PTL DEF TreeSpec, GrowsOnlyWhenFull

=============================================================================

------------------------- MODULE ObjectAllocatorProofs -------------------------
(***************************************************************************)
(* For any number of threads, objects and static pointers: the program     *)
(* uses the singletons as ObjectAllocator says; until exit() there is one  *)
(* of each kind, which nobody gets before it is constructed; each is       *)
(* released once, the allocator before the heap it is in; and an object is *)
(* deleted by the last of its owners, its memory going back to where it is *)
(* from, which is gone before only for static pointers registered early.   *)
(***************************************************************************)
EXTENDS Object, FiniteSetTheorems, TLAPS

\* The calls a thread can be in: none, one, or one for the heap inside the
\* creation of the allocator.
Stack(s) ==
  /\ s \in Seq(Frames)
  /\ Len(s) <= 2
  /\ Len(s) = 2 =>
       s[1].kind = "heap" /\ s[2] = Frame("allocator", "construct")

In(s, k, p) == \E i \in DOMAIN s : s[i] = Frame(k, p)

\* A call of instance() of kind k is at the point p in t.
Has(t, k, p) == In(frames[t], k, p)

Nested == \A t \in Threads : Stack(frames[t])

Inside == Points \ {"load", "lock"}

\* Those past the lock have it.
Held ==
  \A t \in Threads, k \in Kinds : \A p \in Inside : Has(t, k, p) => mutex[k] = t

\* Up to the store there is no instance, and then there is a constructed one.
Begun ==
  \A t \in Threads, k \in Kinds :
    /\ Has(t, k, "create") \/ Has(t, k, "construct") \/ Has(t, k, "store") =>
         instance[k] = 0
    /\ Has(t, k, "store") => constructed[k] = made[k]

\* Before exit() an object that has been begun is the instance or on its way.
First ==
  exiting = NULL =>
    \A k \in Kinds :
      made[k] # 0 /\ instance[k] = 0 =>
        \E t \in Threads : Has(t, k, "construct") \/ Has(t, k, "store")

IInv == AllocatorTypeOK /\ Nested /\ Held /\ Begun /\ First /\ OneInstance

-----------------------------------------------------------------------------
(***************************************************************************)
(* What a step does to the calls a thread is in.                           *)
(***************************************************************************)
LEMMA FrameFields ==
  \A k, p, j, q :
    /\ Frame(k, p) = Frame(j, q) <=> k = j /\ p = q
    /\ Frame(k, p).kind = k
    /\ k \in Kinds /\ p \in Points => Frame(k, p) \in Frames
  BY DEF Frame, Frames

LEMMA ShortDomain ==
  ASSUME NEW s, s \in Seq(Frames)
  PROVE  /\ Len(s) \in Nat
         /\ Len(s) = 0 => DOMAIN s = {}
         /\ Len(s) = 1 => DOMAIN s = {1}
         /\ Len(s) = 2 => DOMAIN s = {1, 2}
         /\ s # <<>> => Len(s) # 0
  OBVIOUS

\* The stack s, whose tail is r.
Split(s, r) ==
  /\ s \in Seq(Frames) /\ r \in Seq(Frames)
  /\ Head(s) = s[1]
  /\ \/ Len(s) = 1 /\ Len(r) = 0
     \/ Len(s) = 2 /\ Len(r) = 1 /\ r[1] = s[2]

LEMMA StackSplit ==
  ASSUME NEW s, Stack(s), s # <<>>
  PROVE  Split(s, Tail(s))
<1>1. s \in Seq(Frames) /\ Len(s) <= 2 /\ Len(s) \in Nat /\ Len(s) # 0
  BY ShortDomain DEF Stack
<1>2. /\ Head(s) = s[1] /\ Tail(s) \in Seq(Frames)
      /\ Len(Tail(s)) = Len(s) - 1
      /\ Len(s) = 2 => Tail(s)[1] = s[2]
  BY <1>1
<1>3. \A n \in Nat : n <= 2 /\ n # 0 => n = 1 \/ n = 2
  OBVIOUS
<1>4. Len(s) = 1 \/ Len(s) = 2
  BY <1>1, <1>3
<1> DEFINE r == Tail(s)
<1>5. r \in Seq(Frames) /\ Len(r) = Len(s) - 1 /\ (Len(s) = 2 => r[1] = s[2])
  BY <1>2
<1> HIDE DEF r
<1>6. Split(s, r)
  BY <1>1, <1>2, <1>4, <1>5 DEF Split
<1> QED
  BY <1>6 DEF r

\* A frame before the others.
Pushed(s2, f, s) == s2 = <<f>> \o s

LEMMA PushFrame ==
  ASSUME NEW f \in Frames, NEW s \in Seq(Frames), NEW s2, Pushed(s2, f, s)
  PROVE  /\ s2 \in Seq(Frames) /\ Len(s2) = Len(s) + 1 /\ s2[1] = f
         /\ Len(s) = 1 => s2[2] = s[1]
<1>1. <<f>> \in Seq(Frames) /\ Len(<<f>>) = 1 /\ <<f>>[1] = f
  OBVIOUS
<1> QED
  BY <1>1 DEF Pushed

LEMMA OneFrame ==
  ASSUME NEW s, s \in Seq(Frames), Len(s) = 1
  PROVE  Stack(s) /\ \A j, r : In(s, j, r) <=> s[1] = Frame(j, r)
  BY ShortDomain DEF Stack, In

LEMMA TwoFrames ==
  ASSUME NEW s, s \in Seq(Frames), Len(s) = 2
  PROVE  \A j, r : In(s, j, r) <=> s[1] = Frame(j, r) \/ s[2] = Frame(j, r)
  BY ShortDomain DEF In

LEMMA NoFrame ==
  ASSUME NEW s, s \in Seq(Frames), Len(s) = 0
  PROVE  Stack(s) /\ \A j, r : ~ In(s, j, r)
  BY ShortDomain DEF Stack, In

LEMMA GotoStack ==
  ASSUME NEW s, NEW k \in Kinds, NEW p, NEW q \in Points,
         Stack(s), s # <<>>, Head(s) = Frame(k, p),
         NEW s2, Pushed(s2, Frame(k, q), Tail(s))
  PROVE  /\ Stack(s2)
         /\ \A r : In(s, k, r) <=> r = p
         /\ \A j, r : In(s2, j, r) <=> IF j = k THEN r = q ELSE In(s, j, r)
<1> DEFINE tl == Tail(s)
<1>1. Split(s, tl) /\ Frame(k, q) \in Frames /\ Pushed(s2, Frame(k, q), tl)
  BY StackSplit, FrameFields
<1> HIDE DEF tl
<1>2. s[1] = Frame(k, p) /\ tl \in Seq(Frames)
  BY <1>1 DEF Split
<1>3. s2 \in Seq(Frames) /\ Len(s2) = Len(tl) + 1 /\ s2[1] = Frame(k, q)
      /\ (Len(tl) = 1 => s2[2] = tl[1])
  BY <1>1, <1>2, PushFrame
<1>4. CASE Len(s) = 1
  <2>1. Len(s2) = 1
    BY <1>1, <1>3, <1>4 DEF Split
  <2> QED
    BY <1>1, <1>2, <1>3, <1>4, <2>1, OneFrame, FrameFields DEF Split
<1>5. CASE Len(s) = 2
  <2>1. Len(s2) = 2 /\ s2[2] = s[2]
    <3>1. Len(tl) = 1 /\ tl[1] = s[2]
      BY <1>1, <1>5 DEF Split
    <3>2. Len(s2) = 1 + 1
      BY <1>3, <3>1
    <3> QED
      BY <1>3, <3>1, <3>2
  <2>2. k = "heap" /\ s[2] = Frame("allocator", "construct")
    BY <1>2, <1>5, FrameFields DEF Stack
  <2>3. Stack(s2)
    <3>1. s2[1].kind = "heap"
      BY <1>3, <2>2, FrameFields
    <3>2. Len(s2) <= 2
      BY <2>1
    <3> QED
      BY <1>3, <2>1, <2>2, <3>1, <3>2, Zenon DEF Stack
  <2> QED
    BY <1>1, <1>2, <1>3, <1>5, <2>1, <2>2, <2>3, TwoFrames, FrameFields DEF Split
<1> QED
  BY <1>1, <1>4, <1>5 DEF Split

LEMMA ReturnStack ==
  ASSUME NEW s, NEW k \in Kinds, NEW p, Stack(s), s # <<>>, Head(s) = Frame(k, p),
         NEW s2, s2 = Tail(s)
  PROVE  /\ Stack(s2)
         /\ \A r : In(s, k, r) <=> r = p
         /\ \A j, r : In(s2, j, r) <=> j # k /\ In(s, j, r)
<1>1. Split(s, s2)
  BY StackSplit
<1>2. s[1] = Frame(k, p) /\ s2 \in Seq(Frames) /\ s \in Seq(Frames)
  BY <1>1 DEF Split
<1>3. CASE Len(s) = 1 /\ Len(s2) = 0
  <2>1. Stack(s2) /\ \A j, r : ~ In(s2, j, r)
    BY <1>2, <1>3, NoFrame
  <2>2. \A j, r : In(s, j, r) <=> s[1] = Frame(j, r)
    BY <1>2, <1>3, OneFrame
  <2> QED
    BY <1>2, <2>1, <2>2, FrameFields
<1>4. CASE Len(s) = 2 /\ Len(s2) = 1 /\ s2[1] = s[2]
  <2>1. k = "heap" /\ s[2] = Frame("allocator", "construct")
    BY <1>2, <1>4, FrameFields DEF Stack
  <2>2. Stack(s2) /\ \A j, r : In(s2, j, r) <=> s[2] = Frame(j, r)
    BY <1>2, <1>4, OneFrame
  <2>3. \A j, r : In(s, j, r) <=> s[1] = Frame(j, r) \/ s[2] = Frame(j, r)
    BY <1>2, <1>4, TwoFrames
  <2> QED
    BY <1>2, <2>1, <2>2, <2>3, FrameFields
<1> QED
  BY <1>1, <1>3, <1>4 DEF Split

\* The allocator takes its memory from the heap in a call of its own.
LEMMA CreateStack ==
  ASSUME NEW s, NEW p, Stack(s), s # <<>>, Head(s) = Frame("allocator", p),
         NEW a, Pushed(a, Frame("allocator", "construct"), Tail(s)),
         NEW b, Pushed(b, Frame("heap", "load"), a)
  PROVE  /\ Stack(a) /\ Stack(b)
         /\ \A j, r : In(s, j, r) <=> j = "allocator" /\ r = p
         /\ \A j, r : In(a, j, r) <=> j = "allocator" /\ r = "construct"
         /\ \A j, r : In(b, j, r) <=> \/ j = "allocator" /\ r = "construct"
                                      \/ j = "heap" /\ r = "load"
<1> DEFINE f == Frame("allocator", "construct")
           g == Frame("heap", "load")
           tl == Tail(s)
<1>1. /\ f \in Frames /\ g \in Frames /\ Split(s, tl)
      /\ Pushed(a, f, tl) /\ Pushed(b, g, a)
  BY FrameFields, StackSplit DEF Kinds, Points
<1> HIDE DEF tl
<1>2. s[1] = Frame("allocator", p) /\ tl \in Seq(Frames) /\ s \in Seq(Frames)
  BY <1>1 DEF Split
<1>3. Len(s) = 1 /\ Len(tl) = 0
  BY <1>1, <1>2, FrameFields DEF Stack, Split
<1>4. a \in Seq(Frames) /\ Len(a) = Len(tl) + 1 /\ a[1] = f
  BY <1>1, <1>2, PushFrame
<1>5. Len(a) = 1
  BY <1>3, <1>4
<1>6. b \in Seq(Frames) /\ Len(b) = Len(a) + 1 /\ b[1] = g /\ b[2] = f
  BY <1>1, <1>4, <1>5, PushFrame
<1>7. Len(b) = 2
  BY <1>5, <1>6
<1>8. Stack(b)
  <2>1. b[1].kind = "heap"
    BY <1>6, FrameFields
  <2>2. Len(b) <= 2
    BY <1>7
  <2> QED
    BY <1>6, <1>7, <2>1, <2>2, Zenon DEF Stack
<1>9. Stack(a) /\ \A j, r : In(a, j, r) <=> f = Frame(j, r)
  BY <1>4, <1>5, OneFrame
<1>10. \A j, r : In(s, j, r) <=> Frame("allocator", p) = Frame(j, r)
  BY <1>2, <1>3, OneFrame
<1>11. \A j, r : In(b, j, r) <=> g = Frame(j, r) \/ f = Frame(j, r)
  BY <1>6, <1>7, TwoFrames
<1> QED
  BY <1>8, <1>9, <1>10, <1>11, FrameFields

-----------------------------------------------------------------------------
(***************************************************************************)
(* The same of a step of ObjectAllocator.                                  *)
(***************************************************************************)
\* The frames of the other threads stay.
OnlyOf(t) == \A u \in Threads : u # t => frames'[u] = frames[u]

LEMMA GotoFrames ==
  ASSUME NEW t \in Threads, NEW k \in Kinds, NEW p, NEW q \in Points,
         AllocatorTypeOK, Nested, At(t, k, p), Goto(t, k, q)
  PROVE  /\ Nested' /\ frames' \in [Threads -> Seq(Frames)]
         /\ \A r : Has(t, k, r) <=> r = p
         /\ \A u \in Threads : \A j, r :
              Has(u, j, r)' <=> IF u = t /\ j = k THEN r = q ELSE Has(u, j, r)
<1> DEFINE s2 == <<Frame(k, q)>> \o Tail(frames[t])
<1>1. /\ Stack(s2)
      /\ \A r : In(frames[t], k, r) <=> r = p
      /\ \A j, r : In(s2, j, r) <=> IF j = k THEN r = q ELSE In(frames[t], j, r)
  <2>1. Stack(frames[t]) /\ frames[t] # <<>> /\ Head(frames[t]) = Frame(k, p)
    BY DEF Nested, At
  <2>2. Pushed(s2, Frame(k, q), Tail(frames[t]))
    BY DEF Pushed
  <2> HIDE DEF s2
  <2> QED
    BY <2>1, <2>2, GotoStack
<1>2. frames' = [frames EXCEPT ![t] = s2]
  BY DEF Goto
<1> HIDE DEF s2
<1>3. s2 \in Seq(Frames)
  BY <1>1 DEF Stack
<1>4. frames'[t] = s2 /\ OnlyOf(t) /\ frames' \in [Threads -> Seq(Frames)]
  BY <1>2, <1>3 DEF OnlyOf, AllocatorTypeOK
<1> QED
  BY <1>1, <1>4 DEF Nested, Has, OnlyOf

LEMMA ReturnFrames ==
  ASSUME NEW t \in Threads, NEW k \in Kinds, NEW p,
         AllocatorTypeOK, Nested, At(t, k, p), Return(t, k)
  PROVE  /\ Nested' /\ frames' \in [Threads -> Seq(Frames)]
         /\ \A r : Has(t, k, r) <=> r = p
         /\ \A u \in Threads : \A j, r :
              Has(u, j, r)' <=> ~ (u = t /\ j = k) /\ Has(u, j, r)
<1> DEFINE s2 == Tail(frames[t])
<1>1. /\ Stack(s2)
      /\ \A r : In(frames[t], k, r) <=> r = p
      /\ \A j, r : In(s2, j, r) <=> j # k /\ In(frames[t], j, r)
  <2>1. Stack(frames[t]) /\ frames[t] # <<>> /\ Head(frames[t]) = Frame(k, p)
    BY DEF Nested, At
  <2> QED
    BY <2>1, ReturnStack
<1>2. frames' = [frames EXCEPT ![t] = s2]
  BY DEF Return
<1> HIDE DEF s2
<1>3. s2 \in Seq(Frames)
  BY <1>1 DEF Stack
<1>4. frames'[t] = s2 /\ OnlyOf(t) /\ frames' \in [Threads -> Seq(Frames)]
  BY <1>2, <1>3 DEF OnlyOf, AllocatorTypeOK
<1> QED
  BY <1>1, <1>4 DEF Nested, Has, OnlyOf

LEMMA CallFrames ==
  ASSUME NEW t \in Threads, NEW k \in Kinds, AllocatorTypeOK, Nested, Call(t, k)
  PROVE  /\ Nested' /\ frames' \in [Threads -> Seq(Frames)]
         /\ \A u \in Threads : \A j, r :
              Has(u, j, r)' <=> Has(u, j, r) \/ (u = t /\ j = k /\ r = "load")
<1> DEFINE s2 == <<Frame(k, "load")>>
<1>1. Frame(k, "load") \in Frames
  BY FrameFields DEF Points
<1>2. s2 \in Seq(Frames) /\ Len(s2) = 1 /\ s2[1] = Frame(k, "load")
  BY <1>1
<1>3. frames[t] \in Seq(Frames) /\ Len(frames[t]) = 0
  BY DEF Call, AllocatorTypeOK
<1>4. frames' = [frames EXCEPT ![t] = s2]
  BY DEF Call
<1> HIDE DEF s2
<1>5. frames'[t] = s2 /\ OnlyOf(t) /\ frames' \in [Threads -> Seq(Frames)]
  BY <1>2, <1>4 DEF OnlyOf, AllocatorTypeOK
<1>6. Stack(s2) /\ \A j, r : In(s2, j, r) <=> j = k /\ r = "load"
  BY <1>2, OneFrame, FrameFields
<1>7. \A j, r : ~ In(frames[t], j, r)
  BY <1>3, NoFrame
<1> QED
  BY <1>5, <1>6, <1>7 DEF Nested, Has, OnlyOf

LEMMA CreateFrames ==
  ASSUME NEW t \in Threads, AllocatorTypeOK, Nested, CreateAllocator(t)
  PROVE  /\ Nested' /\ frames' \in [Threads -> Seq(Frames)]
         /\ Has(t, "allocator", "create")
         /\ \A j, r : Has(t, j, r) => j = "allocator"
         /\ \A u \in Threads : \A j, r :
              Has(u, j, r)' <=>
                IF u = t
                THEN \/ j = "allocator" /\ r = "construct"
                     \/ j = "heap" /\ r = "load" /\ private_heap
                ELSE Has(u, j, r)
<1> DEFINE a == <<Frame("allocator", "construct")>> \o Tail(frames[t])
           b == <<Frame("heap", "load")>> \o a
           s2 == IF private_heap THEN b ELSE a
<1>1. /\ Stack(a) /\ Stack(b)
      /\ \A j, r : In(frames[t], j, r) <=> j = "allocator" /\ r = "create"
      /\ \A j, r : In(a, j, r) <=> j = "allocator" /\ r = "construct"
      /\ \A j, r : In(b, j, r) <=> \/ j = "allocator" /\ r = "construct"
                                   \/ j = "heap" /\ r = "load"
  <2>1. Stack(frames[t]) /\ frames[t] # <<>>
        /\ Head(frames[t]) = Frame("allocator", "create")
    BY DEF Nested, At, CreateAllocator
  <2>2. /\ Pushed(a, Frame("allocator", "construct"), Tail(frames[t]))
        /\ Pushed(b, Frame("heap", "load"), a)
    BY DEF Pushed
  <2> HIDE DEF a, b
  <2> QED
    BY <2>1, <2>2, CreateStack
<1>2. frames' = [frames EXCEPT ![t] = s2]
  BY DEF CreateAllocator
<1> HIDE DEF a, b
<1>3. s2 \in Seq(Frames)
  BY <1>1 DEF Stack
<1>4. frames'[t] = s2 /\ OnlyOf(t) /\ frames' \in [Threads -> Seq(Frames)]
  BY <1>2, <1>3 DEF OnlyOf, AllocatorTypeOK
<1> QED
  BY <1>1, <1>4 DEF Nested, Has, OnlyOf

-----------------------------------------------------------------------------
LEMMA InitInvariant == AllocatorInit => IInv
<1> SUFFICES ASSUME AllocatorInit PROVE IInv
  OBVIOUS
<1>1. <<>> \in Seq(Frames) /\ Len(<<>>) = 0 /\ <<>> \in Seq(Kinds \cup Statics)
  OBVIOUS
<1>2. AllocatorTypeOK
  BY <1>1 DEF AllocatorInit, AllocatorTypeOK
<1>3. \A t \in Threads : frames[t] = <<>>
  BY DEF AllocatorInit
<1>4. Nested /\ \A t \in Threads : \A k, p : ~ Has(t, k, p)
  BY <1>1, <1>3, NoFrame DEF Nested, Has
<1> QED
  BY <1>2, <1>4 DEF AllocatorInit, IInv, Held, Begun, First, OneInstance

\* What a step of instance() does, once its effect on the frames is known.
LEMMA CallInvariant ==
  ASSUME IInv, NEW t \in Threads, NEW k \in Kinds, Call(t, k)
  PROVE  IInv'
<1>1. /\ Nested' /\ frames' \in [Threads -> Seq(Frames)]
      /\ \A u \in Threads : \A j, r :
           Has(u, j, r)' <=> Has(u, j, r) \/ (u = t /\ j = k /\ r = "load")
  BY CallFrames DEF IInv
<1>2. AllocatorTypeOK'
  BY <1>1 DEF IInv, AllocatorTypeOK, Call, objects
<1> QED
  BY <1>1, <1>2
     DEF IInv, Call, objects, Held, Begun, First, OneInstance, Inside, Points

LEMMA LoadInvariant ==
  ASSUME IInv, NEW t \in Threads, NEW k \in Kinds, Load(t, k)
  PROVE  IInv'
<1>1. CASE instance[k] # 0
  <2>1. Return(t, k) /\ At(t, k, "load")
    BY <1>1 DEF Load
  <2>2. /\ Nested' /\ frames' \in [Threads -> Seq(Frames)]
        /\ \A r : Has(t, k, r) <=> r = "load"
        /\ \A u \in Threads : \A j, r :
             Has(u, j, r)' <=> ~ (u = t /\ j = k) /\ Has(u, j, r)
    BY <2>1, ReturnFrames DEF IInv
  <2>3. AllocatorTypeOK'
    BY <2>1, <2>2 DEF IInv, AllocatorTypeOK, Load, Return, objects
  <2>4. Held' /\ Begun' /\ OneInstance'
    BY <2>2 DEF IInv, Load, objects, Held, Begun, OneInstance
  <2>5. First'
    BY <1>1, <2>2 DEF IInv, Load, objects, First
  <2> QED
    BY <2>2, <2>3, <2>4, <2>5 DEF IInv
<1>2. CASE instance[k] = 0
  <2>1. Goto(t, k, "lock") /\ At(t, k, "load") /\ "lock" \in Points
    BY <1>2 DEF Load, Points
  <2>2. /\ Nested' /\ frames' \in [Threads -> Seq(Frames)]
        /\ \A r : Has(t, k, r) <=> r = "load"
        /\ \A u \in Threads : \A j, r :
             Has(u, j, r)' <=> IF u = t /\ j = k THEN r = "lock" ELSE Has(u, j, r)
    BY <2>1, GotoFrames DEF IInv
  <2>3. AllocatorTypeOK'
    BY <1>2, <2>2 DEF IInv, AllocatorTypeOK, Load, objects
  <2>4. Held' /\ Begun' /\ OneInstance'
    BY <2>2 DEF IInv, Load, objects, Held, Begun, OneInstance, Inside
  <2>5. First'
    BY <2>2 DEF IInv, Load, objects, First
  <2> QED
    BY <2>2, <2>3, <2>4, <2>5 DEF IInv
<1> QED
  BY <1>1, <1>2

LEMMA LockInvariant ==
  ASSUME IInv, NEW t \in Threads, NEW k \in Kinds, Lock(t, k)
  PROVE  IInv'
<1>1. Goto(t, k, "check") /\ At(t, k, "lock") /\ "check" \in Points
  BY DEF Lock, Points
<1>2. /\ Nested' /\ frames' \in [Threads -> Seq(Frames)]
      /\ \A r : Has(t, k, r) <=> r = "lock"
      /\ \A u \in Threads : \A j, r :
           Has(u, j, r)' <=> IF u = t /\ j = k THEN r = "check" ELSE Has(u, j, r)
  BY <1>1, GotoFrames DEF IInv
<1>3. AllocatorTypeOK'
  BY <1>2 DEF IInv, AllocatorTypeOK, Lock, objects
<1>4. Held'
  <2>1. ASSUME NEW u \in Threads, NEW j \in Kinds, NEW p \in Inside, Has(u, j, p)'
        PROVE  mutex'[j] = u
    <3>1. CASE j = k
      BY <1>2, <2>1, <3>1, AllocatorAssumption
         DEF IInv, Lock, Held, AllocatorTypeOK
    <3>2. CASE j # k
      BY <1>2, <2>1, <3>2 DEF IInv, Lock, Held, AllocatorTypeOK
    <3> QED
      BY <3>1, <3>2
  <2> QED
    BY <2>1 DEF Held
<1>5. Begun' /\ OneInstance'
  BY <1>2 DEF IInv, Lock, objects, Begun, OneInstance
<1>6. First'
  BY <1>2 DEF IInv, Lock, objects, First
<1> QED
  BY <1>2, <1>3, <1>4, <1>5, <1>6 DEF IInv

\* The second test sees what the thread that had the lock before has stored.
LEMMA CheckInvariant ==
  ASSUME IInv, NEW t \in Threads, NEW k \in Kinds, Check(t, k)
  PROVE  IInv'
<1> DEFINE q == IF instance[k] = 0 THEN "create" ELSE "unlock"
<1>1. Goto(t, k, q) /\ At(t, k, "check") /\ q \in Points
  BY DEF Check, Points
<1>2. /\ Nested' /\ frames' \in [Threads -> Seq(Frames)]
      /\ \A r : Has(t, k, r) <=> r = "check"
      /\ \A u \in Threads : \A j, r :
           Has(u, j, r)' <=> IF u = t /\ j = k THEN r = q ELSE Has(u, j, r)
  BY <1>1, GotoFrames DEF IInv
<1>3. AllocatorTypeOK'
  BY <1>2 DEF IInv, AllocatorTypeOK, Check, objects
<1>4. Held'
  BY <1>2 DEF IInv, Check, Held, Inside, Points
<1>5. Begun' /\ OneInstance'
  BY <1>2 DEF IInv, Check, objects, Begun, OneInstance
<1>6. First'
  BY <1>2 DEF IInv, Check, objects, First
<1> QED
  BY <1>2, <1>3, <1>4, <1>5, <1>6 DEF IInv

\* The object that is begun is the first: nobody else is creating one, for the
\* creating thread has the lock.
LEMMA NoneMadeBefore ==
  ASSUME IInv, NEW t \in Threads, NEW k \in Kinds, Has(t, k, "create"),
         \A r : Has(t, k, r) <=> r = "create", exiting = NULL
  PROVE  made[k] = 0
<1>1. instance[k] = 0 /\ mutex[k] = t
  BY DEF IInv, Begun, Held, Inside, Points
<1>2. \A u \in Threads : ~ Has(u, k, "construct") /\ ~ Has(u, k, "store")
  BY <1>1 DEF IInv, Held, Inside, Points
<1> QED
  BY <1>1, <1>2 DEF IInv, First

LEMMA CreateHeapInvariant ==
  ASSUME IInv, NEW t \in Threads, CreateHeap(t)
  PROVE  IInv'
<1> DEFINE k == "heap"
<1>1. Goto(t, k, "construct") /\ At(t, k, "create") /\ "construct" \in Points
      /\ k \in Kinds
  BY DEF CreateHeap, Points, Kinds
<1>2. /\ Nested' /\ frames' \in [Threads -> Seq(Frames)]
      /\ \A r : Has(t, k, r) <=> r = "create"
      /\ \A u \in Threads : \A j, r :
           Has(u, j, r)' <=> IF u = t /\ j = k THEN r = "construct" ELSE Has(u, j, r)
  BY <1>1, GotoFrames DEF IInv
<1>3. AllocatorTypeOK'
  <2>1. made[k] + 1 \in Nat
    BY <1>1 DEF IInv, AllocatorTypeOK
  <2>2. made' \in [Kinds -> Nat]
    BY <2>1 DEF IInv, AllocatorTypeOK, CreateHeap
  <2> QED
    BY <1>2, <2>2 DEF IInv, AllocatorTypeOK, CreateHeap
<1>4. exiting = NULL => made[k] = 0
  BY <1>1, <1>2, NoneMadeBefore
<1>5. instance[k] = 0 /\ mutex[k] = t
  BY <1>1, <1>2 DEF IInv, Begun, Held, Inside, Points
<1>6. Held'
  BY <1>2, <1>5 DEF IInv, CreateHeap, Held
<1>7. Begun'
  <2>1. \A u \in Threads : ~ Has(u, k, "store")
    BY <1>1, <1>2, <1>5 DEF IInv, Held, Inside, Points
  <2> QED
    BY <1>2, <1>5, <2>1 DEF IInv, CreateHeap, Begun, AllocatorTypeOK
<1>8. First' /\ OneInstance'
  <2>1. First'
    BY <1>2 DEF IInv, CreateHeap, First, AllocatorTypeOK
  <2>2. OneInstance'
    BY <1>1, <1>4, <1>5 DEF IInv, CreateHeap, OneInstance, AllocatorTypeOK
  <2> QED
    BY <2>1, <2>2
<1> QED
  BY <1>2, <1>3, <1>6, <1>7, <1>8 DEF IInv

LEMMA CreateAllocatorInvariant ==
  ASSUME IInv, NEW t \in Threads, CreateAllocator(t)
  PROVE  IInv'
<1> DEFINE k == "allocator"
<1>1. k \in Kinds /\ At(t, k, "create")
  BY DEF CreateAllocator, Kinds
<1>2. /\ Nested' /\ frames' \in [Threads -> Seq(Frames)]
      /\ Has(t, k, "create")
      /\ \A j, r : Has(t, j, r) => j = k
      /\ \A u \in Threads : \A j, r :
           Has(u, j, r)' <=>
             IF u = t
             THEN \/ j = "allocator" /\ r = "construct"
                  \/ j = "heap" /\ r = "load" /\ private_heap
             ELSE Has(u, j, r)
  BY CreateFrames DEF IInv
<1>3. AllocatorTypeOK'
  <2>1. made[k] + 1 \in Nat
    BY <1>1 DEF IInv, AllocatorTypeOK
  <2>2. made' \in [Kinds -> Nat]
    BY <2>1 DEF IInv, AllocatorTypeOK, CreateAllocator
  <2> QED
    BY <1>2, <2>2 DEF IInv, AllocatorTypeOK, CreateAllocator
<1>4. \A r : Has(t, k, r) <=> r = "create"
  <2>1. Stack(frames[t]) /\ frames[t] # <<>> /\ Head(frames[t]) = Frame(k, "create")
    BY <1>1 DEF IInv, Nested, At
  <2> QED
    BY <1>1, <2>1, ReturnStack DEF Has
<1>5. exiting = NULL => made[k] = 0
  BY <1>1, <1>4, NoneMadeBefore
<1>6. instance[k] = 0 /\ mutex[k] = t
  BY <1>1, <1>2 DEF IInv, Begun, Held, Inside, Points
<1>7. Held'
  BY <1>2, <1>6 DEF IInv, CreateAllocator, Held, Inside, Points
<1>8. Begun'
  <2>1. \A u \in Threads : ~ Has(u, k, "store")
    BY <1>1, <1>4, <1>6 DEF IInv, Held, Inside, Points
  <2> QED
    BY <1>2, <1>6, <2>1 DEF IInv, CreateAllocator, Begun, AllocatorTypeOK
<1>9. First'
  <2>1. Has(t, k, "construct")'
    BY <1>1, <1>2
  <2>2. ASSUME exiting = NULL, NEW j \in Kinds, j # k, made'[j] # 0, instance'[j] = 0
        PROVE  \E u \in Threads : Has(u, j, "construct")' \/ Has(u, j, "store")'
    <3>1. made[j] # 0 /\ instance[j] = 0
      BY <2>2 DEF IInv, CreateAllocator, AllocatorTypeOK
    <3>2. PICK u \in Threads : Has(u, j, "construct") \/ Has(u, j, "store")
      BY <2>2, <3>1 DEF IInv, First
    <3>3. u # t
      BY <1>2, <2>2, <3>2
    <3> QED
      BY <1>2, <3>2, <3>3
  <2>3. exiting' = exiting
    BY DEF CreateAllocator
  <2> QED
    BY <2>1, <2>2, <2>3 DEF First
<1>10. OneInstance'
  BY <1>1, <1>5, <1>6 DEF IInv, CreateAllocator, OneInstance, AllocatorTypeOK
<1> QED
  BY <1>2, <1>3, <1>7, <1>8, <1>9, <1>10 DEF IInv

LEMMA ConstructInvariant ==
  ASSUME IInv, NEW t \in Threads, NEW k \in Kinds, Construct(t, k)
  PROVE  IInv'
<1>1. Goto(t, k, "store") /\ At(t, k, "construct") /\ "store" \in Points
  BY DEF Construct, Points
<1>2. /\ Nested' /\ frames' \in [Threads -> Seq(Frames)]
      /\ \A r : Has(t, k, r) <=> r = "construct"
      /\ \A u \in Threads : \A j, r :
           Has(u, j, r)' <=> IF u = t /\ j = k THEN r = "store" ELSE Has(u, j, r)
  BY <1>1, GotoFrames DEF IInv
<1>3. AllocatorTypeOK'
  <2>1. constructed' \in [Kinds -> Nat]
    BY DEF IInv, AllocatorTypeOK, Construct
  <2> QED
    BY <1>2, <2>1 DEF IInv, AllocatorTypeOK, Construct
<1>4. instance[k] = 0 /\ mutex[k] = t
  BY <1>2 DEF IInv, Begun, Held, Inside, Points
<1>5. Held'
  BY <1>2, <1>4 DEF IInv, Construct, Held
<1>6. Begun' /\ OneInstance'
  BY <1>2, <1>4 DEF IInv, Construct, Begun, OneInstance, AllocatorTypeOK
<1>7. First'
  BY <1>2 DEF IInv, Construct, First
<1> QED
  BY <1>2, <1>3, <1>5, <1>6, <1>7 DEF IInv

LEMMA StoreInvariant ==
  ASSUME IInv, NEW t \in Threads, NEW k \in Kinds, Store(t, k)
  PROVE  IInv'
<1>1. Goto(t, k, "register") /\ At(t, k, "store") /\ "register" \in Points
  BY DEF Store, Points
<1>2. /\ Nested' /\ frames' \in [Threads -> Seq(Frames)]
      /\ \A r : Has(t, k, r) <=> r = "store"
      /\ \A u \in Threads : \A j, r :
           Has(u, j, r)' <=> IF u = t /\ j = k THEN r = "register" ELSE Has(u, j, r)
  BY <1>1, GotoFrames DEF IInv
<1>3. AllocatorTypeOK'
  <2>1. instance' \in [Kinds -> Nat]
    BY DEF IInv, AllocatorTypeOK, Store
  <2> QED
    BY <1>2, <2>1 DEF IInv, AllocatorTypeOK, Store
<1>4. constructed[k] = made[k] /\ mutex[k] = t
  BY <1>2 DEF IInv, Begun, Held, Inside, Points
<1>5. Held'
  BY <1>2, <1>4 DEF IInv, Store, Held
<1>6. Begun'
  <2>1. \A u \in Threads :
          ~ Has(u, k, "create")' /\ ~ Has(u, k, "construct")' /\ ~ Has(u, k, "store")'
    <3>1. \A u \in Threads : u # t =>
            ~ Has(u, k, "create") /\ ~ Has(u, k, "construct") /\ ~ Has(u, k, "store")
      BY <1>4 DEF IInv, Held, Inside, Points
    <3> QED
      BY <1>2, <3>1
  <2> QED
    BY <1>2, <2>1 DEF IInv, Store, Begun, AllocatorTypeOK
<1>7. OneInstance'
  BY <1>4 DEF IInv, Store, OneInstance, AllocatorTypeOK
<1>8. First'
  <2>1. ASSUME exiting = NULL, NEW j \in Kinds, made'[j] # 0, instance'[j] = 0
        PROVE  \E u \in Threads : Has(u, j, "construct")' \/ Has(u, j, "store")'
    <3>1. j # k /\ made[j] # 0 /\ instance[j] = 0
      BY <2>1 DEF IInv, Store, AllocatorTypeOK
    <3> QED
      BY <1>2, <2>1, <3>1 DEF IInv, First
  <2>2. exiting' = exiting
    BY DEF Store
  <2> QED
    BY <2>1, <2>2 DEF First
<1> QED
  BY <1>2, <1>3, <1>5, <1>6, <1>7, <1>8 DEF IInv

LEMMA RegisterInvariant ==
  ASSUME IInv, NEW t \in Threads, NEW k \in Kinds, Register(t, k)
  PROVE  IInv'
<1>1. Goto(t, k, "unlock") /\ At(t, k, "register") /\ "unlock" \in Points
  BY DEF Register, Points
<1>2. /\ Nested' /\ frames' \in [Threads -> Seq(Frames)]
      /\ \A r : Has(t, k, r) <=> r = "register"
      /\ \A u \in Threads : \A j, r :
           Has(u, j, r)' <=> IF u = t /\ j = k THEN r = "unlock" ELSE Has(u, j, r)
  BY <1>1, GotoFrames DEF IInv
<1>3. AllocatorTypeOK'
  <2>1. handlers' \in Seq(Kinds \cup Statics)
    BY DEF IInv, AllocatorTypeOK, Register
  <2> QED
    BY <1>2, <2>1 DEF IInv, AllocatorTypeOK, Register, objects
<1>4. Held'
  BY <1>2 DEF IInv, Register, Held, Inside, Points
<1>5. Begun' /\ OneInstance'
  BY <1>2 DEF IInv, Register, objects, Begun, OneInstance
<1>6. First'
  BY <1>2 DEF IInv, Register, objects, First
<1> QED
  BY <1>2, <1>3, <1>4, <1>5, <1>6 DEF IInv

LEMMA UnlockInvariant ==
  ASSUME IInv, NEW t \in Threads, NEW k \in Kinds, Unlock(t, k)
  PROVE  IInv'
<1>1. Return(t, k) /\ At(t, k, "unlock")
  BY DEF Unlock
<1>2. /\ Nested' /\ frames' \in [Threads -> Seq(Frames)]
      /\ \A r : Has(t, k, r) <=> r = "unlock"
      /\ \A u \in Threads : \A j, r :
           Has(u, j, r)' <=> ~ (u = t /\ j = k) /\ Has(u, j, r)
  BY <1>1, ReturnFrames DEF IInv
<1>3. AllocatorTypeOK'
  BY <1>2 DEF IInv, AllocatorTypeOK, Unlock, Return, objects
<1>4. mutex[k] = t
  BY <1>2 DEF IInv, Held, Inside, Points
<1>5. Held'
  <2>1. ASSUME NEW u \in Threads, NEW j \in Kinds, NEW p \in Inside, Has(u, j, p)'
        PROVE  mutex'[j] = u
    <3>1. mutex[j] = u /\ ~ (u = t /\ j = k)
      BY <1>2, <2>1 DEF IInv, Held
    <3> QED
      BY <1>4, <3>1 DEF Unlock, IInv, AllocatorTypeOK
  <2> QED
    BY <2>1 DEF Held
<1>6. Begun' /\ OneInstance'
  BY <1>2 DEF IInv, Unlock, objects, Begun, OneInstance
<1>7. First'
  BY <1>2 DEF IInv, Unlock, objects, First
<1> QED
  BY <1>2, <1>3, <1>5, <1>6, <1>7 DEF IInv

\* The steps of exit() and of the constructors of static objects.
LEMMA ExitInvariant ==
  ASSUME IInv,
         \/ \E t \in Threads : Exit(t) \/ RunHandler(t)
         \/ \E s \in Statics : InitStatic(s)
  PROVE  IInv'
<1>1. frames' = frames /\ mutex' = mutex /\ made' = made /\ constructed' = constructed
  BY DEF Exit, RunHandler, NextHandler, ReleaseAllocator, ReleaseHeap, RunStatic,
         InitStatic, objects, calls
<1>2. Nested' /\ \A t, k, p : Has(t, k, p)' <=> Has(t, k, p)
  BY <1>1 DEF IInv, Nested, Has
<1>3. handlers' \in Seq(Kinds \cup Statics)
  <2>1. handlers \in Seq(Kinds \cup Statics)
    BY DEF IInv, AllocatorTypeOK
  <2>2. ASSUME NEW t \in Threads, NextHandler(t)
        PROVE  handlers' \in Seq(Kinds \cup Statics)
    BY <2>1, <2>2 DEF NextHandler
  <2>3. ASSUME NEW s \in Statics, InitStatic(s)
        PROVE  handlers' \in Seq(Kinds \cup Statics)
    BY <2>1, <2>3 DEF InitStatic
  <2>4. ASSUME NEW t \in Threads, Exit(t)
        PROVE  handlers' \in Seq(Kinds \cup Statics)
    BY <2>1, <2>4 DEF Exit
  <2> QED
    BY <2>2, <2>3, <2>4 DEF RunHandler, ReleaseAllocator, ReleaseHeap, RunStatic
<1>4. /\ instance' \in [Kinds -> Nat]
      /\ \A k \in Kinds : instance'[k] = instance[k] \/ instance'[k] = 0
  <2>1. instance \in [Kinds -> Nat]
    BY DEF IInv, AllocatorTypeOK
  <2>2. \/ instance' = instance
        \/ instance' = [instance EXCEPT !["allocator"] = 0]
        \/ instance' = [instance EXCEPT !["heap"] = 0]
    BY DEF Exit, RunHandler, ReleaseAllocator, ReleaseHeap, RunStatic, InitStatic,
           objects
  <2> QED
    BY <2>1, <2>2
<1>5. /\ exiting' \in Threads \cup {NULL}
      /\ exiting' = NULL => exiting = NULL /\ instance' = instance
  BY AllocatorAssumption
     DEF IInv, AllocatorTypeOK, Exit, RunHandler, NextHandler, ReleaseAllocator,
         ReleaseHeap, RunStatic, InitStatic, objects
<1>6. AllocatorTypeOK'
  <2>1. got' = got /\ private_heap' = private_heap /\ direct' = direct
    BY DEF Exit, RunHandler, NextHandler, ReleaseAllocator, ReleaseHeap, RunStatic,
           InitStatic, calls
  <2> QED
    BY <1>1, <1>3, <1>4, <1>5, <2>1 DEF IInv, AllocatorTypeOK
<1>7. Held' /\ Begun'
  BY <1>1, <1>2, <1>4 DEF IInv, Held, Begun
<1>8. First'
  BY <1>1, <1>2, <1>5 DEF IInv, First
<1>9. OneInstance'
  BY <1>1, <1>4, <1>5 DEF IInv, OneInstance
<1> QED
  BY <1>2, <1>6, <1>7, <1>8, <1>9 DEF IInv

LEMMA StepInvariant == IInv /\ [AllocatorNext]_avars => IInv'
<1> SUFFICES ASSUME IInv, [AllocatorNext]_avars PROVE IInv'
  OBVIOUS
<1>1. CASE AllocatorNext
  BY <1>1, CallInvariant, LoadInvariant, LockInvariant, CheckInvariant,
     CreateAllocatorInvariant, CreateHeapInvariant, ConstructInvariant,
     StoreInvariant, RegisterInvariant, UnlockInvariant, ExitInvariant
     DEF AllocatorNext, Step
<1>2. CASE UNCHANGED avars
  <2>1. frames' = frames /\ \A t, k, p : Has(t, k, p)' <=> Has(t, k, p)
    BY <1>2 DEF avars, calls, Has
  <2> QED
    BY <1>2, <2>1 DEF avars, objects, calls, IInv, AllocatorTypeOK, Nested, Held,
       Begun, First, OneInstance
<1> QED
  BY <1>1, <1>2

\* The singletons are created in a critical section, by a call that may hold a
\* call for the other inside.
THEOREM AllocatorInvariant == AllocatorSpec => []IInv
  BY InitInvariant, StepInvariant, PTL DEF AllocatorSpec

-----------------------------------------------------------------------------
(***************************************************************************)
(* Whatever objects do, they use the singletons by steps of                *)
(* ObjectAllocator.                                                        *)
(***************************************************************************)
LEMMA ObjectStep == [ObjectNext]_allvars => [AllocatorNext]_avars
<1> SUFFICES ASSUME [ObjectNext]_allvars PROVE [AllocatorNext]_avars
  OBVIOUS
<1>1. "allocator" \in Kinds /\ "heap" \in Kinds
  BY DEF Kinds
<1>2. ASSUME NEW t \in Threads, Proceed(t)
      PROVE  [AllocatorNext]_avars
  BY <1>1, <1>2 DEF Proceed, Instance, Malloc, Test, Free, GlobalDelete, Adopt,
     ExitAllocator, ExitHeap, ExitStatic, AllocatorNext, RunHandler
<1>3. ASSUME NEW t \in Threads, NEW o \in Objects, NEW n, New(t, o, n)
      PROVE  [AllocatorNext]_avars
  BY <1>1, <1>3 DEF New, AllocatorNext
<1>4. ASSUME NEW t \in Threads, UseHeap(t) \/ ProgramExit(t)
      PROVE  [AllocatorNext]_avars
  BY <1>1, <1>4 DEF UseHeap, ProgramExit, AllocatorNext
<1>5. ASSUME NEW s \in Statics, StaticPointer(s)
      PROVE  [AllocatorNext]_avars
  BY <1>5 DEF StaticPointer, AllocatorNext
<1>6. ASSUME NEW t \in Threads, NEW o \in Objects, NEW w,
             Drop(t, o) \/ Copy(t, o, w)
      PROVE  [AllocatorNext]_avars
  BY <1>6 DEF Drop, Copy
<1>7. CASE UNCHANGED allvars
  BY <1>7 DEF allvars
<1> QED
  BY <1>2, <1>3, <1>4, <1>5, <1>6, <1>7 DEF ObjectNext

\* The program with its objects implements what is said of the singletons alone.
THEOREM ObjectImplementsAllocator == ObjectSpec => AllocatorSpec
<1>1. ObjectInit => AllocatorInit
  BY DEF ObjectInit
<1> QED
  BY <1>1, ObjectStep, PTL DEF ObjectSpec, AllocatorSpec

\* Until exit() there is one allocator and one heap, and no thread gets either
\* before it is constructed.
THEOREM OneInstanceAlways == ObjectSpec => []OneInstance
<1>1. IInv => OneInstance
  BY DEF IInv
<1> QED
  BY <1>1, AllocatorInvariant, ObjectImplementsAllocator, PTL

-----------------------------------------------------------------------------
(***************************************************************************)
(* The index of a pool is a number: sizes are multiples of a word and not  *)
(* below the smallest.                                                     *)
(***************************************************************************)
LEMMA Quotient ==
  ASSUME NEW w \in Nat \ {0}, NEW x \in Int, NEW q \in Int,
         w * q <= x, x < w * q + w
  PROVE  x \div w = q
  BY SMT

LEMMA Aligned ==
  ASSUME NEW w \in Nat \ {0}, NEW q \in Int
  PROVE  AlignUp(w, w * q) = w * q /\ (w * q) \div w = q
<1>1. w * q \in Int
  BY SMT
<1>2. (w * q) \div w = q
  BY <1>1, Quotient
<1>3. (w * q + w - 1) \div w = q
  BY <1>1, Quotient
<1> QED
  BY <1>2, <1>3, SMT DEF AlignUp

LEMMA PoolIndex ==
  ASSUME NEW n \in Nat, n >= MIN_SIZE, n % Word = 0
  PROVE  /\ Get(n) \in Nat
         /\ n = Word * (Get(n) + 2)
<1> DEFINE q == n \div Word
<1>1. Word \in Nat \ {0}
  BY AllocatorAssumption
<1>2. q \in Int /\ n = Word * q
  BY <1>1, SMT
<1> HIDE DEF q
<1>3. Get(n) = q - SHIFT
  BY <1>1, <1>2, Aligned DEF Get
<1>4. MIN_SIZE = Word * 2 /\ SHIFT = 2
  <2>1. 2 * Word = Word * 2
    BY <1>1
  <2>2. AlignUp(Word, Word * 2) = Word * 2
    <3>1. 2 \in Int
      OBVIOUS
    <3> QED
      BY <1>1, <3>1, Aligned, Zenon
  <2>3. MIN_SIZE = Word * 2
    BY <2>1, <2>2, Zenon DEF MIN_SIZE
  <2> QED
    BY <1>1, <2>3, Aligned DEF SHIFT
<1>5. q >= 2
  BY <1>1, <1>2, <1>4, SMT
<1> QED
  BY <1>2, <1>3, <1>4, <1>5

-----------------------------------------------------------------------------
(***************************************************************************)
(* Objects and their owners.  The count is the number of owners, so that   *)
(* fetch_sub() returns 1 to the thread that takes the last one away.       *)
(***************************************************************************)
Counted ==
  \A o \in Objects : IsFiniteSet(owners[o]) /\ count[o] = Cardinality(owners[o])

Making(t, o) == doing[t].object = o /\ doing[t].task \in {"new", "adopt"}

\* t gives o its memory, or takes it away.
Works(t, o) == Making(t, o) \/ Deleting(t, o)

\* An object has memory while it has an owner, and when it has none one thread
\* works on it.
TendedAt(o) ==
  /\ owners[o] # {} => home[o] # NULL
  /\ home[o] # NULL /\ owners[o] = {} => \E t \in Threads : Works(t, o)
  /\ \A t \in Threads : Works(t, o) =>
       /\ owners[o] = {}
       /\ \A u \in Threads : Works(u, o) => u = t
       /\ home[o] = NULL <=> doing[t].task = "new"
       /\ doing[t].task = "new" => size[o] \in Sizes[o]

Tended == \A o \in Objects : TendedAt(o)

OInv == ObjectTypeOK /\ Counted /\ Tended

core == <<size, home, count, owners, doing, before>>

LEMMA ObjectInitInvariant == ObjectInit => OInv
<1> SUFFICES ASSUME ObjectInit PROVE OInv
  OBVIOUS
<1>1. AllocatorTypeOK
  BY InitInvariant DEF ObjectInit, IInv
<1>2. \A t \in Threads, o \in Objects : ~ Works(t, o)
  BY DEF ObjectInit, Works, Making, Deleting, Last, Idle
<1>3. ObjectTypeOK
  BY <1>1 DEF ObjectInit, ObjectTypeOK, Idle, Tasks
<1>4. Counted
  BY FS_EmptySet DEF ObjectInit, Counted
<1>5. Tended
  BY <1>2 DEF ObjectInit, Tended, TendedAt
<1> QED
  BY <1>3, <1>4, <1>5 DEF OInv

\* Steps that change nothing of the objects.
LEMMA QuietInvariant ==
  ASSUME OInv, AllocatorTypeOK', UNCHANGED core,
         arenas' = arenas \/ arenas' = {}, early' \subseteq Statics,
         dangled' = dangled, crashed' = crashed
  PROVE  OInv'
<1>1. ObjectTypeOK'
  BY DEF core, OInv, ObjectTypeOK
<1>2. Counted'
  BY DEF core, OInv, Counted
<1>3. \A t \in Threads, o \in Objects : Works(t, o)' <=> Works(t, o)
  BY DEF core, Works, Making, Deleting, Last
<1>4. Tended'
  BY <1>3 DEF core, OInv, Tended, TendedAt
<1> QED
  BY <1>1, <1>2, <1>4 DEF OInv

\* What t is doing, and that the others do what they did.
LEMMA DoEffect ==
  ASSUME ObjectTypeOK, NEW t \in Threads, NEW task \in Tasks,
         NEW o \in Objects \cup {NULL}, Do(t, task, o)
  PROVE  /\ doing' \in [Threads -> [task : Tasks, object : Objects \cup {NULL}]]
         /\ doing'[t].task = task /\ doing'[t].object = o
         /\ \A u \in Threads : u # t => doing'[u] = doing[u]
  BY DEF Do, ObjectTypeOK

\* Nothing happens to o.
Same(o) ==
  /\ home'[o] = home[o] /\ size'[o] = size[o] /\ owners'[o] = owners[o]
  /\ \A t \in Threads :
       /\ Works(t, o)' <=> Works(t, o)
       /\ Works(t, o) => doing'[t] = doing[t]

LEMMA SameTended ==
  ASSUME Tended, NEW o \in Objects, Same(o)
  PROVE  TendedAt(o)'
  BY DEF Same, Tended, TendedAt

LEMMA NewInvariant ==
  ASSUME OInv, AllocatorTypeOK', NEW t \in Threads, NEW o \in Objects,
         NEW n \in Sizes[o], New(t, o, n)
  PROVE  OInv'
<1>1. /\ doing[t] = Idle /\ home[o] = NULL
      /\ \A u \in Threads : doing[u].object # o
      /\ size' = [size EXCEPT ![o] = n] /\ count' = [count EXCEPT ![o] = 0]
      /\ UNCHANGED <<owners, before, arenas, early, dangled, crashed>>
  BY DEF New, Ready
<1>2. n \in Nat
  BY SizeAssumption
<1>3. PICK task \in {"new", "adopt"} :
        /\ Do(t, task, o)
        /\ home' = IF task = "new" THEN home ELSE [home EXCEPT ![o] = Global]
  BY DEF New
<1>4. Global \in [allocator : Nat, pool : Nat] /\ Global # NULL
  BY NoBlockAssumption DEF Global, Block
<1>5. /\ doing' \in [Threads -> [task : Tasks, object : Objects \cup {NULL}]]
      /\ doing'[t].task = task /\ doing'[t].object = o
      /\ \A u \in Threads : u # t => doing'[u] = doing[u]
  BY <1>3, DoEffect DEF OInv, Tasks
<1>6. owners[o] = {} /\ \A u \in Threads : ~ Works(u, o)
  BY <1>1 DEF OInv, Tended, TendedAt, Works, Making, Deleting
<1>7. \A u \in Threads, p \in Objects :
        Works(u, p)' <=> (u = t /\ p = o) \/ (u # t /\ Works(u, p))
  BY <1>1, <1>5 DEF Works, Making, Deleting, Last
<1>8. \A p \in Objects : ~ Works(t, p)
  BY <1>1 DEF Works, Making, Deleting, Idle
<1>9. ObjectTypeOK'
  BY <1>1, <1>2, <1>3, <1>4, <1>5 DEF OInv, ObjectTypeOK
<1>10. Counted'
  BY <1>1, <1>6, FS_EmptySet DEF OInv, Counted, ObjectTypeOK
<1>11. ASSUME NEW p \in Objects
       PROVE  TendedAt(p)'
  <2>1. CASE p = o
    BY <2>1, <1>1, <1>3, <1>4, <1>5, <1>6, <1>7 DEF OInv, ObjectTypeOK, TendedAt
  <2>2. CASE p # o
    <3>1. Same(p)
      BY <2>2, <1>1, <1>3, <1>5, <1>7, <1>8 DEF OInv, ObjectTypeOK, Same
    <3> QED
      BY <3>1, SameTended DEF OInv
  <2> QED
    BY <2>1, <2>2
<1> QED
  BY <1>9, <1>10, <1>11 DEF OInv, Tended

LEMMA MallocInvariant ==
  ASSUME OInv, AllocatorTypeOK', NEW t \in Threads, NEW o \in Objects, Malloc(t, o)
  PROVE  OInv'
<1> DEFINE block == Block(got[t], Get(size[o]))
<1>1. /\ doing[t].task = "new" /\ doing[t].object = o
      /\ home' = [home EXCEPT ![o] = block]
      /\ Do(t, "adopt", o)
      /\ UNCHANGED <<size, count, owners, before, early, dangled>>
  BY DEF Malloc, Does
<1>2. /\ doing' \in [Threads -> [task : Tasks, object : Objects \cup {NULL}]]
      /\ doing'[t].task = "adopt" /\ doing'[t].object = o
      /\ \A u \in Threads : u # t => doing'[u] = doing[u]
  BY <1>1, DoEffect DEF OInv, Tasks
<1>3. Works(t, o)
  BY <1>1 DEF Works, Making
<1>4. size[o] \in Sizes[o] /\ owners[o] = {}
  BY <1>1, <1>3 DEF OInv, Tended, TendedAt
<1>5. block \in [allocator : Nat, pool : Nat] /\ block # NULL
  <2>1. size[o] \in Nat /\ size[o] >= MIN_SIZE /\ size[o] % Word = 0
    BY <1>4, SizeAssumption
  <2>2. Get(size[o]) \in Nat
    BY <2>1, PoolIndex
  <2>3. got[t] \in Nat
    BY DEF OInv, ObjectTypeOK, AllocatorTypeOK
  <2> QED
    BY <2>2, <2>3, NoBlockAssumption DEF Block
<1>6. arenas' \subseteq [thread : Threads, home : [allocator : Nat, pool : Nat],
                         block : Nat]
  <2>1. arenas' \subseteq
          arenas \cup {[thread |-> t, home |-> block, block |-> size[o]]}
    BY DEF Malloc
  <2>2. size[o] \in Nat
    BY DEF OInv, ObjectTypeOK
  <2> HIDE DEF block
  <2> QED
    BY <1>5, <2>1, <2>2 DEF OInv, ObjectTypeOK
<1>7. crashed' \in BOOLEAN
  BY DEF Malloc
<1> HIDE DEF block
<1>8. \A u \in Threads, p \in Objects : Works(u, p)' <=> Works(u, p)
  BY <1>1, <1>2 DEF Works, Making, Deleting, Last
<1>9. ObjectTypeOK'
  BY <1>1, <1>2, <1>5, <1>6, <1>7 DEF OInv, ObjectTypeOK
<1>10. Counted'
  BY <1>1 DEF OInv, Counted
<1>11. ASSUME NEW p \in Objects
       PROVE  TendedAt(p)'
  <2>1. CASE p = o
    BY <2>1, <1>1, <1>2, <1>3, <1>4, <1>5, <1>8
       DEF OInv, Tended, TendedAt, ObjectTypeOK
  <2>2. CASE p # o
    <3>1. \A u \in Threads : Works(u, p) => u # t
      BY <1>1, <2>2 DEF Works, Making, Deleting
    <3>2. Same(p)
      BY <2>2, <1>1, <1>2, <1>8, <3>1 DEF OInv, ObjectTypeOK, Same
    <3> QED
      BY <3>2, SameTended DEF OInv
  <2> QED
    BY <2>1, <2>2
<1> QED
  BY <1>9, <1>10, <1>11 DEF OInv, Tended

\* An owner more.
LEMMA OwnerAdded ==
  ASSUME OInv, NEW o \in Objects, NEW w \in Owners, AddRef(o, w), w \notin owners[o]
  PROVE  /\ Counted'
         /\ count' \in [Objects -> Nat] /\ owners' \in [Objects -> SUBSET Owners]
         /\ owners'[o] # {}
         /\ \A p \in Objects : p # o => owners'[p] = owners[p]
<1>1. /\ count \in [Objects -> Nat] /\ owners \in [Objects -> SUBSET Owners]
      /\ owners' = [owners EXCEPT ![o] = owners[o] \cup {w}]
      /\ count' = [count EXCEPT ![o] = count[o] + 1]
  BY DEF AddRef, OInv, ObjectTypeOK
<1>2. /\ IsFiniteSet(owners[o] \cup {w})
      /\ Cardinality(owners[o] \cup {w}) = count[o] + 1
  BY FS_AddElement DEF OInv, Counted
<1>3. Counted'
  BY <1>1, <1>2 DEF OInv, Counted
<1> QED
  BY <1>1, <1>3

LEMMA AdoptInvariant ==
  ASSUME OInv, AllocatorTypeOK', NEW t \in Threads, NEW o \in Objects,
         NEW w \in Owners, Adopt(t, o, w)
  PROVE  OInv'
<1>1. /\ doing[t].task = "adopt" /\ doing[t].object = o
      /\ AddRef(o, w) /\ Do(t, "none", NULL)
      /\ UNCHANGED <<size, home, before, arenas, early, dangled, crashed>>
  BY DEF Adopt, Does
<1>2. /\ doing' \in [Threads -> [task : Tasks, object : Objects \cup {NULL}]]
      /\ doing'[t].task = "none"
      /\ \A u \in Threads : u # t => doing'[u] = doing[u]
  BY <1>1, DoEffect DEF OInv, Tasks
<1>3. Works(t, o) /\ owners[o] = {} /\ home[o] # NULL
  BY <1>1 DEF OInv, Tended, TendedAt, Works, Making
<1>4. /\ Counted'
      /\ count' \in [Objects -> Nat] /\ owners' \in [Objects -> SUBSET Owners]
      /\ owners'[o] # {}
      /\ \A p \in Objects : p # o => owners'[p] = owners[p]
  BY <1>1, <1>3, OwnerAdded
<1>5. \A u \in Threads, p \in Objects : Works(u, p)' <=> u # t /\ Works(u, p)
  BY <1>1, <1>2 DEF Works, Making, Deleting, Last
<1>6. ObjectTypeOK'
  BY <1>1, <1>2, <1>4 DEF OInv, ObjectTypeOK
<1>7. ASSUME NEW p \in Objects
      PROVE  TendedAt(p)'
  <2>1. CASE p = o
    BY <2>1, <1>1, <1>3, <1>4, <1>5 DEF OInv, Tended, TendedAt
  <2>2. CASE p # o
    <3>1. \A u \in Threads : Works(u, p) => u # t
      BY <1>1, <2>2 DEF Works, Making, Deleting
    <3>2. Same(p)
      BY <2>2, <1>1, <1>2, <1>4, <1>5, <3>1 DEF Same
    <3> QED
      BY <3>2, SameTended DEF OInv
  <2> QED
    BY <2>1, <2>2
<1> QED
  BY <1>4, <1>6, <1>7 DEF OInv, Tended

LEMMA CopyInvariant ==
  ASSUME OInv, AllocatorTypeOK', NEW t \in Threads, NEW o \in Objects,
         NEW w \in Owners, Copy(t, o, w)
  PROVE  OInv'
<1>1. /\ owners[o] # {} /\ w \notin owners[o] /\ AddRef(o, w)
      /\ UNCHANGED <<size, home, doing, before, arenas, early, dangled, crashed>>
  BY DEF Copy
<1>2. /\ Counted'
      /\ count' \in [Objects -> Nat] /\ owners' \in [Objects -> SUBSET Owners]
      /\ owners'[o] # {}
      /\ \A p \in Objects : p # o => owners'[p] = owners[p]
  BY <1>1, OwnerAdded
<1>3. \A u \in Threads, p \in Objects : Works(u, p)' <=> Works(u, p)
  BY <1>1 DEF Works, Making, Deleting, Last
<1>4. ObjectTypeOK'
  BY <1>1, <1>2 DEF OInv, ObjectTypeOK
<1>5. ASSUME NEW p \in Objects
      PROVE  TendedAt(p)'
  <2>1. CASE p = o
    BY <2>1, <1>1, <1>2, <1>3 DEF OInv, Tended, TendedAt
  <2>2. CASE p # o
    <3>1. Same(p)
      BY <2>2, <1>1, <1>2, <1>3 DEF Same
    <3> QED
      BY <3>1, SameTended DEF OInv
  <2> QED
    BY <2>1, <2>2
<1> QED
  BY <1>2, <1>4, <1>5 DEF OInv, Tended

\* An owner lets go: fetch_sub() returns 1 exactly when it was the last.
LEMMA FetchSubInvariant ==
  ASSUME OInv, AllocatorTypeOK', NEW t \in Threads, NEW o \in Objects, NEW w,
         doing[t] = Idle, w \in owners[o], FetchSub(t, o, w),
         early' = early
  PROVE  OInv'
<1>1. /\ owners' = [owners EXCEPT ![o] = owners[o] \ {w}]
      /\ before' = [before EXCEPT ![t] = count[o]]
      /\ count' = [count EXCEPT ![o] = count[o] - 1]
      /\ Do(t, "test", o)
      /\ UNCHANGED <<size, home, arenas, crashed>>
      /\ dangled' \in BOOLEAN
  BY DEF FetchSub, OInv, ObjectTypeOK
<1>2. /\ doing' \in [Threads -> [task : Tasks, object : Objects \cup {NULL}]]
      /\ doing'[t].task = "test" /\ doing'[t].object = o
      /\ \A u \in Threads : u # t => doing'[u] = doing[u]
  BY <1>1, DoEffect DEF OInv, Tasks
<1>3. home[o] # NULL /\ \A u \in Threads : ~ Works(u, o)
  BY DEF OInv, Tended, TendedAt
<1>4. /\ IsFiniteSet(owners[o] \ {w})
      /\ Cardinality(owners[o] \ {w}) = count[o] - 1
      /\ Cardinality(owners[o] \ {w}) \in Nat
      /\ count[o] = 1 <=> owners[o] \ {w} = {}
  <2>1. IsFiniteSet(owners[o]) /\ count[o] = Cardinality(owners[o])
    BY DEF OInv, Counted
  <2>2. /\ IsFiniteSet(owners[o] \ {w})
        /\ Cardinality(owners[o] \ {w}) = count[o] - 1
    BY <2>1, FS_RemoveElement
  <2>3. Cardinality(owners[o] \ {w}) \in Nat
    BY <2>2, FS_CardinalityType
  <2>4. Cardinality(owners[o] \ {w}) = 0 <=> owners[o] \ {w} = {}
    BY <2>2, FS_EmptySet
  <2>5. count[o] \in Nat
    BY DEF OInv, ObjectTypeOK
  <2> QED
    BY <2>2, <2>3, <2>4, <2>5
<1>5. ObjectTypeOK'
  BY <1>1, <1>2, <1>4 DEF OInv, ObjectTypeOK
<1>6. Counted'
  BY <1>1, <1>4 DEF OInv, Counted, ObjectTypeOK
<1>7. \A p \in Objects : ~ Works(t, p)
  BY DEF Works, Making, Deleting, Idle
<1>8. before'[t] = count[o] /\ \A u \in Threads : u # t => before'[u] = before[u]
  BY <1>1 DEF OInv, ObjectTypeOK
<1>9. \A u \in Threads, p \in Objects :
        Works(u, p)' <=>
          (u = t /\ p = o /\ count[o] = 1) \/ (u # t /\ Works(u, p))
  BY <1>2, <1>8 DEF Works, Making, Deleting, Last
<1>10. ASSUME NEW p \in Objects
       PROVE  TendedAt(p)'
  <2>1. CASE p = o
    BY <2>1, <1>1, <1>2, <1>3, <1>4, <1>9 DEF OInv, ObjectTypeOK, TendedAt
  <2>2. CASE p # o
    <3>1. Same(p)
      BY <2>2, <1>1, <1>2, <1>7, <1>9 DEF OInv, ObjectTypeOK, Same
    <3> QED
      BY <3>1, SameTended DEF OInv
  <2> QED
    BY <2>1, <2>2
<1> QED
  BY <1>5, <1>6, <1>10 DEF OInv, Tended

LEMMA TestInvariant ==
  ASSUME OInv, AllocatorTypeOK', NEW t \in Threads, NEW o \in Objects, Test(t, o)
  PROVE  OInv'
<1>1. /\ doing[t].task = "test" /\ doing[t].object = o
      /\ before' = [before EXCEPT ![t] = 0]
      /\ UNCHANGED <<size, home, count, owners, arenas, early, dangled, crashed>>
  <2>1. Does(t, "test", o)
    BY DEF Test
  <2>2. /\ before' = [before EXCEPT ![t] = 0]
        /\ UNCHANGED <<size, home, count, owners, arenas, early, dangled, crashed>>
    BY Zenon DEF Test
  <2> QED
    BY <2>1, <2>2 DEF Does
<1>2. PICK task \in {"none", "free", "delete"}, p \in {o, NULL} :
        /\ Do(t, task, p)
        /\ before[t] = 1 <=> task # "none"
        /\ task # "none" => p = o
  BY DEF Test, Last
<1>3. /\ doing' \in [Threads -> [task : Tasks, object : Objects \cup {NULL}]]
      /\ doing'[t].task = task /\ doing'[t].object = p
      /\ \A u \in Threads : u # t => doing'[u] = doing[u]
  BY <1>2, DoEffect DEF OInv, Tasks
<1>4. ObjectTypeOK' /\ Counted'
  BY <1>1, <1>3 DEF OInv, ObjectTypeOK, Counted
<1>5. \A u \in Threads : u # t => before'[u] = before[u]
  BY <1>1 DEF OInv, ObjectTypeOK
<1>6. \A u \in Threads, q \in Objects : Works(u, q)' <=> Works(u, q)
  BY <1>1, <1>2, <1>3, <1>5 DEF Works, Making, Deleting, Last
<1>7. doing[t].task # "new" /\ doing'[t].task # "new"
  BY <1>1, <1>2, <1>3
<1>8. \A u \in Threads : doing'[u].task = "new" <=> doing[u].task = "new"
  BY <1>3, <1>7
<1>9. ASSUME NEW q \in Objects
      PROVE  TendedAt(q)'
  <2>1. TendedAt(q)
    BY DEF OInv, Tended
  <2> QED
    BY <1>1, <1>6, <1>8, <2>1 DEF TendedAt
<1> QED
  BY <1>4, <1>9 DEF OInv, Tended

LEMMA DeleteInvariant ==
  ASSUME OInv, AllocatorTypeOK', NEW t \in Threads, NEW o \in Objects,
         Free(t, o) \/ GlobalDelete(t, o)
  PROVE  OInv'
<1>1. /\ doing[t].task \in {"free", "delete"} /\ doing[t].object = o
      /\ home' = [home EXCEPT ![o] = NULL] /\ size' = [size EXCEPT ![o] = 0]
      /\ Do(t, "none", NULL)
      /\ UNCHANGED <<count, owners, before, arenas, early>>
      /\ dangled' \in BOOLEAN /\ crashed' \in BOOLEAN
  <2>1. dangled \in BOOLEAN /\ crashed \in BOOLEAN
    BY DEF OInv, ObjectTypeOK
  <2>2. CASE Free(t, o)
    BY <2>2 DEF Free, Does, Forget
  <2>3. CASE GlobalDelete(t, o)
    BY <2>1, <2>3 DEF GlobalDelete, Does, Forget
  <2> QED
    BY <2>2, <2>3
<1>2. /\ doing' \in [Threads -> [task : Tasks, object : Objects \cup {NULL}]]
      /\ doing'[t].task = "none"
      /\ \A u \in Threads : u # t => doing'[u] = doing[u]
  BY <1>1, DoEffect DEF OInv, Tasks
<1>3. Works(t, o)
  BY <1>1 DEF Works, Deleting
<1>4. \A u \in Threads, p \in Objects : Works(u, p)' <=> u # t /\ Works(u, p)
  BY <1>1, <1>2 DEF Works, Making, Deleting, Last
<1>5. ObjectTypeOK'
  BY <1>1, <1>2 DEF OInv, ObjectTypeOK
<1>6. Counted'
  BY <1>1 DEF OInv, Counted
<1>7. ASSUME NEW p \in Objects
      PROVE  TendedAt(p)'
  <2>1. CASE p = o
    <3>1. home'[o] = NULL
      BY <1>1 DEF OInv, ObjectTypeOK
    <3>2. owners'[o] = {} /\ \A u \in Threads : ~ Works(u, o)'
      BY <1>1, <1>3, <1>4 DEF OInv, Tended, TendedAt
    <3> QED
      BY <2>1, <3>1, <3>2 DEF TendedAt
  <2>2. CASE p # o
    <3>1. \A u \in Threads : Works(u, p) => u # t
      BY <1>1, <2>2 DEF Works, Making, Deleting
    <3>2. Same(p)
      BY <2>2, <1>1, <1>2, <1>4, <3>1 DEF OInv, ObjectTypeOK, Same
    <3> QED
      BY <3>2, SameTended DEF OInv
  <2> QED
    BY <2>1, <2>2
<1> QED
  BY <1>5, <1>6, <1>7 DEF OInv, Tended

LEMMA ObjectStepInvariant ==
  ASSUME IInv', OInv, [ObjectNext]_allvars
  PROVE  OInv'
<1>1. AllocatorTypeOK'
  BY DEF IInv
<1>2. ASSUME NEW t \in Threads, Proceed(t)
      PROVE  OInv'
  <2>1. CASE Instance(t) \/ ExitHeap(t)
    BY <1>1, <2>1, QuietInvariant
       DEF Instance, ExitHeap, ovars, core, OInv, ObjectTypeOK
  <2>2. CASE ExitAllocator(t)
    BY <1>1, <2>2, QuietInvariant DEF ExitAllocator, core, OInv, ObjectTypeOK
  <2>3. CASE ExitStatic(t)
    <3>1. early' = early /\ doing[t] = Idle
      BY <2>3 DEF ExitStatic, Ready
    <3>2. ASSUME NEW o \in Objects, NEW w \in owners[o], FetchSub(t, o, w)
          PROVE  OInv'
      BY <1>1, <3>1, <3>2, FetchSubInvariant
    <3>3. CASE UNCHANGED <<size, home, count, owners, doing, before, arenas,
                           dangled, crashed>>
      BY <1>1, <3>1, <3>3, QuietInvariant DEF core, OInv, ObjectTypeOK
    <3> QED
      BY <2>3, <3>2, <3>3 DEF ExitStatic
  <2> QED
    BY <1>1, <1>2, <2>1, <2>2, <2>3, MallocInvariant, TestInvariant,
       DeleteInvariant, AdoptInvariant DEF Proceed
<1>3. ASSUME NEW t \in Threads, UseHeap(t) \/ ProgramExit(t)
      PROVE  OInv'
  BY <1>1, <1>3, QuietInvariant
     DEF UseHeap, ProgramExit, ovars, core, OInv, ObjectTypeOK
<1>4. ASSUME NEW t \in Threads, NEW o \in Objects, Drop(t, o)
      PROVE  OInv'
  <2>1. doing[t] = Idle /\ t \in owners[o] /\ FetchSub(t, o, t) /\ early' = early
    BY <1>4 DEF Drop, Ready
  <2> QED
    BY <1>1, <2>1, FetchSubInvariant
<1>5. ASSUME NEW s \in Statics, StaticPointer(s)
      PROVE  OInv'
  <2>1. early' \subseteq Statics
    BY <1>5 DEF StaticPointer, OInv, ObjectTypeOK
  <2>2. UNCHANGED core /\ arenas' = arenas /\ dangled' = dangled /\ crashed' = crashed
    BY <1>5 DEF StaticPointer, core
  <2> QED
    BY <1>1, <2>1, <2>2, QuietInvariant
<1>6. CASE UNCHANGED allvars
  BY <1>1, <1>6, QuietInvariant DEF allvars, ovars, core, OInv, ObjectTypeOK
<1> QED
  BY <1>1, <1>2, <1>3, <1>4, <1>5, <1>6, NewInvariant, CopyInvariant DEF ObjectNext

\* Every object is counted, and made and deleted by one thread.
THEOREM ObjectInvariant == ObjectSpec => []OInv
<1>1. ObjectSpec => []IInv
  BY AllocatorInvariant, ObjectImplementsAllocator, PTL
<1>2. IInv' /\ OInv /\ [ObjectNext]_allvars => OInv'
  BY ObjectStepInvariant
<1> QED
  BY <1>1, <1>2, ObjectInitInvariant, PTL DEF ObjectSpec

\* The types of the objects; the count does not fall below zero, and the pool an
\* object is in has an index.
THEOREM ObjectTypeOKAlways == ObjectSpec => []ObjectTypeOK
<1>1. OInv => ObjectTypeOK
  BY DEF OInv
<1> QED
  BY <1>1, ObjectInvariant, PTL

\* However many owners let go of an object at once, one of them deletes it, and
\* only when it is the last.
THEOREM DeletedByTheLastAlways == ObjectSpec => []DeletedByTheLast
<1>1. OInv => DeletedByTheLast
  <2> SUFFICES ASSUME OInv, NEW o \in Objects
               PROVE  /\ owners[o] # {} =>
                           home[o] # NULL /\ \A t \in Threads : ~ Deleting(t, o)
                      /\ \A t, u \in Threads :
                           Deleting(t, o) /\ Deleting(u, o) => t = u
                      /\ home[o] # NULL /\ owners[o] = {} =>
                           \E t \in Threads :
                             \/ Deleting(t, o)
                             \/ doing[t] = [task |-> "adopt", object |-> o]
    BY DEF DeletedByTheLast
  <2>1. TendedAt(o)
    BY DEF OInv, Tended
  <2>2. ASSUME NEW t \in Threads, Making(t, o), home[o] # NULL
        PROVE  doing[t] = [task |-> "adopt", object |-> o]
    BY <2>1, <2>2 DEF TendedAt, Works, Making, OInv, ObjectTypeOK
  <2> QED
    BY <2>1, <2>2 DEF TendedAt, Works
<1> QED
  BY <1>1, ObjectInvariant, PTL

-----------------------------------------------------------------------------
(***************************************************************************)
(* The handlers of exit().  In a program that does not use the heap on its *)
(* own the allocator is registered after the heap, for the heap is created *)
(* while the allocator is, and so it is released before.                   *)
(***************************************************************************)
Handler(k) == \E i \in DOMAIN handlers : handlers[i] = k

\* Once exit() has been called only its thread is in a call of instance().
Alone ==
  exiting # NULL =>
    \A u \in Threads : u # exiting => \A k \in Kinds, p \in Points : ~ Has(u, k, p)

Stored ==
  \A t \in Threads, k \in Kinds :
    /\ Has(t, k, "construct") \/ Has(t, k, "store") => made[k] # 0
    /\ Has(t, k, "register") \/ Has(t, k, "unlock") => instance[k] # 0

HandledOnce ==
  \A k \in Kinds :
    /\ \A i, j \in DOMAIN handlers : handlers[i] = k /\ handlers[j] = k => i = j
    /\ Handler(k) => instance[k] # 0
    /\ instance[k] # 0 =>
         Handler(k) \/ \E t \in Threads : Has(t, k, "register")
    /\ \A t \in Threads : Has(t, k, "register") => ~ Handler(k)

\* t is creating the allocator, and has no call for the heap in it.
Constructs(t) ==
  \/ Has(t, "allocator", "store")
  \/ /\ Has(t, "allocator", "construct")
     /\ \A p \in Points : ~ Has(t, "heap", p)

HeapFirst ==
  private_heap /\ ~ direct =>
    /\ instance["allocator"] # 0 => instance["heap"] # 0
    /\ \A t \in Threads :
         /\ Constructs(t) => instance["heap"] # 0
         /\ \A p \in Points : Has(t, "heap", p) => Has(t, "allocator", "construct")
    /\ \A i \in DOMAIN handlers :
         handlers[i] = "heap" /\ instance["allocator"] # 0 =>
           \/ \E j \in DOMAIN handlers : j < i /\ handlers[j] = "allocator"
           \/ \E t \in Threads : Has(t, "allocator", "register")

EInv == Alone /\ Stored /\ HandledOnce /\ HeapFirst

LEMMA Kind == "heap" \in Kinds /\ "allocator" \in Kinds
  BY DEF Kinds

LEMMA Point ==
  /\ "construct" \in Points /\ "store" \in Points
  /\ "register" \in Points /\ "unlock" \in Points
  BY DEF Points

LEMMA TopAllocator ==
  ASSUME Nested, NEW t \in Threads, NEW p, At(t, "allocator", p)
  PROVE  \A r : ~ Has(t, "heap", r)
<1> DEFINE s == frames[t]
<1>1. Stack(s) /\ s # <<>> /\ Head(s) = Frame("allocator", p)
  BY DEF Nested, At
<1>2. Split(s, Tail(s))
  BY <1>1, StackSplit
<1> HIDE DEF s
<1>3. s[1] = Frame("allocator", p) /\ s[1].kind = "allocator"
  BY <1>1, <1>2, FrameFields DEF Split
<1>4. s \in Seq(Frames) /\ Len(s) = 1
  BY <1>1, <1>2, <1>3 DEF Split, Stack
<1>5. \A r : ~ In(s, "heap", r)
  BY <1>3, <1>4, OneFrame, FrameFields
<1> QED
  BY <1>5 DEF s, Has

\* A call of t for k goes from p to q, or, if q is no point, returns.
Moves(t, k, p, q) ==
  /\ p \in Points /\ \A r : Has(t, k, r) <=> r = p
  /\ \A u \in Threads, j \in Kinds, r \in Points :
       Has(u, j, r)' <=> IF u = t /\ j = k THEN r = q ELSE Has(u, j, r)
  /\ k = "allocator" => \A r \in Points : ~ Has(t, "heap", r)

LEMMA GotoMoves ==
  ASSUME IInv, NEW t \in Threads, NEW k \in Kinds, NEW p \in Points,
         NEW q \in Points, At(t, k, p), Goto(t, k, q)
  PROVE  Moves(t, k, p, q)
  BY GotoFrames, TopAllocator DEF IInv, Moves

LEMMA ReturnMoves ==
  ASSUME IInv, NEW t \in Threads, NEW k \in Kinds, NEW p \in Points,
         At(t, k, p), Return(t, k)
  PROVE  Moves(t, k, p, "none")
<1>1. "none" \notin Points
  BY DEF Points
<1> QED
  BY <1>1, ReturnFrames, TopAllocator DEF IInv, Moves

\* Moves that neither store nor register.
LEMMA MoveInvariant ==
  ASSUME EInv, NEW t \in Threads, NEW k \in Kinds, NEW p, NEW q, Moves(t, k, p, q),
         UNCHANGED <<private_heap, instance, made, handlers, exiting, direct>>,
         p # "register", q # "register", q # "construct",
         q = "store" => p = "construct",
         q = "unlock" \/ q \notin Points => instance[k] # 0
  PROVE  EInv'
<1>1. Alone'
  BY DEF EInv, Alone, Moves
<1>2. Stored'
  BY Point DEF EInv, Stored, Moves
<1>3. \A u \in Threads, j \in Kinds :
        Has(u, j, "register")' <=> Has(u, j, "register")
  BY Point DEF Moves
<1>4. HandledOnce'
  BY <1>3 DEF EInv, HandledOnce, Handler
<1>5. HeapFirst'
  <2> SUFFICES ASSUME private_heap, ~ direct
               PROVE  HeapFirst'
    BY DEF HeapFirst
  <2>1. ASSUME NEW u \in Threads, Constructs(u)'
        PROVE  instance["heap"] # 0
    <3>1. CASE u # t
      BY <2>1, <3>1, Kind, Point DEF EInv, HeapFirst, Moves, Constructs
    <3>2. CASE u = t /\ k = "allocator"
      BY <2>1, <3>2, Kind, Point DEF EInv, HeapFirst, Moves, Constructs
    <3>3. CASE u = t /\ k = "heap"
      <4>1. Has(t, "allocator", "construct") \/ Has(t, "allocator", "store")
        BY <2>1, <3>3, Kind, Point DEF Moves, Constructs
      <4>2. CASE Has(t, "allocator", "store")
        BY <4>2 DEF EInv, HeapFirst, Constructs
      <4>3. CASE q \in Points /\ ~ Has(t, "allocator", "store")
        <5>1. Has(t, "allocator", "store")' \/ ~ Has(t, "heap", q)'
          BY <2>1, <3>3, <4>3, Zenon DEF Constructs
        <5> QED
          BY <3>3, <4>3, <5>1, Kind, Point DEF Moves
      <4>4. CASE q \notin Points
        BY <3>3, <4>4
      <4> QED
        BY <4>2, <4>3, <4>4
    <3> QED
      BY <3>1, <3>2, <3>3 DEF Kinds
  <2>2. ASSUME NEW u \in Threads, NEW r \in Points, Has(u, "heap", r)'
        PROVE  Has(u, "allocator", "construct")'
    <3>1. Has(u, "allocator", "construct") /\ ~ (u = t /\ k = "allocator")
      BY <2>2, Kind DEF EInv, HeapFirst, Moves
    <3> QED
      BY <3>1, Kind, Point DEF Moves
  <2> QED
    BY <1>3, <2>1, <2>2, Kind DEF EInv, HeapFirst
<1> QED
  BY <1>1, <1>2, <1>4, <1>5 DEF EInv

LEMMA CallKeeps ==
  ASSUME IInv, EInv, NEW t \in Threads, NEW k \in Kinds, Call(t, k)
  PROVE  EInv'
<1>1. \A u \in Threads : \A j, r :
        Has(u, j, r)' <=> Has(u, j, r) \/ (u = t /\ j = k /\ r = "load")
  BY CallFrames DEF IInv
<1>2. /\ UNCHANGED <<private_heap, instance, made, handlers, exiting>>
      /\ exiting \in {NULL, t}
      /\ frames[t] = <<>>
  BY DEF Call, objects, MayRun
<1>3. \A j, r : ~ Has(t, j, r)
  <2>1. frames[t] \in Seq(Frames) /\ Len(frames[t]) = 0
    BY <1>2 DEF IInv, AllocatorTypeOK
  <2> QED
    BY <2>1, NoFrame DEF Has
<1>4. \A u \in Threads, j \in Kinds :
        /\ Has(u, j, "construct")' <=> Has(u, j, "construct")
        /\ Has(u, j, "store")' <=> Has(u, j, "store")
        /\ Has(u, j, "register")' <=> Has(u, j, "register")
        /\ Has(u, j, "unlock")' <=> Has(u, j, "unlock")
  BY <1>1
<1>5. Alone'
  BY <1>1, <1>2 DEF EInv, Alone
<1>6. Stored' /\ HandledOnce'
  BY <1>2, <1>4 DEF EInv, Stored, HandledOnce, Handler
<1>7. HeapFirst'
  <2>0. private_heap' /\ ~ direct' => private_heap /\ ~ direct /\ k # "heap"
    <3>1. private_heap' = private_heap /\ direct' = (direct \/ k = "heap")
      BY <1>2, Zenon DEF Call
    <3> QED
      BY <3>1, Zenon
  <2> SUFFICES ASSUME private_heap, ~ direct, k # "heap"
               PROVE  HeapFirst'
    BY <2>0, Zenon DEF HeapFirst
  <2>1. \A u \in Threads : \A r : Has(u, "heap", r)' <=> Has(u, "heap", r)
    BY <1>1
  <2>2. \A u \in Threads : Constructs(u)' <=> Constructs(u)
    BY <1>4, <2>1, Kind DEF Constructs
  <2> QED
    BY <1>2, <1>4, <2>1, <2>2, Kind DEF EInv, HeapFirst
<1> QED
  BY <1>5, <1>6, <1>7 DEF EInv

LEMMA StepKeeps ==
  ASSUME IInv, EInv, NEW t \in Threads, NEW k \in Kinds,
         \/ Load(t, k) \/ Lock(t, k) \/ Check(t, k) \/ Construct(t, k)
         \/ Unlock(t, k)
  PROVE  EInv'
<1>1. UNCHANGED <<private_heap, instance, made, handlers, exiting, direct>>
  BY DEF Load, Lock, Check, Construct, Unlock, objects
<1>2. /\ "load" \in Points /\ "lock" \in Points /\ "check" \in Points
      /\ "create" \in Points /\ "none" \notin Points
  BY DEF Points
<1>3. PICK p \in Points, q \in (Points \ {"register", "construct"}) \cup {"none"} :
        /\ Moves(t, k, p, q)
        /\ p # "register"
        /\ q = "store" => p = "construct"
        /\ q \in {"unlock", "none"} => instance[k] # 0
  <2>1. CASE Load(t, k) /\ instance[k] # 0
    BY <1>2, <2>1, ReturnMoves DEF Load
  <2>2. CASE Load(t, k) /\ instance[k] = 0
    BY <1>2, <2>2, GotoMoves DEF Load
  <2>3. CASE Lock(t, k)
    BY <1>2, <2>3, GotoMoves DEF Lock
  <2>4. CASE Check(t, k)
    BY <1>2, <2>4, Point, GotoMoves DEF Check
  <2>5. CASE Construct(t, k)
    BY <2>5, Point, GotoMoves DEF Construct
  <2>6. CASE Unlock(t, k)
    <3>1. Moves(t, k, "unlock", "none")
      BY <2>6, Point, ReturnMoves DEF Unlock
    <3>2. instance[k] # 0
      BY <3>1 DEF Moves, EInv, Stored
    <3> QED
      BY <3>1, <3>2, Point
  <2> QED
    BY <2>1, <2>2, <2>3, <2>4, <2>5, <2>6
<1> QED
  BY <1>1, <1>2, <1>3, MoveInvariant

\* The instance is stored; nobody else is about to register one.
LEMMA StoreKeeps ==
  ASSUME IInv, EInv, NEW t \in Threads, NEW k \in Kinds, Store(t, k)
  PROVE  EInv'
<1>1. Moves(t, k, "store", "register")
  BY Point, GotoMoves DEF Store
<1>2. /\ instance' = [instance EXCEPT ![k] = made[k]]
      /\ UNCHANGED <<private_heap, made, handlers, exiting, direct>>
  BY DEF Store
<1>3. /\ instance[k] = 0 /\ instance'[k] # 0
      /\ \A j \in Kinds : j # k => instance'[j] = instance[j]
  BY <1>1, <1>2 DEF Moves, EInv, Stored, IInv, Begun, AllocatorTypeOK
<1>4. Alone'
  BY <1>1, <1>2 DEF EInv, Alone, Moves
<1>5. Stored'
  BY <1>1, <1>2, <1>3, Point DEF EInv, Stored, Moves
<1>6. \A u \in Threads, j \in Kinds :
        Has(u, j, "register")' <=> Has(u, j, "register") \/ (u = t /\ j = k)
  BY <1>1, Point DEF Moves
<1>7. HandledOnce'
  BY <1>2, <1>3, <1>6 DEF EInv, HandledOnce, Handler
<1>8. HeapFirst'
  <2> SUFFICES ASSUME private_heap, ~ direct
               PROVE  HeapFirst'
    BY <1>2 DEF HeapFirst
  <2>1. instance["heap"] # 0 => instance'["heap"] # 0
    BY <1>3, Kind
  <2>2. \A u \in Threads : Constructs(u)' => instance'["heap"] # 0
    <3> SUFFICES ASSUME NEW u \in Threads, Constructs(u)'
                 PROVE  instance'["heap"] # 0
      OBVIOUS
    <3>1. CASE k = "heap"
      BY <1>3, <3>1
    <3>2. CASE k = "allocator"
      <4>1. Constructs(u)
        BY <1>1, <3>2, Kind, Point DEF Moves, Constructs
      <4> QED
        BY <2>1, <4>1 DEF EInv, HeapFirst
    <3> QED
      BY <3>1, <3>2 DEF Kinds
  <2>3. \A u \in Threads, p \in Points :
          Has(u, "heap", p)' => Has(u, "allocator", "construct")'
    <3> SUFFICES ASSUME NEW u \in Threads, NEW p \in Points, Has(u, "heap", p)'
                 PROVE  Has(u, "allocator", "construct")'
      OBVIOUS
    <3>1. Has(u, "allocator", "construct") /\ ~ (u = t /\ k = "allocator")
      BY <1>1, Kind, Point DEF EInv, HeapFirst, Moves
    <3> QED
      BY <1>1, <3>1, Kind, Point DEF Moves
  <2>4. instance'["allocator"] # 0 =>
          \/ k = "allocator"
          \/ instance["allocator"] # 0
    BY <1>3, Kind
  <2>5. k = "allocator" => instance["heap"] # 0
    BY <1>1 DEF EInv, HeapFirst, Moves, Constructs
  <2>6. instance'["allocator"] # 0 => instance'["heap"] # 0
    BY <2>1, <2>4, <2>5 DEF EInv, HeapFirst
  <2>7. ASSUME NEW i \in DOMAIN handlers', handlers'[i] = "heap",
               instance'["allocator"] # 0
        PROVE  \/ \E j \in DOMAIN handlers' : j < i /\ handlers'[j] = "allocator"
               \/ \E u \in Threads : Has(u, "allocator", "register")'
    BY <1>2, <1>6, <2>4, <2>7, Kind DEF EInv, HeapFirst
  <2> QED
    BY <1>2, <2>2, <2>3, <2>6, <2>7, Zenon DEF HeapFirst
<1> QED
  BY <1>4, <1>5, <1>7, <1>8 DEF EInv

\* No call for the heap is in progress where the heap does not matter yet.
LEMMA CreateKeeps ==
  ASSUME IInv, EInv, NEW t \in Threads, CreateAllocator(t) \/ CreateHeap(t)
  PROVE  EInv'
<1>1. CASE CreateHeap(t)
  <2>1. Moves(t, "heap", "create", "construct")
    <3>1. "create" \in Points
      BY DEF Points
    <3> QED
      BY <1>1, <3>1, Kind, Point, GotoMoves DEF CreateHeap
  <2>2. /\ made' = [made EXCEPT !["heap"] = made["heap"] + 1]
        /\ UNCHANGED <<private_heap, instance, handlers, exiting, direct>>
    BY <1>1 DEF CreateHeap
  <2>3. \A k \in Kinds : (made[k] # 0 \/ k = "heap") => made'[k] # 0
    BY <2>2 DEF IInv, AllocatorTypeOK
  <2>4. Alone'
    BY <2>1, <2>2 DEF EInv, Alone, Moves
  <2>5. Stored'
    BY <2>1, <2>2, <2>3, Point DEF EInv, Stored, Moves
  <2>6. \A u \in Threads, j \in Kinds :
          Has(u, j, "register")' <=> Has(u, j, "register")
    BY <2>1, Point DEF Moves
  <2>7. HandledOnce'
    BY <2>2, <2>6 DEF EInv, HandledOnce, Handler
  <2>8. \A u \in Threads : Constructs(u)' => Constructs(u)
    BY <2>1, Kind, Point DEF Moves, Constructs
  <2>9. \A u \in Threads, r \in Points :
           Has(u, "heap", r)' => \E p \in Points : Has(u, "heap", p)
    BY <2>1, Kind DEF Moves
  <2>10. \A u \in Threads :
           Has(u, "allocator", "construct") => Has(u, "allocator", "construct")'
    BY <2>1, Kind, Point DEF Moves
  <2>11. HeapFirst'
    BY <2>2, <2>6, <2>8, <2>9, <2>10, Kind DEF EInv, HeapFirst
  <2> QED
    BY <2>4, <2>5, <2>7, <2>11 DEF EInv
<1>2. CASE CreateAllocator(t)
  <2>1. /\ Has(t, "allocator", "create")
        /\ \A j, r : Has(t, j, r) => j = "allocator"
        /\ \A u \in Threads : \A j, r :
             Has(u, j, r)' <=>
               IF u = t
               THEN \/ j = "allocator" /\ r = "construct"
                    \/ j = "heap" /\ r = "load" /\ private_heap
               ELSE Has(u, j, r)
    BY <1>2, CreateFrames DEF IInv
  <2>2. /\ made' = [made EXCEPT !["allocator"] = made["allocator"] + 1]
        /\ UNCHANGED <<private_heap, instance, handlers, exiting, direct>>
    BY <1>2 DEF CreateAllocator
  <2>3. \A k \in Kinds : (made[k] # 0 \/ k = "allocator") => made'[k] # 0
    BY <2>2 DEF IInv, AllocatorTypeOK
  <2>4. "create" \in Points /\ "load" \in Points
    BY DEF Points
  <2>5. Alone'
    BY <2>1, <2>2, <2>4, Kind DEF EInv, Alone
  <2>6. Stored'
    BY <2>1, <2>2, <2>3 DEF EInv, Stored
  <2>7. At(t, "allocator", "create")
    BY <1>2 DEF CreateAllocator
  <2>8. ~ Has(t, "allocator", "register")
    <3>1. Stack(frames[t]) /\ frames[t] # <<>>
          /\ Head(frames[t]) = Frame("allocator", "create")
      BY <2>7 DEF IInv, Nested, At
    <3>2. \A r : Has(t, "allocator", r) <=> r = "create"
      BY <3>1, Kind, ReturnStack DEF Has
    <3> QED
      BY <3>2
  <2>9. \A u \in Threads, j \in Kinds :
          Has(u, j, "register")' <=> Has(u, j, "register")
    BY <2>1, <2>8
  <2>10. HandledOnce'
    BY <2>2, <2>9 DEF EInv, HandledOnce, Handler
  <2>11. HeapFirst'
    <3> SUFFICES ASSUME private_heap, ~ direct
                 PROVE  HeapFirst'
      BY <2>2 DEF HeapFirst
    <3>1. \A u \in Threads : Constructs(u)' => Constructs(u)
      BY <2>1, <2>4 DEF Constructs
    <3>2. \A u \in Threads, p \in Points :
            Has(u, "heap", p)' => Has(u, "allocator", "construct")'
      BY <2>1 DEF EInv, HeapFirst
    <3> QED
      BY <2>2, <2>9, <3>1, <3>2, Kind DEF EInv, HeapFirst
  <2> QED
    BY <2>5, <2>6, <2>10, <2>11 DEF EInv
<1> QED
  BY <1>1, <1>2

\* A handler before the others, and the first taken away.
Prepended(h2, h, x) ==
  /\ DOMAIN h \subseteq Nat /\ DOMAIN h2 \subseteq Nat
  /\ 1 \in DOMAIN h2 /\ h2[1] = x
  /\ \A i \in DOMAIN h : i + 1 \in DOMAIN h2 /\ h2[i + 1] = h[i]
  /\ \A i \in DOMAIN h2 : i = 1 \/ (i - 1 \in DOMAIN h /\ h2[i] = h[i - 1])
  /\ \A i \in DOMAIN h : i >= 1

LEMMA Prepend ==
  ASSUME NEW S, NEW h \in Seq(S), NEW x \in S
  PROVE  Prepended(<<x>> \o h, h, x)
  BY DEF Prepended

LEMMA DropFirst ==
  ASSUME NEW S, NEW h \in Seq(S), h # <<>>
  PROVE  Prepended(h, Tail(h), Head(h))
  BY DEF Prepended

LEMMA PrependedHandlers ==
  ASSUME NEW h2, NEW h, NEW x, Prepended(h2, h, x), NEW k
  PROVE  /\ (\E i \in DOMAIN h2 : h2[i] = k) <=>
              x = k \/ \E i \in DOMAIN h : h[i] = k
         /\ (\A i, j \in DOMAIN h2 : h2[i] = k /\ h2[j] = k => i = j) <=>
              /\ \A i, j \in DOMAIN h : h[i] = k /\ h[j] = k => i = j
              /\ x = k => ~ \E i \in DOMAIN h : h[i] = k
  BY DEF Prepended

LEMMA RegisterKeeps ==
  ASSUME IInv, EInv, NEW t \in Threads, NEW k \in Kinds, Register(t, k)
  PROVE  EInv'
<1>1. Moves(t, k, "register", "unlock")
  BY Point, GotoMoves DEF Register
<1>2. /\ handlers' = <<k>> \o handlers
      /\ UNCHANGED <<private_heap, instance, made, exiting, direct>>
  BY DEF Register, objects
<1>3. Prepended(handlers', handlers, k)
  BY <1>2, Prepend DEF IInv, AllocatorTypeOK
<1>4. instance[k] # 0 /\ ~ Handler(k)
  BY <1>1 DEF Moves, EInv, Stored, HandledOnce
<1>5. Alone'
  BY <1>1, <1>2 DEF EInv, Alone, Moves
<1>6. Stored'
  BY <1>1, <1>2, <1>4, Point DEF EInv, Stored, Moves
<1>7. \A j : Handler(j)' <=> j = k \/ Handler(j)
  BY <1>3, PrependedHandlers DEF Handler
<1>8. \A u \in Threads, j \in Kinds :
        Has(u, j, "register")' <=> Has(u, j, "register") /\ ~ (u = t /\ j = k)
  BY <1>1, Point DEF Moves
<1>9. \A u \in Threads : Has(u, k, "register") => u = t
  BY <1>1, Point DEF Moves, IInv, Held, Inside
<1>10. HandledOnce'
  <2> SUFFICES ASSUME NEW j \in Kinds
               PROVE  /\ \A i, l \in DOMAIN handlers' :
                           handlers'[i] = j /\ handlers'[l] = j => i = l
                      /\ Handler(j)' => instance'[j] # 0
                      /\ instance'[j] # 0 =>
                           \/ Handler(j)'
                           \/ \E u \in Threads : Has(u, j, "register")'
                      /\ \A u \in Threads : Has(u, j, "register")' => ~ Handler(j)'
    BY DEF HandledOnce
  <2>1. \A i, l \in DOMAIN handlers : handlers[i] = j /\ handlers[l] = j => i = l
    BY DEF EInv, HandledOnce
  <2>2. \A i, l \in DOMAIN handlers' : handlers'[i] = j /\ handlers'[l] = j => i = l
    BY <1>3, <1>4, <2>1, PrependedHandlers DEF Handler
  <2>3. CASE j = k
    BY <1>2, <1>4, <1>7, <1>8, <1>9, <2>2, <2>3
  <2>4. CASE j # k
    BY <1>2, <1>7, <1>8, <2>2, <2>4 DEF EInv, HandledOnce
  <2> QED
    BY <2>3, <2>4
<1>11. HeapFirst'
  <2> SUFFICES ASSUME private_heap, ~ direct
               PROVE  HeapFirst'
    BY <1>2 DEF HeapFirst
  <2>1. \A u \in Threads : Constructs(u)' => instance["heap"] # 0
    <3> SUFFICES ASSUME NEW u \in Threads, Constructs(u)'
                 PROVE  instance["heap"] # 0
      OBVIOUS
    <3>1. CASE k = "heap"
      BY <1>4, <3>1
    <3>2. CASE k = "allocator"
      <4>1. Constructs(u)
        BY <1>1, <3>2, Kind, Point DEF Moves, Constructs
      <4> QED
        BY <4>1 DEF EInv, HeapFirst
    <3> QED
      BY <3>1, <3>2 DEF Kinds
  <2>2. \A u \in Threads, p \in Points :
          Has(u, "heap", p)' => Has(u, "allocator", "construct")'
    <3> SUFFICES ASSUME NEW u \in Threads, NEW p \in Points, Has(u, "heap", p)'
                 PROVE  Has(u, "allocator", "construct")'
      OBVIOUS
    <3>1. Has(u, "allocator", "construct") /\ ~ (u = t /\ k = "allocator")
      BY <1>1, Kind, Point DEF EInv, HeapFirst, Moves
    <3> QED
      BY <1>1, <3>1, Kind, Point DEF Moves
  <2>3. ASSUME NEW i \in DOMAIN handlers', handlers'[i] = "heap",
               instance["allocator"] # 0
        PROVE  \/ \E j \in DOMAIN handlers' : j < i /\ handlers'[j] = "allocator"
               \/ \E u \in Threads : Has(u, "allocator", "register")'
    <3>1. CASE k = "heap"
      <4>1. Has(t, "allocator", "construct")
        BY <1>1, <3>1, Point DEF Moves, EInv, HeapFirst
      <4>2. instance["allocator"] = 0
        BY <4>1, Kind DEF IInv, Begun
      <4> QED
        BY <2>3, <4>2
    <3>2. CASE k = "allocator"
      <4>1. i # 1 /\ i > 1 /\ 1 \in DOMAIN handlers' /\ handlers'[1] = "allocator"
        BY <1>3, <2>3, <3>2 DEF Prepended
      <4> QED
        BY <4>1
    <3> QED
      BY <3>1, <3>2 DEF Kinds
  <2> QED
    BY <1>2, <2>1, <2>2, <2>3 DEF EInv, HeapFirst
<1> QED
  BY <1>5, <1>6, <1>10, <1>11 DEF EInv

\* No call is in progress when a handler runs or exit() is called.
LEMMA ExitKeeps ==
  ASSUME IInv, EInv, NEW t \in Threads, Exit(t) \/ RunHandler(t)
  PROVE  EInv'
<1>1. \A u \in Threads, k \in Kinds, p \in Points : ~ Has(u, k, p)
  <2>1. \A u \in Threads : frames[u] \in Seq(Frames)
    BY DEF IInv, AllocatorTypeOK
  <2>2. \A u \in Threads :
          frames[u] = <<>> => \A k \in Kinds, p \in Points : ~ Has(u, k, p)
    <3> SUFFICES ASSUME NEW u \in Threads, frames[u] = <<>>
                 PROVE  \A k, p : ~ In(frames[u], k, p)
      BY DEF Has
    <3>1. Len(frames[u]) = 0
      OBVIOUS
    <3> QED
      BY <2>1, <3>1, NoFrame
  <2>3. CASE Exit(t)
    BY <2>2, <2>3 DEF Exit
  <2>4. CASE RunHandler(t)
    <3>1. exiting = t /\ frames[t] = <<>>
      BY <2>4 DEF RunHandler, NextHandler, ReleaseAllocator, ReleaseHeap, RunStatic
    <3> QED
      BY <2>2, <3>1, AllocatorAssumption DEF EInv, Alone
  <2> QED
    BY <2>3, <2>4
<1>2. /\ frames' = frames
      /\ UNCHANGED <<private_heap, made, direct>>
  BY DEF Exit, RunHandler, NextHandler, ReleaseAllocator, ReleaseHeap, RunStatic,
         objects, calls
<1>3. \A u \in Threads, k \in Kinds, p \in Points : ~ Has(u, k, p)'
  BY <1>1, <1>2 DEF Has
<1>4. Alone' /\ Stored'
  BY <1>3, Point DEF Alone, Stored
<1>5. CASE Exit(t)
  <2>1. UNCHANGED <<instance, handlers>>
    BY <1>5 DEF Exit, objects
  <2> QED
    BY <1>1, <1>2, <1>3, <1>4, <2>1, Kind, Point
       DEF EInv, HandledOnce, Handler, HeapFirst, Constructs
<1>6. CASE RunHandler(t)
  <2>1. /\ handlers # <<>> /\ handlers' = Tail(handlers)
        /\ \/ Head(handlers) \in Kinds
              /\ instance' = [instance EXCEPT ![Head(handlers)] = 0]
           \/ Head(handlers) \in Statics /\ instance' = instance
    BY <1>6, Kind DEF RunHandler, NextHandler, ReleaseAllocator, ReleaseHeap,
       RunStatic, objects
  <2>2. Prepended(handlers, handlers', Head(handlers))
    BY <2>1, DropFirst DEF IInv, AllocatorTypeOK
  <2> DEFINE x == Head(handlers)
  <2>3. \A k \in Kinds : instance'[k] = IF k = x THEN 0 ELSE instance[k]
    BY <2>1, AllocatorAssumption DEF IInv, AllocatorTypeOK
  <2> HIDE DEF x
  <2>4. Prepended(handlers, handlers', x)
    BY <2>2 DEF x
  <2>5. \A k : Handler(k) <=> k = x \/ Handler(k)'
    BY <2>4, PrependedHandlers DEF Handler
  <2>6. \A k \in Kinds :
          /\ \A i, j \in DOMAIN handlers' :
               handlers'[i] = k /\ handlers'[j] = k => i = j
          /\ k = x => ~ Handler(k)'
    <3> SUFFICES ASSUME NEW k \in Kinds
                 PROVE  /\ \A i, j \in DOMAIN handlers' :
                             handlers'[i] = k /\ handlers'[j] = k => i = j
                        /\ k = x => ~ Handler(k)'
      OBVIOUS
    <3>1. \A i, j \in DOMAIN handlers : handlers[i] = k /\ handlers[j] = k => i = j
      BY DEF EInv, HandledOnce
    <3> QED
      BY <2>4, <3>1, PrependedHandlers DEF Handler
  <2>7. HandledOnce'
    <3> SUFFICES ASSUME NEW k \in Kinds
                 PROVE  /\ Handler(k)' => instance'[k] # 0
                        /\ instance'[k] # 0 => Handler(k)'
      BY <1>3, <2>6, Point DEF HandledOnce
    <3>1. Handler(k) <=> instance[k] # 0
      BY <1>1, Point DEF EInv, HandledOnce
    <3> QED
      BY <2>3, <2>5, <2>6, <3>1
  <2>8. HeapFirst'
    <3> SUFFICES ASSUME private_heap, ~ direct
                 PROVE  /\ instance'["allocator"] # 0 => instance'["heap"] # 0
                        /\ \A i \in DOMAIN handlers' :
                             handlers'[i] = "heap" /\ instance'["allocator"] # 0 =>
                               \E j \in DOMAIN handlers' :
                                 j < i /\ handlers'[j] = "allocator"
      BY <1>2, <1>3, Kind, Point DEF HeapFirst, Constructs
    <3>1. \A i \in DOMAIN handlers :
            handlers[i] = "heap" /\ instance["allocator"] # 0 =>
              \E j \in DOMAIN handlers : j < i /\ handlers[j] = "allocator"
      BY <1>1, Kind, Point DEF EInv, HeapFirst
    <3> SUFFICES ASSUME instance'["allocator"] # 0
                 PROVE  /\ instance'["heap"] # 0
                        /\ \A i \in DOMAIN handlers' : handlers'[i] = "heap" =>
                             \E j \in DOMAIN handlers' :
                               j < i /\ handlers'[j] = "allocator"
      OBVIOUS
    <3>2. x # "allocator" /\ instance["allocator"] # 0
      BY <2>3, Kind
    <3>3. 1 \in DOMAIN handlers /\ handlers[1] = x
          /\ \A j \in DOMAIN handlers : ~ j < 1
      BY <2>4 DEF Prepended
    <3>4. x # "heap"
      BY <3>1, <3>2, <3>3
    <3>5. instance'["heap"] # 0
      BY <2>3, <3>2, <3>4, Kind DEF EInv, HeapFirst
    <3>6. ASSUME NEW i \in DOMAIN handlers', handlers'[i] = "heap"
          PROVE  \E j \in DOMAIN handlers' : j < i /\ handlers'[j] = "allocator"
      <4>1. i + 1 \in DOMAIN handlers /\ handlers[i + 1] = "heap" /\ i \in Nat
        BY <2>4, <3>6 DEF Prepended
      <4>2. PICK j \in DOMAIN handlers : j < i + 1 /\ handlers[j] = "allocator"
        BY <3>1, <3>2, <4>1
      <4>3. j # 1
        BY <3>2, <3>3, <4>2
      <4>4. j - 1 \in DOMAIN handlers' /\ handlers'[j - 1] = "allocator" /\ j \in Nat
        BY <2>4, <4>2, <4>3 DEF Prepended
      <4> QED
        BY <4>1, <4>2, <4>4
    <3> QED
      BY <3>5, <3>6
  <2> QED
    BY <1>4, <2>7, <2>8 DEF EInv
<1> QED
  BY <1>5, <1>6

LEMMA StaticKeeps ==
  ASSUME IInv, EInv, NEW s \in Statics, InitStatic(s)
  PROVE  EInv'
<1>1. /\ handlers' = <<s>> \o handlers
      /\ UNCHANGED <<private_heap, instance, made, exiting, direct, frames>>
  BY DEF InitStatic, objects, calls
<1>2. Prepended(handlers', handlers, s)
  BY <1>1, Prepend DEF IInv, AllocatorTypeOK
<1>3. \A u, k, p : Has(u, k, p)' <=> Has(u, k, p)
  BY <1>1 DEF Has
<1>4. \A k \in Kinds : k # s
  BY AllocatorAssumption
<1>5. \A k \in Kinds : Handler(k)' <=> Handler(k)
  BY <1>2, <1>4, PrependedHandlers DEF Handler
<1>6. Alone' /\ Stored'
  BY <1>1, <1>3 DEF EInv, Alone, Stored
<1>7. HandledOnce'
  <2> SUFFICES ASSUME NEW k \in Kinds
               PROVE  \A i, j \in DOMAIN handlers' :
                        handlers'[i] = k /\ handlers'[j] = k => i = j
    BY <1>1, <1>3, <1>5 DEF EInv, HandledOnce
  <2>1. \A i, j \in DOMAIN handlers : handlers[i] = k /\ handlers[j] = k => i = j
    BY DEF EInv, HandledOnce
  <2> QED
    BY <1>2, <1>4, <2>1, PrependedHandlers
<1>8. HeapFirst'
  <2> SUFFICES ASSUME private_heap, ~ direct
               PROVE  HeapFirst'
    BY <1>1 DEF HeapFirst
  <2>1. \A u \in Threads : Constructs(u)' <=> Constructs(u)
    BY <1>3 DEF Constructs
  <2>2. ASSUME NEW i \in DOMAIN handlers', handlers'[i] = "heap",
               instance["allocator"] # 0
        PROVE  \/ \E j \in DOMAIN handlers' : j < i /\ handlers'[j] = "allocator"
               \/ \E u \in Threads : Has(u, "allocator", "register")'
    <3>1. i - 1 \in DOMAIN handlers /\ handlers[i - 1] = "heap" /\ i \in Nat
      BY <1>2, <1>4, <2>2, Kind DEF Prepended
    <3>2. CASE \E u \in Threads : Has(u, "allocator", "register")
      BY <1>3, <3>2
    <3>3. CASE \E j \in DOMAIN handlers : j < i - 1 /\ handlers[j] = "allocator"
      <4>1. PICK j \in DOMAIN handlers : j < i - 1 /\ handlers[j] = "allocator"
        BY <3>3
      <4>2. j + 1 \in DOMAIN handlers' /\ handlers'[j + 1] = "allocator" /\ j \in Nat
        BY <1>2, <4>1 DEF Prepended
      <4> QED
        BY <3>1, <4>1, <4>2
    <3> QED
      BY <2>2, <3>1, <3>2, <3>3 DEF EInv, HeapFirst
  <2> QED
    BY <1>1, <1>3, <2>1, <2>2 DEF EInv, HeapFirst
<1> QED
  BY <1>6, <1>7, <1>8 DEF EInv

LEMMA EInitially == AllocatorInit => EInv
<1> SUFFICES ASSUME AllocatorInit PROVE EInv
  OBVIOUS
<1>1. \A t \in Threads : frames[t] \in Seq(Frames) /\ Len(frames[t]) = 0
  <2>1. <<>> \in Seq(Frames) /\ Len(<<>>) = 0
    OBVIOUS
  <2> QED
    BY <2>1 DEF AllocatorInit
<1>2. \A t \in Threads : \A k, p : ~ Has(t, k, p)
  BY <1>1, NoFrame DEF Has
<1>3. handlers = <<>> /\ DOMAIN handlers = {}
  BY DEF AllocatorInit
<1> QED
  BY <1>2, <1>3, Kind
     DEF AllocatorInit, EInv, Alone, Stored, HandledOnce, Handler, HeapFirst,
         Constructs

LEMMA ExitingInvariant == IInv /\ EInv /\ [AllocatorNext]_avars => EInv'
<1> SUFFICES ASSUME IInv, EInv, [AllocatorNext]_avars PROVE EInv'
  OBVIOUS
<1>1. CASE AllocatorNext
  BY <1>1, CallKeeps, StepKeeps, StoreKeeps, CreateKeeps, RegisterKeeps, ExitKeeps,
     StaticKeeps DEF AllocatorNext, Step
<1>2. CASE UNCHANGED avars
  <2>1. \A t, k, p : Has(t, k, p)' <=> Has(t, k, p)
    BY <1>2 DEF avars, calls, Has
  <2>2. \A t : Constructs(t)' <=> Constructs(t)
    BY <2>1 DEF Constructs
  <2> QED
    BY <1>2, <2>1, <2>2 DEF avars, objects, EInv, Alone, Stored, HandledOnce,
       Handler, HeapFirst
<1> QED
  BY <1>1, <1>2

\* The handlers go with the instances, in their order.
THEOREM HandlersInvariant == AllocatorSpec => [](IInv /\ EInv)
<1>1. IInv /\ EInv /\ [AllocatorNext]_avars => (IInv /\ EInv)'
  BY StepInvariant, ExitingInvariant
<1>2. AllocatorInit => IInv /\ EInv
  BY InitInvariant, EInitially
<1> QED
  BY <1>1, <1>2, PTL DEF AllocatorSpec

\* Every instance is given to atexit once, so that it is released and not twice.
THEOREM ReleasedOnceAlways == ObjectSpec => []ReleasedOnce
<1>1. IInv /\ EInv => ReleasedOnce
  <2> SUFFICES ASSUME IInv, EInv PROVE ReleasedOnce
    OBVIOUS
  <2>1. ASSUME NEW t \in Threads, NEW k \in Kinds, Has(t, k, "register")
        PROVE  At(t, k, "register")
    <3> DEFINE s == frames[t]
    <3>1. Stack(s) /\ In(s, k, "register")
      BY <2>1 DEF IInv, Nested, Has
    <3>2. s # <<>>
      BY <3>1 DEF In
    <3>3. Split(s, Tail(s))
      BY <3>1, <3>2, StackSplit
    <3> HIDE DEF s
    <3>4. s[1] = Frame(k, "register")
      <4>1. Len(s) = 1 \/ (Len(s) = 2 /\ s[2] = Frame("allocator", "construct"))
        BY <3>1, <3>3 DEF Split, Stack
      <4> QED
        BY <3>1, <3>3, <4>1, OneFrame, TwoFrames, FrameFields DEF Split
    <3>5. s # <<>> /\ Head(s) = Frame(k, "register")
      BY <3>2, <3>3, <3>4 DEF Split
    <3> QED
      BY <3>5 DEF At, s
  <2> QED
    BY <2>1 DEF EInv, HandledOnce, Handler, ReleasedOnce
<1> QED
  BY <1>1, HandlersInvariant, ObjectImplementsAllocator, PTL

\* The pools are deleted while the heap their memory is from still exists.
THEOREM HeapOutlivesAllocatorAlways == ObjectSpec => []HeapOutlivesAllocator
<1>1. EInv => HeapOutlivesAllocator
  BY DEF EInv, HeapFirst, HeapOutlivesAllocator
<1> QED
  BY <1>1, HandlersInvariant, ObjectImplementsAllocator, PTL

-----------------------------------------------------------------------------
(***************************************************************************)
(* Where the memory of the objects is from.  All of it that is small is    *)
(* from the first allocator: another is only made while exit() runs, and   *)
(* then no object is.  It is given back to that allocator, unless the      *)
(* object outlives it, which takes a static pointer below it among the     *)
(* handlers.                                                               *)
(***************************************************************************)
\* Once exit() has been called no object is made, and only its thread works.
Departed ==
  exiting # NULL =>
    \A t \in Threads :
      /\ doing[t].task \notin {"new", "adopt"}
      /\ t # exiting => doing[t] = Idle

\* Who is to allocate or to free is still in its call for the allocator, or has
\* got the one there is.
Gotten ==
  \A t \in Threads : doing[t].task \in {"new", "free"} =>
    \/ \E p \in Points : Has(t, "allocator", p)
    \/ got[t] = instance["allocator"] /\ got[t] # 0

\* Memory is from a pool of the first allocator or, above MAX_SIZE, the global one.
Homed ==
  \A o \in Objects :
    /\ home[o] = Global => size[o] > MAX_SIZE
    /\ home[o] \notin {NULL, Global} =>
         /\ size[o] \in Sizes[o] /\ size[o] <= MAX_SIZE
         /\ home[o] = Block(1, Get(size[o]))
         /\ exiting = NULL => instance["allocator"] = 1

\* The branch that operator new or operator delete has taken is that of the size.
Branched ==
  \A t \in Threads, o \in Objects : doing[t].object = o =>
    /\ doing[t].task \in {"new", "free"} => size[o] <= MAX_SIZE
    /\ doing[t].task = "delete" => size[o] > MAX_SIZE

\* The allocator is still there when its object is to be deleted.
Backed ==
  ~ dangled =>
    \A t \in Threads, o \in Objects :
      Deleting(t, o) /\ home[o] # Global => home[o].allocator = instance["allocator"]

\* The size of the blocks of an arena is one of those its pool is for.
ArenasSized ==
  \A a \in arenas :
    /\ a.block >= MIN_SIZE /\ a.block % Word = 0
    /\ a.home = Block(1, Get(a.block))

\* A static pointer that is destroyed before the allocator is, the first one; the
\* others have been registered before it.
Before(i) == \E j \in DOMAIN handlers : i < j /\ handlers[j] = "allocator"

Ordered ==
  \A i \in DOMAIN handlers : handlers[i] \in Statics =>
    /\ handlers[i] \in early \/ Before(i)
    /\ Before(i) => instance["allocator"] = 1

HInv == /\ Departed /\ Gotten /\ Homed /\ Branched /\ Backed /\ ArenasSized
        /\ Ordered /\ DanglesOnlyThroughEarly

LEMMA HInitially == ObjectInit => HInv
<1> SUFFICES ASSUME ObjectInit PROVE HInv
  OBVIOUS
<1>1. /\ \A t \in Threads : doing[t] = Idle
      /\ \A o \in Objects : home[o] = NULL
      /\ arenas = {} /\ exiting = NULL /\ handlers = <<>> /\ ~ dangled
  BY DEF ObjectInit, AllocatorInit
<1>2. NULL # Global
  BY NoBlockAssumption DEF Global, Block
<1>3. Departed /\ Gotten
  BY <1>1 DEF Departed, Gotten, Idle
<1>4. Homed /\ Branched
  BY <1>1, <1>2 DEF Homed, Branched, Idle
<1>5. Backed
  BY <1>1 DEF Backed, Deleting, Idle
<1>6. ArenasSized /\ Ordered /\ DanglesOnlyThroughEarly
  BY <1>1 DEF ArenasSized, Ordered, DanglesOnlyThroughEarly
<1> QED
  BY <1>3, <1>4, <1>5, <1>6 DEF HInv

\* A thread that is in no call is in none for the allocator.
LEMMA Returned ==
  ASSUME IInv, NEW t \in Threads, frames[t] = <<>>
  PROVE  \A k, p : ~ Has(t, k, p)
<1>1. frames[t] \in Seq(Frames) /\ Len(frames[t]) = 0
  BY DEF IInv, AllocatorTypeOK
<1> QED
  BY <1>1, NoFrame DEF Has

-----------------------------------------------------------------------------
(***************************************************************************)
(* What a step of instance() does to an object that waits for it.          *)
(***************************************************************************)
Asks(t) == \E p \in Points : Has(t, "allocator", p)

\* t has been given the allocator there is.
Holds(t) == got[t] = instance["allocator"] /\ got[t] # 0

\* The instance stays, or there was none.
Lasts ==
  instance'["allocator"] = instance["allocator"] \/ instance["allocator"] = 0

Serves(t) ==
  /\ Lasts
  /\ \A u \in Threads : u # t => (Asks(u)' <=> Asks(u)) /\ got'[u] = got[u]
  /\ Asks(t) => Asks(t)' \/ Holds(t)'
  /\ ~ Asks(t) => got'[t] = got[t]

LEMMA GotoServes ==
  ASSUME IInv, EInv, NEW t \in Threads, NEW k \in Kinds, NEW p \in Points,
         NEW q \in Points, At(t, k, p), Goto(t, k, q), got' = got, Lasts
  PROVE  Serves(t)
<1>1. Moves(t, k, p, q)
  BY GotoMoves
<1>2. \A u \in Threads : u # t => (Asks(u)' <=> Asks(u))
  BY <1>1, Kind DEF Moves, Asks
<1>3. Asks(t) => Asks(t)'
  <2>1. CASE k = "allocator"
    BY <1>1, <2>1 DEF Moves, Asks
  <2>2. CASE k # "allocator"
    BY <1>1, <2>2, Kind DEF Moves, Asks
  <2> QED
    BY <2>1, <2>2
<1> QED
  BY <1>2, <1>3 DEF Serves

LEMMA ReturnServes ==
  ASSUME IInv, EInv, NEW t \in Threads, NEW k \in Kinds, NEW p \in Points,
         At(t, k, p), Return(t, k), instance' = instance, instance[k] # 0
  PROVE  Serves(t)
<1>1. Moves(t, k, p, "none")
  BY ReturnMoves
<1>2. \A u \in Threads : u # t => (Asks(u)' <=> Asks(u))
  BY <1>1, Kind DEF Moves, Asks
<1>3. got' = IF k = "allocator" THEN [got EXCEPT ![t] = instance[k]] ELSE got
  BY DEF Return
<1>4. got \in [Threads -> Nat]
  BY DEF IInv, AllocatorTypeOK
<1>5. CASE k = "allocator"
  <2>1. Holds(t)'
    BY <1>3, <1>4, <1>5 DEF Holds
  <2>2. Asks(t)
    BY <1>1, <1>5 DEF Moves, Asks
  <2> QED
    BY <1>2, <1>3, <1>4, <1>5, <2>1, <2>2 DEF Serves, Lasts
<1>6. CASE k # "allocator"
  <2>1. Asks(t) => Asks(t)'
    BY <1>1, <1>6, Kind DEF Moves, Asks
  <2> QED
    BY <1>2, <1>3, <1>6, <2>1 DEF Serves, Lasts
<1> QED
  BY <1>5, <1>6

LEMMA StepServes ==
  ASSUME IInv, EInv, NEW t \in Threads, Step(t)
  PROVE  Serves(t)
<1>1. ASSUME NEW k \in Kinds, Load(t, k)
      PROVE  Serves(t)
  <2>1. "load" \in Points /\ "lock" \in Points
    BY DEF Points
  <2>2. CASE instance[k] # 0
    BY <1>1, <2>1, <2>2, ReturnServes DEF Load, objects
  <2>3. CASE instance[k] = 0
    BY <1>1, <2>1, <2>3, GotoServes DEF Load, objects, Lasts
  <2> QED
    BY <2>2, <2>3
<1>2. ASSUME NEW k \in Kinds, Lock(t, k) \/ Check(t, k) \/ Construct(t, k) \/ Register(t, k)
      PROVE  Serves(t)
  <2>1. PICK p \in Points, q \in Points : At(t, k, p) /\ Goto(t, k, q)
    BY <1>2 DEF Lock, Check, Construct, Register, Points
  <2>2. got' = got /\ Lasts
    BY <1>2 DEF Lock, Check, Construct, Register, objects, Lasts
  <2> QED
    BY <2>1, <2>2, GotoServes
<1>3. ASSUME NEW k \in Kinds, Store(t, k)
      PROVE  Serves(t)
  <2>1. /\ At(t, k, "store") /\ Goto(t, k, "register") /\ got' = got
        /\ instance' = [instance EXCEPT ![k] = made[k]]
    BY <1>3 DEF Store
  <2>2. Has(t, k, "store")
    BY <2>1, Point, GotoMoves DEF Moves
  <2>3. instance[k] = 0
    BY <2>2 DEF IInv, Begun
  <2>4. Lasts
    BY <2>1, <2>3, Kind DEF Lasts, IInv, AllocatorTypeOK
  <2> QED
    BY <2>1, <2>4, Point, GotoServes
<1>4. ASSUME NEW k \in Kinds, Unlock(t, k)
      PROVE  Serves(t)
  <2>1. At(t, k, "unlock") /\ Return(t, k) /\ instance' = instance
    BY <1>4 DEF Unlock, objects
  <2>2. Has(t, k, "unlock")
    BY <2>1, Point, ReturnMoves DEF Moves
  <2>3. instance[k] # 0
    BY <2>2 DEF EInv, Stored
  <2> QED
    BY <2>1, <2>3, Point, ReturnServes
<1>5. CASE CreateAllocator(t)
  <2>1. instance' = instance /\ got' = got
    BY <1>5 DEF CreateAllocator
  <2>2. /\ \A u \in Threads : u # t => \A p : Has(u, "allocator", p)' <=> Has(u, "allocator", p)
        /\ Has(t, "allocator", "construct")'
    BY <1>5, CreateFrames, Kind DEF IInv
  <2> QED
    BY <2>1, <2>2, Point DEF Serves, Lasts, Asks
<1>6. CASE CreateHeap(t)
  <2>1. "create" \in Points
    BY DEF Points
  <2> QED
    BY <1>6, <2>1, Point, Kind, GotoServes DEF CreateHeap, Lasts
<1> QED
  BY <1>1, <1>2, <1>3, <1>4, <1>5, <1>6 DEF Step

\* Of the singletons an object sees no change, but for calls that begin.
Calm ==
  /\ instance' = instance /\ exiting' = exiting /\ got' = got
  /\ \A u \in Threads : Asks(u) => Asks(u)'

LEMMA StillCalm ==
  ASSUME UNCHANGED <<instance, exiting, got, frames>>
  PROVE  Calm
  BY DEF Calm, Asks, Has

LEMMA CallCalm ==
  ASSUME IInv, NEW t \in Threads, NEW k \in Kinds, Call(t, k)
  PROVE  Calm /\ handlers' = handlers /\ (k = "allocator" => Asks(t)')
<1>1. \A u \in Threads : \A j, r :
        Has(u, j, r)' <=> Has(u, j, r) \/ (u = t /\ j = k /\ r = "load")
  BY CallFrames DEF IInv
<1>2. "load" \in Points
  BY DEF Points
<1> QED
  BY <1>1, <1>2 DEF Calm, Asks, Call, objects

\* The others go on as they did, and t asks before it allocates or frees.
LEMMA GottenKept ==
  ASSUME Gotten, Calm, NEW t \in Threads,
         \A u \in Threads : u # t => doing'[u] = doing[u],
         doing'[t].task \in {"new", "free"} =>
           Asks(t)' \/ doing'[t].task = doing[t].task
  PROVE  Gotten'
<1> SUFFICES ASSUME NEW u \in Threads, doing'[u].task \in {"new", "free"}
             PROVE  Asks(u)' \/ Holds(u)'
  BY DEF Gotten, Asks, Holds
<1>1. CASE doing'[u].task = doing[u].task
  <2>1. Asks(u) \/ Holds(u)
    BY <1>1 DEF Gotten, Asks, Holds
  <2> QED
    BY <2>1 DEF Calm, Holds
<1>2. CASE doing'[u].task # doing[u].task
  BY <1>2
<1> QED
  BY <1>1, <1>2

\* The allocator an object is from, before exit(), and when it is not gone.
LEMMA HomeBacked ==
  ASSUME OInv, HInv, NEW o \in Objects, owners[o] # {},
         exiting = NULL \/ instance["allocator"] = 1
  PROVE  /\ ~ Dangling(o)
         /\ home[o] # Global => home[o].allocator = instance["allocator"]
<1>1. home[o] # NULL
  BY DEF OInv, Tended, TendedAt
<1>2. home[o] # Global =>
        home[o] = Block(1, Get(size[o])) /\ instance["allocator"] = 1
  BY <1>1 DEF HInv, Homed
<1> QED
  BY <1>1, <1>2 DEF Dangling, Block

LEMMA OrderKept ==
  ASSUME Ordered, handlers' = handlers, early' = early, Lasts, HandledOnce
  PROVE  Ordered'
<1>1. \A i : Before(i)' <=> Before(i)
  BY DEF Before
<1>2. \A i : Before(i) => instance["allocator"] # 0
  BY Kind DEF Before, HandledOnce, Handler
<1> QED
  BY <1>1, <1>2 DEF Ordered, Lasts

-----------------------------------------------------------------------------
(***************************************************************************)
(* Each operation of the objects.                                          *)
(***************************************************************************)
\* One that keeps the handlers, the arenas and what is dangling.
Plain == UNCHANGED <<handlers, arenas, early, dangled>>

LEMMA PlainKeeps ==
  ASSUME EInv, HInv, Calm, Plain
  PROVE  ArenasSized' /\ Ordered' /\ DanglesOnlyThroughEarly'
<1>1. Ordered'
  BY OrderKept DEF EInv, HInv, Calm, Lasts, Plain
<1> QED
  BY <1>1 DEF HInv, Plain, ArenasSized, DanglesOnlyThroughEarly

LEMMA NewHomes ==
  ASSUME IInv, EInv, OInv, HInv, NEW t \in Threads, NEW o \in Objects,
         NEW n \in Sizes[o], New(t, o, n)
  PROVE  HInv'
<1>1. /\ exiting = NULL /\ home[o] = NULL
      /\ \A u \in Threads : doing[u].object # o
      /\ size' = [size EXCEPT ![o] = n]
      /\ UNCHANGED <<before, arenas, early, dangled>>
  BY DEF New
<1>2. PICK task \in {"new", "adopt"} :
        /\ Do(t, task, o)
        /\ home' = IF task = "new" THEN home ELSE [home EXCEPT ![o] = Global]
        /\ task = "adopt" <=> n > MAX_SIZE
        /\ IF task = "adopt" THEN UNCHANGED avars ELSE Call(t, "allocator")
  BY DEF New
<1>3. /\ doing'[t].task = task /\ doing'[t].object = o
      /\ \A u \in Threads : u # t => doing'[u] = doing[u]
  BY <1>2, DoEffect DEF OInv, Tasks
<1>4. Calm /\ Plain /\ (task = "new" => Asks(t)')
  <2>1. CASE task = "adopt"
    BY <1>1, <1>2, <2>1, StillCalm DEF avars, objects, calls, Plain
  <2>2. CASE task = "new"
    BY <1>1, <1>2, <2>2, Kind, CallCalm DEF Plain
  <2> QED
    BY <2>1, <2>2
<1>5. ArenasSized' /\ Ordered' /\ DanglesOnlyThroughEarly'
  BY <1>4, PlainKeeps
<1>6. Gotten'
  BY <1>2, <1>3, <1>4, GottenKept DEF HInv
<1>7. Departed'
  BY <1>1, <1>4 DEF Departed, Calm
<1>8. n \in Nat /\ MAX_SIZE \in Nat
  BY SizeAssumption, AllocatorAssumption DEF MAX_SIZE
<1>9. \A p \in Objects :
        /\ size'[p] = IF p = o THEN n ELSE size[p]
        /\ home'[p] = IF p = o THEN IF task = "new" THEN NULL ELSE Global ELSE home[p]
  BY <1>1, <1>2 DEF OInv, ObjectTypeOK
<1>10. Homed'
  BY <1>2, <1>4, <1>8, <1>9, NoBlockAssumption
     DEF HInv, Homed, Calm, Global, Block
<1>11. \A u \in Threads, p \in Objects :
         doing'[u].object = p => IF p = o THEN u = t ELSE doing'[u] = doing[u]
  BY <1>1, <1>3
<1>12. Branched'
  BY <1>2, <1>3, <1>8, <1>9, <1>11 DEF HInv, Branched
<1>13. \A u \in Threads, p \in Objects : Deleting(u, p)' => p # o /\ Deleting(u, p)
  BY <1>1, <1>3, <1>11 DEF Deleting, Last
<1>14. Backed'
  BY <1>1, <1>4, <1>9, <1>13 DEF HInv, Backed, Calm
<1> QED
  BY <1>5, <1>6, <1>7, <1>10, <1>12, <1>14 DEF HInv

LEMMA MallocHomes ==
  ASSUME IInv, EInv, OInv, HInv, NEW t \in Threads, NEW o \in Objects, Malloc(t, o)
  PROVE  HInv'
<1> DEFINE block == Block(got[t], Get(size[o]))
<1>1. /\ doing[t].task = "new" /\ doing[t].object = o /\ frames[t] = <<>>
      /\ home' = [home EXCEPT ![o] = block]
      /\ Do(t, "adopt", o)
      /\ UNCHANGED <<avars, size, before, early, dangled>>
      /\ arenas' \subseteq
           arenas \cup {[thread |-> t, home |-> block, block |-> size[o]]}
  BY DEF Malloc, Does
<1>2. /\ doing'[t].task = "adopt" /\ doing'[t].object = o
      /\ \A u \in Threads : u # t => doing'[u] = doing[u]
  BY <1>1, DoEffect DEF OInv, Tasks
<1>3. exiting = NULL
  BY <1>1 DEF HInv, Departed
<1>4. got[t] = 1 /\ instance["allocator"] = 1
  <2>1. got[t] = instance["allocator"] /\ got[t] # 0
    BY <1>1, Returned DEF HInv, Gotten
  <2>2. instance["allocator"] = made["allocator"] /\ made["allocator"] <= 1
    BY <1>3, <2>1, Kind DEF IInv, OneInstance
  <2>3. instance["allocator"] \in Nat
    BY Kind DEF IInv, AllocatorTypeOK
  <2> QED
    BY <2>1, <2>2, <2>3
<1>5. Works(t, o) /\ \A u \in Threads : Works(u, o) => u = t
  BY <1>1 DEF OInv, Tended, TendedAt, Works, Making
<1>6. size[o] \in Sizes[o] /\ size[o] <= MAX_SIZE
  BY <1>1, <1>5 DEF OInv, Tended, TendedAt, HInv, Branched
<1>7. Calm
  BY <1>1, StillCalm DEF avars, objects, calls
<1>8. Gotten' /\ Departed'
  BY <1>2, <1>3, <1>7, GottenKept DEF HInv, Calm, Departed
<1>9. Ordered' /\ DanglesOnlyThroughEarly'
  BY <1>1, <1>7, OrderKept
     DEF avars, EInv, HInv, Calm, Lasts, DanglesOnlyThroughEarly
<1>10. block = Block(1, Get(size[o])) /\ block # Global
  BY <1>4 DEF Block, Global
<1>11. ArenasSized'
  <2>1. size[o] >= MIN_SIZE /\ size[o] % Word = 0
    BY <1>6, SizeAssumption
  <2> HIDE DEF block
  <2> QED
    BY <1>1, <1>10, <2>1 DEF HInv, ArenasSized
<1> HIDE DEF block
<1>12. \A p \in Objects : home'[p] = IF p = o THEN block ELSE home[p]
  BY <1>1 DEF OInv, ObjectTypeOK
<1>13. Homed'
  BY <1>1, <1>4, <1>6, <1>7, <1>10, <1>12 DEF HInv, Homed, Calm
<1>14. Branched'
  BY <1>1, <1>2 DEF HInv, Branched
<1>15. \A u \in Threads, p \in Objects : Deleting(u, p)' => p # o /\ Deleting(u, p)
  BY <1>1, <1>2, <1>5 DEF Deleting, Last, Works
<1>16. Backed'
  BY <1>1, <1>7, <1>12, <1>15 DEF HInv, Backed, Calm
<1> QED
  BY <1>8, <1>9, <1>11, <1>13, <1>14, <1>16 DEF HInv

\* t is done with its object, or goes on to delete it.
LEMMA TaskHomes ==
  ASSUME EInv, OInv, HInv, Calm, Plain, UNCHANGED <<home, size>>, NEW t \in Threads,
         \A u \in Threads : u # t => doing'[u] = doing[u] /\ before'[u] = before[u],
         doing'[t].task \notin {"new", "adopt"},
         doing'[t].task = "free" => Asks(t)',
         exiting # NULL /\ t # exiting => doing'[t] = Idle,
         \A o \in Objects : doing'[t].object = o =>
           /\ doing'[t].task = "free" => size[o] <= MAX_SIZE
           /\ doing'[t].task = "delete" => size[o] > MAX_SIZE,
         \A o \in Objects : Deleting(t, o)' => Deleting(t, o)
  PROVE  HInv'
<1>1. ArenasSized' /\ Ordered' /\ DanglesOnlyThroughEarly'
  BY PlainKeeps
<1>2. Gotten'
  BY GottenKept DEF HInv
<1>3. Departed'
  BY DEF HInv, Departed, Calm
<1>4. Homed' /\ Branched'
  BY DEF HInv, Homed, Branched, Calm
<1>5. \A u \in Threads, o \in Objects : Deleting(u, o)' => Deleting(u, o)
  BY DEF Deleting, Last
<1>6. Backed'
  BY <1>5 DEF HInv, Backed, Calm, Plain
<1> QED
  BY <1>1, <1>2, <1>3, <1>4, <1>6 DEF HInv

LEMMA AdoptHomes ==
  ASSUME EInv, OInv, HInv, NEW t \in Threads, NEW o \in Objects, NEW w, Adopt(t, o, w)
  PROVE  HInv'
<1>1. /\ doing[t].task = "adopt" /\ Do(t, "none", NULL)
      /\ UNCHANGED <<avars, size, home, before, arenas, early, dangled>>
  BY DEF Adopt, Does
<1>2. /\ doing'[t].task = "none" /\ doing'[t].object = NULL
      /\ \A u \in Threads : u # t => doing'[u] = doing[u]
  BY <1>1, DoEffect DEF OInv, Tasks
<1>3. exiting = NULL
  BY <1>1 DEF HInv, Departed
<1>4. Calm /\ Plain
  BY <1>1, StillCalm DEF avars, objects, calls, Plain
<1>5. \A p \in Objects : ~ Deleting(t, p)'
  BY <1>2 DEF Deleting
<1> QED
  BY <1>1, <1>2, <1>3, <1>4, <1>5, TaskHomes

LEMMA CopyHomes ==
  ASSUME EInv, OInv, HInv, NEW t \in Threads, NEW o \in Objects, NEW w, Copy(t, o, w)
  PROVE  HInv'
<1>1. /\ doing[t] = Idle
      /\ UNCHANGED <<avars, size, home, doing, before, arenas, early, dangled>>
  BY DEF Copy, Ready
<1>2. Calm /\ Plain
  BY <1>1, StillCalm DEF avars, objects, calls, Plain
<1>3. doing'[t].task = "none"
  BY <1>1 DEF Idle
<1>4. \A p \in Objects : ~ Deleting(t, p)'
  BY <1>3 DEF Deleting
<1> QED
  BY <1>1, <1>2, <1>3, <1>4, TaskHomes

LEMMA TestHomes ==
  ASSUME IInv, EInv, OInv, HInv, NEW t \in Threads, NEW o \in Objects, Test(t, o)
  PROVE  HInv'
<1>1. /\ doing[t] = [task |-> "test", object |-> o]
      /\ before' = [before EXCEPT ![t] = 0]
      /\ UNCHANGED <<size, home, arenas, early, dangled>>
  <2>1. Does(t, "test", o)
    BY DEF Test
  <2>2. /\ before' = [before EXCEPT ![t] = 0]
        /\ UNCHANGED <<size, home, count, owners, arenas, early, dangled, crashed>>
    BY Zenon DEF Test
  <2> QED
    BY <2>1, <2>2 DEF Does
<1>2. PICK task \in {"none", "free", "delete"}, p \in {o, NULL} :
        /\ Do(t, task, p)
        /\ IF task = "none" THEN p = NULL ELSE p = o /\ before[t] = 1
        /\ task = "free" => size[o] <= MAX_SIZE /\ Call(t, "allocator")
        /\ task = "delete" => ~ size[o] <= MAX_SIZE
        /\ task # "free" => UNCHANGED avars
  BY DEF Test, Last, Small
<1>3. /\ doing'[t] = [task |-> task, object |-> p]
      /\ \A u \in Threads : u # t => doing'[u] = doing[u] /\ before'[u] = before[u]
  BY <1>1, <1>2 DEF Do, OInv, ObjectTypeOK
<1>4. Calm /\ Plain /\ (task = "free" => Asks(t)')
  <2>1. CASE task = "free"
    BY <1>1, <1>2, <2>1, Kind, CallCalm DEF Plain
  <2>2. CASE task # "free"
    BY <1>1, <1>2, <2>2, StillCalm DEF avars, objects, calls, Plain
  <2> QED
    BY <2>1, <2>2
<1>5. exiting # NULL => t = exiting
  <2>1. doing[t] # Idle
    BY <1>1 DEF Idle
  <2> QED
    BY <2>1 DEF HInv, Departed
<1>6. size[o] \in Nat /\ MAX_SIZE \in Nat
  BY AllocatorAssumption DEF OInv, ObjectTypeOK, MAX_SIZE
<1>7. \A q \in Objects : Deleting(t, q)' => Deleting(t, q)
  BY <1>1, <1>2, <1>3 DEF Deleting, Last
<1>8. \A q \in Objects : doing'[t].object = q =>
        /\ doing'[t].task = "free" => size[q] <= MAX_SIZE
        /\ doing'[t].task = "delete" => size[q] > MAX_SIZE
  BY <1>2, <1>3, <1>6
<1>9. doing'[t].task = task
  BY <1>3
<1> QED
  BY <1>1, <1>2, <1>3, <1>4, <1>5, <1>7, <1>8, <1>9, TaskHomes

LEMMA DeleteHomes ==
  ASSUME EInv, OInv, HInv, NEW t \in Threads, NEW o \in Objects,
         Free(t, o) \/ GlobalDelete(t, o)
  PROVE  HInv'
<1>1. /\ doing[t].task \in {"free", "delete"} /\ doing[t].object = o
      /\ home' = [home EXCEPT ![o] = NULL] /\ size' = [size EXCEPT ![o] = 0]
      /\ Do(t, "none", NULL)
      /\ UNCHANGED <<avars, before, arenas, early>>
      /\ dangled' = dangled \/ dangled' = (dangled \/ Dangling(o))
  <2>1. CASE Free(t, o)
    BY <2>1 DEF Free, Does, Forget
  <2>2. CASE GlobalDelete(t, o)
    BY <2>2 DEF GlobalDelete, Does, Forget
  <2> QED
    BY <2>1, <2>2
<1>2. /\ doing'[t].task = "none" /\ doing'[t] = Idle
      /\ \A u \in Threads : u # t => doing'[u] = doing[u]
  BY <1>1 DEF Do, Idle, OInv, ObjectTypeOK
<1>3. Works(t, o) /\ \A u \in Threads : Works(u, o) => u = t
  BY <1>1 DEF OInv, Tended, TendedAt, Works, Deleting
<1>4. home[o] # NULL
  BY <1>1, <1>3 DEF OInv, Tended, TendedAt
\* Nothing is found to be gone that was not when the object was let go of.
<1>5. dangled' = dangled
  <2>1. ~ dangled /\ home[o] # Global => home[o].allocator = instance["allocator"]
    BY <1>1 DEF HInv, Backed, Deleting
  <2>2. ~ dangled => ~ Dangling(o)
    BY <1>4, <2>1 DEF Dangling
  <2> QED
    BY <1>1, <2>2 DEF OInv, ObjectTypeOK
<1>6. Calm /\ Plain
  BY <1>1, <1>5, StillCalm DEF avars, objects, calls, Plain
<1>7. ArenasSized' /\ Ordered' /\ DanglesOnlyThroughEarly'
  BY <1>6, PlainKeeps
<1>8. Gotten'
  BY <1>2, <1>6, GottenKept DEF HInv
<1>9. Departed'
  BY <1>2, <1>6 DEF HInv, Departed, Calm
<1>10. \A p \in Objects :
         /\ home'[p] = IF p = o THEN NULL ELSE home[p]
         /\ size'[p] = IF p = o THEN 0 ELSE size[p]
  BY <1>1 DEF OInv, ObjectTypeOK
<1>11. Homed'
  <2>1. NULL # Global
    BY NoBlockAssumption DEF Global, Block
  <2> QED
    BY <1>6, <1>10, <2>1 DEF HInv, Homed, Calm
<1>12. \A u \in Threads, p \in Objects :
         doing'[u].object = p /\ doing'[u].task \in {"new", "free", "delete"} =>
           p # o /\ doing'[u] = doing[u]
  BY <1>2, <1>3 DEF Works, Making, Deleting
<1>13. Branched'
  BY <1>10, <1>12 DEF HInv, Branched
<1>14. \A u \in Threads, p \in Objects : Deleting(u, p)' => p # o /\ Deleting(u, p)
  BY <1>1, <1>2, <1>3 DEF Deleting, Last, Works
<1>15. Backed'
  BY <1>5, <1>6, <1>10, <1>14 DEF HInv, Backed, Calm
<1> QED
  BY <1>7, <1>8, <1>9, <1>11, <1>13, <1>15 DEF HInv

\* Before exit() the allocator is there; in the destructor of a static pointer it
\* is when the pointer is above the allocator's handler.
LEMMA FetchSubHomes ==
  ASSUME EInv, OInv, HInv, NEW t \in Threads, NEW o \in Objects, NEW w \in owners[o],
         doing[t] = Idle, FetchSub(t, o, w), exiting \in {NULL, t},
         UNCHANGED <<instance, exiting, got, frames, early>>, Ordered',
         early = {} => exiting = NULL \/ instance["allocator"] = 1
  PROVE  HInv'
<1>1. /\ before' = [before EXCEPT ![t] = count[o]]
      /\ dangled' = (dangled \/ Dangling(o))
      /\ Do(t, "test", o)
      /\ UNCHANGED <<size, home, arenas>>
  BY DEF FetchSub
<1>2. /\ doing'[t].task = "test" /\ doing'[t].object = o
      /\ \A u \in Threads : u # t => doing'[u] = doing[u]
  BY <1>1, DoEffect DEF OInv, Tasks
<1>3. home[o] # NULL /\ \A u \in Threads : ~ Works(u, o)
  BY DEF OInv, Tended, TendedAt
<1>4. Calm
  BY StillCalm
<1>5. Gotten'
  BY <1>2, <1>4, GottenKept DEF HInv
<1>6. Departed'
  BY <1>2, <1>4 DEF HInv, Departed, Calm
<1>7. Homed' /\ Branched' /\ ArenasSized'
  BY <1>1, <1>2, <1>4 DEF HInv, Homed, Branched, ArenasSized, Calm
<1>8. Backed'
  <2> SUFFICES ASSUME ~ dangled', NEW u \in Threads, NEW p \in Objects,
                      Deleting(u, p)', home[p] # Global
               PROVE  home[p].allocator = instance["allocator"]
    BY <1>1, <1>4 DEF Backed, Calm
  <2>1. CASE u = t
    <3>1. p = o /\ ~ Dangling(o)
      BY <1>1, <1>2, <2>1 DEF Deleting
    <3> QED
      BY <3>1 DEF Dangling
  <2>2. CASE u # t
    <3>1. Deleting(u, p)
      BY <1>1, <1>2, <2>2 DEF Deleting, Last, OInv, ObjectTypeOK
    <3> QED
      BY <1>1, <3>1 DEF HInv, Backed
  <2> QED
    BY <2>1, <2>2
<1>9. DanglesOnlyThroughEarly'
  <2>1. early = {} => ~ Dangling(o)
    BY HomeBacked
  <2> QED
    BY <1>1, <2>1 DEF HInv, DanglesOnlyThroughEarly
<1> QED
  BY <1>5, <1>6, <1>7, <1>8, <1>9 DEF HInv

-----------------------------------------------------------------------------
(***************************************************************************)
(* Steps that only move the singletons and the handlers.                   *)
(***************************************************************************)
LEMMA SingletonHomes ==
  ASSUME OInv, HInv, UNCHANGED core, dangled' = dangled, arenas' \subseteq arenas,
         early \subseteq early', Departed', Gotten', Ordered',
         exiting' = NULL => exiting = NULL,
         Lasts \/ (exiting # NULL /\ \A u \in Threads : doing[u] = Idle)
  PROVE  HInv'
<1>1. Branched' /\ ArenasSized'
  BY DEF core, HInv, Branched, ArenasSized
<1>2. Homed'
  BY DEF core, HInv, Homed, Lasts
<1>3. \A u \in Threads, o \in Objects :
        Deleting(u, o)' => /\ Deleting(u, o) /\ home[o] # NULL
                           /\ doing[u] # Idle
  BY DEF core, Deleting, Last, Idle, OInv, Tended, TendedAt, Works
<1>4. Backed'
  <2> SUFFICES ASSUME ~ dangled, NEW u \in Threads, NEW o \in Objects,
                      Deleting(u, o), home[o] # NULL, doing[u] # Idle,
                      home[o] # Global
               PROVE  home[o].allocator = instance'["allocator"]
    BY <1>3 DEF core, Backed
  <2>1. Lasts
    OBVIOUS
  <2>2. home[o] = Block(1, Get(size[o]))
    BY DEF HInv, Homed
  <2>3. home[o].allocator = 1
    BY <2>2 DEF Block
  <2>4. home[o].allocator = instance["allocator"]
    BY DEF HInv, Backed
  <2> QED
    BY <2>1, <2>3, <2>4 DEF Lasts
<1>5. DanglesOnlyThroughEarly'
  BY DEF HInv, DanglesOnlyThroughEarly
<1> QED
  BY <1>1, <1>2, <1>4, <1>5 DEF HInv

\* A handler is put above the others.
LEMMA HandlerAdded ==
  ASSUME IInv, EInv, Ordered, NEW x, Prepended(handlers', handlers, x),
         instance' = instance, early \subseteq early',
         x \in Statics => exiting = NULL /\ (x \in early' \/ Handler("allocator"))
  PROVE  Ordered'
<1>1. \A i \in DOMAIN handlers : Before(i + 1)' <=> Before(i)
  BY DEF Prepended, Before
<1>2. x # "allocator" => (Before(1)' <=> Handler("allocator"))
  BY DEF Prepended, Before, Handler
<1>3. exiting = NULL /\ Handler("allocator") => instance["allocator"] = 1
  <2>1. Handler("allocator") => instance["allocator"] # 0
    BY Kind DEF EInv, HandledOnce
  <2>2. instance["allocator"] \in Nat
    BY Kind DEF IInv, AllocatorTypeOK
  <2> QED
    BY <2>1, <2>2, Kind DEF IInv, OneInstance
<1> SUFFICES ASSUME NEW i \in DOMAIN handlers', handlers'[i] \in Statics
             PROVE  /\ handlers'[i] \in early' \/ Before(i)'
                    /\ Before(i)' => instance["allocator"] = 1
  BY DEF Ordered
<1>4. CASE i = 1
  <2>1. handlers'[1] = x
    BY DEF Prepended
  <2>2. x # "allocator"
    BY <1>4, <2>1, Kind, AllocatorAssumption
  <2> QED
    BY <1>2, <1>3, <1>4, <2>1, <2>2
<1>5. CASE i # 1
  <2>1. PICK j \in DOMAIN handlers : i = j + 1 /\ handlers'[i] = handlers[j]
    <3>1. i \in Nat /\ i - 1 \in DOMAIN handlers /\ handlers'[i] = handlers[i - 1]
      BY <1>5 DEF Prepended
    <3>2. i = (i - 1) + 1
      BY <3>1
    <3> QED
      BY <3>1, <3>2
  <2> QED
    BY <1>1, <2>1 DEF Ordered
<1> QED
  BY <1>4, <1>5

\* exit() runs the handler on top.
LEMMA HandlerTaken ==
  ASSUME EInv, Ordered, NEW x, Prepended(handlers, handlers', x), early' = early,
         IF x = "allocator" THEN TRUE
         ELSE instance'["allocator"] = instance["allocator"]
  PROVE  Ordered'
<1>1. \A i \in DOMAIN handlers' : Before(i)' <=> Before(i + 1)
  BY DEF Prepended, Before
<1>2. x = "allocator" => ~ \E i \in DOMAIN handlers' : handlers'[i] = "allocator"
  <2>1. \A i, j \in DOMAIN handlers :
          handlers[i] = "allocator" /\ handlers[j] = "allocator" => i = j
    BY Kind DEF EInv, HandledOnce
  <2> QED
    BY <2>1, PrependedHandlers
<1>3. x = "allocator" => \A i \in DOMAIN handlers' : ~ Before(i)'
  BY <1>2 DEF Before
<1> SUFFICES ASSUME NEW i \in DOMAIN handlers', handlers'[i] \in Statics
             PROVE  /\ handlers'[i] \in early \/ Before(i)'
                    /\ Before(i)' => instance'["allocator"] = 1
  BY DEF Ordered
<1>4. i + 1 \in DOMAIN handlers /\ handlers[i + 1] = handlers'[i]
  BY DEF Prepended
<1> QED
  BY <1>1, <1>3, <1>4 DEF Ordered

LEMMA InstanceHomes ==
  ASSUME IInv, EInv, OInv, HInv, NEW t \in Threads, Instance(t)
  PROVE  HInv'
<1>1. Step(t) /\ UNCHANGED ovars
  BY DEF Instance
<1>2. Serves(t)
  BY <1>1, StepServes
<1>3. exiting' = exiting
  BY <1>1 DEF Step, Load, Lock, Check, Construct, Store, Register, Unlock,
     CreateAllocator, CreateHeap
<1>4. Departed'
  BY <1>1, <1>3 DEF ovars, HInv, Departed
<1>5. Gotten'
  <2> SUFFICES ASSUME NEW u \in Threads, doing[u].task \in {"new", "free"}
               PROVE  Asks(u)' \/ Holds(u)'
    BY <1>1 DEF ovars, Gotten, Asks, Holds
  <2>1. Asks(u) \/ Holds(u)
    BY DEF HInv, Gotten, Asks, Holds
  <2>2. CASE Asks(u)
    BY <1>2, <2>2 DEF Serves
  <2>3. CASE ~ Asks(u) /\ Holds(u)
    <3>1. got'[u] = got[u]
      BY <1>2, <2>3 DEF Serves
    <3>2. instance'["allocator"] = instance["allocator"]
      BY <1>2, <2>3 DEF Serves, Lasts, Holds
    <3> QED
      BY <2>3, <3>1, <3>2 DEF Holds
  <2> QED
    BY <2>1, <2>2, <2>3
<1>6. Ordered'
  <2>1. CASE handlers' = handlers
    BY <1>1, <1>2, <2>1, OrderKept DEF ovars, HInv, EInv, Serves
  <2>2. ASSUME NEW k \in Kinds, Register(t, k)
        PROVE  Ordered'
    <3>1. handlers' = <<k>> \o handlers /\ instance' = instance
      BY <2>2 DEF Register, objects
    <3>2. Prepended(handlers', handlers, k)
      BY <3>1, Prepend DEF IInv, AllocatorTypeOK
    <3> QED
      BY <1>1, <3>1, <3>2, HandlerAdded, AllocatorAssumption DEF ovars, HInv
  <2> QED
    BY <1>1, <2>1, <2>2
       DEF Step, Load, Lock, Check, Construct, Store, Unlock, CreateAllocator,
           CreateHeap
<1>7. UNCHANGED core /\ dangled' = dangled /\ arenas' \subseteq arenas
      /\ early \subseteq early' /\ exiting' = exiting /\ Lasts
  BY <1>1, <1>2, <1>3 DEF ovars, core, Serves
<1> QED
  BY <1>4, <1>5, <1>6, <1>7, SingletonHomes

LEMMA UseHeapHomes ==
  ASSUME IInv, EInv, OInv, HInv, NEW t \in Threads, UseHeap(t)
  PROVE  HInv'
<1>1. Call(t, "heap") /\ UNCHANGED ovars /\ doing[t] = Idle
  BY DEF UseHeap, Ready
<1>2. Calm /\ handlers' = handlers
  BY <1>1, Kind, CallCalm
<1>3. doing'[t].task = "none"
  BY <1>1 DEF ovars, Idle
<1>4. Plain /\ \A o \in Objects : ~ Deleting(t, o)'
  BY <1>1, <1>2, <1>3 DEF ovars, Plain, Deleting
<1> QED
  BY <1>1, <1>2, <1>3, <1>4, TaskHomes DEF ovars

LEMMA StaticHomes ==
  ASSUME IInv, EInv, OInv, HInv, NEW s \in Statics, StaticPointer(s)
  PROVE  HInv'
<1>1. /\ exiting = NULL /\ handlers' = <<s>> \o handlers
      /\ UNCHANGED <<instance, exiting, got, frames>>
      /\ early' = IF Handler("allocator") THEN early ELSE early \cup {s}
      /\ UNCHANGED core /\ UNCHANGED <<doing, arenas, dangled>>
  BY DEF StaticPointer, InitStatic, objects, calls, core, Registered, Handler
<1>2. Prepended(handlers', handlers, s)
  BY <1>1, Prepend DEF IInv, AllocatorTypeOK
<1>3. Ordered'
  BY <1>1, <1>2, HandlerAdded DEF HInv
<1>4. Calm
  BY <1>1, StillCalm
<1>5. Gotten'
  BY <1>1, <1>4 DEF HInv, Gotten, Calm, Asks
<1>6. Departed'
  BY <1>1 DEF Departed
<1>7. UNCHANGED core /\ dangled' = dangled /\ arenas' \subseteq arenas
      /\ early \subseteq early' /\ exiting' = exiting /\ Lasts
  BY <1>1 DEF Lasts
<1> QED
  BY <1>3, <1>5, <1>6, <1>7, SingletonHomes

LEMMA ProgramExitHomes ==
  ASSUME IInv, EInv, OInv, HInv, NEW t \in Threads, ProgramExit(t)
  PROVE  HInv'
<1>1. /\ exiting = NULL /\ exiting' = t /\ \A u \in Threads : doing[u] = Idle
      /\ UNCHANGED ovars /\ UNCHANGED <<instance, handlers>>
  BY DEF ProgramExit, Exit, Ready, objects
<1>2. \A u \in Threads : doing'[u] = Idle
  BY <1>1 DEF ovars
<1>3. Departed' /\ Gotten'
  BY <1>2 DEF Departed, Gotten, Idle
<1>4. Ordered'
  BY <1>1, OrderKept DEF ovars, HInv, EInv, Lasts
<1>5. exiting' # NULL
  BY <1>1, AllocatorAssumption
<1> QED
  BY <1>1, <1>3, <1>4, <1>5, SingletonHomes DEF ovars, core, Lasts

\* exit() runs a handler: no thread is in the middle of anything.
LEMMA HandlerHomes ==
  ASSUME IInv, EInv, OInv, HInv, NEW t \in Threads,
         ExitAllocator(t) \/ ExitHeap(t) \/ ExitStatic(t)
  PROVE  HInv'
<1> DEFINE x == Head(handlers)
<1>1. /\ Ready(t) /\ RunHandler(t) /\ early' = early
      /\ exiting = t /\ handlers # <<>> /\ handlers' = Tail(handlers)
      /\ UNCHANGED <<exiting, got, frames>>
  BY DEF ExitAllocator, ExitHeap, ExitStatic, RunHandler, ReleaseAllocator,
     ReleaseHeap, RunStatic, NextHandler, calls, ovars
<1>2. Prepended(handlers, handlers', x)
  BY <1>1, DropFirst DEF IInv, AllocatorTypeOK
<1>3. t # NULL /\ \A u \in Threads : doing[u] = Idle
  BY <1>1, AllocatorAssumption DEF HInv, Departed, Ready
<1>4. x # "allocator" => instance'["allocator"] = instance["allocator"]
  BY <1>1, Kind DEF RunHandler, ReleaseHeap, ReleaseAllocator, RunStatic, objects,
     IInv, AllocatorTypeOK
<1> HIDE DEF x
<1>5. Ordered'
  BY <1>1, <1>2, <1>4, HandlerTaken DEF HInv
<1>6. CASE UNCHANGED core /\ dangled' = dangled /\ arenas' \subseteq arenas
  <2>1. \A u \in Threads : doing'[u] = Idle
    BY <1>3, <1>6 DEF core
  <2>2. Departed' /\ Gotten'
    BY <2>1 DEF Departed, Gotten, Idle
  <2> QED
    BY <1>1, <1>3, <1>5, <1>6, <2>2, SingletonHomes
<1>7. ASSUME ExitStatic(t), NEW o \in Objects, x \in owners[o], FetchSub(t, o, x)
      PROVE  HInv'
  <2>1. x \in Statics /\ instance' = instance
    BY <1>7 DEF ExitStatic, RunStatic, objects, x
  <2>2. 1 \in DOMAIN handlers /\ handlers[1] = x
    BY <1>2 DEF Prepended
  <2>3. early = {} => instance["allocator"] = 1
    BY <2>1, <2>2 DEF HInv, Ordered
  <2> QED
    BY <1>1, <1>3, <1>5, <1>7, <2>1, <2>3, FetchSubHomes
<1>8. CASE ExitStatic(t)
  <2>1. \/ \E o \in Objects : x \in owners[o] /\ FetchSub(t, o, x)
        \/ UNCHANGED <<size, home, count, owners, doing, before, arenas,
                       dangled, crashed>>
    BY <1>8 DEF ExitStatic, x
  <2> QED
    BY <1>6, <1>7, <1>8, <2>1 DEF core
<1>9. CASE ExitAllocator(t) \/ ExitHeap(t)
  BY <1>6, <1>9 DEF ExitAllocator, ExitHeap, ovars, core
<1> QED
  BY <1>8, <1>9

-----------------------------------------------------------------------------
LEMMA HomesInvariant ==
  ASSUME IInv, EInv, OInv, HInv, [ObjectNext]_allvars
  PROVE  HInv'
<1>1. ASSUME NEW t \in Threads, Proceed(t)
      PROVE  HInv'
  BY <1>1, InstanceHomes, MallocHomes, TestHomes, DeleteHomes, AdoptHomes,
     HandlerHomes DEF Proceed
<1>2. ASSUME NEW t \in Threads, NEW o \in Objects, Drop(t, o)
      PROVE  HInv'
  <2>1. /\ doing[t] = Idle /\ exiting = NULL /\ t \in owners[o] /\ FetchSub(t, o, t)
        /\ UNCHANGED <<instance, exiting, got, frames, early, handlers>>
    BY <1>2 DEF Drop, Ready, avars, objects, calls
  <2>2. Ordered'
    BY <2>1, OrderKept DEF HInv, EInv, Lasts
  <2> QED
    BY <2>1, <2>2, FetchSubHomes
<1>3. CASE UNCHANGED allvars
  <2>1. Calm /\ Plain /\ UNCHANGED ovars /\ UNCHANGED core /\ handlers' = handlers
        /\ exiting' = exiting
    BY <1>3, StillCalm DEF allvars, avars, objects, calls, ovars, core, Plain
  <2>2. Ordered' /\ Departed' /\ Gotten'
    BY <2>1, OrderKept DEF HInv, EInv, Lasts, Calm, Plain, ovars, Departed, Gotten,
       Asks
  <2>3. UNCHANGED core /\ dangled' = dangled /\ arenas' \subseteq arenas
        /\ early \subseteq early' /\ exiting' = exiting /\ Lasts
    BY <2>1 DEF Lasts, Calm, ovars
  <2> QED
    BY <2>2, <2>3, SingletonHomes
<1> QED
  BY <1>1, <1>2, <1>3, NewHomes, CopyHomes, UseHeapHomes, ProgramExitHomes,
     StaticHomes DEF ObjectNext

\* All the invariants of the objects and the singletons together.
THEOREM ProgramInvariant == ObjectSpec => [](IInv /\ EInv /\ OInv /\ HInv)
<1>1. ObjectSpec => [](IInv /\ EInv)
  BY HandlersInvariant, ObjectImplementsAllocator, PTL
<1>2. IInv /\ EInv /\ OInv /\ HInv /\ [ObjectNext]_allvars => HInv'
  BY HomesInvariant
<1> QED
  BY <1>1, <1>2, HInitially, ObjectInvariant, PTL DEF ObjectSpec

\* operator delete gives memory back to the pool of the allocator it is from, or
\* to the global one, whatever other threads create and release meanwhile.
THEOREM FreesWhereAllocatedAlways == ObjectSpec => []FreesWhereAllocated
<1>1. IInv /\ OInv /\ HInv => FreesWhereAllocated
  <2> SUFFICES ASSUME IInv, OInv, HInv, NEW t \in Threads, NEW o \in Objects
               PROVE  /\ Does(t, "free", o) /\ ~ dangled =>
                           home[o] = Block(got[t], Get(size[o]))
                      /\ Does(t, "delete", o) => home[o] = Global
    BY DEF FreesWhereAllocated
  <2>1. ASSUME Does(t, "free", o) \/ Does(t, "delete", o)
        PROVE  home[o] # NULL /\ Deleting(t, o)
    BY <2>1 DEF Does, OInv, Tended, TendedAt, Works, Deleting
  <2>2. MAX_SIZE \in Nat /\ size[o] \in Nat
    BY AllocatorAssumption DEF MAX_SIZE, OInv, ObjectTypeOK
  <2>3. ASSUME Does(t, "free", o), ~ dangled
        PROVE  home[o] = Block(got[t], Get(size[o]))
    <3>1. size[o] <= MAX_SIZE
      BY <2>3 DEF Does, HInv, Branched
    <3>2. home[o] # Global
      BY <2>2, <3>1 DEF HInv, Homed
    <3>3. home[o] = Block(1, Get(size[o]))
      BY <2>1, <2>3, <3>2 DEF HInv, Homed
    <3>4. home[o].allocator = instance["allocator"]
      BY <2>1, <2>3, <3>2 DEF HInv, Backed
    <3>5. got[t] = instance["allocator"]
      BY <2>3, Returned DEF Does, HInv, Gotten
    <3>6. home[o].allocator = 1
      BY <3>3 DEF Block
    <3> QED
      BY <3>3, <3>4, <3>5, <3>6
  <2>4. ASSUME Does(t, "delete", o)
        PROVE  home[o] = Global
    <3>1. size[o] > MAX_SIZE
      BY <2>4 DEF Does, HInv, Branched
    <3> QED
      BY <2>1, <2>2, <2>4, <3>1 DEF HInv, Homed
  <2> QED
    BY <2>3, <2>4
<1> QED
  BY <1>1, ProgramInvariant, PTL

\* Whoever made an arena, and with whichever object, its blocks are large enough
\* for every object of its pool: different sizes have different pools.
THEOREM BlocksFitAlways == ObjectSpec => []BlocksFit
<1>1. OInv /\ HInv => BlocksFit
  <2> SUFFICES ASSUME OInv, HInv, NEW o \in Objects, NEW a \in arenas,
                      home[o] = a.home
               PROVE  size[o] <= a.block
    BY DEF BlocksFit
  <2>1. /\ a.block \in Nat /\ a.block >= MIN_SIZE /\ a.block % Word = 0
        /\ a.home = Block(1, Get(a.block)) /\ a.home \in [allocator : Nat, pool : Nat]
    BY DEF OInv, ObjectTypeOK, HInv, ArenasSized
  <2>2. home[o] # NULL /\ home[o] # Global
    BY <2>1, NoBlockAssumption DEF Global, Block
  <2>3. size[o] \in Sizes[o] /\ home[o] = Block(1, Get(size[o]))
    BY <2>2 DEF HInv, Homed
  <2>4. size[o] \in Nat /\ size[o] >= MIN_SIZE /\ size[o] % Word = 0
    BY <2>3, SizeAssumption
  <2>5. Get(size[o]) = Get(a.block)
    BY <2>1, <2>3 DEF Block
  <2>6. size[o] = Word * (Get(size[o]) + 2) /\ a.block = Word * (Get(a.block) + 2)
    BY <2>1, <2>4, PoolIndex
  <2> QED
    BY <2>1, <2>5, <2>6
<1> QED
  BY <1>1, ProgramInvariant, PTL

\* No object is used after its pool is gone unless some static pointer was there
\* before the allocator.
THEOREM DanglesOnlyThroughEarlyAlways == ObjectSpec => []DanglesOnlyThroughEarly
<1>1. HInv => DanglesOnlyThroughEarly
  BY DEF HInv
<1> QED
  BY <1>1, ProgramInvariant, PTL

=============================================================================

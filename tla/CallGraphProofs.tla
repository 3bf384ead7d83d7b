-------------------------- MODULE CallGraphProofs --------------------------
(***************************************************************************)
(* Proofs about CallGraph for every set of threads and labels and all      *)
(* limits: the nodes are trees of records below bookmarks, the thread that *)
(* writes a graph keeps its depth, place and stack together, and a merge   *)
(* finds a place for every bookmark.                                       *)
(***************************************************************************)
EXTENDS CallGraph, SequenceTheorems, FiniteSetTheorems, WellFoundedInduction, TLAPS

-----------------------------------------------------------------------------
(* Sequences.                                                              *)

\* A set of natural numbers has a least one: what inductions rest on here.
LEMMA LeastNumber ==
  ASSUME NEW T, T \subseteq Nat, T # {}
  PROVE  \E x \in T : \A y \in T : x <= y
  <1> DEFINE R == {p \in Nat \X Nat : p[1] < p[2]}
  <1>1. IsWellFoundedOn(R, Nat)
    BY NatLessThanWellFounded DEF OpToRel
  <1> HIDE DEF R
  <1>2. PICK x \in T : \A y \in T : <<y, x>> \notin R
    BY <1>1, WFMin
  <1>3. ASSUME NEW y \in T PROVE x <= y
    <2>1. x \in Nat /\ y \in Nat /\ ~(y < x)
      BY <1>2 DEF R
    <2> QED BY <2>1
  <1> QED BY <1>3

\* f[i] is the first i sequences of q joined: the function FlattenSeq defines.
Joins(q, n, f) == f = [i \in 1 .. n |-> IF i = 1 THEN q[i] ELSE f[i - 1] \o q[i]]

\* What it is at each index.
LEMMA JoinsEach ==
  ASSUME NEW q, NEW n \in Nat, NEW f, Joins(q, n, f)
  PROVE  /\ n # 0 => f[1] = q[1]
         /\ \A i \in 2 .. n : f[i] = f[i - 1] \o q[i]
  <1>1. f = [i \in 1 .. n |-> IF i = 1 THEN q[i] ELSE f[i - 1] \o q[i]]
    BY DEF Joins
  <1>2. n # 0 => 1 \in 1 .. n
    OBVIOUS
  <1>3. \A i \in 2 .. n : i \in 1 .. n /\ i # 1
    OBVIOUS
  <1> QED BY <1>1, <1>2, <1>3

\* There is such a function.
LEMMA JoinsExist ==
  ASSUME NEW q, NEW n \in Nat
  PROVE  \E f : Joins(q, n, f)
  <1> DEFINE Lacking == {m \in Nat : ~\E f : Joins(q, m, f)}
  <1>1. SUFFICES ASSUME Lacking # {} PROVE FALSE
    OBVIOUS
  <1>2. PICK m \in Lacking : \A k \in Lacking : m <= k
    BY <1>1, LeastNumber
  <1>3. m # 0
    <2>1. Joins(q, 0, <<>>)
      BY DEF Joins
    <2> QED BY <2>1, <1>2
  <1>4. m - 1 \in Nat /\ ~(m <= m - 1)
    BY <1>2, <1>3
  <1>5. PICK f : Joins(q, m - 1, f)
    BY <1>2, <1>4
  <1> DEFINE g == [i \in 1 .. m |-> IF i = m THEN IF m = 1 THEN q[m] ELSE f[m - 1] \o q[m]
                                             ELSE f[i]]
  <1>6. ASSUME NEW i \in 1 .. m
        PROVE  g[i] = IF i = 1 THEN q[i] ELSE g[i - 1] \o q[i]
    <2>1. CASE i = m
      BY <2>1, <1>4
    <2>2. CASE i # m
      <3>1. /\ i \in 1 .. m - 1 /\ g[i] = f[i]
            /\ i # 1 => i - 1 \in 1 .. m - 1 /\ g[i - 1] = f[i - 1]
        BY <2>2, <1>4
      <3>2. f[i] = IF i = 1 THEN q[i] ELSE f[i - 1] \o q[i]
        BY <3>1, <1>5 DEF Joins
      <3> QED BY <3>1, <3>2
    <2> QED BY <2>1, <2>2
  <1>7. g = [i \in 1 .. m |-> IF i = 1 THEN q[i] ELSE g[i - 1] \o q[i]]
    <2>1. g = [i \in 1 .. m |-> g[i]]
      OBVIOUS
    <2> HIDE DEF g
    <2> QED BY <2>1, <1>6
  <1>8. Joins(q, m, g)
    BY <1>7 DEF Joins
  <1> QED BY <1>2, <1>8

\* What is joined is a sequence of the same elements.
LEMMA JoinsSequences ==
  ASSUME NEW S, NEW n \in Nat, NEW q, \A i \in 1 .. n : q[i] \in Seq(S),
         NEW f, Joins(q, n, f)
  PROVE  \A i \in 1 .. n : f[i] \in Seq(S)
  <1> DEFINE Others == {i \in 1 .. n : f[i] \notin Seq(S)}
  <1>1. SUFFICES ASSUME Others # {} PROVE FALSE
    OBVIOUS
  <1>2. PICK i \in Others : \A j \in Others : i <= j
    <2>1. Others \subseteq Nat
      OBVIOUS
    <2> HIDE DEF Others
    <2> QED BY <2>1, <1>1, LeastNumber
  <1>3. f[i] = IF i = 1 THEN q[i] ELSE f[i - 1] \o q[i]
    BY <1>2 DEF Joins
  <1>4. i # 1 /\ i - 1 \in 1 .. n /\ ~(i <= i - 1)
    BY <1>2, <1>3
  <1>5. f[i - 1] \in Seq(S) /\ q[i] \in Seq(S)
    BY <1>2, <1>4
  <1>6. f[i - 1] \o q[i] \in Seq(S)
    BY <1>5, ConcatProperties
  <1> QED BY <1>2, <1>3, <1>4, <1>6

\* FlattenSeq joins them all.
LEMMA FlattenIs ==
  ASSUME NEW q, Len(q) \in Nat \ {0}
  PROVE  \E f : Joins(q, Len(q), f) /\ FlattenSeq(q) = f[Len(q)]
  <1> DEFINE n == Len(q)
             h == CHOOSE f : f = [i \in 1 .. n |-> IF i = 1 THEN q[i] ELSE f[i - 1] \o q[i]]
  <1>1. PICK f : f = [i \in 1 .. n |-> IF i = 1 THEN q[i] ELSE f[i - 1] \o q[i]]
    BY JoinsExist DEF Joins
  <1>2. h = [i \in 1 .. n |-> IF i = 1 THEN q[i] ELSE h[i - 1] \o q[i]]
    BY <1>1
  <1>3. FlattenSeq(q) = h[n]
    BY DEF FlattenSeq
  <1> HIDE DEF h
  <1> QED BY <1>2, <1>3 DEF Joins

\* An element appended.
LEMMA SetAppended ==
  ASSUME NEW S, NEW q \in Seq(S), NEW x \in S
  PROVE  /\ Append(q, x) \in Seq(S) /\ Append(q, x) # <<>>
         /\ ToSet(Append(q, x)) = ToSet(q) \cup {x}
         /\ Len(Append(q, x)) = Len(q) + 1 /\ Len(q) \in Nat
  <1>1. /\ Append(q, x) \in Seq(S) /\ Append(q, x) # <<>> /\ Len(Append(q, x)) = Len(q) + 1
        /\ Len(q) \in Nat /\ DOMAIN q = 1 .. Len(q)
        /\ DOMAIN Append(q, x) = 1 .. Len(q) + 1
        /\ \A i \in 1 .. Len(q) : Append(q, x)[i] = q[i]
        /\ Append(q, x)[Len(q) + 1] = x
    BY AppendProperties, LenProperties
  <1> DEFINE n == Len(q)
             p == Append(q, x)
  <1> HIDE DEF p, n
  <1>2. ASSUME NEW i \in 1 .. n + 1 PROVE p[i] \in ToSet(q) \cup {x}
    BY <1>1 DEF ToSet, p, n
  <1>3. ASSUME NEW i \in 1 .. n PROVE q[i] \in ToSet(p)
    BY <1>1 DEF ToSet, p, n
  <1>4. x \in ToSet(p)
    BY <1>1 DEF ToSet, p, n
  <1>5. ToSet(p) = ToSet(q) \cup {x}
    BY <1>1, <1>2, <1>3, <1>4 DEF ToSet, p, n
  <1> QED BY <1>1, <1>5 DEF p

\* Two sequences joined.
LEMMA SetJoined ==
  ASSUME NEW S, NEW a \in Seq(S), NEW b \in Seq(S)
  PROVE  a \o b \in Seq(S) /\ ToSet(a \o b) = ToSet(a) \cup ToSet(b)
  <1>1. /\ Len(a) \in Nat /\ Len(b) \in Nat /\ DOMAIN a = 1 .. Len(a) /\ DOMAIN b = 1 .. Len(b)
        /\ DOMAIN (a \o b) = 1 .. Len(a) + Len(b) /\ a \o b \in Seq(S)
        /\ \A i \in 1 .. Len(a) + Len(b) : (a \o b)[i] = IF i <= Len(a) THEN a[i] ELSE b[i - Len(a)]
    BY LenProperties, ConcatProperties
  <1> DEFINE k == Len(a)
             l == Len(b)
             c == a \o b
  <1> HIDE DEF k, l, c
  <1>2. ASSUME NEW i \in 1 .. k + l PROVE c[i] \in ToSet(a) \cup ToSet(b)
    <2>1. CASE i <= k
      <3>1. i \in DOMAIN a /\ c[i] = a[i]
        BY <1>1, <2>1 DEF k, l, c
      <3> QED BY <3>1 DEF ToSet
    <2>2. CASE ~(i <= k)
      <3>1. i - k \in DOMAIN b /\ c[i] = b[i - k]
        BY <1>1, <2>2 DEF k, l, c
      <3> QED BY <3>1 DEF ToSet
    <2> QED BY <2>1, <2>2
  <1>3. ASSUME NEW i \in DOMAIN a PROVE a[i] \in ToSet(c)
    <2>1. i \in DOMAIN c /\ c[i] = a[i]
      BY <1>1 DEF c
    <2> QED BY <2>1 DEF ToSet
  <1>4. ASSUME NEW i \in DOMAIN b PROVE b[i] \in ToSet(c)
    <2>1. k + i \in DOMAIN c /\ ~(k + i <= k) /\ (k + i) - k = i
      BY <1>1 DEF k, c
    <2>2. c[k + i] = b[i]
      BY <2>1, <1>1 DEF k, c
    <2> QED BY <2>1, <2>2 DEF ToSet
  <1>5. DOMAIN c = 1 .. k + l
    BY <1>1 DEF c, k, l
  <1>6. ToSet(c) = ToSet(a) \cup ToSet(b)
    BY <1>2, <1>3, <1>4, <1>5 DEF ToSet
  <1> QED BY <1>1, <1>6, ConcatProperties DEF c, k, l

\* A part of a sequence.
LEMMA PartIs ==
  ASSUME NEW S, NEW q \in Seq(S), NEW m \in Nat \ {0}, NEW k \in Nat, k <= Len(q), m <= k + 1
  PROVE  /\ SubSeq(q, m, k) \in Seq(S) /\ Len(SubSeq(q, m, k)) = k - m + 1
         /\ DOMAIN SubSeq(q, m, k) = 1 .. k - m + 1
         /\ \A i \in 1 .. k - m + 1 : SubSeq(q, m, k)[i] = q[m + i - 1]
  <1>1. Len(q) \in Nat /\ \A i \in 1 .. Len(q) : q[i] \in S
    BY LenProperties, ElementOfSeq
  <1>2. m \in Int /\ k \in Int /\ \A i \in m .. k : q[i] \in S
    BY <1>1
  <1> DEFINE p == SubSeq(q, m, k)
  <1>3. /\ p \in Seq(S) /\ Len(p) = IF m <= k THEN k - m + 1 ELSE 0
        /\ \A i \in 1 .. k - m + 1 : p[i] = q[m + i - 1]
    BY <1>2, SubSeqProperties
  <1> HIDE DEF p
  <1>4. Len(p) = k - m + 1
    BY <1>3
  <1>5. DOMAIN p = 1 .. k - m + 1
    BY <1>3, <1>4, LenProperties
  <1> QED BY <1>3, <1>4, <1>5 DEF p

\* An element inserted after the first.
LEMMA SetInserted ==
  ASSUME NEW S, NEW q \in Seq(S), q # <<>>, NEW x \in S
  PROVE  /\ InsertAt(q, 2, x) \in Seq(S) /\ ToSet(InsertAt(q, 2, x)) = ToSet(q) \cup {x}
  <1> DEFINE n == Len(q)
             a == SubSeq(q, 1, 1)
             b == SubSeq(q, 2, n)
  <1>1. n \in Nat \ {0} /\ DOMAIN q = 1 .. n /\ \A i \in 1 .. n : q[i] \in S
    BY EmptySeq, LenProperties, ElementOfSeq
  <1>2. a \in Seq(S) /\ DOMAIN a = 1 .. 1 /\ a[1] = q[1]
    <2>1. /\ SubSeq(q, 1, 1) \in Seq(S) /\ DOMAIN SubSeq(q, 1, 1) = 1 .. 1 - 1 + 1
          /\ \A i \in 1 .. 1 - 1 + 1 : SubSeq(q, 1, 1)[i] = q[1 + i - 1]
      BY <1>1, PartIs
    <2> QED BY <2>1
  <1>3. b \in Seq(S) /\ DOMAIN b = 1 .. n - 1 /\ \A i \in 1 .. n - 1 : b[i] = q[i + 1]
    <2> HIDE DEF n
    <2>1. 2 \in Nat \ {0} /\ n \in Nat /\ n <= Len(q) /\ 2 <= n + 1
      BY <1>1 DEF n
    <2>2. /\ SubSeq(q, 2, n) \in Seq(S) /\ DOMAIN SubSeq(q, 2, n) = 1 .. n - 2 + 1
          /\ \A i \in 1 .. n - 2 + 1 : SubSeq(q, 2, n)[i] = q[2 + i - 1]
      BY <2>1, PartIs
    <2>3. n - 2 + 1 = n - 1 /\ \A i \in 1 .. n - 1 : 2 + i - 1 = i + 1
      BY <1>1
    <2> QED BY <2>2, <2>3
  <1> HIDE DEF a, b, n
  <1>5. ToSet(a) \cup ToSet(b) = ToSet(q)
    <2>1. ToSet(a) = {q[1]}
      BY <1>2 DEF ToSet
    <2>2. ToSet(b) = {q[i + 1] : i \in 1 .. n - 1}
      BY <1>3 DEF ToSet
    <2>3. ASSUME NEW y \in ToSet(q) PROVE y \in ToSet(a) \cup ToSet(b)
      <3>1. PICK i \in 1 .. n : y = q[i]
        BY <1>1 DEF ToSet
      <3>2. CASE i = 1
        BY <2>1, <3>1, <3>2
      <3>3. CASE i # 1
        <4>1. i - 1 \in 1 .. n - 1 /\ (i - 1) + 1 = i
          BY <1>1, <3>1, <3>3
        <4> QED BY <2>2, <3>1, <4>1
      <3> QED BY <3>2, <3>3
    <2>4. \A i \in 1 .. n - 1 : q[i + 1] \in ToSet(q)
      BY <1>1 DEF ToSet
    <2>5. q[1] \in ToSet(q)
      BY <1>1 DEF ToSet
    <2> QED BY <2>1, <2>2, <2>3, <2>4, <2>5
  <1> DEFINE c == <<x>>
             d == a \o c
             e == d \o b
  <1>6. c \in Seq(S) /\ ToSet(c) = {x}
    BY DEF ToSet
  <1> HIDE DEF c
  <1>7. d \in Seq(S) /\ ToSet(d) = ToSet(a) \cup {x}
    BY <1>2, <1>6, SetJoined
  <1> HIDE DEF d
  <1>8. e \in Seq(S) /\ ToSet(e) = ToSet(d) \cup ToSet(b)
    BY <1>3, <1>7, SetJoined
  <1>9. InsertAt(q, 2, x) = e
    BY DEF InsertAt, a, b, c, d, n
  <1> HIDE DEF e
  <1> QED BY <1>5, <1>7, <1>8, <1>9

\* What remains of a sequence are its members in the set.
LEMMA OnlyAre ==
  ASSUME NEW S, NEW q \in Seq(S), NEW set
  PROVE  Only(q, set) \in Seq(S) /\ ToSet(Only(q, set)) = ToSet(q) \cap set
  <1> DEFINE n == Len(q)
             one == [i \in DOMAIN q |-> IF q[i] \in set THEN <<q[i]>> ELSE <<>>]
  <1>1. n \in Nat /\ DOMAIN q = 1 .. n /\ \A i \in 1 .. n : q[i] \in S
    BY LenProperties, ElementOfSeq
  <1>2. Only(q, set) = FlattenSeq(one)
    BY DEF Only
  <1>3. /\ \A i \in 1 .. n : one[i] \in Seq(S) /\ ToSet(one[i]) = {q[i]} \cap set
        /\ Len(one) = n
    <2>1. ASSUME NEW i \in 1 .. n PROVE one[i] \in Seq(S) /\ ToSet(one[i]) = {q[i]} \cap set
      BY <1>1 DEF ToSet
    <2>2. one \in Seq(Seq(S)) /\ DOMAIN one = 1 .. n
      <3>1. one \in [1 .. n -> Seq(S)]
        BY <1>1, <2>1
      <3> HIDE DEF one, n
      <3> QED BY <3>1, <1>1, SeqDef
    <2>3. Len(one) = n
      BY <2>2, <1>1, LenProperties
    <2> QED BY <2>1, <2>3
  <1> HIDE DEF one
  <1>4. CASE n = 0
    <2>1. q = <<>> /\ one = <<>>
      BY <1>4, EmptySeq, <1>3, <1>1 DEF one
    <2> QED BY <1>2, <2>1, EmptySeq DEF ToSet, FlattenSeq
  <1>5. CASE n # 0
    <2>1. PICK f : Joins(one, n, f) /\ FlattenSeq(one) = f[n]
      BY <1>1, <1>3, <1>5, FlattenIs
    <2>2. \A i \in 1 .. n : f[i] \in Seq(S)
      BY <2>1, <1>1, <1>3, JoinsSequences
    <2>3. f[1] = one[1] /\ \A i \in 2 .. n : f[i] = f[i - 1] \o one[i]
      BY ZenonT(30), <2>1, <1>1, <1>5, JoinsEach
    <2> DEFINE Upto(i) == {q[j] : j \in 1 .. i}
               Wrong == {i \in 1 .. n : ToSet(f[i]) # Upto(i) \cap set}
    <2>4. ASSUME Wrong # {} PROVE FALSE
      <3>1. PICK i \in Wrong : \A j \in Wrong : i <= j
        <4>1. Wrong \subseteq Nat
          OBVIOUS
        <4> HIDE DEF Wrong
        <4> QED BY <4>1, <2>4, LeastNumber
      <3>2. CASE i = 1
        <4>1. ToSet(f[1]) = {q[1]} \cap set
          BY <1>1, <1>3, <1>5, <2>3
        <4>2. Upto(1) = {q[1]}
          OBVIOUS
        <4> QED BY <3>1, <3>2, <4>1, <4>2
      <3>3. CASE i # 1
        <4>1. i \in 2 .. n /\ i - 1 \in 1 .. n /\ ~(i <= i - 1)
          BY <3>1, <3>3, <1>1
        <4>2. ToSet(f[i - 1]) = Upto(i - 1) \cap set
          BY <3>1, <4>1
        <4>3. ToSet(f[i]) = ToSet(f[i - 1]) \cup ToSet(one[i])
          <5>1. f[i - 1] \in Seq(S) /\ one[i] \in Seq(S) /\ f[i] = f[i - 1] \o one[i]
            BY <4>1, <2>2, <2>3, <1>3, <3>1
          <5>2. ToSet(f[i - 1] \o one[i]) = ToSet(f[i - 1]) \cup ToSet(one[i])
            BY <5>1, SetJoined
          <5> QED BY <5>1, <5>2
        <4>4. Upto(i) = Upto(i - 1) \cup {q[i]}
          BY <4>1
        <4>5. ToSet(one[i]) = {q[i]} \cap set
          BY <3>1, <1>3
        <4> QED BY <3>1, <4>2, <4>3, <4>4, <4>5
      <3> QED BY <3>2, <3>3
    <2>5. ToSet(f[n]) = Upto(n) \cap set
      BY <2>4, <1>1, <1>5
    <2>6. Upto(n) = ToSet(q)
      BY <1>1 DEF ToSet
    <2>7. f[n] \in Seq(S)
      BY <2>2, <1>1, <1>5
    <2> QED BY <1>2, <2>1, <2>5, <2>6, <2>7
  <1> QED BY <1>4, <1>5

-----------------------------------------------------------------------------
(* Trees: the nodes n[t] of the threads.                                   *)

Refs == Threads \X (Nat \ {0})
RefOrNull == Refs \cup {Null}
NodeMembers ==
  [key : (Labels \cup {Null}) \X Nat, depth : Nat, tid : Threads, dummy : BOOLEAN,
   of : RefOrNull, laps : Nat, up : RefOrNull, kids : Seq(Refs)]

Nodes(n) == n \in [Threads -> Seq(NodeMembers)]
MadeIn(n) == UNION {{<<t, i>> : i \in DOMAIN n[t]} : t \in Threads}
NodeAt(n, r) == n[r[1]][r[2]]
TopIn(n) ==
  LET top[r \in MadeIn(n)] == IF NodeAt(n, r).up = Null THEN r ELSE top[NodeAt(n, r).up] IN top

Root == <<Master, 1>>

\* The parent of a node has it as a child and is one level above it; bookmarks,
\* and only they, have no parent; a record is its thread's.
LinkedAt(n, r) ==
  /\ NodeAt(n, r).up # Null => /\ NodeAt(n, r).up \in MadeIn(n)
                               /\ r \in ToSet(NodeAt(n, NodeAt(n, r).up).kids)
                               /\ NodeAt(n, r).depth = NodeAt(n, NodeAt(n, r).up).depth + 1
  /\ \A q \in ToSet(NodeAt(n, r).kids) : q \in MadeIn(n) /\ NodeAt(n, q).up = r
  /\ NodeAt(n, r).key[2] = NodeAt(n, r).depth /\ NodeAt(n, r).depth <= MaxDepth + 1
  /\ NodeAt(n, r).dummy <=> NodeAt(n, r).up = Null
  /\ ~NodeAt(n, r).dummy => NodeAt(n, r).tid = r[1]

Trees(n) == Nodes(n) /\ \A r \in MadeIn(n) : LinkedAt(n, r)

\* What is made is a reference with a node.
LEMMA MadeAre ==
  ASSUME NEW n, Nodes(n)
  PROVE  /\ \A r : r \in MadeIn(n) <=> r \in Refs /\ r[2] <= Len(n[r[1]])
         /\ \A t \in Threads : n[t] \in Seq(NodeMembers) /\ Len(n[t]) \in Nat
                               /\ DOMAIN n[t] = 1 .. Len(n[t])
         /\ \A r \in MadeIn(n) : /\ NodeAt(n, r) \in NodeMembers /\ r = <<r[1], r[2]>>
                                 /\ r[1] \in Threads /\ r[2] \in 1 .. Len(n[r[1]])
  <1>1. \A t \in Threads : /\ n[t] \in Seq(NodeMembers) /\ Len(n[t]) \in Nat
                           /\ DOMAIN n[t] = 1 .. Len(n[t])
    BY LenProperties DEF Nodes
  <1>2. ASSUME NEW r PROVE r \in MadeIn(n) <=> r \in Refs /\ r[2] <= Len(n[r[1]])
    <2>1. ASSUME r \in MadeIn(n) PROVE r \in Refs /\ r[2] <= Len(n[r[1]])
      <3>1. PICK t \in Threads : \E i \in 1 .. Len(n[t]) : r = <<t, i>>
        BY <1>1, <2>1 DEF MadeIn
      <3> QED BY <1>1, <3>1 DEF Refs
    <2>2. ASSUME r \in Refs, r[2] <= Len(n[r[1]]) PROVE r \in MadeIn(n)
      <3>1. r = <<r[1], r[2]>> /\ r[1] \in Threads /\ r[2] \in DOMAIN n[r[1]]
        BY <1>1, <2>2 DEF Refs
      <3> QED BY <3>1 DEF MadeIn
    <2> QED BY <2>1, <2>2
  <1>3. ASSUME NEW r \in MadeIn(n)
        PROVE  /\ NodeAt(n, r) \in NodeMembers /\ r = <<r[1], r[2]>>
               /\ r[1] \in Threads /\ r[2] \in 1 .. Len(n[r[1]])
    <2>1. r \in Refs /\ r[2] <= Len(n[r[1]])
      BY <1>2
    <2>2. r = <<r[1], r[2]>> /\ r[1] \in Threads /\ r[2] \in 1 .. Len(n[r[1]])
      BY <1>1, <2>1 DEF Refs
    <2>3. NodeAt(n, r) \in NodeMembers
      BY <1>1, <2>2, ElementOfSeq DEF NodeAt
    <2> QED BY <2>2, <2>3
  <1> QED BY <1>1, <1>2, <1>3

\* What a tree says of one of its nodes.
LEMMA OfTrees ==
  ASSUME NEW n, Trees(n), NEW r \in MadeIn(n)
  PROVE  /\ Nodes(n) /\ NodeAt(n, r) \in NodeMembers /\ LinkedAt(n, r) /\ r \in Refs
         /\ NodeAt(n, r).depth \in Nat /\ r # Null
         /\ NodeAt(n, r).up = Null \/ NodeAt(n, r).up \in MadeIn(n)
  <1>1. Nodes(n) /\ LinkedAt(n, r)
    BY DEF Trees
  <1>2. NodeAt(n, r) \in NodeMembers /\ r \in Refs
    BY <1>1, MadeAre
  <1>3. r # Null
    BY <1>2, CallGraphAssumption DEF Refs, Threads
  <1> QED BY <1>1, <1>2, <1>3 DEF LinkedAt, NodeMembers

\* A function that gives each node above a depth the top it hangs below.
LEMMA TopsUpTo ==
  ASSUME NEW n, Trees(n), NEW d \in Nat
  PROVE  \E f : f = [r \in {x \in MadeIn(n) : NodeAt(n, x).depth < d} |->
                       IF NodeAt(n, r).up = Null THEN r ELSE f[NodeAt(n, r).up]]
  <1> DEFINE Near(k) == {x \in MadeIn(n) : NodeAt(n, x).depth < k}
             Gives(f, k) == f = [r \in Near(k) |->
                                   IF NodeAt(n, r).up = Null THEN r ELSE f[NodeAt(n, r).up]]
             Lacking == {k \in Nat : ~\E f : Gives(f, k)}
  <1>1. ASSUME Lacking # {} PROVE FALSE
    <2>1. PICK k \in Lacking : \A j \in Lacking : k <= j
      <3>1. Lacking \subseteq Nat
        OBVIOUS
      <3> HIDE DEF Lacking
      <3> QED BY <3>1, <1>1, LeastNumber
    <2>2. k # 0
      <3>1. Near(0) = {}
        BY OfTrees
      <3>2. Gives([r \in {} |-> r], 0)
        BY <3>1
      <3> QED BY <2>1, <3>2
    <2>3. k - 1 \in Nat /\ ~(k <= k - 1)
      BY <2>1, <2>2
    <2>4. PICK g : Gives(g, k - 1)
      BY <2>1, <2>3
    <2> DEFINE f == [r \in Near(k) |-> IF NodeAt(n, r).up = Null THEN r ELSE g[NodeAt(n, r).up]]
    <2>5. ASSUME NEW r \in Near(k), NodeAt(n, r).up # Null
          PROVE  f[NodeAt(n, r).up] = g[NodeAt(n, r).up]
      <3> DEFINE p == NodeAt(n, r).up
      <3>1. /\ p \in MadeIn(n) /\ NodeAt(n, r).depth = NodeAt(n, p).depth + 1
            /\ NodeAt(n, r).depth < k
        BY <2>5, OfTrees DEF LinkedAt
      <3>2. NodeAt(n, p).depth \in Nat /\ NodeAt(n, r).depth \in Nat
        BY <3>1, OfTrees
      <3> HIDE DEF p
      <3>3. p \in Near(k) /\ p \in Near(k - 1)
        BY <3>1, <3>2, <2>1, <2>3
      <3>4. g[p] = IF NodeAt(n, p).up = Null THEN p ELSE g[NodeAt(n, p).up]
        BY <2>4, <3>3
      <3>5. f[p] = g[p]
        BY <3>3, <3>4
      <3> QED BY <3>5 DEF p
    <2>6. Gives(f, k)
      BY <2>5
    <2> QED BY <2>1, <2>6
  <1>2. \E f : Gives(f, d)
    BY <1>1
  <1> QED BY <1>2

\* The top of a node is its own or its parent's.
LEMMA TopIs ==
  ASSUME NEW n, Trees(n)
  PROVE  \A r \in MadeIn(n) : TopIn(n)[r] = IF NodeAt(n, r).up = Null THEN r
                                           ELSE TopIn(n)[NodeAt(n, r).up]
  <1> DEFINE d == MaxDepth + 2
             h == CHOOSE f : f = [r \in MadeIn(n) |->
                                    IF NodeAt(n, r).up = Null THEN r ELSE f[NodeAt(n, r).up]]
  <1>1. d \in Nat
    BY CallGraphAssumption
  <1>2. MadeIn(n) = {x \in MadeIn(n) : NodeAt(n, x).depth < d}
    BY OfTrees, CallGraphAssumption DEF LinkedAt
  <1> HIDE DEF d
  <1>3. PICK f : f = [r \in {x \in MadeIn(n) : NodeAt(n, x).depth < d} |->
                       IF NodeAt(n, r).up = Null THEN r ELSE f[NodeAt(n, r).up]]
    BY <1>1, TopsUpTo
  <1>4. f = [r \in MadeIn(n) |-> IF NodeAt(n, r).up = Null THEN r ELSE f[NodeAt(n, r).up]]
    BY <1>2, <1>3
  <1>5. h = [r \in MadeIn(n) |-> IF NodeAt(n, r).up = Null THEN r ELSE h[NodeAt(n, r).up]]
    BY <1>4
  <1>6. TopIn(n) = h
    BY DEF TopIn
  <1> HIDE DEF h
  <1> QED BY <1>5, <1>6

\* A set of nodes that is not empty has one of least depth.
LEMMA Shallowest ==
  ASSUME NEW n, Trees(n), NEW B, B \subseteq MadeIn(n), B # {}
  PROVE  \E r \in B : \A q \in B : NodeAt(n, r).depth <= NodeAt(n, q).depth
  <1> DEFINE T == {NodeAt(n, r).depth : r \in B}
  <1>1. T \subseteq Nat /\ T # {}
    BY OfTrees
  <1>2. PICK d \in T : \A e \in T : d <= e
    <2> HIDE DEF T
    <2> QED BY <1>1, LeastNumber
  <1> QED BY <1>2

\* The top of a node is a node without a parent.
LEMMA TopsAre ==
  ASSUME NEW n, Trees(n)
  PROVE  \A r \in MadeIn(n) : /\ TopIn(n)[r] \in MadeIn(n) /\ NodeAt(n, TopIn(n)[r]).up = Null
                              /\ NodeAt(n, r).depth = NodeAt(n, TopIn(n)[r]).depth
                                   => TopIn(n)[r] = r
                              /\ NodeAt(n, TopIn(n)[r]).depth <= NodeAt(n, r).depth
  <1> DEFINE Good(r) == /\ TopIn(n)[r] \in MadeIn(n) /\ NodeAt(n, TopIn(n)[r]).up = Null
                        /\ NodeAt(n, r).depth = NodeAt(n, TopIn(n)[r]).depth => TopIn(n)[r] = r
                        /\ NodeAt(n, TopIn(n)[r]).depth <= NodeAt(n, r).depth
             B == {r \in MadeIn(n) : ~Good(r)}
  <1>1. ASSUME B # {} PROVE FALSE
    <2>1. PICK r \in B : \A q \in B : NodeAt(n, r).depth <= NodeAt(n, q).depth
      <3>1. B \subseteq MadeIn(n)
        OBVIOUS
      <3> HIDE DEF B
      <3> QED BY <3>1, <1>1, Shallowest
    <2> DEFINE p == NodeAt(n, r).up
    <2>2. NodeAt(n, r).depth \in Nat /\ LinkedAt(n, r)
      BY <2>1, OfTrees
    <2>3. CASE p = Null
      <3>1. TopIn(n)[r] = r
        BY <2>1, <2>3, TopIs
      <3> QED BY <2>1, <2>2, <2>3, <3>1
    <2>4. CASE p # Null
      <3>1. p \in MadeIn(n) /\ NodeAt(n, r).depth = NodeAt(n, p).depth + 1
        BY <2>2, <2>4 DEF LinkedAt
      <3>2. TopIn(n)[r] = TopIn(n)[p]
        BY <2>1, <2>4, TopIs
      <3>3. NodeAt(n, p).depth \in Nat
        BY <3>1, OfTrees
      <3>4. p \notin B
        BY <2>1, <2>2, <3>1, <3>3
      <3>5. /\ TopIn(n)[p] \in MadeIn(n) /\ NodeAt(n, TopIn(n)[p]).up = Null
            /\ NodeAt(n, TopIn(n)[p]).depth <= NodeAt(n, p).depth
        BY <3>1, <3>4
      <3>6. NodeAt(n, TopIn(n)[p]).depth \in Nat
        BY <3>5, OfTrees
      <3>7. NodeAt(n, TopIn(n)[r]).depth < NodeAt(n, r).depth
        BY <3>1, <3>2, <3>3, <3>5, <3>6
      <3> QED BY <2>1, <2>2, <3>2, <3>5, <3>6, <3>7
    <2> QED BY <2>3, <2>4
  <1> QED BY <1>1

-----------------------------------------------------------------------------
(* How the operations change the trees.                                    *)

\* What a node never loses.
Same(n, m, r) ==
  /\ NodeAt(m, r).key = NodeAt(n, r).key /\ NodeAt(m, r).depth = NodeAt(n, r).depth
  /\ NodeAt(m, r).tid = NodeAt(n, r).tid /\ NodeAt(m, r).dummy = NodeAt(n, r).dummy
  /\ NodeAt(m, r).of = NodeAt(n, r).of

\* m comes after n: the nodes are there, and below their tops but those that
\* were below `out'.
Follows(n, m, out) ==
  \A r \in MadeIn(n) : /\ r \in MadeIn(m) /\ Same(n, m, r)
                       /\ TopIn(n)[r] # out => TopIn(m)[r] = TopIn(n)[r]

\* m has what n has, with the laps it had, and what was added has none yet.
Grown(n, m) ==
  /\ IsFiniteSet(MadeIn(n)) => IsFiniteSet(MadeIn(m))
  /\ MadeIn(n) \subseteq MadeIn(m)
  /\ \A r \in MadeIn(n) : NodeAt(m, r).laps = NodeAt(n, r).laps
  /\ \A r \in MadeIn(m) \ MadeIn(n) : NodeAt(m, r).laps = 0

\* One node more.
LEMMA GrownByOne ==
  ASSUME NEW n, NEW m, NEW new, MadeIn(m) = MadeIn(n) \cup {new}, NodeAt(m, new).laps = 0,
         \A r \in MadeIn(n) : NodeAt(m, r).laps = NodeAt(n, r).laps
  PROVE  Grown(n, m)
  <1>1. IsFiniteSet(MadeIn(n)) => IsFiniteSet(MadeIn(n) \cup {new})
    BY FS_AddElement
  <1> QED BY <1>1 DEF Grown

\* As long as no parent changes, no top does.
LEMMA TopsKept ==
  ASSUME NEW n, NEW m, Trees(n), Trees(m), MadeIn(n) \subseteq MadeIn(m),
         \A r \in MadeIn(n) : NodeAt(m, r).up = NodeAt(n, r).up
  PROVE  \A r \in MadeIn(n) : TopIn(m)[r] = TopIn(n)[r]
  <1> DEFINE B == {r \in MadeIn(n) : TopIn(m)[r] # TopIn(n)[r]}
  <1>1. ASSUME B # {} PROVE FALSE
    <2>1. PICK r \in B : \A q \in B : NodeAt(n, r).depth <= NodeAt(n, q).depth
      <3>1. B \subseteq MadeIn(n)
        OBVIOUS
      <3> HIDE DEF B
      <3> QED BY <3>1, <1>1, Shallowest
    <2>2. NodeAt(n, r).depth \in Nat /\ LinkedAt(n, r) /\ r \in MadeIn(m)
      BY <2>1, OfTrees
    <2> DEFINE p == NodeAt(n, r).up
    <2>3. NodeAt(m, r).up = p
      BY <2>1
    <2>4. /\ TopIn(n)[r] = IF p = Null THEN r ELSE TopIn(n)[p]
          /\ TopIn(m)[r] = IF p = Null THEN r ELSE TopIn(m)[p]
      BY <2>1, <2>2, <2>3, TopIs
    <2>5. CASE p = Null
      BY <2>1, <2>4, <2>5
    <2>6. CASE p # Null
      <3>1. p \in MadeIn(n) /\ NodeAt(n, r).depth = NodeAt(n, p).depth + 1
        BY <2>2, <2>6 DEF LinkedAt
      <3>2. NodeAt(n, p).depth \in Nat
        BY <3>1, OfTrees
      <3>3. p \notin B
        BY <2>1, <2>2, <3>1, <3>2
      <3> QED BY <2>1, <2>4, <2>6, <3>1, <3>3
    <2> QED BY <2>5, <2>6
  <1> QED BY <1>1

\* Laps are added: nothing else of the trees changes.
LEMMA TreesQuiet ==
  ASSUME NEW n, NEW m, Trees(n), Nodes(m), MadeIn(m) = MadeIn(n),
         \A r \in MadeIn(n) : /\ Same(n, m, r) /\ NodeAt(m, r).up = NodeAt(n, r).up
                              /\ NodeAt(m, r).kids = NodeAt(n, r).kids
  PROVE  Trees(m) /\ Follows(n, m, Null) /\ \A r \in MadeIn(n) : TopIn(m)[r] = TopIn(n)[r]
  <1>1. ASSUME NEW r \in MadeIn(m) PROVE LinkedAt(m, r)
    <2>1. LinkedAt(n, r) /\ Same(n, m, r) /\ NodeAt(m, r).up = NodeAt(n, r).up
          /\ NodeAt(m, r).kids = NodeAt(n, r).kids
      BY <1>1, OfTrees
    <2>2. \A q \in ToSet(NodeAt(n, r).kids) : q \in MadeIn(n)
      BY <2>1 DEF LinkedAt
    <2> QED BY <2>1, <2>2 DEF LinkedAt, Same
  <1>2. Trees(m)
    BY <1>1 DEF Trees
  <1>3. \A r \in MadeIn(n) : TopIn(m)[r] = TopIn(n)[r]
    BY <1>2, TopsKept
  <1> QED BY <1>2, <1>3 DEF Follows

\* The nodes after t made another one, and its name.
WithNode(n, t, x) == [n EXCEPT ![t] = Append(n[t], x)]
NextRef(n, t) == <<t, Len(n[t]) + 1>>

\* The nodes of a thread when one is appended.
LEMMA MadeAppended ==
  ASSUME NEW n, Nodes(n), NEW t \in Threads, NEW x \in NodeMembers,
         NEW m, m = WithNode(n, t, x), NEW new, new = NextRef(n, t)
  PROVE  /\ Nodes(m) /\ MadeIn(m) = MadeIn(n) \cup {new} /\ new \notin MadeIn(n)
         /\ new \in Refs /\ NodeAt(m, new) = x
         /\ \A r \in MadeIn(n) : NodeAt(m, r) = NodeAt(n, r)
  <1>1. /\ n \in [Threads -> Seq(NodeMembers)] /\ n[t] \in Seq(NodeMembers)
        /\ Append(n[t], x) \in Seq(NodeMembers) /\ Len(n[t]) \in Nat
        /\ Len(Append(n[t], x)) = Len(n[t]) + 1 /\ Append(n[t], x)[Len(n[t]) + 1] = x
        /\ \A i \in 1 .. Len(n[t]) : Append(n[t], x)[i] = n[t][i]
    BY AppendProperties, LenProperties DEF Nodes
  <1>2. Nodes(m) /\ m[t] = Append(n[t], x) /\ \A u \in Threads \ {t} : m[u] = n[u]
    BY <1>1 DEF Nodes, WithNode
  <1>3. new \in Refs /\ new[1] = t /\ new[2] = Len(n[t]) + 1
    BY <1>1 DEF Refs, NextRef
  <1>4. NodeAt(m, new) = x
    BY <1>1, <1>2, <1>3 DEF NodeAt
  <1>5. new \in MadeIn(m) /\ new \notin MadeIn(n)
    <2>1. new[2] <= Len(m[new[1]]) /\ ~(new[2] <= Len(n[new[1]]))
      BY <1>1, <1>2, <1>3
    <2> QED BY <2>1, <1>2, <1>3, MadeAre
  <1>6. ASSUME NEW r \in MadeIn(n) PROVE r \in MadeIn(m) /\ NodeAt(m, r) = NodeAt(n, r)
    <2>1. r \in Refs /\ r[2] \in 1 .. Len(n[r[1]]) /\ r[1] \in Threads
      BY MadeAre
    <2>2. CASE r[1] = t
      <3>1. r[2] <= Len(m[r[1]])
        BY <1>1, <1>2, <2>1, <2>2
      <3>2. r \in MadeIn(m)
        BY <1>2, <2>1, <3>1, MadeAre
      <3> QED BY <1>1, <1>2, <2>1, <2>2, <3>2 DEF NodeAt
    <2>3. CASE r[1] # t
      <3>1. m[r[1]] = n[r[1]]
        BY <1>2, <2>1, <2>3
      <3>2. r[2] <= Len(m[r[1]])
        BY <2>1, <3>1, <1>1
      <3> QED BY <1>2, <2>1, <3>1, <3>2, MadeAre DEF NodeAt
    <2> QED BY <2>2, <2>3
  <1>7. ASSUME NEW r \in MadeIn(m), r # new PROVE r \in MadeIn(n)
    <2>1. r \in Refs /\ r[2] \in 1 .. Len(m[r[1]]) /\ r[1] \in Threads /\ r = <<r[1], r[2]>>
      BY <1>2, MadeAre
    <2>2. r[2] <= Len(n[r[1]])
      <3>1. CASE r[1] = t
        <4>1. r[2] # Len(n[t]) + 1
          BY <2>1, <3>1, <1>7 DEF NextRef
        <4> QED BY <1>1, <1>2, <2>1, <3>1, <4>1
      <3>2. CASE r[1] # t
        BY <1>2, <2>1, <3>2
      <3> QED BY <3>1, <3>2
    <2> QED BY <2>1, <2>2, MadeAre
  <1> QED BY <1>2, <1>3, <1>4, <1>5, <1>6, <1>7

\* A bookmark is made.
LEMMA TreesBookmarked ==
  ASSUME NEW n, Trees(n), NEW w \in Threads, NEW x \in NodeMembers, x.up = Null, x.dummy,
         x.kids = <<>>, x.key[2] = x.depth, x.depth <= MaxDepth + 1,
         NEW m, m = WithNode(n, w, x), NEW new, new = NextRef(n, w)
  PROVE  /\ Trees(m) /\ Follows(n, m, Null)
         /\ MadeIn(m) = MadeIn(n) \cup {new} /\ new \notin MadeIn(n) /\ new \in Refs
         /\ \A r \in MadeIn(n) : NodeAt(m, r) = NodeAt(n, r) /\ TopIn(m)[r] = TopIn(n)[r]
         /\ NodeAt(m, new) = x /\ TopIn(m)[new] = new
  <1>1. /\ Nodes(m) /\ MadeIn(m) = MadeIn(n) \cup {new} /\ new \notin MadeIn(n)
        /\ new \in Refs /\ NodeAt(m, new) = x
        /\ \A r \in MadeIn(n) : NodeAt(m, r) = NodeAt(n, r)
    <2>1. Nodes(n)
      BY DEF Trees
    <2> QED BY <2>1, MadeAppended
  <1>2. ASSUME NEW r \in MadeIn(n) PROVE LinkedAt(m, r)
    <2>1. LinkedAt(n, r) /\ NodeAt(m, r) = NodeAt(n, r)
      BY <1>1, OfTrees
    <2> QED BY <1>1, <2>1 DEF LinkedAt
  <1>3. LinkedAt(m, new)
    <2>1. ToSet(x.kids) = {}
      BY DEF ToSet
    <2> QED BY <1>1, <2>1 DEF LinkedAt
  <1>4. Trees(m)
    BY <1>1, <1>2, <1>3 DEF Trees
  <1>5. \A r \in MadeIn(n) : TopIn(m)[r] = TopIn(n)[r]
    <2>1. MadeIn(n) \subseteq MadeIn(m) /\ \A r \in MadeIn(n) : NodeAt(m, r).up = NodeAt(n, r).up
      BY <1>1
    <2> QED BY <2>1, <1>4, TopsKept
  <1>6. TopIn(m)[new] = new
    BY <1>1, <1>4, TopIs
  <1> QED BY <1>1, <1>4, <1>5, <1>6 DEF Follows, Same

\* One node is another one.
WithAt(n, c, y) == [n EXCEPT ![c[1]] = [n[c[1]] EXCEPT ![c[2]] = y]]

\* One node changes, the others do not.
LEMMA NodeChanged ==
  ASSUME NEW n, Nodes(n), NEW c \in MadeIn(n), NEW y \in NodeMembers, NEW m, m = WithAt(n, c, y)
  PROVE  /\ Nodes(m) /\ MadeIn(m) = MadeIn(n) /\ NodeAt(m, c) = y
         /\ \A t \in Threads : Len(m[t]) = Len(n[t])
         /\ \A r \in MadeIn(n) : r # c => NodeAt(m, r) = NodeAt(n, r)
  <1> DEFINE a == c[1]
             z == [n[a] EXCEPT ![c[2]] = y]
  <1>1. /\ a \in Threads /\ c[2] \in 1 .. Len(n[a]) /\ c = <<a, c[2]>>
        /\ n \in [Threads -> Seq(NodeMembers)] /\ n[a] \in Seq(NodeMembers)
        /\ DOMAIN n[a] = 1 .. Len(n[a])
    BY MadeAre DEF Nodes
  <1>2. z \in Seq(NodeMembers) /\ Len(z) = Len(n[a])
    <2> HIDE DEF a
    <2>1. c[2] \in 1 .. Len(n[a])
      BY <1>1
    <2> QED BY <1>1, <2>1, ExceptSeq
  <1>3. z[c[2]] = y /\ \A i \in 1 .. Len(n[a]) : i # c[2] => z[i] = n[a][i]
    BY <1>1
  <1>4. m = [n EXCEPT ![a] = z]
    BY DEF WithAt
  <1> HIDE DEF a, z
  <1>5. /\ m \in [Threads -> Seq(NodeMembers)] /\ m[a] = z
        /\ \A u \in Threads \ {a} : m[u] = n[u]
    BY <1>1, <1>2, <1>4
  <1>6. Nodes(m) /\ \A u \in Threads : Len(m[u]) = Len(n[u])
    BY <1>2, <1>5 DEF Nodes
  <1>7. NodeAt(m, c) = y
    BY <1>3, <1>5 DEF NodeAt, a
  <1>8. ASSUME NEW r \in MadeIn(n), r # c PROVE NodeAt(m, r) = NodeAt(n, r)
    <2>1. r = <<r[1], r[2]>> /\ r[1] \in Threads /\ r[2] \in 1 .. Len(n[r[1]])
      BY MadeAre
    <2>2. CASE r[1] = a
      <3>1. r[2] # c[2]
        BY <1>1, <1>8, <2>1, <2>2
      <3>2. z[r[2]] = n[a][r[2]]
        BY <1>3, <2>1, <2>2, <3>1
      <3> QED BY <1>5, <2>2, <3>2 DEF NodeAt
    <2>3. CASE r[1] # a
      BY <1>5, <2>1, <2>3 DEF NodeAt
    <2> QED BY <2>2, <2>3
  <1>9. MadeIn(m) = MadeIn(n)
    <2>1. \A r : r \in MadeIn(m) <=> r \in Refs /\ r[2] <= Len(m[r[1]])
      BY <1>6, MadeAre
    <2>2. \A r : r \in MadeIn(n) <=> r \in Refs /\ r[2] <= Len(n[r[1]])
      BY MadeAre
    <2>3. \A r \in Refs : r[1] \in Threads
      BY DEF Refs
    <2>4. \A r : r \in MadeIn(m) <=> r \in MadeIn(n)
      BY <2>1, <2>2, <2>3, <1>6
    <2> QED BY <2>4
  <1> QED BY <1>6, <1>7, <1>8, <1>9

\* A record x of t below c, and c with it as its last child.
WithChild(n, t, x, c) ==
  [WithNode(n, t, x) EXCEPT ![c[1]][c[2]].kids = Append(@, NextRef(n, t))]

\* A record is made below c and linked to it.
LEMMA TreesRecorded ==
  ASSUME NEW n, Trees(n), NEW t \in Threads, NEW c \in MadeIn(n), NEW x \in NodeMembers,
         x.up = c, ~x.dummy, x.tid = t, x.kids = <<>>, x.key[2] = x.depth,
         x.depth = NodeAt(n, c).depth + 1, x.depth <= MaxDepth + 1,
         NEW new, new = NextRef(n, t),
         NEW m, m = WithChild(n, t, x, c)
  PROVE  /\ Trees(m) /\ Follows(n, m, Null)
         /\ MadeIn(m) = MadeIn(n) \cup {new} /\ new \notin MadeIn(n) /\ new \in Refs
         /\ \A r \in MadeIn(n) : /\ Same(n, m, r) /\ NodeAt(m, r).up = NodeAt(n, r).up
                                 /\ NodeAt(m, r).laps = NodeAt(n, r).laps
                                 /\ TopIn(m)[r] = TopIn(n)[r]
         /\ NodeAt(m, new) = x /\ TopIn(m)[new] = TopIn(n)[c]
  <1> DEFINE k == WithNode(n, t, x)
             y == [NodeAt(n, c) EXCEPT !.kids = Append(NodeAt(n, c).kids, new)]
  <1>0. n \in [Threads -> Seq(NodeMembers)] /\ Nodes(n)
    BY DEF Trees, Nodes
  <1>1. /\ Nodes(k) /\ MadeIn(k) = MadeIn(n) \cup {new} /\ new \notin MadeIn(n)
        /\ new \in Refs /\ NodeAt(k, new) = x
        /\ \A r \in MadeIn(n) : NodeAt(k, r) = NodeAt(n, r)
    <2>1. k = WithNode(n, t, x)
      OBVIOUS
    <2> HIDE DEF k
    <2> QED BY <1>0, <2>1, MadeAppended
  <1>2. /\ c \in Refs /\ c[1] \in Threads /\ c[2] \in 1 .. Len(k[c[1]]) /\ c = <<c[1], c[2]>>
        /\ NodeAt(n, c) \in NodeMembers /\ LinkedAt(n, c) /\ c # new /\ c # Null
    BY <1>1, MadeAre, OfTrees
  <1>3. m = [k EXCEPT ![c[1]][c[2]].kids = Append(@, new)]
    BY DEF WithChild
  <1> HIDE DEF k
  <1>4. /\ NodeAt(n, c).kids \in Seq(Refs) /\ Append(NodeAt(n, c).kids, new) \in Seq(Refs)
        /\ ToSet(Append(NodeAt(n, c).kids, new)) = ToSet(NodeAt(n, c).kids) \cup {new}
    <2>1. NodeAt(n, c).kids \in Seq(Refs)
      BY <1>2 DEF NodeMembers
    <2> QED BY <2>1, <1>1, SetAppended
  <1>5. /\ y \in NodeMembers /\ y.kids = Append(NodeAt(n, c).kids, new) /\ y.up = NodeAt(n, c).up
        /\ y.key = NodeAt(n, c).key /\ y.depth = NodeAt(n, c).depth /\ y.tid = NodeAt(n, c).tid
        /\ y.dummy = NodeAt(n, c).dummy /\ y.of = NodeAt(n, c).of /\ y.laps = NodeAt(n, c).laps
    BY <1>2, <1>4 DEF NodeMembers
  <1>7. k[c[1]][c[2]] = NodeAt(n, c)
    BY <1>1 DEF NodeAt
  <1>8. m = WithAt(k, c, y)
    BY <1>3, <1>7 DEF WithAt
  <1> HIDE DEF y
  <1>9. c \in MadeIn(k)
    BY <1>1
  <1>10. /\ Nodes(m) /\ MadeIn(m) = MadeIn(k) /\ NodeAt(m, c) = y
         /\ \A r \in MadeIn(k) : r # c => NodeAt(m, r) = NodeAt(k, r)
    BY <1>1, <1>5, <1>8, <1>9, NodeChanged
  <1>11. MadeIn(m) = MadeIn(n) \cup {new}
    BY <1>1, <1>10
  <1>12. NodeAt(m, new) = x
    BY <1>1, <1>2, <1>10
  <1>13. \A r \in MadeIn(n) : r # c => NodeAt(m, r) = NodeAt(n, r)
    BY <1>1, <1>10
  <1>14. ASSUME NEW r \in MadeIn(n)
         PROVE  /\ Same(n, m, r) /\ NodeAt(m, r).up = NodeAt(n, r).up
                /\ NodeAt(m, r).laps = NodeAt(n, r).laps
                /\ r = c => ToSet(NodeAt(m, r).kids) = ToSet(NodeAt(n, r).kids) \cup {new}
                /\ r # c => ToSet(NodeAt(m, r).kids) = ToSet(NodeAt(n, r).kids)
    <2>1. CASE r = c
      <3>1. NodeAt(m, r) = y
        BY <1>10, <2>1
      <3>2. ToSet(y.kids) = ToSet(NodeAt(n, r).kids) \cup {new}
        BY <1>4, <1>5, <2>1
      <3> QED BY <1>5, <2>1, <3>1, <3>2 DEF Same
    <2>2. CASE r # c
      BY <1>13, <2>2 DEF Same
    <2> QED BY <2>1, <2>2
  <1>15. ASSUME NEW r \in MadeIn(n) PROVE LinkedAt(m, r)
    <2>1. LinkedAt(n, r)
      BY OfTrees
    <2>2. ASSUME NodeAt(n, r).up # Null
          PROVE  /\ NodeAt(m, r).up \in MadeIn(m) /\ r \in ToSet(NodeAt(m, NodeAt(m, r).up).kids)
                 /\ NodeAt(m, r).depth = NodeAt(m, NodeAt(m, r).up).depth + 1
      <3> DEFINE p == NodeAt(n, r).up
      <3>1. /\ p \in MadeIn(n) /\ r \in ToSet(NodeAt(n, p).kids)
            /\ NodeAt(n, r).depth = NodeAt(n, p).depth + 1
        BY <2>1, <2>2 DEF LinkedAt
      <3> HIDE DEF p
      <3>2. r \in ToSet(NodeAt(m, p).kids) /\ NodeAt(m, p).depth = NodeAt(n, p).depth
        <4>1. Same(n, m, p) /\ ToSet(NodeAt(n, p).kids) \subseteq ToSet(NodeAt(m, p).kids)
          BY <3>1, <1>14
        <4> QED BY <3>1, <4>1 DEF Same
      <3>3. NodeAt(m, r).up = p /\ NodeAt(m, r).depth = NodeAt(n, r).depth
        BY <1>14 DEF p, Same
      <3> QED BY <3>1, <3>2, <3>3, <1>11
    <2>3. ASSUME NEW q \in ToSet(NodeAt(m, r).kids) PROVE q \in MadeIn(m) /\ NodeAt(m, q).up = r
      <3>1. CASE q = new
        <4>1. r = c
          <5>1. ASSUME r # c PROVE FALSE
            <6>1. q \in ToSet(NodeAt(n, r).kids)
              <7>1. ToSet(NodeAt(m, r).kids) = ToSet(NodeAt(n, r).kids)
                BY <1>14, <5>1
              <7> QED BY <7>1, <2>3
            <6>2. q \in MadeIn(n)
              BY <6>1, <2>1 DEF LinkedAt
            <6> QED BY <6>2, <3>1, <1>1
          <5> QED BY <5>1
        <4> QED BY <3>1, <4>1, <1>11, <1>12
      <3>2. CASE q # new
        <4>1. q \in ToSet(NodeAt(n, r).kids)
          <5>1. ToSet(NodeAt(m, r).kids) \subseteq ToSet(NodeAt(n, r).kids) \cup {new}
            BY <1>14
          <5> QED BY <5>1, <2>3, <3>2
        <4>2. q \in MadeIn(n) /\ NodeAt(n, q).up = r
          BY <4>1, <2>1 DEF LinkedAt
        <4> QED BY <4>2, <1>11, <1>14
      <3> QED BY <3>1, <3>2
    <2>4. /\ NodeAt(m, r).key[2] = NodeAt(m, r).depth /\ NodeAt(m, r).depth <= MaxDepth + 1
          /\ NodeAt(m, r).dummy <=> NodeAt(m, r).up = Null
          /\ ~NodeAt(m, r).dummy => NodeAt(m, r).tid = r[1]
      BY <2>1, <1>14 DEF LinkedAt, Same
    <2> QED BY <1>14, <2>2, <2>3, <2>4 DEF LinkedAt
  <1>16. LinkedAt(m, new)
    <2>1. NodeAt(m, c).depth = NodeAt(n, c).depth /\ new \in ToSet(NodeAt(m, c).kids)
      <3>1. Same(n, m, c) /\ ToSet(NodeAt(m, c).kids) = ToSet(NodeAt(n, c).kids) \cup {new}
        BY <1>14
      <3> QED BY <3>1 DEF Same
    <2>2. ToSet(x.kids) = {}
      BY DEF ToSet
    <2>3. new[1] = t
      BY DEF NextRef
    <2>4. /\ NodeAt(m, new).up = c /\ NodeAt(m, new).depth = x.depth /\ NodeAt(m, new).key = x.key
          /\ NodeAt(m, new).dummy = x.dummy /\ NodeAt(m, new).tid = t
          /\ ToSet(NodeAt(m, new).kids) = {}
      BY <1>12, <2>2
    <2>5. c \in MadeIn(m) /\ NodeAt(m, new).depth = NodeAt(m, c).depth + 1
      BY <1>11, <2>1, <2>4
    <2> QED BY <1>2, <2>1, <2>3, <2>4, <2>5 DEF LinkedAt
  <1>17. Trees(m)
    BY <1>10, <1>11, <1>15, <1>16 DEF Trees
  <1>18. \A r \in MadeIn(n) : TopIn(m)[r] = TopIn(n)[r]
    <2>1. MadeIn(n) \subseteq MadeIn(m) /\ \A r \in MadeIn(n) : NodeAt(m, r).up = NodeAt(n, r).up
      BY <1>11, <1>14
    <2> QED BY <2>1, <1>17, TopsKept
  <1>19. TopIn(m)[new] = TopIn(n)[c]
    <2>1. new \in MadeIn(m) /\ NodeAt(m, new).up = c /\ c # Null
      BY <1>2, <1>11, <1>12
    <2>2. TopIn(m)[new] = TopIn(m)[c]
      BY <2>1, <1>17, TopIs
    <2> QED BY <2>2, <1>18
  <1> QED BY <1>1, <1>11, <1>12, <1>14, <1>17, <1>18, <1>19 DEF Follows

-----------------------------------------------------------------------------
(* The children of a bookmark move.                                        *)

\* The nodes with q as the parent of those in K.
LiftedTo(n, K, q) ==
  [t \in Threads |-> [i \in DOMAIN n[t] |->
     IF <<t, i>> \in K THEN [n[t][i] EXCEPT !.up = q] ELSE n[t][i]]]

\* Nodes that get a new parent are still nodes.
LEMMA NodesLifted ==
  ASSUME NEW n, Nodes(n), NEW K, NEW q \in Refs, NEW m, m = LiftedTo(n, K, q)
  PROVE  /\ Nodes(m) /\ MadeIn(m) = MadeIn(n)
         /\ \A r \in MadeIn(n) : NodeAt(m, r) = IF r \in K THEN [NodeAt(n, r) EXCEPT !.up = q]
                                                ELSE NodeAt(n, r)
  <1>1. n \in [Threads -> Seq(NodeMembers)]
    BY DEF Nodes
  <1>2. ASSUME NEW t \in Threads
        PROVE  m[t] \in Seq(NodeMembers) /\ DOMAIN m[t] = DOMAIN n[t] /\ Len(m[t]) = Len(n[t])
    <2> DEFINE p == n[t]
               l == Len(n[t])
    <2>1. /\ p \in Seq(NodeMembers) /\ l \in Nat /\ DOMAIN p = 1 .. l
          /\ \A i \in 1 .. l : p[i] \in NodeMembers
      BY <1>1, LenProperties, ElementOfSeq
    <2>2. m[t] = [i \in DOMAIN p |-> IF <<t, i>> \in K THEN [p[i] EXCEPT !.up = q] ELSE p[i]]
      BY DEF LiftedTo
    <2> HIDE DEF p, l
    <2>3. ASSUME NEW i \in 1 .. l
          PROVE  (IF <<t, i>> \in K THEN [p[i] EXCEPT !.up = q] ELSE p[i]) \in NodeMembers
      BY <2>1 DEF NodeMembers, RefOrNull
    <2>4. m[t] \in [1 .. l -> NodeMembers]
      BY <2>1, <2>2, <2>3
    <2>5. m[t] \in Seq(NodeMembers)
      BY <2>1, <2>4, SeqDef
    <2>6. DOMAIN m[t] = 1 .. l
      BY <2>4
    <2>7. Len(m[t]) = l
      BY <2>1, <2>5, <2>6, LenProperties
    <2> QED BY <2>1, <2>5, <2>6, <2>7 DEF p, l
  <1>3. m = [t \in Threads |-> m[t]]
    BY DEF LiftedTo
  <1>4. Nodes(m)
    BY <1>2, <1>3 DEF Nodes
  <1>5. MadeIn(m) = MadeIn(n)
    BY <1>2 DEF MadeIn
  <1>6. ASSUME NEW r \in MadeIn(n)
        PROVE  NodeAt(m, r) = IF r \in K THEN [NodeAt(n, r) EXCEPT !.up = q] ELSE NodeAt(n, r)
    <2>1. r[1] \in Threads /\ r[2] \in DOMAIN n[r[1]] /\ r = <<r[1], r[2]>>
      BY MadeAre
    <2>2. m[r[1]][r[2]] = IF <<r[1], r[2]>> \in K THEN [n[r[1]][r[2]] EXCEPT !.up = q]
                          ELSE n[r[1]][r[2]]
      BY <2>1 DEF LiftedTo
    <2> QED BY <2>1, <2>2 DEF NodeAt
  <1> QED BY <1>4, <1>5, <1>6

\* What the nodes are after all children of f, the set K, moved below q.
Lifted(n, m, f, K, q) ==
  /\ Nodes(m) /\ MadeIn(m) = MadeIn(n)
  /\ \A r \in MadeIn(n) :
       /\ Same(n, m, r) /\ NodeAt(m, r).laps = NodeAt(n, r).laps
       /\ NodeAt(m, r).up = IF r \in K THEN q ELSE NodeAt(n, r).up
       /\ r = f => ToSet(NodeAt(m, r).kids) = {}
       /\ r = q => ToSet(NodeAt(m, r).kids) = ToSet(NodeAt(n, r).kids) \cup K
       /\ r # f /\ r # q => ToSet(NodeAt(m, r).kids) = ToSet(NodeAt(n, r).kids)

\* All children of f are moved below q.
LEMMA NodesMoved ==
  ASSUME NEW n, Trees(n), NEW f \in MadeIn(n), NEW q \in MadeIn(n), q # f, NEW kids \in Seq(Refs),
         ToSet(kids) = ToSet(NodeAt(n, f).kids), NEW m, m = Moved(n, f, kids, q)
  PROVE  Lifted(n, m, f, ToSet(kids), q)
  <1> DEFINE K == ToSet(kids)
             own == NodeAt(n, f).kids
             rest == Only(own, ToSet(own) \ K)
             y == [NodeAt(n, f) EXCEPT !.kids = rest]
             cut == WithAt(n, f, y)
             up == LiftedTo(cut, K, q)
             z == [NodeAt(up, q) EXCEPT !.kids = NodeAt(up, q).kids \o kids]
  <1>1. /\ Nodes(n) /\ NodeAt(n, f) \in NodeMembers /\ NodeAt(n, q) \in NodeMembers
        /\ f \in Refs /\ q \in Refs /\ f # Null /\ own \in Seq(Refs)
    BY OfTrees DEF NodeMembers
  <1>2. rest \in Seq(Refs) /\ ToSet(rest) = {}
    <2>1. rest \in Seq(Refs) /\ ToSet(rest) = ToSet(own) \cap (ToSet(own) \ K)
      BY <1>1, OnlyAre
    <2> QED BY <2>1
  <1>3. m = WithAt(up, q, z)
    <2>1. [n EXCEPT ![f[1]][f[2]].kids = Only(@, ToSet(@) \ ToSet(kids))] = cut
      BY DEF WithAt, NodeAt
    <2>2. DOMAIN cut = DOMAIN n /\ \A t \in Threads : DOMAIN cut[t] = DOMAIN n[t]
      BY <1>1, MadeAre DEF WithAt, Nodes
    <2> HIDE DEF cut
    <2>3. [t \in Threads |-> [i \in DOMAIN n[t] |->
             IF <<t, i>> \in ToSet(kids) THEN [cut[t][i] EXCEPT !.up = q] ELSE cut[t][i]]] = up
      BY <2>2 DEF LiftedTo
    <2> HIDE DEF up
    <2> DEFINE c == IF f = Null THEN n
                    ELSE [n EXCEPT ![f[1]][f[2]].kids = Only(@, ToSet(@) \ ToSet(kids))]
               l == [t \in Threads |-> [i \in DOMAIN n[t] |->
                       IF <<t, i>> \in ToSet(kids) THEN [c[t][i] EXCEPT !.up = q] ELSE c[t][i]]]
    <2>4. m = [l EXCEPT ![q[1]][q[2]].kids = @ \o kids]
      BY DEF Moved
    <2>5. c = cut
      BY <1>1, <2>1
    <2> HIDE DEF c
    <2>6. l = up
      BY <2>3, <2>5
    <2> HIDE DEF l
    <2> QED BY <2>4, <2>6 DEF WithAt, NodeAt
  <1>4. /\ y \in NodeMembers /\ y.kids = rest /\ y.up = NodeAt(n, f).up
        /\ y.key = NodeAt(n, f).key /\ y.depth = NodeAt(n, f).depth /\ y.tid = NodeAt(n, f).tid
        /\ y.dummy = NodeAt(n, f).dummy /\ y.of = NodeAt(n, f).of /\ y.laps = NodeAt(n, f).laps
    <2> HIDE DEF rest
    <2> QED BY <1>1, <1>2 DEF NodeMembers
  <1> HIDE DEF y, K, rest, own
  <1>5. /\ Nodes(cut) /\ MadeIn(cut) = MadeIn(n) /\ NodeAt(cut, f) = y
        /\ \A r \in MadeIn(n) : r # f => NodeAt(cut, r) = NodeAt(n, r)
    <2>1. cut = WithAt(n, f, y)
      OBVIOUS
    <2> HIDE DEF cut
    <2> QED BY <2>1, <1>1, <1>4, NodeChanged
  <1> HIDE DEF cut
  <1>6. /\ Nodes(up) /\ MadeIn(up) = MadeIn(n)
        /\ \A r \in MadeIn(n) : NodeAt(up, r) = IF r \in K THEN [NodeAt(cut, r) EXCEPT !.up = q]
                                                ELSE NodeAt(cut, r)
    <2>1. up = LiftedTo(cut, K, q)
      OBVIOUS
    <2> HIDE DEF up
    <2> QED BY <2>1, <1>1, <1>5, NodesLifted
  <1> HIDE DEF up
  <1>7. ASSUME NEW r \in MadeIn(n)
        PROVE  /\ Same(n, up, r) /\ NodeAt(up, r).laps = NodeAt(n, r).laps
               /\ NodeAt(up, r).up = IF r \in K THEN q ELSE NodeAt(n, r).up
               /\ r = f => ToSet(NodeAt(up, r).kids) = {}
               /\ r # f => NodeAt(up, r).kids = NodeAt(n, r).kids
               /\ NodeAt(up, r) \in NodeMembers
    <2> DEFINE x == NodeAt(cut, r)
    <2>1. /\ x \in NodeMembers /\ x.laps = NodeAt(n, r).laps /\ x.up = NodeAt(n, r).up
          /\ x.key = NodeAt(n, r).key /\ x.depth = NodeAt(n, r).depth
          /\ x.tid = NodeAt(n, r).tid /\ x.dummy = NodeAt(n, r).dummy /\ x.of = NodeAt(n, r).of
          /\ r = f => x.kids = rest
          /\ r # f => x.kids = NodeAt(n, r).kids
      <3>1. CASE r = f
        BY <3>1, <1>4, <1>5
      <3>2. CASE r # f
        BY <3>2, <1>1, <1>5, MadeAre
      <3> QED BY <3>1, <3>2
    <2>2. NodeAt(up, r) = IF r \in K THEN [x EXCEPT !.up = q] ELSE x
      BY <1>6
    <2>3. NodeAt(up, r) \in NodeMembers
      BY <1>6, MadeAre
    <2> HIDE DEF x
    <2>4. /\ r = f => ToSet(x.kids) = {}
          /\ r # f => x.kids = NodeAt(n, r).kids
      BY <2>1, <1>2
    <2>5. CASE r \in K
      <3>1. /\ NodeAt(up, r).key = x.key /\ NodeAt(up, r).depth = x.depth
            /\ NodeAt(up, r).tid = x.tid /\ NodeAt(up, r).dummy = x.dummy
            /\ NodeAt(up, r).of = x.of /\ NodeAt(up, r).laps = x.laps
            /\ NodeAt(up, r).kids = x.kids /\ NodeAt(up, r).up = q
        BY <2>1, <2>2, <2>5 DEF NodeMembers
      <3>2. Same(n, up, r)
        BY <2>1, <3>1 DEF Same
      <3>3. r = f => ToSet(NodeAt(up, r).kids) = {}
        BY <2>4, <3>1
      <3>4. r # f => NodeAt(up, r).kids = NodeAt(n, r).kids
        BY <2>4, <3>1
      <3> QED BY <2>1, <2>3, <2>5, <3>1, <3>2, <3>3, <3>4
    <2>6. CASE r \notin K
      <3>1. NodeAt(up, r) = x
        BY <2>2, <2>6
      <3>2. Same(n, up, r)
        BY <2>1, <3>1 DEF Same
      <3>3. r = f => ToSet(NodeAt(up, r).kids) = {}
        BY <2>4, <3>1
      <3>4. r # f => NodeAt(up, r).kids = NodeAt(n, r).kids
        BY <2>4, <3>1
      <3> QED BY <2>1, <2>3, <2>6, <3>1, <3>2, <3>3, <3>4
    <2> QED BY <2>5, <2>6
  <1>8. /\ NodeAt(up, q).kids \in Seq(Refs) /\ NodeAt(up, q).kids \o kids \in Seq(Refs)
        /\ ToSet(NodeAt(up, q).kids \o kids) = ToSet(NodeAt(n, q).kids) \cup K
    <2>1. NodeAt(up, q).kids \in Seq(Refs) /\ NodeAt(up, q).kids = NodeAt(n, q).kids
      BY <1>7 DEF NodeMembers
    <2> QED BY <2>1, SetJoined DEF K
  <1>9. /\ z \in NodeMembers /\ z.kids = NodeAt(up, q).kids \o kids /\ z.up = NodeAt(up, q).up
        /\ z.key = NodeAt(up, q).key /\ z.depth = NodeAt(up, q).depth /\ z.tid = NodeAt(up, q).tid
        /\ z.dummy = NodeAt(up, q).dummy /\ z.of = NodeAt(up, q).of
        /\ z.laps = NodeAt(up, q).laps
    <2> DEFINE j == NodeAt(up, q).kids \o kids
               u == NodeAt(up, q)
    <2>1. j \in Seq(Refs) /\ u \in NodeMembers
      BY <1>7, <1>8
    <2> HIDE DEF j, u
    <2>2. LET v == [u EXCEPT !.kids = j] IN
          /\ v \in NodeMembers /\ v.kids = j /\ v.up = u.up /\ v.key = u.key /\ v.depth = u.depth
          /\ v.tid = u.tid /\ v.dummy = u.dummy /\ v.of = u.of /\ v.laps = u.laps
      BY <2>1 DEF NodeMembers
    <2> QED BY <2>2 DEF j, u
  <1> HIDE DEF z
  <1>10. /\ Nodes(m) /\ MadeIn(m) = MadeIn(n) /\ NodeAt(m, q) = z
         /\ \A r \in MadeIn(n) : r # q => NodeAt(m, r) = NodeAt(up, r)
    <2>1. q \in MadeIn(up)
      BY <1>6
    <2> QED BY <2>1, <1>3, <1>6, <1>9, NodeChanged
  <1>11. ASSUME NEW r \in MadeIn(n)
         PROVE  /\ Same(n, m, r) /\ NodeAt(m, r).laps = NodeAt(n, r).laps
                /\ NodeAt(m, r).up = IF r \in K THEN q ELSE NodeAt(n, r).up
                /\ r = f => ToSet(NodeAt(m, r).kids) = {}
                /\ r = q => ToSet(NodeAt(m, r).kids) = ToSet(NodeAt(n, r).kids) \cup K
                /\ r # f /\ r # q => ToSet(NodeAt(m, r).kids) = ToSet(NodeAt(n, r).kids)
    <2>1. CASE r = q
      <3>1. NodeAt(m, r) = z /\ Same(n, up, q)
        BY <2>1, <1>7, <1>10
      <3>2. ToSet(z.kids) = ToSet(NodeAt(n, q).kids) \cup K
        BY <1>8, <1>9
      <3>3. z.laps = NodeAt(n, q).laps /\ z.up = IF q \in K THEN q ELSE NodeAt(n, q).up
        BY <1>7, <1>9
      <3>4. Same(n, m, r)
        BY <2>1, <3>1, <1>9 DEF Same
      <3> QED BY <2>1, <3>1, <3>2, <3>3, <3>4
    <2>2. CASE r # q
      <3>1. NodeAt(m, r) = NodeAt(up, r) /\ Same(n, up, r)
        BY <2>2, <1>7, <1>10
      <3>2. Same(n, m, r)
        BY <3>1 DEF Same
      <3> QED BY <2>2, <3>1, <3>2, <1>7
    <2> QED BY <2>1, <2>2
  <1> QED BY <1>10, <1>11 DEF K, Lifted

\* Below a bookmark f nothing is left, and what was there is below q.
LEMMA TreesMoved ==
  ASSUME NEW n, Trees(n), NEW f \in MadeIn(n), NodeAt(n, f).up = Null, NEW q \in MadeIn(n),
         TopIn(n)[q] # f, NodeAt(n, q).depth = NodeAt(n, f).depth, NEW kids \in Seq(Refs),
         ToSet(kids) = ToSet(NodeAt(n, f).kids), NEW m, m = Moved(n, f, kids, q)
  PROVE  /\ Trees(m) /\ MadeIn(m) = MadeIn(n) /\ Follows(n, m, f)
         /\ \A r \in MadeIn(n) :
              /\ NodeAt(m, r).laps = NodeAt(n, r).laps
              /\ TopIn(m)[r] = IF TopIn(n)[r] = f /\ r # f THEN TopIn(n)[q] ELSE TopIn(n)[r]
              /\ NodeAt(n, r).up # f => NodeAt(m, r).up = NodeAt(n, r).up
              /\ NodeAt(n, r).up = f => NodeAt(m, r).up = q
  <1> DEFINE K == ToSet(kids)
  <1> HIDE DEF K
  <1>1. TopIn(n)[f] = f /\ q # f /\ f # Null /\ q # Null
    BY TopIs, OfTrees
  <1>2. /\ Nodes(m) /\ MadeIn(m) = MadeIn(n)
        /\ \A r \in MadeIn(n) :
              /\ Same(n, m, r) /\ NodeAt(m, r).laps = NodeAt(n, r).laps
              /\ NodeAt(m, r).up = IF r \in K THEN q ELSE NodeAt(n, r).up
              /\ r = f => ToSet(NodeAt(m, r).kids) = {}
              /\ r = q => ToSet(NodeAt(m, r).kids) = ToSet(NodeAt(n, r).kids) \cup K
              /\ r # f /\ r # q => ToSet(NodeAt(m, r).kids) = ToSet(NodeAt(n, r).kids)
    <2>1. Lifted(n, m, f, ToSet(kids), q)
      BY <1>1, NodesMoved
    <2> QED BY <2>1 DEF K, Lifted
  <1>3. \A r \in MadeIn(n) : r \in K <=> NodeAt(n, r).up = f
    <2>1. LinkedAt(n, f) /\ \A r \in MadeIn(n) : LinkedAt(n, r)
      BY OfTrees
    <2>2. K = ToSet(NodeAt(n, f).kids)
      BY DEF K
    <2> QED BY <2>1, <2>2, <1>1 DEF LinkedAt
  <1>4. ASSUME NEW r \in MadeIn(n)
        PROVE  /\ NodeAt(n, r).up # f => NodeAt(m, r).up = NodeAt(n, r).up
               /\ NodeAt(n, r).up = f => NodeAt(m, r).up = q
    BY <1>2, <1>3
  <1>5. \A r \in MadeIn(n) : NodeAt(m, r).depth = NodeAt(n, r).depth
    BY <1>2 DEF Same
  <1>6. ASSUME NEW r \in MadeIn(n) PROVE LinkedAt(m, r)
    <2>1. LinkedAt(n, r) /\ Same(n, m, r)
      BY <1>2, OfTrees
    <2>2. /\ NodeAt(m, r).key[2] = NodeAt(m, r).depth /\ NodeAt(m, r).depth <= MaxDepth + 1
          /\ NodeAt(m, r).dummy <=> NodeAt(m, r).up = Null
          /\ ~NodeAt(m, r).dummy => NodeAt(m, r).tid = r[1]
      BY <2>1, <1>1, <1>4 DEF LinkedAt, Same
    <2>3. ASSUME NodeAt(m, r).up # Null
          PROVE  /\ NodeAt(m, r).up \in MadeIn(m) /\ r \in ToSet(NodeAt(m, NodeAt(m, r).up).kids)
                 /\ NodeAt(m, r).depth = NodeAt(m, NodeAt(m, r).up).depth + 1
      <3>1. CASE NodeAt(n, r).up = f
        <4>1. r \in K /\ NodeAt(m, r).up = q /\ NodeAt(n, r).depth = NodeAt(n, f).depth + 1
          BY <3>1, <1>1, <1>3, <1>4, <2>1 DEF LinkedAt
        <4>2. K \subseteq ToSet(NodeAt(m, q).kids)
          BY <1>2
        <4> QED BY <4>1, <4>2, <1>2, <1>5
      <3>2. CASE NodeAt(n, r).up # f
        <4> DEFINE p == NodeAt(n, r).up
        <4>1. /\ NodeAt(m, r).up = p /\ p # Null /\ p \in MadeIn(n) /\ p # f
              /\ r \in ToSet(NodeAt(n, p).kids) /\ NodeAt(n, r).depth = NodeAt(n, p).depth + 1
          BY <2>1, <2>3, <3>2, <1>4 DEF LinkedAt
        <4> HIDE DEF p
        <4>2. ToSet(NodeAt(n, p).kids) \subseteq ToSet(NodeAt(m, p).kids)
          <5>1. CASE p = q
            BY <5>1, <1>2
          <5>2. CASE p # q
            BY <5>2, <4>1, <1>2
          <5> QED BY <5>1, <5>2
        <4> QED BY <4>1, <4>2, <1>2, <1>5
      <3> QED BY <3>1, <3>2
    <2>4. ASSUME NEW s \in ToSet(NodeAt(m, r).kids) PROVE s \in MadeIn(m) /\ NodeAt(m, s).up = r
      <3>1. CASE r = q /\ s \in K
        <4>1. s \in MadeIn(n)
          <5>1. LinkedAt(n, f) /\ s \in ToSet(NodeAt(n, f).kids)
            BY <3>1, OfTrees DEF K
          <5> QED BY <5>1 DEF LinkedAt
        <4> QED BY <4>1, <3>1, <1>2
      <3>2. CASE ~(r = q /\ s \in K)
        <4>1. r # f
          BY <1>2, <2>4
        <4>2. s \in ToSet(NodeAt(n, r).kids)
          <5>1. CASE r = q
            <6>1. ToSet(NodeAt(m, r).kids) = ToSet(NodeAt(n, r).kids) \cup K
              BY <1>2, <5>1
            <6> QED BY <6>1, <2>4, <3>2, <5>1
          <5>2. CASE r # q
            <6>1. ToSet(NodeAt(m, r).kids) = ToSet(NodeAt(n, r).kids)
              BY <1>2, <4>1, <5>2
            <6> QED BY <6>1, <2>4
          <5> QED BY <5>1, <5>2
        <4>3. s \in MadeIn(n) /\ NodeAt(n, s).up = r
          BY <2>1, <4>2 DEF LinkedAt
        <4> QED BY <4>1, <4>3, <1>2, <1>4
      <3> QED BY <3>1, <3>2
    <2> QED BY <2>2, <2>3, <2>4 DEF LinkedAt
  <1>7. Trees(m)
    BY <1>2, <1>6 DEF Trees
  <1> DEFINE Goes(r) == IF TopIn(n)[r] = f /\ r # f THEN TopIn(n)[q] ELSE TopIn(n)[r]
             B == {r \in MadeIn(n) : TopIn(m)[r] # Goes(r)}
  <1>8. ASSUME B # {} PROVE FALSE
    <2>1. PICK r \in B : \A s \in B : NodeAt(n, r).depth <= NodeAt(n, s).depth
      <3>1. B \subseteq MadeIn(n)
        OBVIOUS
      <3> HIDE DEF B
      <3> QED BY <3>1, <1>8, Shallowest
    <2> DEFINE p == NodeAt(n, r).up
               h == NodeAt(m, r).up
    <2>2. NodeAt(n, r).depth \in Nat /\ LinkedAt(n, r) /\ r \in MadeIn(m) /\ r \in MadeIn(n)
      BY <2>1, <1>2, OfTrees
    <2>3. /\ TopIn(n)[r] = IF p = Null THEN r ELSE TopIn(n)[p]
          /\ TopIn(m)[r] = IF h = Null THEN r ELSE TopIn(m)[h]
      BY <1>7, <2>2, TopIs
    <2>4. CASE p = Null
      <3>1. h = Null
        BY <1>1, <1>4, <2>2, <2>4
      <3> QED BY <2>1, <2>3, <2>4, <3>1
    <2>5. CASE p = f
      <3>1. h = q /\ NodeAt(n, r).depth = NodeAt(n, f).depth + 1 /\ r # f
        BY <1>1, <1>4, <2>2, <2>5 DEF LinkedAt
      <3>2. NodeAt(n, q).depth \in Nat
        BY OfTrees
      <3>3. q \notin B
        BY <2>1, <2>2, <3>1, <3>2
      <3>4. TopIn(m)[q] = TopIn(n)[q]
        BY <3>3
      <3>5. TopIn(n)[r] = f
        BY <1>1, <2>3, <2>5
      <3> QED BY <1>1, <2>1, <2>3, <3>1, <3>4, <3>5
    <2>6. CASE p # Null /\ p # f
      <3>1. h = p /\ p \in MadeIn(n) /\ NodeAt(n, r).depth = NodeAt(n, p).depth + 1
        BY <1>4, <2>2, <2>6 DEF LinkedAt
      <3>2. NodeAt(n, p).depth \in Nat
        BY <3>1, OfTrees
      <3>3. p \notin B
        BY <2>1, <2>2, <3>1, <3>2
      <3>4. TopIn(m)[p] = Goes(p) /\ TopIn(n)[r] = TopIn(n)[p] /\ TopIn(m)[r] = TopIn(m)[p]
        BY <2>3, <2>6, <3>1, <3>3
      <3>5. Goes(p) = Goes(r)
        <4>1. r # f
          BY <2>6
        <4> QED BY <4>1, <2>6, <3>4
      <3> QED BY <2>1, <3>4, <3>5
    <2> QED BY <2>4, <2>5, <2>6
  <1>9. \A r \in MadeIn(n) : TopIn(m)[r] = Goes(r)
    BY <1>8
  <1> QED BY <1>2, <1>4, <1>7, <1>9 DEF Follows

-----------------------------------------------------------------------------
(* Paths: the places of a node and its ancestors among their siblings.     *)

Place(n, r) == PlaceAmong(r, NodeAt(n, NodeAt(n, r).up).kids)

PathIn(n) ==
  LET path[r \in MadeIn(n)] ==
        IF NodeAt(n, r).up = Null THEN <<>>
        ELSE Append(path[NodeAt(n, r).up], PlaceAmong(r, NodeAt(n, NodeAt(n, r).up).kids))
  IN  path

\* The place of a member of a sequence is a place where it stands.
LEMMA PlaceIs ==
  ASSUME NEW S, NEW q \in Seq(S), NEW r \in ToSet(q)
  PROVE  PlaceAmong(r, q) \in Nat /\ q[PlaceAmong(r, q)] = r
  <1> DEFINE I == {i \in 1 .. Len(q) : q[i] = r}
  <1>1. Len(q) \in Nat /\ DOMAIN q = 1 .. Len(q)
    BY LenProperties
  <1>2. I # {} /\ I \subseteq Nat
    BY <1>1 DEF ToSet
  <1>3. PlaceAmong(r, q) = Min(I)
    BY <1>2 DEF PlaceAmong, SelectInSeq
  <1>4. Min(I) \in I
    <2> HIDE DEF I
    <2>1. \E x \in I : \A y \in I : x <= y
      BY <1>2, LeastNumber
    <2> QED BY <2>1 DEF Min
  <1> QED BY <1>2, <1>3, <1>4

\* A function that gives each node above a depth its path.
LEMMA PathsUpTo ==
  ASSUME NEW n, Trees(n), NEW d \in Nat
  PROVE  \E f : f = [r \in {x \in MadeIn(n) : NodeAt(n, x).depth < d} |->
                       IF NodeAt(n, r).up = Null THEN <<>>
                       ELSE Append(f[NodeAt(n, r).up], Place(n, r))]
  <1> DEFINE Near(k) == {x \in MadeIn(n) : NodeAt(n, x).depth < k}
             Gives(f, k) == f = [r \in Near(k) |->
                                   IF NodeAt(n, r).up = Null THEN <<>>
                                   ELSE Append(f[NodeAt(n, r).up], Place(n, r))]
             Lacking == {k \in Nat : ~\E f : Gives(f, k)}
  <1>1. ASSUME Lacking # {} PROVE FALSE
    <2>1. PICK k \in Lacking : \A j \in Lacking : k <= j
      <3>1. Lacking \subseteq Nat
        OBVIOUS
      <3> HIDE DEF Lacking
      <3> QED BY <3>1, <1>1, LeastNumber
    <2>2. k # 0
      <3>1. Near(0) = {}
        BY OfTrees
      <3>2. Gives([r \in {} |-> r], 0)
        BY <3>1
      <3> QED BY <2>1, <3>2
    <2>3. k - 1 \in Nat /\ ~(k <= k - 1)
      BY <2>1, <2>2
    <2>4. PICK g : Gives(g, k - 1)
      BY <2>1, <2>3
    <2> DEFINE f == [r \in Near(k) |-> IF NodeAt(n, r).up = Null THEN <<>>
                                       ELSE Append(g[NodeAt(n, r).up], Place(n, r))]
    <2>5. ASSUME NEW r \in Near(k), NodeAt(n, r).up # Null
          PROVE  f[NodeAt(n, r).up] = g[NodeAt(n, r).up]
      <3> DEFINE p == NodeAt(n, r).up
      <3>1. /\ p \in MadeIn(n) /\ NodeAt(n, r).depth = NodeAt(n, p).depth + 1
            /\ NodeAt(n, r).depth < k
        BY <2>5, OfTrees DEF LinkedAt
      <3>2. NodeAt(n, p).depth \in Nat /\ NodeAt(n, r).depth \in Nat
        BY <3>1, OfTrees
      <3> HIDE DEF p
      <3>3. p \in Near(k) /\ p \in Near(k - 1)
        BY <3>1, <3>2, <2>1, <2>3
      <3>4. g[p] = IF NodeAt(n, p).up = Null THEN <<>> ELSE Append(g[NodeAt(n, p).up], Place(n, p))
        BY <2>4, <3>3
      <3>5. f[p] = g[p]
        BY <3>3, <3>4
      <3> QED BY <3>5 DEF p
    <2>6. Gives(f, k)
      BY <2>5
    <2> QED BY <2>1, <2>6
  <1>2. \E f : Gives(f, d)
    BY <1>1
  <1> QED BY <1>2

\* The path of a node is its parent's and its own place.
LEMMA PathIs ==
  ASSUME NEW n, Trees(n)
  PROVE  \A r \in MadeIn(n) : PathIn(n)[r] = IF NodeAt(n, r).up = Null THEN <<>>
                                            ELSE Append(PathIn(n)[NodeAt(n, r).up], Place(n, r))
  <1> DEFINE d == MaxDepth + 2
             h == CHOOSE f : f = [r \in MadeIn(n) |->
                                    IF NodeAt(n, r).up = Null THEN <<>>
                                    ELSE Append(f[NodeAt(n, r).up],
                                                PlaceAmong(r, NodeAt(n, NodeAt(n, r).up).kids))]
  <1>1. d \in Nat
    BY CallGraphAssumption
  <1>2. MadeIn(n) = {x \in MadeIn(n) : NodeAt(n, x).depth < d}
    BY OfTrees, CallGraphAssumption DEF LinkedAt
  <1> HIDE DEF d
  <1>3. PICK f : f = [r \in {x \in MadeIn(n) : NodeAt(n, x).depth < d} |->
                        IF NodeAt(n, r).up = Null THEN <<>>
                        ELSE Append(f[NodeAt(n, r).up], Place(n, r))]
    BY <1>1, PathsUpTo
  <1>4. f = [r \in MadeIn(n) |-> IF NodeAt(n, r).up = Null THEN <<>>
                                 ELSE Append(f[NodeAt(n, r).up], Place(n, r))]
    BY <1>2, <1>3
  <1>5. f = [r \in MadeIn(n) |-> IF NodeAt(n, r).up = Null THEN <<>>
                                 ELSE Append(f[NodeAt(n, r).up],
                                             PlaceAmong(r, NodeAt(n, NodeAt(n, r).up).kids))]
    BY <1>4 DEF Place
  <1>6. h = [r \in MadeIn(n) |-> IF NodeAt(n, r).up = Null THEN <<>>
                                 ELSE Append(h[NodeAt(n, r).up],
                                             PlaceAmong(r, NodeAt(n, NodeAt(n, r).up).kids))]
    BY <1>5
  <1>7. PathIn(n) = h
    BY DEF PathIn
  <1> HIDE DEF h
  <1> QED BY <1>6, <1>7 DEF Place

\* A path has one place for each level below the top.
LEMMA PathsAre ==
  ASSUME NEW n, Trees(n), NEW top \in MadeIn(n), NodeAt(n, top).depth = 0
  PROVE  \A r \in MadeIn(n) : TopIn(n)[r] = top =>
           PathIn(n)[r] \in Seq(Nat) /\ Len(PathIn(n)[r]) = NodeAt(n, r).depth
  <1> DEFINE Good(r) == PathIn(n)[r] \in Seq(Nat) /\ Len(PathIn(n)[r]) = NodeAt(n, r).depth
             B == {r \in MadeIn(n) : TopIn(n)[r] = top /\ ~Good(r)}
  <1>1. ASSUME B # {} PROVE FALSE
    <2>1. PICK r \in B : \A q \in B : NodeAt(n, r).depth <= NodeAt(n, q).depth
      <3>1. B \subseteq MadeIn(n)
        OBVIOUS
      <3> HIDE DEF B
      <3> QED BY <3>1, <1>1, Shallowest
    <2> DEFINE p == NodeAt(n, r).up
    <2>2. NodeAt(n, r).depth \in Nat /\ LinkedAt(n, r)
      BY <2>1, OfTrees
    <2>3. CASE p = Null
      <3>1. TopIn(n)[r] = r /\ PathIn(n)[r] = <<>>
        BY <2>1, <2>3, TopIs, PathIs
      <3>2. <<>> \in Seq(Nat) /\ Len(<<>>) = 0
        OBVIOUS
      <3> QED BY <2>1, <3>1, <3>2
    <2>4. CASE p # Null
      <3>1. p \in MadeIn(n) /\ NodeAt(n, r).depth = NodeAt(n, p).depth + 1
            /\ r \in ToSet(NodeAt(n, p).kids)
        BY <2>2, <2>4 DEF LinkedAt
      <3>2. TopIn(n)[r] = TopIn(n)[p] /\ PathIn(n)[r] = Append(PathIn(n)[p], Place(n, r))
        BY <2>1, <2>4, TopIs, PathIs
      <3>3. NodeAt(n, p).depth \in Nat /\ NodeAt(n, p).kids \in Seq(Refs)
        BY <3>1, OfTrees DEF NodeMembers
      <3>4. p \notin B
        BY <2>1, <2>2, <3>1, <3>3
      <3>5. PathIn(n)[p] \in Seq(Nat) /\ Len(PathIn(n)[p]) = NodeAt(n, p).depth
        BY <2>1, <3>1, <3>2, <3>4
      <3>6. Place(n, r) \in Nat
        BY <3>1, <3>3, PlaceIs DEF Place
      <3>7. /\ Append(PathIn(n)[p], Place(n, r)) \in Seq(Nat)
            /\ Len(Append(PathIn(n)[p], Place(n, r))) = NodeAt(n, p).depth + 1
        BY <3>5, <3>6, AppendProperties
      <3> QED BY <2>1, <3>1, <3>2, <3>7
    <2> QED BY <2>3, <2>4
  <1> QED BY <1>1

\* Appended sequences are equal only if their parts are.
LEMMA AppendedEqual ==
  ASSUME NEW S, NEW a \in Seq(S), NEW b \in Seq(S), NEW x \in S, NEW y \in S,
         Append(a, x) = Append(b, y)
  PROVE  a = b /\ x = y
  <1>1. /\ Len(a) \in Nat /\ Len(b) \in Nat
        /\ Len(Append(a, x)) = Len(a) + 1 /\ Len(Append(b, y)) = Len(b) + 1
        /\ Append(a, x)[Len(a) + 1] = x /\ Append(b, y)[Len(b) + 1] = y
        /\ \A i \in 1 .. Len(a) : Append(a, x)[i] = a[i]
        /\ \A i \in 1 .. Len(b) : Append(b, y)[i] = b[i]
    BY AppendProperties, LenProperties
  <1>2. Len(a) = Len(b) /\ x = y
    BY <1>1
  <1>3. a = b
    BY <1>1, <1>2, SeqEqual
  <1> QED BY <1>2, <1>3

\* Below one top, a node is told by its path.
LEMMA PathsDiffer ==
  ASSUME NEW n, Trees(n), NEW top \in MadeIn(n), NodeAt(n, top).depth = 0,
         NEW r \in MadeIn(n), NEW s \in MadeIn(n), TopIn(n)[r] = top, TopIn(n)[s] = top,
         PathIn(n)[r] = PathIn(n)[s]
  PROVE  r = s
  <1> DEFINE Twin(x, y) == x # y /\ TopIn(n)[y] = top /\ PathIn(n)[x] = PathIn(n)[y]
             B == {x \in MadeIn(n) : TopIn(n)[x] = top /\ \E y \in MadeIn(n) : Twin(x, y)}
  <1>1. ASSUME B # {} PROVE FALSE
    <2>1. PICK x \in B : \A q \in B : NodeAt(n, x).depth <= NodeAt(n, q).depth
      <3>1. B \subseteq MadeIn(n)
        OBVIOUS
      <3> HIDE DEF B
      <3> QED BY <3>1, <1>1, Shallowest
    <2>2. PICK y \in MadeIn(n) : Twin(x, y)
      BY <2>1
    <2> DEFINE p == NodeAt(n, x).up
               h == NodeAt(n, y).up
    <2>3. /\ x \in MadeIn(n) /\ y \in MadeIn(n) /\ TopIn(n)[x] = top /\ TopIn(n)[y] = top
          /\ x # y /\ PathIn(n)[x] = PathIn(n)[y]
          /\ NodeAt(n, x).depth \in Nat /\ LinkedAt(n, x) /\ LinkedAt(n, y)
      BY <2>1, <2>2, OfTrees
    <2>4. NodeAt(n, x).depth = NodeAt(n, y).depth
      BY <2>3, PathsAre
    <2>5. ASSUME NEW z \in MadeIn(n), TopIn(n)[z] = top
          PROVE  NodeAt(n, z).up = Null <=> NodeAt(n, z).depth = 0
      <3>1. NodeAt(n, z).depth = NodeAt(n, TopIn(n)[z]).depth => TopIn(n)[z] = z
        BY TopsAre
      <3>2. NodeAt(n, z).up = Null => TopIn(n)[z] = z
        BY TopIs
      <3>3. NodeAt(n, TopIn(n)[z]).up = Null
        BY TopsAre
      <3> QED BY <2>5, <3>1, <3>2, <3>3
    <2>6. CASE p = Null
      <3>1. h = Null
        BY <2>3, <2>4, <2>5, <2>6
      <3>2. TopIn(n)[x] = x /\ TopIn(n)[y] = y
        BY <2>3, <2>6, <3>1, TopIs
      <3> QED BY <2>3, <3>2
    <2>7. CASE p # Null
      <3>1. h # Null
        BY <2>3, <2>4, <2>5, <2>7
      <3>2. /\ p \in MadeIn(n) /\ NodeAt(n, x).depth = NodeAt(n, p).depth + 1
            /\ h \in MadeIn(n) /\ x \in ToSet(NodeAt(n, p).kids) /\ y \in ToSet(NodeAt(n, h).kids)
        BY <2>3, <2>7, <3>1 DEF LinkedAt
      <3>3. /\ TopIn(n)[p] = top /\ PathIn(n)[x] = Append(PathIn(n)[p], Place(n, x))
            /\ TopIn(n)[h] = top /\ PathIn(n)[y] = Append(PathIn(n)[h], Place(n, y))
        BY <2>3, <2>7, <3>1, TopIs, PathIs
      <3>4. /\ NodeAt(n, p).depth \in Nat /\ NodeAt(n, p).kids \in Seq(Refs)
            /\ NodeAt(n, h).kids \in Seq(Refs)
        BY <3>2, OfTrees DEF NodeMembers
      <3>5. /\ Place(n, x) \in Nat /\ NodeAt(n, p).kids[Place(n, x)] = x
            /\ Place(n, y) \in Nat /\ NodeAt(n, h).kids[Place(n, y)] = y
        BY <3>2, <3>4, PlaceIs DEF Place
      <3>6. PathIn(n)[p] \in Seq(Nat) /\ PathIn(n)[h] \in Seq(Nat)
        BY <3>2, <3>3, PathsAre
      <3>7. PathIn(n)[p] = PathIn(n)[h] /\ Place(n, x) = Place(n, y)
        <4> DEFINE a == PathIn(n)[p]
                   b == PathIn(n)[h]
                   u == Place(n, x)
                   v == Place(n, y)
                   S == Nat
        <4>1. Append(a, u) = Append(b, v)
          BY <2>3, <3>3
        <4>2. a \in Seq(S) /\ b \in Seq(S) /\ u \in S /\ v \in S
          BY <3>5, <3>6
        <4> HIDE DEF a, b, u, v, S
        <4>3. a = b /\ u = v
          BY <4>1, <4>2, AppendedEqual
        <4> QED BY <4>3 DEF a, b, u, v
      <3>8. p = h
        <4>1. p \notin B
          BY <2>1, <2>3, <3>2, <3>4
        <4> QED BY <4>1, <3>2, <3>3, <3>7
      <3> QED BY <2>3, <3>5, <3>7, <3>8
    <2> QED BY <2>6, <2>7
  <1> QED BY <1>1

\* The order of find: of two paths of equal length, the one with the smaller place
\* where they first differ comes first.
AgreeTo(k, a, b) == \A i \in 1 .. k : a[i] = b[i]
Before(k, a, b) == \E j \in 0 .. k - 1 : AgreeTo(j, a, b) /\ a[j + 1] < b[j + 1]

\* In a set of paths, some path comes before all that differ from it up to k.
LEMMA SomeBefore ==
  ASSUME NEW d \in Nat, NEW P, P # {}, \A a \in P : a \in Seq(Nat) /\ Len(a) = d
  PROVE  \E a \in P : \A b \in P : AgreeTo(d, a, b) \/ Before(d, a, b)
  <1> DEFINE First(k, a) == \A b \in P : AgreeTo(k, a, b) \/ Before(k, a, b)
             Lacking == {k \in 0 .. d : ~\E a \in P : First(k, a)}
  <1>1. ASSUME Lacking # {} PROVE FALSE
    <2>1. PICK k \in Lacking : \A j \in Lacking : k <= j
      <3>1. Lacking \subseteq Nat
        OBVIOUS
      <3> HIDE DEF Lacking
      <3> QED BY <3>1, <1>1, LeastNumber
    <2>2. k # 0
      <3>1. \A a, b \in P : AgreeTo(0, a, b)
        BY DEF AgreeTo
      <3> QED BY <3>1, <2>1
    <2> DEFINE j == k - 1
    <2>3. j \in 0 .. d /\ ~(k <= j) /\ k = j + 1 /\ k \in 1 .. d /\ k \in Nat
      BY <2>1, <2>2
    <2>4. PICK a \in P : First(j, a)
      BY <2>1, <2>3
    <2> DEFINE Like == {b \in P : AgreeTo(j, a, b)}
               T == {b[k] : b \in Like}
    <2>5. \A b \in P : b[k] \in Nat
      BY <2>3, ElementOfSeq
    <2>6. a \in Like
      BY DEF AgreeTo
    <2>7. PICK m \in T : \A e \in T : m <= e
      <3>1. T \subseteq Nat /\ T # {}
        BY <2>5, <2>6
      <3> HIDE DEF T
      <3> QED BY <3>1, LeastNumber
    <2>8. PICK c \in Like : c[k] = m
      BY <2>7
    <2>9. ASSUME NEW b \in P PROVE AgreeTo(k, c, b) \/ Before(k, c, b)
      <3> HIDE DEF j
      <3>1. c \in P /\ AgreeTo(j, a, c) /\ c[k] \in Nat /\ b[k] \in Nat
        BY <2>5, <2>8
      <3>2. CASE AgreeTo(j, a, b)
        <4>1. c[k] <= b[k]
          BY <2>7, <2>8, <3>2
        <4>2. AgreeTo(j, c, b)
          BY <3>1, <3>2 DEF AgreeTo
        <4>3. CASE c[k] = b[k]
          <5>1. \A i \in 1 .. k : i \in 1 .. j \/ i = k
            BY <2>3
          <5>2. AgreeTo(k, c, b)
            BY <4>2, <4>3, <5>1 DEF AgreeTo
          <5> QED BY <5>2
        <4>4. CASE c[k] < b[k]
          <5>1. j \in 0 .. k - 1 /\ c[j + 1] < b[j + 1]
            BY <4>4, <2>3
          <5> QED BY <5>1, <4>2 DEF Before
        <4>5. c[k] = b[k] \/ c[k] < b[k]
          <5>1. \A u, v \in Nat : u <= v => u = v \/ u < v
            OBVIOUS
          <5> QED BY Zenon, <3>1, <4>1, <5>1
        <4> QED BY <4>3, <4>4, <4>5
      <3>3. CASE Before(j, a, b)
        <4>1. PICK i \in 0 .. j - 1 : AgreeTo(i, a, b) /\ a[i + 1] < b[i + 1]
          BY <3>3 DEF Before
        <4>2. i \in 0 .. k - 1 /\ i + 1 \in 1 .. j /\ \A e \in 1 .. i : e \in 1 .. j
          BY <2>3, <4>1
        <4>3. c[i + 1] = a[i + 1]
          BY <3>1, <4>2 DEF AgreeTo
        <4>4. AgreeTo(i, c, b)
          BY <3>1, <4>1, <4>2 DEF AgreeTo
        <4> QED BY <4>1, <4>2, <4>3, <4>4 DEF Before
      <3> QED BY <2>4, <3>2, <3>3
    <2>10. First(k, c)
      BY <2>9
    <2> QED BY <2>1, <2>8, <2>10
  <1>2. PICK a \in P : First(d, a)
    <2> HIDE DEF First
    <2>1. Lacking = {}
      <3> HIDE DEF Lacking
      <3> QED BY <1>1
    <2>2. d \in 0 .. d
      OBVIOUS
    <2> QED BY <2>1, <2>2
  <1> QED BY <1>2

\* What comes before in the order is earlier in the walk of find.
LEMMA BeforeIsEarlier ==
  ASSUME NEW d \in Nat, NEW a \in Seq(Nat), NEW b \in Seq(Nat), Len(a) = d, Len(b) = d,
         Before(d, a, b)
  PROVE  \/ b # <<>> /\ Precedes(Front(a), Front(b))
         \/ b # <<>> /\ Front(a) = Front(b) /\ Last(a) < Last(b)
  <1>1. PICK j \in 0 .. d - 1 : AgreeTo(j, a, b) /\ a[j + 1] < b[j + 1]
    BY DEF Before
  <1> DEFINE p == Front(a)
             q == Front(b)
             e == d - 1
  <1>2. d # 0 /\ e \in Nat /\ e <= Len(a) /\ e <= Len(b) /\ 1 <= e + 1 /\ e - 1 + 1 = e /\ d = e + 1
    BY <1>1
  <1>3. b # <<>>
    BY <1>2
  <1>4. /\ p \in Seq(Nat) /\ Len(p) = e /\ \A i \in 1 .. e : p[i] = a[i]
        /\ q \in Seq(Nat) /\ Len(q) = e /\ \A i \in 1 .. e : q[i] = b[i]
    <2> HIDE DEF e
    <2>1. p = SubSeq(a, 1, e) /\ q = SubSeq(b, 1, e)
      BY DEF Front, e
    <2>2. /\ SubSeq(a, 1, e) \in Seq(Nat) /\ Len(SubSeq(a, 1, e)) = e - 1 + 1
          /\ \A i \in 1 .. e - 1 + 1 : SubSeq(a, 1, e)[i] = a[1 + i - 1]
      BY <1>2, PartIs
    <2>3. /\ SubSeq(b, 1, e) \in Seq(Nat) /\ Len(SubSeq(b, 1, e)) = e - 1 + 1
          /\ \A i \in 1 .. e - 1 + 1 : SubSeq(b, 1, e)[i] = b[1 + i - 1]
      BY <1>2, PartIs
    <2>4. \A i \in 1 .. e : 1 + i - 1 = i
      OBVIOUS
    <2> QED BY <1>2, <2>1, <2>2, <2>3, <2>4
  <1> HIDE DEF p, q, e
  <1>5. Last(a) = a[d] /\ Last(b) = b[d]
    BY DEF Last
  <1>6. CASE j = e
    <2>1. \A i \in 1 .. e : p[i] = q[i]
      BY <1>1, <1>4, <1>6 DEF AgreeTo
    <2>2. p = q
      BY <1>4, <2>1, SeqEqual
    <2>3. Last(a) < Last(b)
      BY <1>1, <1>2, <1>5, <1>6
    <2> QED BY <1>3, <2>2, <2>3 DEF p, q
  <1>7. CASE j # e
    <2>1. j \in 0 .. Len(p) /\ j < Len(q) /\ j < Len(p) /\ j + 1 \in 1 .. e /\ j \in Nat
          /\ j <= e /\ \A i \in 1 .. j : i \in 1 .. e
      BY <1>1, <1>2, <1>4, <1>7
    <2>2. p[j + 1] < q[j + 1]
      BY <1>1, <1>4, <2>1
    <2>3. SubSeq(p, 1, j) = SubSeq(q, 1, j)
      <3>1. 1 <= j + 1 /\ j <= Len(p) /\ j <= Len(q) /\ j - 1 + 1 = j
        BY <2>1, <1>4
      <3>2. /\ SubSeq(p, 1, j) \in Seq(Nat) /\ Len(SubSeq(p, 1, j)) = j - 1 + 1
            /\ \A i \in 1 .. j - 1 + 1 : SubSeq(p, 1, j)[i] = p[1 + i - 1]
        BY SMTT(30), <1>4, <2>1, <3>1, PartIs
      <3>3. /\ SubSeq(q, 1, j) \in Seq(Nat) /\ Len(SubSeq(q, 1, j)) = j - 1 + 1
            /\ \A i \in 1 .. j - 1 + 1 : SubSeq(q, 1, j)[i] = q[1 + i - 1]
        BY SMTT(30), <1>4, <2>1, <3>1, PartIs
      <3>4. \A i \in 1 .. j : 1 + i - 1 = i /\ p[i] = q[i]
        BY <1>1, <1>4, <2>1 DEF AgreeTo
      <3>5. \A i \in 1 .. j : SubSeq(p, 1, j)[i] = SubSeq(q, 1, j)[i]
        BY <3>1, <3>2, <3>3, <3>4
      <3> QED BY <3>1, <3>2, <3>3, <3>5, SeqEqual
    <2>4. Precedes(p, q)
      BY <2>1, <2>2, <2>3 DEF Precedes
    <2> QED BY <1>3, <2>4 DEF p, q
  <1> QED BY <1>6, <1>7

\* The names used here and in CallGraph.
LEMMA Names ==
  /\ Made = MadeIn(node) /\ TopOf = TopIn(node) /\ PathOf = PathIn(node)
  /\ \A r : Node(r) = NodeAt(node, r)
  /\ \A t : Linked(t) = {r \in MadeIn(node) : TopIn(node)[r] \in ToSet(graph[t].tops)}
  <1>1. Made = MadeIn(node)
    BY DEF Made, MadeIn
  <1>2. TopOf = TopIn(node)
    BY DEF Made, MadeIn, TopOf, TopIn, Node, NodeAt
  <1>3. PathOf = PathIn(node)
    BY DEF Made, MadeIn, PathOf, PathIn, Node, NodeAt
  <1>4. \A r : Node(r) = NodeAt(node, r)
    BY DEF Node, NodeAt
  <1>5. ASSUME NEW t
        PROVE  Linked(t) = {r \in MadeIn(node) : TopIn(node)[r] \in ToSet(graph[t].tops)}
    BY <1>1, <1>2 DEF Linked
  <1> QED BY <1>1, <1>2, <1>3, <1>4, <1>5

\* If the master call-graph has a node of r's hash and depth, find returns one: the
\* first in its walk.
LEMMA FoundIs ==
  ASSUME Trees(node), Root \in MadeIn(node), NodeAt(node, Root).depth = 0,
         graph[Master].tops = <<Root>>, NEW r \in MadeIn(node),
         NEW x \in MadeIn(node), TopIn(node)[x] = Root, NodeAt(node, x).key = NodeAt(node, r).key,
         NodeAt(node, x).depth = NodeAt(node, r).depth
  PROVE  /\ Find(r) \in MadeIn(node) /\ TopIn(node)[Find(r)] = Root
         /\ NodeAt(node, Find(r)).depth = NodeAt(node, r).depth
  <1> DEFINE M == {q \in Linked(Master) :
                     Node(q).key = Node(r).key /\ Node(q).depth = Node(r).depth}
             S(q) == PathOf[q]
             E(p, q) == \/ S(p) = <<>>
                        \/ S(q) # <<>> /\ Precedes(Front(S(p)), Front(S(q)))
                        \/ S(q) # <<>> /\ Front(S(p)) = Front(S(q)) /\ Last(S(p)) < Last(S(q))
             d == Node(r).depth
  <1>1. Find(r) = IF M = {} THEN Null ELSE CHOOSE q \in M : \A p \in M \ {q} : E(q, p)
    BY DEF Find
  <1>2. ToSet(graph[Master].tops) = {Root}
    BY DEF ToSet
  <1>3. Linked(Master) = {q \in MadeIn(node) : TopIn(node)[q] = Root}
    BY <1>2, Names
  <1>4. \A q \in M : /\ q \in MadeIn(node) /\ TopIn(node)[q] = Root /\ NodeAt(node, q).depth = d
                     /\ S(q) = PathIn(node)[q]
    BY <1>3, Names
  <1>5. x \in M
    BY <1>3, Names
  <1>6. d \in Nat
    BY Names, OfTrees
  <1>7. \A q \in M : S(q) \in Seq(Nat) /\ Len(S(q)) = d
    BY <1>4, PathsAre
  <1>8. \A p, q \in M : S(p) = S(q) => p = q
    BY <1>4, PathsDiffer
  <1> HIDE DEF M, S, d
  <1>9. PICK q \in M : \A p \in M : AgreeTo(d, S(q), S(p)) \/ Before(d, S(q), S(p))
    <2> DEFINE P == {S(q) : q \in M}
    <2>1. P # {} /\ \A a \in P : a \in Seq(Nat) /\ Len(a) = d
      BY <1>5, <1>7
    <2>2. \E a \in P : \A b \in P : AgreeTo(d, a, b) \/ Before(d, a, b)
      <3> HIDE DEF P
      <3> QED BY <1>6, <2>1, SomeBefore
    <2> QED BY <2>2
  <1>10. ASSUME NEW p \in M \ {q} PROVE E(q, p)
    <2> DEFINE a == S(q)
               b == S(p)
    <2>1. a \in Seq(Nat) /\ b \in Seq(Nat) /\ Len(a) = d /\ Len(b) = d /\ a # b
      BY <1>7, <1>8
    <2>2. AgreeTo(d, a, b) \/ Before(d, a, b)
      BY <1>9
    <2> HIDE DEF a, b
    <2>3. ~AgreeTo(d, a, b)
      <3>1. ASSUME AgreeTo(d, a, b) PROVE a = b
        BY <2>1, <3>1, SeqEqual DEF AgreeTo
      <3> QED BY <2>1, <3>1
    <2>4. \/ b # <<>> /\ Precedes(Front(a), Front(b))
          \/ b # <<>> /\ Front(a) = Front(b) /\ Last(a) < Last(b)
      BY <1>6, <2>1, <2>2, <2>3, BeforeIsEarlier
    <2> QED BY <2>4 DEF a, b
  <1> HIDE DEF E
  <1>11. Find(r) \in M
    BY <1>1, <1>5, <1>10
  <1> QED BY <1>4, <1>11, Names DEF d

-----------------------------------------------------------------------------
(* The order in which a merge visits the bookmarks.                        *)

\* A rank for each place, no two equal: each rank is some place's.
LEMMA EveryRank ==
  ASSUME NEW l \in Nat, NEW f \in [1 .. l -> 1 .. l], \A i, j \in 1 .. l : f[i] = f[j] => i = j
  PROVE  \A k \in 1 .. l : \E i \in 1 .. l : f[i] = k
  <1>1. f \in Injection(1 .. l, 1 .. l)
    BY DEF Injection, IsInjective
  <1>2. IsFiniteSet(1 .. l)
    BY FS_Interval
  <1>3. f \in Surjection(1 .. l, 1 .. l)
    BY <1>1, <1>2, FS_Injection
  <1> QED BY <1>3 DEF Surjection

\* get_inverse_insert returns the bookmarks it was given.
LEMMA InverseInsertIs ==
  ASSUME Trees(node), NEW marks \in Seq(Refs), \A r \in ToSet(marks) : r \in MadeIn(node)
  PROVE  /\ InverseInsert(marks) \in Seq(Refs) /\ ToSet(InverseInsert(marks)) = ToSet(marks)
         /\ marks # <<>> => InverseInsert(marks) # <<>>
  <1> DEFINE l == Len(marks)
             D == DOMAIN marks
             Later(i, j) == \/ Node(marks[i]).depth > Node(marks[j]).depth
                            \/ Node(marks[i]).depth = Node(marks[j]).depth /\ i > j
             Ahead(i) == {j \in D : Later(j, i)}
             Rank(i) == Cardinality({j \in D : Later(j, i)}) + 1
             Choice(k) == CHOOSE i \in D : Rank(i) = k
             q == InverseInsert(marks)
  <1>1. l \in Nat /\ D = 1 .. l /\ \A i \in D : marks[i] \in Refs /\ marks[i] \in ToSet(marks)
    BY LenProperties, ElementOfSeq DEF ToSet
  <1>2. q = [k \in D |-> marks[Choice(k)]]
    BY DEF InverseInsert
  <1>3. \A i \in D : Node(marks[i]).depth \in Nat
    BY <1>1, OfTrees, Names
  <1>4. /\ \A i \in D : ~Later(i, i)
        /\ \A i, j \in D : i # j => Later(i, j) \/ Later(j, i)
        /\ \A h, i, j \in D : Later(h, i) /\ Later(i, j) => Later(h, j)
    BY <1>1, <1>3
  <1> HIDE DEF Later, q
  <1>5. ASSUME NEW i \in D
        PROVE  /\ IsFiniteSet(Ahead(i)) /\ Rank(i) \in 1 .. l
               /\ Rank(i) = Cardinality(Ahead(i)) + 1 /\ Cardinality(Ahead(i)) \in Nat
    <2>1. IsFiniteSet(D) /\ Cardinality(D) = l
      BY SMTT(30), <1>1, FS_Interval
    <2>2. IsFiniteSet(D \ {i}) /\ Cardinality(D \ {i}) = l - 1
      BY <2>1, FS_RemoveElement
    <2>3. Ahead(i) \subseteq D \ {i}
      BY <1>4
    <2> HIDE DEF D
    <2>4. /\ IsFiniteSet(Ahead(i)) /\ Cardinality(Ahead(i)) <= Cardinality(D \ {i})
      <3> HIDE DEF Ahead
      <3> QED BY <2>2, <2>3, FS_Subset
    <2>5. Cardinality(Ahead(i)) \in Nat
      <3> HIDE DEF Ahead
      <3> QED BY <2>4, FS_CardinalityType
    <2>6. Rank(i) = Cardinality(Ahead(i)) + 1
      OBVIOUS
    <2> HIDE DEF Ahead, Rank
    <2> QED BY <1>1, <2>2, <2>4, <2>5, <2>6
  <1>6. ASSUME NEW i \in D, NEW j \in D, Later(i, j) PROVE Rank(i) < Rank(j)
    <2>1. Ahead(i) \cup {i} \subseteq Ahead(j) /\ i \notin Ahead(i)
      BY <1>4, <1>6
    <2>2. IsFiniteSet(Ahead(i)) /\ IsFiniteSet(Ahead(j))
      BY <1>5
    <2>3. /\ Rank(i) = Cardinality(Ahead(i)) + 1 /\ Rank(j) = Cardinality(Ahead(j)) + 1
          /\ Cardinality(Ahead(i)) \in Nat /\ Cardinality(Ahead(j)) \in Nat
      BY <1>5
    <2> HIDE DEF Ahead, Rank
    <2>4. Cardinality(Ahead(i) \cup {i}) = Cardinality(Ahead(i)) + 1
      BY <2>1, <2>2, FS_AddElement
    <2>5. Cardinality(Ahead(i) \cup {i}) <= Cardinality(Ahead(j))
      BY <2>1, <2>2, FS_Subset
    <2> QED BY <2>3, <2>4, <2>5
  <1>7. \A i \in D : Rank(i) \in 1 .. l
    BY <1>5
  <1> HIDE DEF Rank
  <1>8. \A i, j \in D : Rank(i) = Rank(j) => i = j
    <2>1. \A i, j \in D : Rank(i) = Rank(j) => ~(Rank(i) < Rank(j)) /\ ~(Rank(j) < Rank(i))
      BY <1>7
    <2> QED BY <1>4, <1>6, <2>1
  <1>9. \A k \in D : \E i \in D : Rank(i) = k
    <2> DEFINE f == [i \in 1 .. l |-> Rank(i)]
    <2>1. f \in [1 .. l -> 1 .. l] /\ \A i, j \in 1 .. l : f[i] = f[j] => i = j
      BY <1>1, <1>7, <1>8
    <2>2. \A k \in 1 .. l : \E i \in 1 .. l : f[i] = k
      <3> HIDE DEF f
      <3> QED BY <1>1, <2>1, EveryRank
    <2> QED BY <1>1, <2>2
  <1>10. \A k \in D : Choice(k) \in D /\ Rank(Choice(k)) = k
    BY <1>9
  <1> HIDE DEF Choice
  <1>11. q \in Seq(Refs) /\ DOMAIN q = 1 .. l
    <2>1. q \in [1 .. l -> Refs]
      BY <1>1, <1>2, <1>10
    <2> QED BY <1>1, <2>1, SeqDef
  <1>12. \A k \in D : q[k] \in ToSet(marks)
    BY <1>1, <1>2, <1>10
  <1>13. \A i \in D : \E k \in D : q[k] = marks[i]
    <2> SUFFICES ASSUME NEW i \in D PROVE \E k \in D : q[k] = marks[i]
      OBVIOUS
    <2>1. Rank(i) \in D
      BY <1>1, <1>7
    <2>2. Choice(Rank(i)) = i
      BY <1>8, <1>10, <2>1
    <2> QED BY <1>2, <2>1, <2>2
  <1>14. ToSet(q) = ToSet(marks)
    BY <1>1, <1>11, <1>12, <1>13 DEF ToSet
  <1>15. marks # <<>> => q # <<>>
    <2>1. marks # <<>> => l # 0
      BY EmptySeq
    <2>2. l # 0 => 1 \in DOMAIN q
      BY <1>1, <1>11
    <2> QED BY <2>1, <2>2
  <1> QED BY <1>11, <1>14, <1>15 DEF q

-----------------------------------------------------------------------------
(* The invariant.                                                          *)

GraphMembers ==
  [phase : {"none", "live", "exiting", "merging", "final"}, tops : Seq(Refs),
   cur : RefOrNull, level : Nat, sea : Nat, marks : Seq(Refs)]
Timers == [label : Labels, at : Refs]
Timer(label, y) == [label |-> label, at |-> y]
Jobs == [label : Labels, mark : BOOLEAN, seen : Refs]

\* Every bookmark but the root of the master call-graph is a worker's and copies a
\* node that is in the master call-graph for good.
CopyAt(n, r) ==
  NodeAt(n, r).dummy /\ r # Root =>
    LET of == NodeAt(n, r).of IN
    /\ r[1] \in Workers /\ of \in MadeIn(n) /\ TopIn(n)[of] = Root
    /\ NodeAt(n, of).key = NodeAt(n, r).key /\ NodeAt(n, of).depth = NodeAt(n, r).depth

\* Only a record of a worker can be past the maximum depth, and it is below a bookmark
\* until it is merged.
DepthAt(n, r) ==
  /\ NodeAt(n, r).dummy \/ r[1] = Master => NodeAt(n, r).depth <= MaxDepth
  /\ NodeAt(n, r).depth = MaxDepth + 1 /\ TopIn(n)[r] # Root
       => NodeAt(n, NodeAt(n, r).up).dummy

HasRoot(n) ==
  Root \in MadeIn(n) /\ NodeAt(n, Root).dummy /\ NodeAt(n, Root).depth = 0

\* The trees with what is known of bookmarks and depths.
Forest(n) ==
  /\ Trees(n) /\ HasRoot(n)
  /\ \A r \in MadeIn(n) : CopyAt(n, r) /\ DepthAt(n, r)

\* The current node of a graph with k timers on the stack: it hangs below a bookmark at
\* sea level, k levels deeper.
Placed(n, g, k) ==
  /\ g.cur \in MadeIn(n) /\ TopIn(n)[g.cur] \in ToSet(g.tops)
  /\ NodeAt(n, TopIn(n)[g.cur]).depth = g.sea
  /\ g.level = NodeAt(n, g.cur).depth /\ g.level = g.sea + k

\* The graph g and the timers o of thread t.
ThreadOK(n, t, g, o) ==
  /\ \A i \in DOMAIN o : o[i].at \in MadeIn(n)
  /\ ToSet(g.tops) = ToSet(g.marks)
  /\ \A r \in ToSet(g.tops) : r \in MadeIn(n) /\ NodeAt(n, r).dummy /\ r[1] = t
  /\ g.phase \in {"live", "exiting", "final"} => Placed(n, g, Len(o))
  /\ g.phase \in {"none", "merging", "final"} => o = <<>>
  /\ t = Master => /\ g.phase \in {"live", "final"} /\ g.tops = <<Root>> /\ g.sea = 0
                   /\ g.level <= MaxDepth
  /\ t # Master => /\ g.phase \in {"none", "live", "exiting", "merging"}
                   /\ g.phase # "none" => g.marks # <<>>

\* A push of a worker that has tested whether a bookmark is due.
JobOK(n, g, j) ==
  j # Null =>
    /\ g.phase = "live" /\ g.level + 1 <= MaxDepth /\ j.seen \in MadeIn(n)
    /\ j.mark => g.level = g.sea
    /\ ~j.mark /\ g.level = g.sea /\ Len(g.marks) < MaxBookmarks
         => NodeAt(n, j.seen).depth = g.sea

\* The merge that holds the mutex visits bookmarks of the worker it merges, and has
\* found the place of one when none is left.
MergeOK(g, l, rest, found) ==
  /\ l # Null => rest # <<>> \/ found
  /\ \A r \in ToSet(rest) : l # Null /\ r \in ToSet(g[l].marks)
  /\ \A w \in Workers : g[w].phase = "merging" <=> l = w
  /\ g[Master].phase = "final" => \A w \in Workers : g[w].phase = "none"

CallTypes ==
  /\ graph \in [Threads -> GraphMembers]
  /\ open \in [Threads -> Seq(Timers)]
  /\ job \in [Workers -> Jobs \cup {Null}]
  /\ lock \in Workers \cup {Null} /\ left \in Seq(Refs) /\ merged \in BOOLEAN

CallInv ==
  /\ Forest(node) /\ CallTypes
  /\ \A t \in Threads : ThreadOK(node, t, graph[t], open[t])
  /\ \A w \in Workers : JobOK(node, graph[w], job[w])
  /\ MergeOK(graph, lock, left, merged)

-----------------------------------------------------------------------------
(* What stays true of a thread when the nodes follow.                      *)

\* The parts of a graph and of a forest, for the steps below.
LEMMA GraphParts ==
  ASSUME NEW g \in GraphMembers
  PROVE  /\ g.tops \in Seq(Refs) /\ g.marks \in Seq(Refs) /\ g.level \in Nat /\ g.sea \in Nat
         /\ g.cur \in RefOrNull /\ g.phase \in {"none", "live", "exiting", "merging", "final"}
         /\ ToSet(g.tops) \subseteq Refs /\ ToSet(g.marks) \subseteq Refs
         /\ Null \notin ToSet(g.tops)
  <1>1. /\ g.tops \in Seq(Refs) /\ g.marks \in Seq(Refs) /\ g.level \in Nat /\ g.sea \in Nat
        /\ g.cur \in RefOrNull /\ g.phase \in {"none", "live", "exiting", "merging", "final"}
    BY DEF GraphMembers
  <1>2. \A q \in Seq(Refs) : ToSet(q) \subseteq Refs
    BY ElementOfSeq, LenProperties DEF ToSet
  <1>3. Null \notin Refs
    BY CallGraphAssumption DEF Refs, Threads
  <1> QED BY <1>1, <1>2, <1>3

\* A graph whose tops keep their trees stays as it is.
LEMMA ThreadFollows ==
  ASSUME NEW n, NEW m, NEW out, Trees(n), Follows(n, m, out), NEW t \in Threads,
         NEW g \in GraphMembers, NEW o, ThreadOK(n, t, g, o),
         g.phase \in {"live", "exiting", "final"} => out \notin ToSet(g.tops)
  PROVE  ThreadOK(m, t, g, o)
  <1>1. \A r \in MadeIn(n) : r \in MadeIn(m) /\ Same(n, m, r)
    BY DEF Follows
  <1>2. \A i \in DOMAIN o : o[i].at \in MadeIn(m)
    BY <1>1 DEF ThreadOK
  <1>3. \A r \in ToSet(g.tops) : r \in MadeIn(m) /\ NodeAt(m, r).dummy /\ r[1] = t
    BY <1>1 DEF ThreadOK, Same
  <1>4. ASSUME g.phase \in {"live", "exiting", "final"} PROVE Placed(m, g, Len(o))
    <2> DEFINE x == TopIn(n)[g.cur]
    <2>1. /\ g.cur \in MadeIn(n) /\ x \in ToSet(g.tops) /\ NodeAt(n, x).depth = g.sea
          /\ g.level = NodeAt(n, g.cur).depth /\ g.level = g.sea + Len(o)
      BY <1>4 DEF ThreadOK, Placed
    <2>2. TopIn(m)[g.cur] = x
      BY <1>4, <2>1 DEF Follows
    <2>3. x \in MadeIn(n)
      BY <2>1 DEF ThreadOK
    <2> HIDE DEF x
    <2>4. NodeAt(m, x).depth = NodeAt(n, x).depth /\ NodeAt(m, g.cur).depth = NodeAt(n, g.cur).depth
      BY <1>1, <2>1, <2>3 DEF Same
    <2> QED BY <1>1, <2>1, <2>2, <2>4 DEF Placed
  <1> QED BY <1>2, <1>3, <1>4 DEF ThreadOK

\* So does a push that waits.
LEMMA JobFollows ==
  ASSUME NEW n, NEW m, NEW out, Follows(n, m, out), NEW g, NEW j, JobOK(n, g, j)
  PROVE  JobOK(m, g, j)
  <1> SUFFICES ASSUME j # Null PROVE JobOK(m, g, j)
    BY DEF JobOK
  <1>1. j.seen \in MadeIn(n)
    BY DEF JobOK
  <1>2. j.seen \in MadeIn(m) /\ NodeAt(m, j.seen).depth = NodeAt(n, j.seen).depth
    BY <1>1 DEF Follows, Same
  <1> QED BY <1>2 DEF JobOK

\* A forest whose new nodes are sound and whose root keeps its tree.
LEMMA ForestFollows ==
  ASSUME NEW n, NEW m, NEW out, Forest(n), Trees(m), Follows(n, m, out), out # Root,
         \A r \in MadeIn(n) : TopIn(m)[r] # Root => NodeAt(m, r).up = NodeAt(n, r).up,
         \A r \in MadeIn(m) \ MadeIn(n) : CopyAt(m, r) /\ DepthAt(m, r)
  PROVE  Forest(m)
  <1>1. \A r \in MadeIn(n) : r \in MadeIn(m) /\ Same(n, m, r)
    BY DEF Follows
  <1>2. HasRoot(m)
    BY <1>1 DEF HasRoot, Forest, Same
  <1>3. ASSUME NEW r \in MadeIn(n) PROVE CopyAt(m, r)
    <2> SUFFICES ASSUME NodeAt(m, r).dummy, r # Root PROVE CopyAt(m, r)
      BY DEF CopyAt
    <2> DEFINE f == NodeAt(n, r).of
    <2>1. NodeAt(n, r).dummy /\ NodeAt(m, r).of = f /\ NodeAt(m, r).key = NodeAt(n, r).key
          /\ NodeAt(m, r).depth = NodeAt(n, r).depth
      BY <1>1 DEF Same
    <2>2. /\ r[1] \in Workers /\ f \in MadeIn(n) /\ TopIn(n)[f] = Root
          /\ NodeAt(n, f).key = NodeAt(n, r).key /\ NodeAt(n, f).depth = NodeAt(n, r).depth
      BY <2>1 DEF Forest, CopyAt
    <2> HIDE DEF f
    <2>3. TopIn(m)[f] = Root /\ f \in MadeIn(m) /\ NodeAt(m, f).key = NodeAt(n, f).key
          /\ NodeAt(m, f).depth = NodeAt(n, f).depth
      BY <2>2 DEF Follows, Same
    <2> QED BY <2>1, <2>2, <2>3 DEF CopyAt
  <1>4. ASSUME NEW r \in MadeIn(n) PROVE DepthAt(m, r)
    <2>1. /\ NodeAt(m, r).depth = NodeAt(n, r).depth /\ NodeAt(m, r).dummy = NodeAt(n, r).dummy
      BY <1>1 DEF Same
    <2>2. DepthAt(n, r) /\ NodeAt(n, r).depth \in Nat /\ LinkedAt(n, r)
      BY OfTrees DEF Forest
    <2>3. ASSUME NodeAt(m, r).depth = MaxDepth + 1, TopIn(m)[r] # Root
          PROVE  NodeAt(m, NodeAt(m, r).up).dummy
      <3>1. TopIn(n)[r] # Root
        BY <2>3 DEF Follows
      <3>2. NodeAt(m, r).up = NodeAt(n, r).up
        BY <2>3
      <3>3. NodeAt(n, NodeAt(n, r).up).dummy
        BY <2>1, <2>2, <2>3, <3>1 DEF DepthAt
      <3>4. ~NodeAt(n, r).dummy
        BY <2>1, <2>2, <2>3, CallGraphAssumption DEF DepthAt
      <3>5. NodeAt(n, r).up \in MadeIn(n)
        BY <2>2, <3>4 DEF LinkedAt
      <3> QED BY <1>1, <3>2, <3>3, <3>5 DEF Same
    <2> QED BY <2>1, <2>2, <2>3 DEF DepthAt
  <1> QED BY <1>2, <1>3, <1>4 DEF Forest

\* A worker w gets a bookmark, a copy of the node `from' of the master call-graph.
LEMMA ForestBookmarked ==
  ASSUME NEW n, Forest(n), NEW w \in Workers, NEW by \in Threads, NEW from \in MadeIn(n),
         TopIn(n)[from] = Root, NodeAt(n, from).depth <= MaxDepth,
         NEW m, m = WithNode(n, w, Dummy(NodeAt(n, from).key, NodeAt(n, from).depth, by, from)),
         NEW new, new = NextRef(n, w)
  PROVE  /\ Forest(m) /\ Follows(n, m, Null)
         /\ new \in MadeIn(m) /\ new \in Refs /\ new \notin MadeIn(n) /\ new[1] = w
         /\ NodeAt(m, new).dummy /\ NodeAt(m, new).of = from /\ NodeAt(m, new).up = Null
         /\ NodeAt(m, new).kids = <<>> /\ NodeAt(m, new).depth = NodeAt(n, from).depth
         /\ TopIn(m)[new] = new /\ MadeIn(m) = MadeIn(n) \cup {new} /\ Grown(n, m)
         /\ \A r \in MadeIn(n) : NodeAt(m, r) = NodeAt(n, r) /\ TopIn(m)[r] = TopIn(n)[r]
  <1> DEFINE k == NodeAt(n, from).key
             d == NodeAt(n, from).depth
             x == Dummy(k, d, by, from)
  <1>1. /\ Trees(n) /\ w \in Threads /\ k \in (Labels \cup {Null}) \X Nat /\ d \in Nat
        /\ from \in Refs /\ k[2] = d /\ d <= MaxDepth + 1 /\ Null \notin Refs
    BY OfTrees, CallGraphAssumption DEF Forest, Threads, NodeMembers, LinkedAt, Refs
  <1>2. /\ x \in NodeMembers /\ x.up = Null /\ x.dummy /\ x.kids = <<>> /\ x.key = k /\ x.depth = d
        /\ x.of = from /\ x.laps = 0
    <2> HIDE DEF k, d
    <2> QED BY <1>1 DEF Dummy, NodeMembers, RefOrNull
  <1>3. m = WithNode(n, w, x)
    OBVIOUS
  <1> HIDE DEF x
  <1>4. /\ Trees(m) /\ Follows(n, m, Null)
        /\ MadeIn(m) = MadeIn(n) \cup {new} /\ new \notin MadeIn(n) /\ new \in Refs
        /\ \A r \in MadeIn(n) : NodeAt(m, r) = NodeAt(n, r) /\ TopIn(m)[r] = TopIn(n)[r]
        /\ NodeAt(m, new) = x /\ TopIn(m)[new] = new
    BY <1>1, <1>2, <1>3, TreesBookmarked
  <1>9. Grown(n, m)
    BY <1>2, <1>4, GrownByOne
  <1>5. new[1] = w
    BY DEF NextRef
  <1>6. CopyAt(m, new)
    <2>1. /\ NodeAt(m, new).of = from /\ from \in MadeIn(m) /\ TopIn(m)[from] = Root
          /\ NodeAt(m, from).key = NodeAt(m, new).key
          /\ NodeAt(m, from).depth = NodeAt(m, new).depth
      BY <1>2, <1>4
    <2> QED BY <1>5, <2>1 DEF CopyAt
  <1>7. DepthAt(m, new)
    BY <1>1, <1>2, <1>4, CallGraphAssumption DEF DepthAt
  <1>8. Forest(m)
    <2>1. Null # Root
      BY CallGraphAssumption DEF Root, Threads
    <2> QED BY <1>4, <1>6, <1>7, <2>1, ForestFollows
  <1> QED BY <1>2, <1>4, <1>5, <1>8, <1>9

\* The node y is a child of c and what else there was is still there.
Below(n, m, c, y) ==
  /\ Forest(m) /\ Follows(n, m, Null) /\ y \in MadeIn(m) /\ y \in Refs
  /\ NodeAt(m, y).up = c /\ NodeAt(m, y).depth = NodeAt(n, c).depth + 1
  /\ TopIn(m)[y] = TopIn(n)[c]
  /\ \A r \in MadeIn(n) : NodeAt(m, r).up = NodeAt(n, r).up
  /\ MadeIn(m) \subseteq MadeIn(n) \cup {y} /\ Grown(n, m)

\* The node y is where timers of t with the label add their laps.
TimerAt(m, y, t, label) ==
  ~NodeAt(m, y).dummy /\ NodeAt(m, y).tid = t /\ NodeAt(m, y).key[1] = label

\* A thread t makes a record below c.
LEMMA ForestRecorded ==
  ASSUME NEW n, Forest(n), NEW t \in Threads, NEW c \in MadeIn(n), NEW label \in Labels,
         NEW k, k = NodeAt(n, c).depth, t = Master => k + 1 <= MaxDepth, k <= MaxDepth,
         k = MaxDepth => NodeAt(n, c).dummy,
         NEW m, m = WithChild(n, t, Record(<<label, k + 1>>, k + 1, t, c), c)
  PROVE  Below(n, m, c, NextRef(n, t)) /\ TimerAt(m, NextRef(n, t), t, label)
  <1> DEFINE x == Record(<<label, k + 1>>, k + 1, t, c)
             new == NextRef(n, t)
  <1>1. Trees(n) /\ k \in Nat /\ c \in Refs /\ MaxDepth \in Nat
    BY OfTrees, CallGraphAssumption DEF Forest
  <1>2. /\ x \in NodeMembers /\ x.up = c /\ ~x.dummy /\ x.tid = t /\ x.kids = <<>>
        /\ x.key[2] = x.depth /\ x.depth = k + 1 /\ x.depth <= MaxDepth + 1
        /\ x.laps = 0 /\ x.key[1] = label
    BY <1>1 DEF Record, NodeMembers, RefOrNull
  <1>3. m = WithChild(n, t, x, c)
    OBVIOUS
  <1> HIDE DEF x, new
  <1>4. /\ Trees(m) /\ Follows(n, m, Null)
        /\ MadeIn(m) = MadeIn(n) \cup {new} /\ new \notin MadeIn(n) /\ new \in Refs
        /\ \A r \in MadeIn(n) : /\ Same(n, m, r) /\ NodeAt(m, r).up = NodeAt(n, r).up
                                /\ NodeAt(m, r).laps = NodeAt(n, r).laps
                                /\ TopIn(m)[r] = TopIn(n)[r]
        /\ NodeAt(m, new) = x /\ TopIn(m)[new] = TopIn(n)[c]
    <2>1. new = NextRef(n, t)
      BY DEF new
    <2> QED BY <1>1, <1>2, <1>3, <2>1, TreesRecorded
  <1>5. CopyAt(m, new)
    BY <1>2, <1>4 DEF CopyAt
  <1>6. DepthAt(m, new)
    <2>1. new[1] = t
      BY DEF new, NextRef
    <2>2. NodeAt(m, c).dummy = NodeAt(n, c).dummy
      BY <1>4 DEF Same
    <2> QED BY <1>1, <1>2, <1>4, <2>1, <2>2 DEF DepthAt
  <1>7. Forest(m)
    <2>1. Null # Root
      BY CallGraphAssumption DEF Root, Threads
    <2> QED BY <1>4, <1>5, <1>6, <2>1, ForestFollows
  <1>8. Grown(n, m)
    BY <1>2, <1>4, GrownByOne
  <1>9. TimerAt(m, new, t, label)
    BY <1>2, <1>4 DEF TimerAt
  <1> QED BY <1>2, <1>4, <1>7, <1>8, <1>9 DEF Below, new

-----------------------------------------------------------------------------
(* Pushing a timer.                                                        *)

\* The graph g with its current node y, one level down.
Deeper(g, y) == [g EXCEPT !.cur = y, !.level = g.level + 1]

\* insert_hierarchy makes a child of the current node current, one level down.
LEMMA InsertIs ==
  ASSUME NEW n, Forest(n), NEW G \in [Threads -> GraphMembers], NEW t \in Threads,
         NEW label \in Labels, NEW c \in MadeIn(n), c = G[t].cur,
         NEW k, k = NodeAt(n, c).depth, G[t].level = k,
         t = Master => k + 1 <= MaxDepth, k <= MaxDepth, k = MaxDepth => NodeAt(n, c).dummy,
         NEW s, s = Insert([node |-> n, graph |-> G], t, label)
  PROVE  \E y : /\ Below(n, s.node, c, y) /\ s.graph = [G EXCEPT ![t] = Deeper(G[t], y)]
                /\ TimerAt(s.node, y, t, label)
  <1> DEFINE s0 == [node |-> n, graph |-> G]
             g == G[t]
             key == <<label, g.level + 1>>
             same == {r \in ToSet(NodeAt(n, c).kids) : NodeAt(n, r).key = key
                                                      /\ NodeAt(n, r).tid = t}
             new == NextRef(n, t)
             old == CHOOSE r \in same : TRUE
             x == Record(key, g.level + 1, t, c)
             node1 == [[n EXCEPT ![t] = Append(@, x)] EXCEPT ![c[1]][c[2]].kids = Append(@, new)]
             graph1 == [G EXCEPT ![t].cur = new, ![t].level = @ + 1]
  <1>1. Trees(n) /\ k \in Nat /\ c \in Refs /\ LinkedAt(n, c)
    BY OfTrees DEF Forest
  <1>2. g \in GraphMembers
    OBVIOUS
  <1>3. s = IF same # {}
              THEN [s0 EXCEPT !.graph[t].cur = old, !.graph[t].level = NodeAt(n, old).depth]
              ELSE [node |-> node1, graph |-> graph1]
    BY ZenonT(30) DEF Insert, At, NodeAt, NewRef, NextRef
  <1>4. CASE same # {}
    <2>1. old \in ToSet(NodeAt(n, c).kids)
      BY <1>4
    <2>2. old \in MadeIn(n) /\ NodeAt(n, old).up = c
      BY <1>1, <2>1 DEF LinkedAt
    <2>3. LinkedAt(n, old) /\ c # Null /\ old \in Refs
      BY <1>1, <2>2, OfTrees
    <2>10. TimerAt(n, old, t, label)
      <3>1. old \in same
        BY <1>4
      <3>2. NodeAt(n, old).key = <<label, g.level + 1>> /\ NodeAt(n, old).tid = t
        BY <3>1
      <3>3. ~NodeAt(n, old).dummy
        BY <2>2, <2>3 DEF LinkedAt
      <3> HIDE DEF old, same
      <3> QED BY <3>2, <3>3 DEF TimerAt
    <2>4. NodeAt(n, old).depth = k + 1
      BY <2>2, <2>3 DEF LinkedAt
    <2> HIDE DEF old, same
    <2>5. s.node = n
      BY <1>3, <1>4
    <2>6. s.graph = [G EXCEPT ![t] = Deeper(G[t], old)]
      <3>1. s.graph = [[G EXCEPT ![t].cur = old] EXCEPT ![t].level = k + 1]
        BY <1>3, <1>4, <2>4
      <3>2. [[G EXCEPT ![t].cur = old] EXCEPT ![t].level = k + 1]
              = [G EXCEPT ![t] = [G[t] EXCEPT !.cur = old, !.level = k + 1]]
        BY <1>2
      <3> QED BY <3>1, <3>2 DEF Deeper
    <2>7. TopIn(n)[old] = TopIn(n)[c]
      BY <1>1, <2>2, <2>3, TopIs
    <2>8. Follows(n, n, Null)
      BY DEF Follows, Same
    <2>9. Below(n, n, c, old)
      <3>1. Grown(n, n)
        BY DEF Grown
      <3> QED BY <2>2, <2>3, <2>4, <2>7, <2>8, <3>1 DEF Below
    <2> QED BY <2>5, <2>6, <2>9, <2>10
  <1>5. CASE same = {}
    <2> DEFINE m == WithChild(n, t, Record(<<label, k + 1>>, k + 1, t, c), c)
    <2>1. s.node = node1 /\ s.graph = graph1
      <3> HIDE DEF same, node1, graph1
      <3> QED BY <1>3, <1>5
    <2>2. s.graph = [G EXCEPT ![t] = Deeper(G[t], new)]
      <3> HIDE DEF new
      <3>1. graph1 = [G EXCEPT ![t] = [G[t] EXCEPT !.cur = new, !.level = G[t].level + 1]]
        BY <1>2 DEF GraphMembers
      <3> HIDE DEF graph1
      <3> QED BY <2>1, <3>1 DEF Deeper
    <2>5. node1 = m
      <3> HIDE DEF new
      <3>1. m = [[n EXCEPT ![t] = Append(n[t], x)]
                   EXCEPT ![c[1]][c[2]].kids = Append(@, NextRef(n, t))]
        BY DEF WithChild, WithNode
      <3> HIDE DEF x, m
      <3> QED BY <3>1 DEF new
    <2>3. m = WithChild(n, t, Record(<<label, k + 1>>, k + 1, t, c), c)
      OBVIOUS
    <2> HIDE DEF m
    <2>4. Below(n, m, c, NextRef(n, t)) /\ TimerAt(m, NextRef(n, t), t, label)
      BY <2>3, ForestRecorded
    <2> HIDE DEF node1
    <2>6. Below(n, s.node, c, new) /\ TimerAt(s.node, new, t, label)
      BY <2>1, <2>4, <2>5
    <2> HIDE DEF new
    <2> QED BY <2>2, <2>6
  <1> QED BY <1>4, <1>5

\* The thread that has pushed.
LEMMA ThreadPushed ==
  ASSUME NEW n, NEW m, NEW t \in Threads, NEW g \in GraphMembers, NEW o \in Seq(Timers),
         Trees(n), ThreadOK(n, t, g, o), g.phase = "live", g.level + 1 <= MaxDepth \/ t # Master,
         NEW y, Below(n, m, g.cur, y), NEW label \in Labels
  PROVE  /\ Deeper(g, y) \in GraphMembers /\ Append(o, Timer(label, y)) \in Seq(Timers)
         /\ ThreadOK(m, t, Deeper(g, y), Append(o, Timer(label, y)))
  <1> DEFINE h == Deeper(g, y)
             p == Append(o, Timer(label, y))
  <1> HIDE DEF h, p
  <1>1. /\ \A r \in MadeIn(n) : r \in MadeIn(m) /\ Same(n, m, r)
        /\ y \in MadeIn(m) /\ y \in Refs /\ Forest(m)
        /\ NodeAt(m, y).depth = NodeAt(n, g.cur).depth + 1 /\ TopIn(m)[y] = TopIn(n)[g.cur]
    BY DEF Below, Follows
  <1>2. Placed(n, g, Len(o))
    BY DEF ThreadOK
  <1>3. /\ h \in GraphMembers /\ h.cur = y /\ h.level = g.level + 1 /\ h.sea = g.sea
        /\ h.tops = g.tops /\ h.marks = g.marks /\ h.phase = g.phase /\ g.level \in Nat
    <2> DEFINE l == g.level + 1
    <2>1. g.level \in Nat /\ l \in Nat /\ y \in RefOrNull /\ l = g.level + 1
      BY <1>1, GraphParts DEF RefOrNull
    <2>2. h = [g EXCEPT !.cur = y, !.level = l]
      BY DEF Deeper, h
    <2> HIDE DEF l
    <2> QED BY <2>1, <2>2 DEF GraphMembers
  <1>4. /\ Timer(label, y) \in Timers
        /\ p \in Seq(Timers) /\ Len(p) = Len(o) + 1 /\ Len(o) \in Nat
        /\ \A i \in DOMAIN p : (i \in DOMAIN o /\ p[i] = o[i]) \/ p[i].at = y
    <2>1. Timer(label, y) \in Timers /\ Timer(label, y).at = y
      BY <1>1 DEF Timers, Timer
    <2> QED BY <2>1, AppendProperties, LenProperties DEF p
  <1>5. \A i \in DOMAIN p : p[i].at \in MadeIn(m)
    BY <1>1, <1>4 DEF ThreadOK
  <1>6. \A r \in ToSet(h.tops) : r \in MadeIn(m) /\ NodeAt(m, r).dummy /\ r[1] = t
    BY <1>1, <1>3 DEF ThreadOK, Same
  <1>7. Placed(m, h, Len(p))
    <2> DEFINE x == TopIn(n)[g.cur]
    <2>1. /\ g.cur \in MadeIn(n) /\ x \in ToSet(g.tops) /\ NodeAt(n, x).depth = g.sea
          /\ g.level = NodeAt(n, g.cur).depth /\ g.level = g.sea + Len(o)
      BY <1>2 DEF Placed
    <2>2. TopIn(m)[y] = x
      BY <1>1
    <2>3. x \in MadeIn(n)
      BY <2>1 DEF ThreadOK
    <2> HIDE DEF x
    <2>4. NodeAt(m, x).depth = NodeAt(n, x).depth
      BY <1>1, <2>3 DEF Same
    <2>5. g.sea \in Nat
      BY DEF GraphMembers
    <2> QED BY <1>1, <1>3, <1>4, <2>1, <2>2, <2>4, <2>5 DEF Placed
  <1>8. ThreadOK(m, t, h, p)
    <2>1. ToSet(h.tops) = ToSet(h.marks)
      BY <1>3 DEF ThreadOK
    <2>2. t = Master => h.phase = "live" /\ h.tops = <<Root>> /\ h.sea = 0 /\ h.level <= MaxDepth
      BY <1>3 DEF ThreadOK
    <2>3. t # Master => h.phase = "live" /\ h.marks # <<>>
      BY <1>3 DEF ThreadOK
    <2> QED BY <1>3, <1>5, <1>6, <1>7, <2>1, <2>2, <2>3 DEF ThreadOK
  <1> QED BY <1>3, <1>4, <1>8 DEF h, p

\* The graph g with the bookmark y at depth d.
Bookmarked(g, y, d) ==
  [g EXCEPT !.cur = y, !.level = d, !.sea = d, !.tops = InsertAt(@, 2, y), !.marks = Append(@, y)]

\* The worker that has taken a bookmark with nothing on its stack.
LEMMA ThreadBookmarked ==
  ASSUME NEW n, NEW m, NEW w \in Workers, NEW g \in GraphMembers,
         Forest(n), Forest(m), Follows(n, m, Null), ThreadOK(n, w, g, <<>>), g.phase = "live",
         NEW y \in Refs, y \in MadeIn(m), NodeAt(m, y).dummy, y[1] = w, TopIn(m)[y] = y,
         NEW d, d = NodeAt(m, y).depth, NEW h, h = Bookmarked(g, y, d)
  PROVE  h \in GraphMembers /\ ThreadOK(m, w, h, <<>>) /\ ToSet(g.tops) \subseteq ToSet(h.tops)
  <1>1. \A r \in MadeIn(n) : r \in MadeIn(m) /\ Same(n, m, r)
    BY DEF Follows
  <1>2. g.tops \in Seq(Refs) /\ g.marks \in Seq(Refs) /\ d \in Nat /\ w # Master
    BY GraphParts, OfTrees, CallGraphAssumption DEF Forest
  <1>3. g.tops # <<>>
    <2>1. g.cur \in MadeIn(n) /\ TopIn(n)[g.cur] \in ToSet(g.tops)
      BY DEF ThreadOK, Placed
    <2> QED BY <2>1 DEF ToSet
  <1> DEFINE tops == InsertAt(g.tops, 2, y)
             marks == Append(g.marks, y)
  <1>4. tops \in Seq(Refs) /\ ToSet(tops) = ToSet(g.tops) \cup {y}
    BY <1>2, <1>3, SetInserted
  <1>5. marks \in Seq(Refs) /\ marks # <<>> /\ ToSet(marks) = ToSet(g.marks) \cup {y}
    BY <1>2, SetAppended
  <1>6. h = [g EXCEPT !.cur = y, !.level = d, !.sea = d, !.tops = tops, !.marks = marks]
    BY DEF Bookmarked
  <1> HIDE DEF tops, marks
  <1>7. /\ h \in GraphMembers /\ h.cur = y /\ h.level = d /\ h.sea = d
        /\ h.tops = tops /\ h.marks = marks /\ h.phase = g.phase
    BY <1>2, <1>4, <1>5, <1>6 DEF GraphMembers, RefOrNull
  <1>8. ToSet(h.tops) = ToSet(h.marks)
    BY <1>4, <1>5, <1>7 DEF ThreadOK
  <1>9. \A r \in ToSet(h.tops) : r \in MadeIn(m) /\ NodeAt(m, r).dummy /\ r[1] = w
    BY <1>1, <1>4, <1>7 DEF ThreadOK, Same
  <1>10. Placed(m, h, 0)
    BY <1>2, <1>4, <1>7 DEF Placed
  <1>11. Len(<<>>) = 0 /\ DOMAIN <<>> = {}
    OBVIOUS
  <1>12. \A i \in DOMAIN <<>> : <<>>[i].at \in MadeIn(m)
    BY <1>11
  <1>13. h.phase \in {"live", "exiting", "final"} => Placed(m, h, Len(<<>>))
    BY <1>10, <1>11
  <1>14. ToSet(g.tops) \subseteq ToSet(h.tops)
    BY <1>4, <1>7
  <1> QED BY <1>2, <1>5, <1>7, <1>8, <1>9, <1>12, <1>13, <1>14 DEF ThreadOK

-----------------------------------------------------------------------------
(* One thread takes a step.                                                *)

\* What the invariant says of one thread.
LEMMA OfThread ==
  ASSUME CallInv, NEW t \in Threads
  PROVE  /\ Forest(node) /\ Trees(node) /\ graph[t] \in GraphMembers /\ open[t] \in Seq(Timers)
         /\ ThreadOK(node, t, graph[t], open[t]) /\ Len(open[t]) \in Nat
         /\ t \in Workers => job[t] \in Jobs \cup {Null} /\ JobOK(node, graph[t], job[t])
         /\ MergeOK(graph, lock, left, merged)
         /\ graph \in [Threads -> GraphMembers] /\ open \in [Threads -> Seq(Timers)]
         /\ job \in [Workers -> Jobs \cup {Null}]
         /\ lock \in Workers \cup {Null} /\ left \in Seq(Refs) /\ merged \in BOOLEAN
  <1>1. open[t] \in Seq(Timers)
    BY DEF CallInv, CallTypes
  <1> QED BY <1>1, LenProperties DEF CallInv, CallTypes, Forest

\* What follows what follows.
LEMMA FollowsOn ==
  ASSUME NEW n, NEW m, NEW p, Trees(n), Follows(n, m, Null), Follows(m, p, Null)
  PROVE  Follows(n, p, Null)
  <1> SUFFICES ASSUME NEW r \in MadeIn(n)
               PROVE  /\ r \in MadeIn(p) /\ Same(n, p, r)
                      /\ TopIn(p)[r] = TopIn(n)[r]
    BY DEF Follows
  <1>1. TopIn(n)[r] # Null
    BY TopsAre, OfTrees
  <1>2. r \in MadeIn(m) /\ Same(n, m, r) /\ TopIn(m)[r] = TopIn(n)[r]
    BY <1>1 DEF Follows
  <1>3. r \in MadeIn(p) /\ Same(m, p, r) /\ TopIn(p)[r] = TopIn(m)[r]
    BY <1>1, <1>2 DEF Follows
  <1> QED BY <1>2, <1>3 DEF Same

Put(f, t, h) == [f EXCEPT ![t] = h]

\* The merge is not concerned by a thread that is not merged.
LEMMA MergeKept ==
  ASSUME CallInv, NEW t \in Threads, NEW h \in GraphMembers,
         h.phase # "merging", graph[t].phase # "merging",
         \/ h.phase = graph[t].phase
         \/ t # Master /\ (graph[Master].phase = "final" => h.phase = "none"),
         NEW G, G = Put(graph, t, h)
  PROVE  MergeOK(G, lock, left, merged)
  <1>1. MergeOK(graph, lock, left, merged) /\ graph \in [Threads -> GraphMembers]
    BY OfThread
  <1>2. G[t] = h /\ \A u \in Threads \ {t} : G[u] = graph[u]
    BY <1>1 DEF Put
  <1>3. Workers \subseteq Threads /\ Master \in Threads /\ Master \notin Workers
    BY CallGraphAssumption DEF Threads
  <1>4. lock \in Workers \cup {Null} /\ (lock # Null => graph[lock].phase = "merging")
    BY <1>1, OfThread, <1>3 DEF MergeOK
  <1>5. lock # Null => lock # t /\ G[lock] = graph[lock]
    BY <1>2, <1>3, <1>4
  <1>6. \A r \in ToSet(left) : lock # Null /\ r \in ToSet(G[lock].marks)
    BY <1>1, <1>5 DEF MergeOK
  <1>7. ASSUME NEW w \in Workers PROVE G[w].phase = "merging" <=> lock = w
    <2>1. CASE w = t
      BY <1>1, <1>2, <2>1 DEF MergeOK
    <2>2. CASE w # t
      BY <1>1, <1>2, <1>3, <2>2 DEF MergeOK
    <2> QED BY <2>1, <2>2
  <1>8. ASSUME G[Master].phase = "final", NEW w \in Workers PROVE G[w].phase = "none"
    <2>1. graph[Master].phase = "final"
      BY <1>2, <1>3, <1>8
    <2>2. graph[w].phase = "none"
      BY <1>1, <2>1 DEF MergeOK
    <2>3. w = t => h.phase = "none"
      BY <2>1, <2>2
    <2> QED BY <1>2, <1>3, <2>2, <2>3
  <1>9. lock # Null => left # <<>> \/ merged
    BY <1>1 DEF MergeOK
  <1> QED BY <1>6, <1>7, <1>8, <1>9 DEF MergeOK

\* The thread t has a new graph h and timers o, and the nodes follow.
LEMMA ThreadMoves ==
  ASSUME CallInv, NEW t \in Threads, NEW out, Forest(node'), Follows(node, node', out),
         out = Null \/ out[1] = t,
         NEW h \in GraphMembers, NEW o \in Seq(Timers), ThreadOK(node', t, h, o),
         graph' = Put(graph, t, h), open' = Put(open, t, o),
         job' \in [Workers -> Jobs \cup {Null}],
         \A w \in Workers : w # t => job'[w] = job[w],
         t \in Workers => JobOK(node', h, job'[t]),
         lock' \in Workers \cup {Null}, left' \in Seq(Refs), merged' \in BOOLEAN,
         MergeOK(graph', lock', left', merged')
  PROVE  CallInv'
  <1>1. graph \in [Threads -> GraphMembers] /\ open \in [Threads -> Seq(Timers)] /\ Trees(node)
    BY OfThread
  <1>2. CallTypes'
    BY <1>1 DEF CallTypes, Put
  <1>3. /\ graph'[t] = h /\ open'[t] = o
        /\ \A u \in Threads \ {t} : graph'[u] = graph[u] /\ open'[u] = open[u]
    BY <1>1 DEF Put
  <1>4. ASSUME NEW u \in Threads \ {t} PROVE ThreadOK(node', u, graph[u], open[u])
    <2>1. ThreadOK(node, u, graph[u], open[u]) /\ graph[u] \in GraphMembers
      BY OfThread
    <2>2. Null \notin ToSet(graph[u].tops)
      BY <2>1, GraphParts
    <2>3. out \notin ToSet(graph[u].tops)
      BY <2>1, <2>2 DEF ThreadOK
    <2> QED BY <1>1, <2>1, <2>3, ThreadFollows
  <1>5. \A u \in Threads : ThreadOK(node', u, graph'[u], open'[u])
    BY <1>3, <1>4
  <1>6. ASSUME NEW w \in Workers PROVE JobOK(node', graph'[w], job'[w])
    <2>1. w \in Threads
      BY DEF Threads
    <2>2. CASE w = t
      BY <1>3, <2>2
    <2>3. CASE w # t
      <3>1. JobOK(node, graph[w], job[w])
        BY <2>1, OfThread
      <3>2. JobOK(node', graph[w], job[w])
        BY <3>1, JobFollows
      <3> QED BY <1>3, <2>1, <2>3, <3>2
    <2> QED BY <2>2, <2>3
  <1> QED BY <1>2, <1>5, <1>6 DEF CallInv

\* A push of thread t from the nodes n1 and its graph g1, which may have a bookmark more
\* than before.
LEMMA PushStep ==
  ASSUME CallInv, NEW t \in Threads, NEW label \in Labels,
         NEW n1, Forest(n1), Follows(node, n1, Null), NEW g1 \in GraphMembers,
         ThreadOK(n1, t, g1, open[t]), g1.phase = "live", graph[t].phase = "live",
         g1.level <= MaxDepth, g1.level = MaxDepth => t # Master /\ NodeAt(n1, g1.cur).dummy,
         NEW s, s = Insert([node |-> n1, graph |-> [graph EXCEPT ![t] = g1]], t, label),
         Become(s, t, label),
         job' \in [Workers -> Jobs \cup {Null}],
         \A w \in Workers : w # t => job'[w] = job[w], t \in Workers => job'[t] = Null
  PROVE  /\ CallInv'
         /\ \E y : /\ Below(n1, node', g1.cur, y) /\ graph' = [graph EXCEPT ![t] = Deeper(g1, y)]
                   /\ open' = [open EXCEPT ![t] = Append(@, Timer(label, y))]
                   /\ TimerAt(node', y, t, label)
  <1> DEFINE G1 == [graph EXCEPT ![t] = g1]
             c == g1.cur
             k == NodeAt(n1, c).depth
  <1>1. /\ graph \in [Threads -> GraphMembers] /\ open \in [Threads -> Seq(Timers)]
        /\ open[t] \in Seq(Timers) /\ Trees(node) /\ Trees(n1)
        /\ lock \in Workers \cup {Null} /\ left \in Seq(Refs) /\ merged \in BOOLEAN
    BY OfThread DEF Forest
  <1>2. G1 \in [Threads -> GraphMembers] /\ G1[t] = g1
    BY <1>1
  <1>3. c \in MadeIn(n1) /\ g1.level = k /\ k \in Nat /\ MaxDepth \in Nat
    BY <1>1, OfTrees, CallGraphAssumption DEF ThreadOK, Placed
  <1>4. /\ c = G1[t].cur /\ G1[t].level = k /\ (t = Master => k + 1 <= MaxDepth)
        /\ k <= MaxDepth /\ (k = MaxDepth => NodeAt(n1, c).dummy)
    BY <1>2, <1>3
  <1>5. s = Insert([node |-> n1, graph |-> G1], t, label) /\ k = NodeAt(n1, c).depth
    OBVIOUS
  <1> HIDE DEF G1, c, k
  <1>6. PICK y : /\ Below(n1, s.node, c, y) /\ s.graph = [G1 EXCEPT ![t] = Deeper(G1[t], y)]
                 /\ TimerAt(s.node, y, t, label)
    BY <1>2, <1>3, <1>4, <1>5, InsertIs
  <1> DEFINE h == Deeper(g1, y)
             p == Append(open[t], Timer(label, y))
  <1>7. h.cur = y /\ h.phase = "live"
    BY DEF Deeper, GraphMembers
  <1>8. s.graph = [graph EXCEPT ![t] = h] /\ s.graph[t].cur = y
    <2> HIDE DEF h
    <2>1. s.graph = [G1 EXCEPT ![t] = h]
      BY <1>2, <1>6 DEF h
    <2> QED BY <1>1, <1>7, <2>1 DEF G1
  <1>9. h \in GraphMembers /\ p \in Seq(Timers) /\ ThreadOK(s.node, t, h, p)
    <2>1. Below(n1, s.node, g1.cur, y)
      BY <1>6 DEF c
    <2>2. g1.level + 1 <= MaxDepth \/ t # Master
      BY <1>3, <1>4
    <2>3. open[t] \in Seq(Timers) /\ Trees(n1) /\ ThreadOK(n1, t, g1, open[t]) /\ g1.phase = "live"
      BY <1>1
    <2> QED BY <2>1, <2>2, <2>3, ThreadPushed
  <1>10. /\ node' = s.node /\ graph' = [graph EXCEPT ![t] = h] /\ open' = [open EXCEPT ![t] = p]
         /\ UNCHANGED <<lock, left, merged>>
    <2> HIDE DEF h
    <2> QED BY <1>1, <1>8 DEF Become, Timer
  <1>11. Forest(node') /\ Follows(node, node', Null)
    <2>1. Forest(node') /\ Follows(n1, node', Null)
      BY <1>6, <1>10 DEF Below
    <2> QED BY <1>1, <2>1, FollowsOn
  <1>12. MergeOK(graph', lock', left', merged')
    <2> HIDE DEF h
    <2>1. MergeOK(graph', lock, left, merged)
      <3>1. h.phase # "merging" /\ graph[t].phase # "merging" /\ h.phase = graph[t].phase
        BY <1>7
      <3>2. graph' = Put(graph, t, h)
        BY <1>10 DEF Put
      <3> QED BY <1>9, <3>1, <3>2, MergeKept
    <2> QED BY <1>10, <2>1
  <1>13. CallInv'
    <2>1. t \in Workers => JobOK(node', h, job'[t])
      BY DEF JobOK
    <2> HIDE DEF h, p
    <2>2. graph' = Put(graph, t, h) /\ open' = Put(open, t, p)
      BY <1>10 DEF Put
    <2>3. lock' \in Workers \cup {Null} /\ left' \in Seq(Refs) /\ merged' \in BOOLEAN
      BY <1>1, <1>10
    <2>4. ThreadOK(node', t, h, p)
      BY <1>9, <1>10
    <2> QED BY <1>9, <1>11, <1>12, <2>1, <2>2, <2>3, <2>4, ThreadMoves
  <1>14. Below(n1, node', g1.cur, y) /\ TimerAt(node', y, t, label)
    BY <1>6, <1>10 DEF c
  <1> QED BY <1>10, <1>13, <1>14

\* The worker w has the bookmark y, a copy of the current node of the main thread.
Marked(s, w, y, d) ==
  LET h == Bookmarked(graph[w], y, d) IN
  /\ s.graph = [graph EXCEPT ![w] = h] /\ Forest(s.node) /\ Follows(node, s.node, Null)
  /\ y \in MadeIn(s.node) /\ NodeAt(s.node, y).dummy
  /\ NodeAt(s.node, y).of = graph[Master].cur
  /\ d = graph[Master].level /\ d <= MaxDepth
  /\ h \in GraphMembers /\ h.phase = "live" /\ h.level = d /\ h.cur = y
  /\ ThreadOK(s.node, w, h, <<>>) /\ ToSet(graph[w].tops) \subseteq ToSet(h.tops)
  /\ MadeIn(s.node) = MadeIn(node) \cup {y} /\ Grown(node, s.node)
  /\ \A r \in MadeIn(node) : NodeAt(s.node, r) = NodeAt(node, r)

\* add_dummy for a worker with nothing on its stack.
LEMMA AddDummyIs ==
  ASSUME CallInv, NEW w \in Workers, NEW by \in Threads, graph[w].phase = "live",
         open[w] = <<>>, NEW s, s = AddDummy(State, w, by)
  PROVE  \E y \in Refs, d \in Nat : Marked(s, w, y, d)
  <1> DEFINE from == graph[Master].cur
             d == NodeAt(node, from).depth
             y == NextRef(node, w)
             h == Bookmarked(graph[w], y, d)
             x == Dummy(NodeAt(node, from).key, d, by, from)
             m == WithNode(node, w, x)
  <1>1. w \in Threads /\ Master \in Threads
    BY DEF Threads
  <1>2. /\ Forest(node) /\ Trees(node) /\ graph[w] \in GraphMembers
        /\ ThreadOK(node, w, graph[w], <<>>) /\ ThreadOK(node, Master, graph[Master], open[Master])
    BY <1>1, OfThread
  <1>3. /\ from \in MadeIn(node) /\ TopIn(node)[from] = Root /\ d = graph[Master].level
        /\ d <= MaxDepth /\ d \in Nat
    <2>1. /\ Placed(node, graph[Master], Len(open[Master])) /\ graph[Master].tops = <<Root>>
          /\ graph[Master].level <= MaxDepth
      BY <1>2 DEF ThreadOK
    <2>2. ToSet(<<Root>>) = {Root}
      BY DEF ToSet
    <2>3. /\ from \in MadeIn(node) /\ TopIn(node)[from] = Root /\ d = graph[Master].level
      BY <2>1, <2>2 DEF Placed
    <2> QED BY <1>2, <2>1, <2>3, OfTrees
  <1>4. s.node = m /\ s.graph = [graph EXCEPT ![w] = h]
    BY DEF AddDummy, At, State, NewRef, NextRef, NodeAt, Bookmarked, WithNode
  <1>5. m = WithNode(node, w, Dummy(NodeAt(node, from).key, NodeAt(node, from).depth, by, from))
        /\ y = NextRef(node, w) /\ h = Bookmarked(graph[w], y, d)
    OBVIOUS
  <1> HIDE DEF m, from, y, h
  <1>6. /\ Forest(m) /\ Follows(node, m, Null)
        /\ y \in MadeIn(m) /\ y \in Refs /\ y[1] = w
        /\ NodeAt(m, y).dummy /\ NodeAt(m, y).of = from
        /\ NodeAt(m, y).depth = d /\ TopIn(m)[y] = y
        /\ MadeIn(m) = MadeIn(node) \cup {y} /\ Grown(node, m)
        /\ \A r \in MadeIn(node) : NodeAt(m, r) = NodeAt(node, r)
    BY <1>2, <1>3, <1>5, ForestBookmarked
  <1> HIDE DEF d
  <1>7. /\ h \in GraphMembers /\ ThreadOK(m, w, h, <<>>)
        /\ ToSet(graph[w].tops) \subseteq ToSet(h.tops)
    BY <1>2, <1>5, <1>6, ThreadBookmarked
  <1>8. h.phase = "live" /\ h.level = d /\ h.cur = y
    BY <1>2, <1>5 DEF Bookmarked, GraphMembers
  <1>9. from = graph[Master].cur
    BY DEF from
  <1> SUFFICES /\ y \in Refs /\ d \in Nat
               /\ s.graph = [graph EXCEPT ![w] = h] /\ Forest(s.node) /\ Follows(node, s.node, Null)
               /\ y \in MadeIn(s.node) /\ NodeAt(s.node, y).dummy
               /\ NodeAt(s.node, y).of = graph[Master].cur
               /\ d = graph[Master].level /\ d <= MaxDepth
               /\ h \in GraphMembers /\ h.phase = "live" /\ h.level = d /\ h.cur = y
               /\ ThreadOK(s.node, w, h, <<>>) /\ ToSet(graph[w].tops) \subseteq ToSet(h.tops)
               /\ MadeIn(s.node) = MadeIn(node) \cup {y} /\ Grown(node, s.node)
               /\ \A r \in MadeIn(node) : NodeAt(s.node, r) = NodeAt(node, r)
    BY DEF h, Marked
  <1> QED BY <1>3, <1>4, <1>6, <1>7, <1>8, <1>9

-----------------------------------------------------------------------------
(* The steps of a thread at work.                                          *)

\* The nodes follow themselves.
LEMMA FollowsItself ==
  ASSUME NEW n
  PROVE  Follows(n, n, Null)
  BY DEF Follows, Same

\* The main thread pushes.
LEMMA PushMasterStep ==
  ASSUME CallInv, NEW label \in Labels, PushMaster(label)
  PROVE  /\ CallInv'
         /\ \E y : /\ Below(node, node', graph[Master].cur, y)
                   /\ graph' = [graph EXCEPT ![Master] = Deeper(graph[Master], y)]
                   /\ open' = [open EXCEPT ![Master] = Append(@, Timer(label, y))]
                   /\ TimerAt(node', y, Master, label)
  <1> DEFINE s == Insert([node |-> node, graph |-> [graph EXCEPT ![Master] = graph[Master]]],
                         Master, label)
  <1>1. Master \in Threads /\ Master \notin Workers
    BY CallGraphAssumption DEF Threads
  <1>2. /\ Forest(node) /\ graph[Master] \in GraphMembers /\ graph \in [Threads -> GraphMembers]
        /\ ThreadOK(node, Master, graph[Master], open[Master])
        /\ job \in [Workers -> Jobs \cup {Null}]
    BY <1>1, OfThread
  <1>3. /\ graph[Master].phase = "live" /\ graph[Master].level + 1 <= MaxDepth
        /\ graph[Master].level \in Nat /\ MaxDepth \in Nat
    BY <1>2, CallGraphAssumption DEF PushMaster, MayPush, GraphMembers
  <1>4. graph[Master].level <= MaxDepth /\ graph[Master].level # MaxDepth
    BY <1>3
  <1>5. [graph EXCEPT ![Master] = graph[Master]] = graph
    BY <1>2
  <1>6. Become(s, Master, label)
    BY <1>5 DEF PushMaster, State
  <1>7. /\ job' \in [Workers -> Jobs \cup {Null}]
        /\ \A w \in Workers : w # Master => job'[w] = job[w]
    BY <1>2 DEF PushMaster
  <1>8. Follows(node, node, Null)
    BY FollowsItself
  <1>9. s = Insert([node |-> node, graph |-> [graph EXCEPT ![Master] = graph[Master]]],
                   Master, label)
    OBVIOUS
  <1> HIDE DEF s
  <1> QED BY <1>1, <1>2, <1>3, <1>4, <1>6, <1>7, <1>8, <1>9, PushStep

\* A worker looks where the main thread is.
LEMMA BeginPushStep ==
  ASSUME CallInv, NEW w \in Workers, NEW label \in Labels, BeginPush(w, label)
  PROVE  CallInv'
  <1> DEFINE j == [label |-> label, mark |-> BookmarkDue(w), seen |-> graph[Master].cur]
  <1>1. w \in Threads /\ Master \in Threads
    BY DEF Threads
  <1>2. /\ Forest(node) /\ Trees(node) /\ graph[w] \in GraphMembers
        /\ ThreadOK(node, Master, graph[Master], open[Master])
        /\ job \in [Workers -> Jobs \cup {Null}]
        /\ graph[Master] \in GraphMembers
    BY <1>1, OfThread
  <1>3. /\ graph[Master].cur \in MadeIn(node)
        /\ NodeAt(node, graph[Master].cur).depth = graph[Master].level
    BY <1>2 DEF ThreadOK, Placed
  <1>4. graph[Master].cur \in Refs
    BY <1>2, <1>3, OfTrees
  <1>5. graph[w].phase = "live" /\ graph[w].level + 1 <= MaxDepth
    BY <1>2 DEF BeginPush, MayPush, GraphMembers
  <1>6. j \in Jobs /\ j.mark = BookmarkDue(w) /\ j.seen = graph[Master].cur
    <2>1. BookmarkDue(w) \in BOOLEAN
      BY DEF BookmarkDue
    <2> QED BY <1>4, <2>1 DEF Jobs
  <1>7. UNCHANGED <<node, graph, open, lock, left, merged>> /\ job' = [job EXCEPT ![w] = j]
    BY DEF BeginPush
  <1> HIDE DEF j
  <1>8. JobOK(node, graph[w], j)
    <2>1. j.mark => graph[w].level = graph[w].sea
      BY <1>6 DEF BookmarkDue
    <2>2. ~j.mark /\ graph[w].level = graph[w].sea /\ Len(graph[w].marks) < MaxBookmarks
            => NodeAt(node, j.seen).depth = graph[w].sea
      BY <1>3, <1>6 DEF BookmarkDue
    <2> QED BY <1>3, <1>5, <1>6, <2>1, <2>2 DEF JobOK
  <1>9. job' \in [Workers -> Jobs \cup {Null}]
    BY <1>2, <1>6, <1>7
  <1>10. \A v \in Workers : JobOK(node, graph[v], job'[v])
    BY <1>2, <1>7, <1>8 DEF CallInv
  <1> QED BY <1>7, <1>9, <1>10 DEF CallInv, CallTypes

\* A worker pushes, with or without a new bookmark.
LEMMA EndPushStep ==
  ASSUME CallInv, NEW w \in Workers, EndPush(w)
  PROVE  /\ CallInv'
         /\ \E n1, g1, y :
              /\ Forest(n1) /\ Follows(node, n1, Null)
              /\ \A r \in MadeIn(node) : NodeAt(n1, r) = NodeAt(node, r)
              /\ Below(n1, node', g1.cur, y) /\ graph' = [graph EXCEPT ![w] = Deeper(g1, y)]
              /\ open' = [open EXCEPT ![w] = Append(@, Timer(job[w].label, y))]
              /\ Grown(node, n1) /\ ToSet(graph[w].tops) \subseteq ToSet(g1.tops)
              /\ \A r \in MadeIn(n1) \ MadeIn(node) : NodeAt(n1, r).dummy
              /\ TimerAt(node', y, w, job[w].label)
              /\ \/ ~job[w].mark /\ n1 = node /\ g1 = graph[w]
                 \/ /\ job[w].mark /\ open[w] = <<>> /\ g1.cur \in MadeIn(n1)
                    /\ NodeAt(n1, g1.cur).of = graph[Master].cur
  <1> DEFINE label == job[w].label
             S0 == IF job[w].mark THEN AddDummy(State, w, w) ELSE State
  <1>1. w \in Threads /\ Master \in Threads /\ w # Master
    BY CallGraphAssumption DEF Threads
  <1>2. /\ Forest(node) /\ Trees(node) /\ graph[w] \in GraphMembers
        /\ graph \in [Threads -> GraphMembers]
        /\ ThreadOK(node, w, graph[w], open[w]) /\ open[w] \in Seq(Timers)
        /\ job \in [Workers -> Jobs \cup {Null}] /\ JobOK(node, graph[w], job[w])
    BY <1>1, OfThread
  <1>3. job[w] # Null /\ job[w] \in Jobs /\ label \in Labels
    BY <1>2 DEF EndPush, Jobs
  <1>4. /\ graph[w].phase = "live" /\ graph[w].level + 1 <= MaxDepth
        /\ (job[w].mark => graph[w].level = graph[w].sea)
    BY <1>2, <1>3 DEF JobOK
  <1>5. Become(Insert(S0, w, label), w, label) /\ job' = [job EXCEPT ![w] = Null]
    BY DEF EndPush
  <1>6. /\ job' \in [Workers -> Jobs \cup {Null}]
        /\ \A v \in Workers : v # w => job'[v] = job[v]
        /\ job'[w] = Null
    BY <1>2, <1>5
  <1> HIDE DEF label, S0
  <1>7. CASE ~job[w].mark
    <2> DEFINE s == Insert([node |-> node, graph |-> [graph EXCEPT ![w] = graph[w]]], w, label)
    <2>1. [graph EXCEPT ![w] = graph[w]] = graph
      BY <1>1, <1>2
    <2>2. Become(s, w, label)
      BY <1>5, <1>7, <2>1 DEF S0, State
    <2>3. s = Insert([node |-> node, graph |-> [graph EXCEPT ![w] = graph[w]]], w, label)
      OBVIOUS
    <2>4. Follows(node, node, Null)
      BY FollowsItself
    <2>5. graph[w].level <= MaxDepth /\ graph[w].level # MaxDepth
      BY <1>2, <1>4, CallGraphAssumption DEF GraphMembers
    <2> HIDE DEF s
    <2>6. /\ CallInv'
          /\ \E y : /\ Below(node, node', graph[w].cur, y)
                    /\ graph' = [graph EXCEPT ![w] = Deeper(graph[w], y)]
                    /\ open' = [open EXCEPT ![w] = Append(@, Timer(label, y))]
                    /\ TimerAt(node', y, w, label)
      BY <1>1, <1>2, <1>3, <1>4, <1>6, <2>2, <2>3, <2>4, <2>5, PushStep
    <2>7. Grown(node, node)
      BY DEF Grown
    <2> QED BY <1>2, <1>7, <2>4, <2>6, <2>7 DEF label
  <1>8. CASE job[w].mark
    <2> DEFINE s0 == AddDummy(State, w, w)
    <2>1. open[w] = <<>>
      <3>1. graph[w].level = graph[w].sea + Len(open[w]) /\ graph[w].sea \in Nat
        BY <1>2, <1>4 DEF ThreadOK, Placed, GraphMembers
      <3>2. Len(open[w]) \in Nat
        BY <1>2, LenProperties
      <3>3. Len(open[w]) = 0
        BY <1>4, <1>8, <3>1, <3>2
      <3> QED BY <1>2, <3>3, EmptySeq
    <2>2. s0 = AddDummy(State, w, w)
      OBVIOUS
    <2> HIDE DEF s0
    <2>3. PICK b \in Refs, d \in Nat : Marked(s0, w, b, d)
      BY <1>1, <1>4, <2>1, <2>2, AddDummyIs
    <2> DEFINE h == Bookmarked(graph[w], b, d)
               n1 == s0.node
               s == Insert([node |-> n1, graph |-> [graph EXCEPT ![w] = h]], w, label)
    <2>4. /\ s0.graph = [graph EXCEPT ![w] = h] /\ Forest(n1)
          /\ Follows(node, n1, Null)
          /\ b \in MadeIn(n1) /\ NodeAt(n1, b).dummy
          /\ NodeAt(n1, b).of = graph[Master].cur
          /\ h \in GraphMembers /\ h.phase = "live" /\ h.level <= MaxDepth /\ h.cur = b
          /\ ThreadOK(n1, w, h, open[w]) /\ ToSet(graph[w].tops) \subseteq ToSet(h.tops)
          /\ Grown(node, n1) /\ \A r \in MadeIn(n1) \ MadeIn(node) : NodeAt(n1, r).dummy
          /\ \A r \in MadeIn(node) : NodeAt(n1, r) = NodeAt(node, r)
      BY <2>1, <2>3 DEF Marked
    <2>5. S0 = [node |-> n1, graph |-> [graph EXCEPT ![w] = h]]
      <3>1. S0 = [node |-> n1, graph |-> s0.graph]
        BY <1>8, <2>2 DEF S0, AddDummy
      <3> QED BY <2>4, <3>1
    <2>6. Become(s, w, label)
      BY <1>5, <2>5
    <2>7. s = Insert([node |-> n1, graph |-> [graph EXCEPT ![w] = h]], w, label)
      OBVIOUS
    <2> HIDE DEF s, h, n1
    <2>8. /\ CallInv'
          /\ \E y : /\ Below(n1, node', h.cur, y)
                    /\ graph' = [graph EXCEPT ![w] = Deeper(h, y)]
                    /\ open' = [open EXCEPT ![w] = Append(@, Timer(label, y))]
                    /\ TimerAt(node', y, w, label)
      <3>1. h.level = MaxDepth => w # Master /\ NodeAt(n1, h.cur).dummy
        BY <1>1, <2>4
      <3> QED BY <1>1, <1>3, <1>4, <1>6, <2>4, <2>6, <2>7, <3>1, PushStep
    <2> QED BY <1>8, <2>1, <2>4, <2>8 DEF label
  <1> QED BY <1>7, <1>8

\* All but one element of q.
LEMMA RemovedAre ==
  ASSUME NEW S, NEW q \in Seq(S), NEW i \in DOMAIN q
  PROVE  /\ RemoveAt(q, i) \in Seq(S) /\ Len(RemoveAt(q, i)) = Len(q) - 1
         /\ \A k \in DOMAIN RemoveAt(q, i) : \E j \in DOMAIN q : RemoveAt(q, i)[k] = q[j]
         /\ \A k \in 1 .. i - 1 : RemoveAt(q, i)[k] = q[k]
  <1> DEFINE n == Len(q)
             a == SubSeq(q, 1, i - 1)
             b == SubSeq(q, i + 1, n)
             p == a \o b
  <1>1. n \in Nat /\ DOMAIN q = 1 .. n /\ i \in 1 .. n
    BY LenProperties
  <1>2. /\ a \in Seq(S) /\ Len(a) = i - 1 /\ \A k \in 1 .. i - 1 : a[k] = q[k]
    <2> DEFINE e == i - 1
    <2>1. e \in Nat /\ e <= Len(q) /\ 1 \in Nat \ {0} /\ 1 <= e + 1
      BY <1>1
    <2> HIDE DEF e
    <2>2. /\ SubSeq(q, 1, e) \in Seq(S) /\ Len(SubSeq(q, 1, e)) = e - 1 + 1
          /\ \A k \in 1 .. e - 1 + 1 : SubSeq(q, 1, e)[k] = q[1 + k - 1]
      BY <2>1, PartIs
    <2>3. e - 1 + 1 = e /\ \A k \in 1 .. e : 1 + k - 1 = k
      BY <2>1
    <2>4. SubSeq(q, 1, e) \in Seq(S) /\ Len(SubSeq(q, 1, e)) = e
          /\ \A k \in 1 .. e : SubSeq(q, 1, e)[k] = q[k]
      BY <2>2, <2>3
    <2> QED BY <2>4 DEF e
  <1>3. /\ b \in Seq(S) /\ Len(b) = n - i /\ \A k \in 1 .. n - i : b[k] = q[i + k]
    <2> DEFINE e == i + 1
    <2>1. e \in Nat \ {0} /\ n \in Nat /\ n <= Len(q) /\ e <= n + 1
      BY <1>1
    <2> HIDE DEF e, n
    <2>2. /\ SubSeq(q, e, n) \in Seq(S) /\ Len(SubSeq(q, e, n)) = n - e + 1
          /\ \A k \in 1 .. n - e + 1 : SubSeq(q, e, n)[k] = q[e + k - 1]
      BY <2>1, PartIs
    <2>3. n - e + 1 = n - i /\ \A k \in 1 .. n - i : e + k - 1 = i + k
      BY <1>1 DEF e
    <2>4. SubSeq(q, e, n) \in Seq(S) /\ Len(SubSeq(q, e, n)) = n - i
          /\ \A k \in 1 .. n - i : SubSeq(q, e, n)[k] = q[i + k]
      BY <2>2, <2>3
    <2> QED BY <2>4 DEF e, n
  <1> HIDE DEF a, b, n
  <1>4. p \in Seq(S) /\ Len(p) = n - 1 /\ DOMAIN p = 1 .. n - 1
    <2>1. p \in Seq(S) /\ Len(p) = Len(a) + Len(b)
      BY <1>2, <1>3, ConcatProperties
    <2>2. Len(p) = n - 1
      BY <1>1, <1>2, <1>3, <2>1
    <2> HIDE DEF p
    <2> QED BY <2>1, <2>2, LenProperties
  <1>5. ASSUME NEW k \in DOMAIN p PROVE \E j \in DOMAIN q : p[k] = q[j]
    <2>1. k \in 1 .. n - 1 /\ k \in Nat
      BY <1>1, <1>4
    <2>2. CASE k <= i - 1
      <3>1. p[k] = a[k] /\ k \in 1 .. i - 1
        BY <1>1, <1>2, <1>3, <2>1, <2>2, ConcatProperties
      <3> QED BY <1>1, <1>2, <2>1, <3>1
    <2>3. CASE ~(k <= i - 1)
      <3>1. p[k] = b[k - Len(a)]
        <4>1. k \in 1 .. Len(a) + Len(b) /\ ~(k <= Len(a))
          BY <1>1, <1>2, <1>3, <2>1, <2>3
        <4> QED BY <1>2, <1>3, <4>1, ConcatProperties
      <3>2. k - Len(a) \in 1 .. n - i /\ i + (k - Len(a)) \in 1 .. n
        BY <1>1, <1>2, <2>1, <2>3
      <3> QED BY <1>1, <1>3, <3>1, <3>2
    <2> QED BY <2>2, <2>3
  <1>6. RemoveAt(q, i) = p
    BY DEF RemoveAt, a, b, n, p
  <1>7. Len(p) = Len(q) - 1
    BY <1>4 DEF n
  <1>8. ASSUME NEW k \in 1 .. i - 1 PROVE p[k] = q[k]
    <2>1. k \in 1 .. Len(a) + Len(b) /\ k <= Len(a) /\ a[k] = q[k]
      BY <1>1, <1>2, <1>3
    <2> QED BY <1>2, <1>3, <2>1, ConcatProperties
  <1> HIDE DEF p
  <1> QED BY <1>4, <1>5, <1>6, <1>7, <1>8

\* From n to m only laps change.
Unmoved(n, m) ==
  /\ Nodes(m) /\ MadeIn(m) = MadeIn(n)
  /\ \A r \in MadeIn(n) : /\ Same(n, m, r) /\ NodeAt(m, r).up = NodeAt(n, r).up
                          /\ NodeAt(m, r).kids = NodeAt(n, r).kids

\* A forest in which only laps change.
LEMMA ForestUnmoved ==
  ASSUME NEW n, NEW m, Forest(n), Unmoved(n, m)
  PROVE  Forest(m) /\ Follows(n, m, Null)
  <1>1. Trees(n)
    BY DEF Forest
  <1>2. Trees(m) /\ Follows(n, m, Null)
    BY <1>1, TreesQuiet DEF Unmoved
  <1>3. Null # Root
    BY CallGraphAssumption DEF Root, Threads
  <1>4. MadeIn(m) \ MadeIn(n) = {} /\ \A r \in MadeIn(n) : NodeAt(m, r).up = NodeAt(n, r).up
    BY DEF Unmoved
  <1> QED BY <1>2, <1>3, <1>4, ForestFollows

\* pop_graph: with a timer on the stack the current node has a parent.
LEMMA ThreadPopped ==
  ASSUME Forest(node), NEW t \in Threads, NEW g \in GraphMembers, NEW o \in Seq(Timers),
         NEW i \in DOMAIN o, ThreadOK(node, t, g, o), g.phase = "live"
  PROVE  /\ Popped(g) \in GraphMembers /\ RemoveAt(o, i) \in Seq(Timers)
         /\ ThreadOK(node, t, Popped(g), RemoveAt(o, i)) /\ Popped(g).phase = "live"
         /\ Popped(g).cur = NodeAt(node, g.cur).up /\ Popped(g).cur # Null
         /\ Popped(g).tops = g.tops
  <1> DEFINE h == Popped(g)
             p == RemoveAt(o, i)
             u == NodeAt(node, g.cur).up
             k == Len(o)
             d == g.level - 1
  <1>1. Trees(node) /\ k \in Nat /\ i \in 1 .. k
    BY LenProperties DEF Forest
  <1>2. /\ g.cur \in MadeIn(node) /\ TopIn(node)[g.cur] \in ToSet(g.tops)
        /\ NodeAt(node, TopIn(node)[g.cur]).depth = g.sea
        /\ g.level = NodeAt(node, g.cur).depth /\ g.level = g.sea + k
        /\ g.level \in Nat /\ g.sea \in Nat
    BY GraphParts DEF ThreadOK, Placed
  <1>3. g.level > 0 /\ g.level # g.sea /\ d \in Nat /\ d = g.sea + (k - 1)
    BY <1>1, <1>2
  <1>4. u # Null
    <2>1. u = Null => TopIn(node)[g.cur] = g.cur
      BY <1>1, <1>2, TopIs
    <2> QED BY <1>2, <1>3, <2>1
  <1>5. /\ u \in MadeIn(node) /\ NodeAt(node, g.cur).depth = NodeAt(node, u).depth + 1
        /\ TopIn(node)[u] = TopIn(node)[g.cur] /\ u \in Refs /\ NodeAt(node, u).depth \in Nat
    <2>1. u \in MadeIn(node) /\ NodeAt(node, g.cur).depth = NodeAt(node, u).depth + 1
      BY <1>1, <1>2, <1>4, OfTrees DEF LinkedAt
    <2> QED BY <1>1, <1>2, <1>4, <2>1, TopIs, OfTrees
  <1>6. h = [g EXCEPT !.level = d, !.cur = u]
    <2>1. Node(g.cur).up = u
      BY Names
    <2> QED BY <1>3, <1>4, <2>1 DEF Popped
  <1>7. NodeAt(node, u).depth = d
    <2> DEFINE e == NodeAt(node, u).depth
    <2>1. g.level = e + 1 /\ e \in Nat
      BY Zenon, <1>2, <1>5
    <2> HIDE DEF e
    <2>2. e = d
      BY <1>2, <2>1
    <2> QED BY <2>2 DEF e
  <1>8. p \in Seq(Timers) /\ Len(p) = k - 1 /\ \A j \in DOMAIN p : \E e \in DOMAIN o : p[j] = o[e]
    BY RemovedAre
  <1> HIDE DEF d, u, p, h, k
  <1>9. /\ h \in GraphMembers /\ h.cur = u /\ h.level = d /\ h.sea = g.sea /\ h.phase = g.phase
        /\ h.tops = g.tops /\ h.marks = g.marks
    BY <1>3, <1>5, <1>6 DEF GraphMembers, RefOrNull
  <1>10. ThreadOK(node, t, h, p)
    <2>1. \A j \in DOMAIN p : p[j].at \in MadeIn(node)
      BY <1>8 DEF ThreadOK
    <2>2. Placed(node, h, Len(p))
      BY <1>2, <1>3, <1>5, <1>7, <1>8, <1>9 DEF Placed
    <2>3. \A r \in ToSet(h.tops) : r \in MadeIn(node) /\ NodeAt(node, r).dummy /\ r[1] = t
      BY <1>9 DEF ThreadOK
    <2>4. t = Master => /\ h.phase \in {"live", "final"} /\ h.tops = <<Root>> /\ h.sea = 0
                        /\ h.level <= MaxDepth
      <3>1. t = Master => g.level <= MaxDepth /\ g.tops = <<Root>> /\ g.sea = 0
        BY DEF ThreadOK
      <3>2. d <= g.level /\ MaxDepth \in Nat
        BY <1>2, CallGraphAssumption DEF d
      <3>3. t = Master => d <= MaxDepth
        BY <1>2, <1>3, <3>1, <3>2
      <3> QED BY <1>9, <3>1, <3>3
    <2>5. t # Master => h.phase \in {"none", "live", "exiting", "merging"} /\ h.marks # <<>>
      BY <1>9 DEF ThreadOK
    <2>6. ToSet(h.tops) = ToSet(h.marks)
      BY <1>9 DEF ThreadOK
    <2> QED BY <1>9, <2>1, <2>2, <2>3, <2>4, <2>5, <2>6 DEF ThreadOK
  <1> QED BY <1>4, <1>8, <1>9, <1>10 DEF h, p, u

\* A thread pops a timer.
LEMMA PopStep ==
  ASSUME CallInv, NEW t \in Threads, NEW i \in DOMAIN open[t], Pop(t, i)
  PROVE  /\ CallInv' /\ Unmoved(node, node')
         /\ graph' = [graph EXCEPT ![t] = Popped(graph[t])]
         /\ open' = [open EXCEPT ![t] = RemoveAt(open[t], i)]
         /\ graph'[t].cur = NodeAt(node, graph[t].cur).up
         /\ graph[t].phase = "live" /\ graph'[t].phase = "live"
         /\ graph'[t].tops = graph[t].tops
         /\ \A r \in MadeIn(node) : NodeAt(node', r).laps =
              NodeAt(node, r).laps + IF r = open[t][i].at THEN 1 ELSE 0
  <1> DEFINE at == open[t][i].at
             y == [NodeAt(node, at) EXCEPT !.laps = @ + 1]
             h == Popped(graph[t])
             o == RemoveAt(open[t], i)
  <1>1. /\ Forest(node) /\ Trees(node) /\ graph[t] \in GraphMembers /\ open[t] \in Seq(Timers)
        /\ graph \in [Threads -> GraphMembers] /\ open \in [Threads -> Seq(Timers)]
        /\ ThreadOK(node, t, graph[t], open[t]) /\ job \in [Workers -> Jobs \cup {Null}]
        /\ lock \in Workers \cup {Null} /\ left \in Seq(Refs) /\ merged \in BOOLEAN
    BY OfThread
  <1>2. at \in MadeIn(node)
    BY <1>1 DEF ThreadOK
  <1>3. Nodes(node) /\ NodeAt(node, at) \in NodeMembers
    BY <1>1, <1>2, OfTrees
  <1>4. /\ graph[t].phase = "live" /\ (t \in Workers => job[t] = Null)
        /\ graph' = [graph EXCEPT ![t] = h] /\ open' = [open EXCEPT ![t] = o]
        /\ UNCHANGED <<job, lock, left, merged>>
        /\ node' = [node EXCEPT ![at[1]][at[2]].laps = @ + 1]
    BY DEF Pop
  <1> HIDE DEF at, h, o
  <1>5. node' = WithAt(node, at, y)
    <2>1. node' = [node EXCEPT ![at[1]] = [node[at[1]] EXCEPT ![at[2]] = y]]
      BY <1>4 DEF NodeAt
    <2> QED BY <2>1 DEF WithAt
  <1>6. /\ y \in NodeMembers /\ y.key = NodeAt(node, at).key /\ y.depth = NodeAt(node, at).depth
        /\ y.tid = NodeAt(node, at).tid /\ y.dummy = NodeAt(node, at).dummy
        /\ y.of = NodeAt(node, at).of /\ y.up = NodeAt(node, at).up
        /\ y.kids = NodeAt(node, at).kids /\ y.laps = NodeAt(node, at).laps + 1
    BY <1>3, SMTT(30) DEF NodeMembers
  <1> HIDE DEF y
  <1>7. /\ Unmoved(node, node')
        /\ \A r \in MadeIn(node) : NodeAt(node', r).laps =
             NodeAt(node, r).laps + IF r = at THEN 1 ELSE 0
    <2>1. /\ Nodes(node') /\ MadeIn(node') = MadeIn(node) /\ NodeAt(node', at) = y
          /\ \A r \in MadeIn(node) : r # at => NodeAt(node', r) = NodeAt(node, r)
      BY <1>2, <1>3, <1>5, <1>6, NodeChanged
    <2>2. \A r \in MadeIn(node) : NodeAt(node, r).laps \in Nat
      BY <1>1, OfTrees DEF NodeMembers
    <2>3. \A r \in MadeIn(node) : NodeAt(node', r).laps =
            NodeAt(node, r).laps + IF r = at THEN 1 ELSE 0
      BY <1>6, <2>1, <2>2
    <2>4. Unmoved(node, node')
      BY <1>6, <2>1 DEF Unmoved, Same
    <2> QED BY <2>3, <2>4
  <1>8. Forest(node') /\ Follows(node, node', Null)
    BY <1>1, <1>7, ForestUnmoved
  <1>9. /\ h \in GraphMembers /\ o \in Seq(Timers) /\ ThreadOK(node, t, h, o)
        /\ h.phase = "live" /\ h.cur = NodeAt(node, graph[t].cur).up
    BY <1>1, <1>4, ThreadPopped DEF h, o
  <1>10. ThreadOK(node', t, h, o)
    <2>1. Null \notin ToSet(h.tops)
      BY <1>9, GraphParts
    <2> QED BY <1>1, <1>8, <1>9, <2>1, ThreadFollows
  <1>11. graph' = Put(graph, t, h) /\ open' = Put(open, t, o)
    BY <1>4 DEF Put
  <1>12. MergeOK(graph', lock, left, merged)
    <2>1. h.phase # "merging" /\ graph[t].phase # "merging" /\ h.phase = graph[t].phase
      BY <1>4, <1>9
    <2> QED BY <1>9, <1>11, <2>1, MergeKept
  <1>13. CallInv'
    <2>1. t \in Workers => JobOK(node', h, job'[t])
      BY <1>4 DEF JobOK
    <2>2. /\ job' \in [Workers -> Jobs \cup {Null}] /\ \A w \in Workers : w # t => job'[w] = job[w]
          /\ lock' \in Workers \cup {Null} /\ left' \in Seq(Refs) /\ merged' \in BOOLEAN
      BY <1>1, <1>4
    <2>3. MergeOK(graph', lock', left', merged')
      BY <1>4, <1>12
    <2> QED BY <1>8, <1>9, <1>10, <1>11, <2>1, <2>2, <2>3, ThreadMoves
  <1>14. graph'[t] = h
    BY <1>1, <1>4
  <1>15. h.tops = graph[t].tops
    BY <1>1, <1>4, ThreadPopped DEF h
  <1> QED BY <1>4, <1>7, <1>9, <1>13, <1>14, <1>15 DEF h, o, at

\* A worker uses its storage for the first time.
LEMMA StartStep ==
  ASSUME CallInv, NEW w \in Workers, Start(w)
  PROVE  /\ CallInv' /\ open' = open /\ open[w] = <<>> /\ graph[w].phase = "none"
         /\ Follows(node, node', Null)
         /\ \E h : h.phase = "live" /\ graph' = [graph EXCEPT ![w] = h]
         /\ \A r \in MadeIn(node) : NodeAt(node', r) = NodeAt(node, r)
         /\ Grown(node, node') /\ \A r \in MadeIn(node') \ MadeIn(node) : NodeAt(node', r).dummy
  <1> DEFINE from == graph[Master].cur
             d == NodeAt(node, from).depth
             y == NextRef(node, w)
             h == NewGraph(y, d)
             x == Dummy(NodeAt(node, from).key, d, w, from)
             m == WithNode(node, w, x)
  <1>1. w \in Threads /\ Master \in Threads /\ w # Master
    BY CallGraphAssumption DEF Threads
  <1>2. /\ Forest(node) /\ Trees(node) /\ graph[w] \in GraphMembers
        /\ graph \in [Threads -> GraphMembers] /\ open \in [Threads -> Seq(Timers)]
        /\ ThreadOK(node, w, graph[w], open[w])
        /\ ThreadOK(node, Master, graph[Master], open[Master])
        /\ job \in [Workers -> Jobs \cup {Null}] /\ JobOK(node, graph[w], job[w])
        /\ lock \in Workers \cup {Null} /\ left \in Seq(Refs) /\ merged \in BOOLEAN
    BY <1>1, OfThread
  <1>3. /\ from \in MadeIn(node) /\ TopIn(node)[from] = Root /\ d <= MaxDepth /\ d \in Nat
    <2>1. /\ Placed(node, graph[Master], Len(open[Master])) /\ graph[Master].tops = <<Root>>
          /\ graph[Master].level <= MaxDepth
      BY <1>2 DEF ThreadOK
    <2>2. ToSet(<<Root>>) = {Root}
      BY DEF ToSet
    <2>3. /\ from \in MadeIn(node) /\ TopIn(node)[from] = Root /\ d = graph[Master].level
      BY <2>1, <2>2 DEF Placed
    <2> QED BY <1>2, <2>1, <2>3, OfTrees
  <1>4. graph[w].phase = "none" /\ graph[Master].phase = "live"
    BY DEF Start
  <1>5. /\ node' = m /\ graph' = [graph EXCEPT ![w] = h]
        /\ UNCHANGED <<open, job, lock, left, merged>>
    BY DEF Start, State, NewRef, NextRef, Node, NodeAt, WithNode
  <1>6. m = WithNode(node, w, Dummy(NodeAt(node, from).key, NodeAt(node, from).depth, w, from))
        /\ y = NextRef(node, w)
    OBVIOUS
  <1> HIDE DEF m, from, y
  <1>7. /\ Forest(m) /\ Follows(node, m, Null)
        /\ y \in MadeIn(m) /\ y \in Refs /\ y[1] = w
        /\ NodeAt(m, y).dummy /\ NodeAt(m, y).depth = d /\ TopIn(m)[y] = y
        /\ MadeIn(m) = MadeIn(node) \cup {y} /\ Grown(node, m)
        /\ \A r \in MadeIn(node) : NodeAt(m, r) = NodeAt(node, r)
    BY <1>1, <1>2, <1>3, <1>6, ForestBookmarked
  <1> HIDE DEF d
  <1>8. /\ <<y>> \in Seq(Refs) /\ ToSet(<<y>>) = {y} /\ <<y>> # <<>>
    BY <1>7 DEF ToSet
  <1>9. /\ h \in GraphMembers /\ h.phase = "live" /\ h.tops = <<y>> /\ h.cur = y /\ h.level = d
        /\ h.sea = d /\ h.marks = <<y>>
    BY <1>3, <1>7, <1>8 DEF NewGraph, GraphMembers, RefOrNull
  <1> HIDE DEF h
  <1>10. open[w] = <<>> /\ Len(open[w]) = 0
    BY <1>2, <1>4 DEF ThreadOK
  <1>11. Placed(m, h, Len(open[w]))
    BY <1>3, <1>7, <1>8, <1>9, <1>10 DEF Placed
  <1>12. ThreadOK(m, w, h, open[w])
    BY <1>1, <1>7, <1>8, <1>9, <1>10, <1>11 DEF ThreadOK
  <1>13. JobOK(m, h, job[w])
    BY <1>2, <1>4 DEF JobOK
  <1>14. graph' = Put(graph, w, h) /\ open' = Put(open, w, open[w])
    BY <1>2, <1>5 DEF Put
  <1>15. MergeOK(graph', lock, left, merged)
    <2>1. h.phase # "merging" /\ graph[w].phase # "merging" /\ graph[Master].phase # "final"
      BY <1>4, <1>9
    <2> QED BY <1>1, <1>9, <1>14, <2>1, MergeKept
  <1>16. CallInv'
    <2>1. /\ job' \in [Workers -> Jobs \cup {Null}] /\ \A v \in Workers : v # w => job'[v] = job[v]
          /\ lock' \in Workers \cup {Null} /\ left' \in Seq(Refs) /\ merged' \in BOOLEAN
          /\ MergeOK(graph', lock', left', merged') /\ JobOK(node', h, job'[w])
          /\ ThreadOK(node', w, h, open[w]) /\ Forest(node') /\ Follows(node, node', Null)
          /\ open[w] \in Seq(Timers)
      BY <1>1, <1>2, <1>5, <1>7, <1>12, <1>13, <1>15
    <2> QED BY <1>1, <1>9, <1>14, <2>1, ThreadMoves
  <1> QED BY <1>4, <1>5, <1>7, <1>9, <1>10, <1>16

\* A worker ends.
LEMMA ExitStep ==
  ASSUME CallInv, NEW w \in Workers, Exit(w)
  PROVE  CallInv' /\ node' = node /\ open' = open
         /\ graph[w].phase = "live"
         /\ \E h : h.phase = "exiting" /\ graph' = [graph EXCEPT ![w] = h]
  <1> DEFINE h == [graph[w] EXCEPT !.phase = "exiting"]
  <1>1. w \in Threads /\ w # Master
    BY CallGraphAssumption DEF Threads
  <1>2. /\ Forest(node) /\ Trees(node) /\ graph[w] \in GraphMembers
        /\ graph \in [Threads -> GraphMembers] /\ open \in [Threads -> Seq(Timers)]
        /\ ThreadOK(node, w, graph[w], open[w])
        /\ job \in [Workers -> Jobs \cup {Null}] /\ JobOK(node, graph[w], job[w])
        /\ lock \in Workers \cup {Null} /\ left \in Seq(Refs) /\ merged \in BOOLEAN
        /\ MergeOK(graph, lock, left, merged)
    BY <1>1, OfThread
  <1>3. /\ graph[w].phase = "live" /\ job[w] = Null /\ graph' = [graph EXCEPT ![w] = h]
        /\ UNCHANGED <<node, open, job, lock, left, merged>>
    BY DEF Exit
  <1>4. /\ h \in GraphMembers /\ h.phase = "exiting" /\ h.tops = graph[w].tops
        /\ h.cur = graph[w].cur /\ h.level = graph[w].level /\ h.sea = graph[w].sea
        /\ h.marks = graph[w].marks
    BY <1>2 DEF GraphMembers
  <1> HIDE DEF h
  <1>5. Placed(node, h, Len(open[w]))
    BY <1>2, <1>3, <1>4 DEF ThreadOK, Placed
  <1>6. ThreadOK(node, w, h, open[w])
    BY <1>1, <1>2, <1>3, <1>4, <1>5 DEF ThreadOK
  <1>7. graph' = Put(graph, w, h) /\ open' = Put(open, w, open[w])
    BY <1>2, <1>3 DEF Put
  <1>8. MergeOK(graph', lock, left, merged)
    <2>1. h.phase # "merging" /\ graph[w].phase # "merging" /\ graph[Master].phase # "final"
      BY <1>2, <1>3, <1>4 DEF MergeOK
    <2> QED BY <1>1, <1>4, <1>7, <2>1, MergeKept
  <1>9. CallInv'
    <2>1. /\ job' \in [Workers -> Jobs \cup {Null}] /\ \A v \in Workers : v # w => job'[v] = job[v]
          /\ lock' \in Workers \cup {Null} /\ left' \in Seq(Refs) /\ merged' \in BOOLEAN
          /\ MergeOK(graph', lock', left', merged') /\ JobOK(node', h, job'[w])
          /\ ThreadOK(node', w, h, open[w]) /\ Forest(node') /\ Follows(node, node', Null)
          /\ open[w] \in Seq(Timers)
      BY <1>1, <1>2, <1>3, <1>6, <1>8, FollowsItself DEF JobOK
    <2> QED BY <1>1, <1>4, <1>7, <2>1, ThreadMoves
  <1> QED BY <1>3, <1>4, <1>9

-----------------------------------------------------------------------------
(* The end of a thread.                                                    *)

\* stack_clear changes nothing but laps.
LEMMA StackCleared ==
  ASSUME Nodes(node), NEW t \in Threads, open[t] \in Seq(Timers)
  PROVE  /\ Unmoved(node, ClearedStack(node, t))
         /\ \A r \in MadeIn(node) : NodeAt(ClearedStack(node, t), r).laps =
              NodeAt(node, r).laps + Cardinality({i \in DOMAIN open[t] : open[t][i].at = r})
  <1> DEFINE Laps(r) == Cardinality({i \in DOMAIN open[t] : open[t][i].at = r})
             New(u, i) == [node[u][i] EXCEPT !.laps = @ + Laps(<<u, i>>)]
             m == [u \in Threads |-> [i \in DOMAIN node[u] |-> New(u, i)]]
  <1>1. m = ClearedStack(node, t)
    BY DEF ClearedStack
  <1>2. \A r : Laps(r) \in Nat
    <2> SUFFICES ASSUME NEW r PROVE Laps(r) \in Nat
      OBVIOUS
    <2> DEFINE D == DOMAIN open[t]
               X == {i \in D : open[t][i].at = r}
    <2>1. D = 1 .. Len(open[t]) /\ Len(open[t]) \in Nat
      BY LenProperties
    <2>2. IsFiniteSet(D)
      <3> DEFINE l == Len(open[t])
      <3>1. D = 1 .. l /\ l \in Nat
        BY <2>1
      <3> HIDE DEF l, D
      <3>2. IsFiniteSet(1 .. l)
        BY <3>1, FS_Interval
      <3> QED BY <3>1, <3>2
    <2>3. X \subseteq D
      OBVIOUS
    <2>4. Laps(r) = Cardinality(X)
      OBVIOUS
    <2> HIDE DEF X, D, Laps
    <2> QED BY <2>2, <2>3, <2>4, FS_Subset, FS_CardinalityType
  <1> HIDE DEF Laps
  <1>3. ASSUME NEW u \in Threads, NEW i \in DOMAIN node[u]
        PROVE  /\ New(u, i) \in NodeMembers
               /\ New(u, i).key = node[u][i].key /\ New(u, i).depth = node[u][i].depth
               /\ New(u, i).tid = node[u][i].tid /\ New(u, i).dummy = node[u][i].dummy
               /\ New(u, i).of = node[u][i].of /\ New(u, i).up = node[u][i].up
               /\ New(u, i).kids = node[u][i].kids
               /\ New(u, i).laps = node[u][i].laps + Laps(<<u, i>>)
    <2>1. node[u][i] \in NodeMembers
      BY ElementOfSeq, LenProperties DEF Nodes
    <2> QED BY SMTT(30), <1>2, <2>1 DEF NodeMembers
  <1> HIDE DEF New
  <1>4. Nodes(m)
    <2>1. ASSUME NEW u \in Threads PROVE m[u] \in Seq(NodeMembers)
      <3> DEFINE l == Len(node[u])
      <3>1. DOMAIN node[u] = 1 .. l /\ l \in Nat
        BY LenProperties DEF Nodes
      <3>2. m[u] \in [1 .. l -> NodeMembers]
        BY <1>3, <3>1
      <3> HIDE DEF m, l
      <3> QED BY <3>1, <3>2, SeqDef
    <2>2. m = [u \in Threads |-> m[u]]
      OBVIOUS
    <2> HIDE DEF m
    <2> QED BY <2>1, <2>2 DEF Nodes
  <1>5. MadeIn(m) = MadeIn(node)
    <2>1. \A u \in Threads : DOMAIN m[u] = DOMAIN node[u]
      OBVIOUS
    <2> HIDE DEF m
    <2> QED BY <2>1 DEF MadeIn
  <1>6. ASSUME NEW r \in MadeIn(node)
        PROVE  /\ Same(node, m, r) /\ NodeAt(m, r).up = NodeAt(node, r).up
               /\ NodeAt(m, r).kids = NodeAt(node, r).kids
               /\ NodeAt(m, r).laps = NodeAt(node, r).laps + Laps(r)
    <2>1. r[1] \in Threads /\ r[2] \in DOMAIN node[r[1]] /\ r = <<r[1], r[2]>>
      BY MadeAre
    <2>2. NodeAt(m, r) = New(r[1], r[2])
      BY <2>1 DEF NodeAt
    <2> HIDE DEF m
    <2>3. NodeAt(m, r).laps = NodeAt(node, r).laps + Laps(r)
      BY <1>3, <2>1, <2>2 DEF NodeAt
    <2> QED BY <1>3, <2>1, <2>2, <2>3 DEF Same, NodeAt
  <1> HIDE DEF m
  <1>7. \A r \in MadeIn(node) : NodeAt(m, r).laps =
          NodeAt(node, r).laps + Cardinality({i \in DOMAIN open[t] : open[t][i].at = r})
    BY <1>6 DEF Laps
  <1>8. Unmoved(node, m)
    BY <1>4, <1>5, <1>6 DEF Unmoved
  <1> QED BY <1>1, <1>7, <1>8

\* A cleared graph.
LEMMA ThreadCleared ==
  ASSUME NEW n, NEW w \in Workers
  PROVE  LET h == ClearedGraph("none") IN h \in GraphMembers /\ ThreadOK(n, w, h, <<>>)
  <1> DEFINE h == ClearedGraph("none")
  <1>1. /\ h \in GraphMembers /\ h.phase = "none" /\ h.tops = <<>> /\ h.marks = <<>>
    BY DEF ClearedGraph, GraphMembers, RefOrNull
  <1>2. w # Master /\ ToSet(<<>>) = {} /\ DOMAIN <<>> = {}
    BY CallGraphAssumption DEF ToSet
  <1> HIDE DEF h
  <1>3. \A i \in DOMAIN <<>> : <<>>[i].at \in MadeIn(n)
    BY <1>2
  <1>4. \A r \in ToSet(h.tops) : r \in MadeIn(n) /\ NodeAt(n, r).dummy /\ r[1] = w
    BY <1>1, <1>2
  <1>5. ThreadOK(n, w, h, <<>>)
    BY <1>1, <1>2, <1>3, <1>4 DEF ThreadOK
  <1> QED BY <1>1, <1>5 DEF h

\* An empty storage has no timer on its stack.
LEMMA EmptyIsIdle ==
  ASSUME CallInv, NEW w \in Workers, graph[w].phase = "exiting", IsEmpty(w)
  PROVE  open[w] = <<>>
  <1> DEFINE g == graph[w]
             c == g.cur
  <1>1. w \in Threads
    BY DEF Threads
  <1>2. /\ Trees(node) /\ g \in GraphMembers /\ open[w] \in Seq(Timers) /\ Len(open[w]) \in Nat
        /\ Placed(node, g, Len(open[w]))
    BY <1>1, OfThread DEF ThreadOK
  <1>3. /\ c \in MadeIn(node) /\ TopIn(node)[c] \in ToSet(g.tops)
        /\ NodeAt(node, TopIn(node)[c]).depth = g.sea
        /\ NodeAt(node, c).depth = g.sea + Len(open[w]) /\ g.sea \in Nat
    BY <1>2, GraphParts DEF Placed
  <1>4. c \in Linked(w)
    BY <1>3, Names
  <1>5. NodeAt(node, c).dummy
    BY <1>4, Names DEF IsEmpty
  <1>6. NodeAt(node, c).up = Null
    BY <1>2, <1>3, <1>5, OfTrees DEF LinkedAt
  <1>7. TopIn(node)[c] = c
    BY <1>2, <1>3, <1>6, TopIs
  <1> HIDE DEF c, g
  <1>8. Len(open[w]) = 0
    BY <1>2, <1>3, <1>7
  <1> QED BY <1>2, <1>8, EmptySeq

\* The merge of a worker begins.
LEMMA BeginMergeStep ==
  ASSUME CallInv, NEW w \in Workers, BeginMerge(w)
  PROVE  /\ CallInv' /\ Unmoved(node, node')
         /\ \E h, o : /\ o \in {open[w], <<>>} /\ h.phase # "live"
                      /\ graph' = [graph EXCEPT ![w] = h]
                      /\ open' = [open EXCEPT ![w] = o]
  <1>1. w \in Threads /\ Master \in Threads /\ w # Master /\ Workers \subseteq Threads
    BY CallGraphAssumption DEF Threads
  <1>2. /\ Forest(node) /\ Trees(node) /\ graph[w] \in GraphMembers
        /\ graph \in [Threads -> GraphMembers] /\ open \in [Threads -> Seq(Timers)]
        /\ ThreadOK(node, w, graph[w], open[w])
        /\ job \in [Workers -> Jobs \cup {Null}] /\ JobOK(node, graph[w], job[w])
        /\ lock \in Workers \cup {Null} /\ left \in Seq(Refs) /\ merged \in BOOLEAN
        /\ MergeOK(graph, lock, left, merged) /\ open[w] \in Seq(Timers) /\ Nodes(node)
    BY <1>1, OfThread DEF Trees
  <1>3. graph[w].phase = "exiting" /\ lock = Null /\ job' = job
    BY DEF BeginMerge
  <1>4. job[w] = Null
    BY <1>2, <1>3 DEF JobOK
  <1>5. <<>> \in Seq(Timers)
    OBVIOUS
  <1>6. CASE IsEmpty(w)
    <2> DEFINE h == ClearedGraph("none")
    <2>1. graph' = [graph EXCEPT ![w] = h] /\ UNCHANGED <<node, open, lock, left, merged>>
      BY <1>6 DEF BeginMerge
    <2>2. open[w] = <<>>
      BY <1>3, <1>6, EmptyIsIdle
    <2>3. h \in GraphMembers /\ ThreadOK(node, w, h, open[w])
      BY <2>2, ThreadCleared
    <2>4. h.phase = "none"
      BY DEF ClearedGraph
    <2> HIDE DEF h
    <2>5. /\ graph' = Put(graph, w, h) /\ open' = Put(open, w, open[w])
          /\ open' = [open EXCEPT ![w] = open[w]]
      BY <1>1, <1>2, <2>1 DEF Put
    <2>6. MergeOK(graph', lock, left, merged)
      <3>1. h.phase # "merging" /\ graph[w].phase # "merging"
        BY <1>3, <2>4
      <3> QED BY <1>1, <2>3, <2>4, <2>5, <3>1, MergeKept
    <2>7. CallInv'
      <3>1. /\ job' \in [Workers -> Jobs \cup {Null}]
            /\ \A v \in Workers : v # w => job'[v] = job[v]
            /\ lock' \in Workers \cup {Null} /\ left' \in Seq(Refs) /\ merged' \in BOOLEAN
            /\ MergeOK(graph', lock', left', merged') /\ JobOK(node', h, job'[w])
            /\ ThreadOK(node', w, h, open[w]) /\ Forest(node') /\ Follows(node, node', Null)
        BY <1>2, <1>3, <1>4, <2>1, <2>3, <2>6, FollowsItself DEF JobOK
      <3> QED BY <1>1, <1>2, <2>3, <2>5, <3>1, ThreadMoves
    <2>8. Unmoved(node, node')
      BY <1>2, <2>1 DEF Unmoved, Same
    <2> QED BY <2>1, <2>4, <2>5, <2>7, <2>8
  <1>7. CASE ~IsEmpty(w)
    <2> DEFINE h == [graph[w] EXCEPT !.phase = "merging"]
               marks == graph[w].marks
    <2>1. /\ graph' = [graph EXCEPT ![w] = h] /\ open' = [open EXCEPT ![w] = <<>>]
          /\ node' = ClearedStack(node, w) /\ lock' = w /\ merged' = FALSE
          /\ left' = InverseInsert(marks)
      BY <1>7 DEF BeginMerge
    <2>2. /\ h \in GraphMembers /\ h.phase = "merging" /\ h.tops = graph[w].tops /\ h.marks = marks
      BY <1>2 DEF GraphMembers
    <2> HIDE DEF h, marks
    <2>3. Unmoved(node, node')
      BY <1>1, <1>2, <2>1, StackCleared
    <2>4. Forest(node') /\ Follows(node, node', Null)
      BY <1>2, <2>3, ForestUnmoved
    <2>5. marks \in Seq(Refs) /\ marks # <<>> /\ ToSet(graph[w].tops) = ToSet(marks)
          /\ \A r \in ToSet(marks) : r \in MadeIn(node)
      BY <1>1, <1>2, <1>3, GraphParts DEF ThreadOK, marks
    <2>6. left' \in Seq(Refs) /\ ToSet(left') = ToSet(marks) /\ left' # <<>>
      BY <1>2, <2>1, <2>5, InverseInsertIs
    <2>7. ThreadOK(node', w, h, <<>>)
      <3>1. \A r \in ToSet(h.tops) : r \in MadeIn(node) /\ NodeAt(node, r).dummy /\ r[1] = w
        BY <1>2, <2>2 DEF ThreadOK
      <3>2. \A r \in ToSet(h.tops) : r \in MadeIn(node') /\ NodeAt(node', r).dummy /\ r[1] = w
        BY <2>4, <3>1 DEF Follows, Same
      <3>3. \A i \in DOMAIN <<>> : <<>>[i].at \in MadeIn(node')
        OBVIOUS
      <3> QED BY <1>1, <2>2, <2>5, <3>2, <3>3 DEF ThreadOK
    <2>8. graph' = Put(graph, w, h) /\ open' = Put(open, w, <<>>)
      BY <2>1 DEF Put
    <2>9. MergeOK(graph', lock', left', merged')
      <3>1. graph'[w] = h /\ \A u \in Threads \ {w} : graph'[u] = graph[u]
        BY <1>1, <1>2, <2>1
      <3>2. \A v \in Workers : graph[v].phase # "merging"
        BY <1>2, <1>3, CallGraphAssumption DEF MergeOK
      <3>3. graph'[Master].phase # "final"
        BY <1>1, <1>2, <1>3, <3>1 DEF MergeOK
      <3>4. \A v \in Workers : graph'[v].phase = "merging" <=> w = v
        BY <1>1, <2>2, <3>1, <3>2
      <3>5. w # Null
        BY CallGraphAssumption
      <3>6. \A r \in ToSet(left') : r \in ToSet(graph'[w].marks)
        BY <2>2, <2>6, <3>1
      <3> QED BY <2>1, <2>6, <3>3, <3>4, <3>5, <3>6 DEF MergeOK
    <2>10. CallInv'
      <3>1. /\ job' \in [Workers -> Jobs \cup {Null}]
            /\ \A v \in Workers : v # w => job'[v] = job[v]
            /\ lock' \in Workers \cup {Null} /\ merged' \in BOOLEAN
            /\ JobOK(node', h, job'[w])
        BY <1>2, <1>3, <1>4, <2>1 DEF JobOK
      <3> QED BY <1>1, <1>5, <2>2, <2>4, <2>6, <2>7, <2>8, <2>9, <3>1, ThreadMoves
    <2>11. h.phase # "live"
      BY <2>2
    <2> QED BY <2>1, <2>3, <2>10, <2>11
  <1> QED BY <1>6, <1>7

\* The merge goes on with the next bookmark: find returns a node, and the children of
\* the bookmark move below it.
LEMMA MergeOneStep ==
  ASSUME CallInv, NEW w \in Workers, MergeOne(w)
  PROVE  /\ CallInv' /\ UNCHANGED <<graph, open>> /\ Follows(node, node', Head(left))
         /\ Head(left) \in ToSet(graph[w].tops) /\ graph[w].phase = "merging"
         /\ \A r \in MadeIn(node) :
              NodeAt(node, r).up # Head(left) => NodeAt(node', r).up = NodeAt(node, r).up
         /\ MadeIn(node') = MadeIn(node) /\ NodeAt(node, Head(left)).dummy
         /\ \A r \in MadeIn(node) :
              /\ NodeAt(node', r).laps = NodeAt(node, r).laps
              /\ TopIn(node')[r] = IF TopIn(node)[r] = Head(left) /\ r # Head(left) THEN Root
                                   ELSE TopIn(node)[r]
  <1> DEFINE r == Head(left)
             f == Find(r)
             kids == Movable(r)
             of == NodeAt(node, r).of
  <1>1. w \in Threads /\ Master \in Threads /\ w # Master /\ w # Null
    BY CallGraphAssumption DEF Threads
  <1>2. /\ Forest(node) /\ Trees(node) /\ graph[w] \in GraphMembers
        /\ graph \in [Threads -> GraphMembers] /\ open \in [Threads -> Seq(Timers)]
        /\ ThreadOK(node, w, graph[w], open[w])
        /\ ThreadOK(node, Master, graph[Master], open[Master])
        /\ job \in [Workers -> Jobs \cup {Null}] /\ JobOK(node, graph[w], job[w])
        /\ lock \in Workers \cup {Null} /\ left \in Seq(Refs) /\ merged \in BOOLEAN
        /\ MergeOK(graph, lock, left, merged) /\ open[w] \in Seq(Timers)
    BY <1>1, OfThread
  <1>3. lock = w /\ left # <<>> /\ left' = Tail(left) /\ UNCHANGED <<graph, open, job, lock>>
    BY DEF MergeOne
  <1>4. graph[w].phase = "merging" /\ open[w] = <<>> /\ job[w] = Null
    BY <1>2, <1>3 DEF MergeOK, ThreadOK, JobOK
  <1>5. /\ r \in ToSet(left) /\ Tail(left) \in Seq(Refs) /\ ToSet(Tail(left)) \subseteq ToSet(left)
    <2>1. r = left[1] /\ 1 \in DOMAIN left
      BY <1>2, <1>3, HeadTailProperties, EmptySeq, LenProperties
    <2>2. /\ Tail(left) \in Seq(Refs) /\ Len(Tail(left)) = Len(left) - 1
          /\ \A i \in 1 .. Len(Tail(left)) : Tail(left)[i] = left[i + 1]
      BY <1>2, <1>3, HeadTailProperties
    <2>3. \A q \in Seq(Refs) : Len(q) \in Nat /\ DOMAIN q = 1 .. Len(q)
      BY LenProperties
    <2>4. \A i \in DOMAIN Tail(left) : i + 1 \in DOMAIN left /\ Tail(left)[i] = left[i + 1]
      BY <1>2, <2>2, <2>3
    <2> QED BY <2>1, <2>2, <2>4 DEF ToSet
  <1>6. /\ r \in ToSet(graph[w].tops) /\ r \in MadeIn(node) /\ NodeAt(node, r).dummy /\ r[1] = w
        /\ r # Root /\ r # Null
    <2>1. r \in ToSet(graph[w].tops)
      BY <1>2, <1>3, <1>5 DEF MergeOK, ThreadOK
    <2>2. r \in MadeIn(node) /\ NodeAt(node, r).dummy /\ r[1] = w
      BY <1>2, <2>1 DEF ThreadOK
    <2> QED BY <1>1, <1>2, <2>1, <2>2, OfTrees DEF Root
  <1> HIDE DEF r, f, kids, of
  <1>7. /\ of \in MadeIn(node) /\ TopIn(node)[of] = Root
        /\ NodeAt(node, of).key = NodeAt(node, r).key
        /\ NodeAt(node, of).depth = NodeAt(node, r).depth
    BY <1>2, <1>6 DEF Forest, CopyAt, of
  <1>8. f \in MadeIn(node) /\ TopIn(node)[f] = Root /\ NodeAt(node, f).depth = NodeAt(node, r).depth
        /\ f # Null
    <2>1. /\ Root \in MadeIn(node) /\ NodeAt(node, Root).depth = 0 /\ graph[Master].tops = <<Root>>
      BY <1>2 DEF Forest, HasRoot, ThreadOK
    <2>2. /\ f \in MadeIn(node) /\ TopIn(node)[f] = Root
          /\ NodeAt(node, f).depth = NodeAt(node, r).depth
      BY <1>2, <1>6, <1>7, <2>1, FoundIs DEF f
    <2> QED BY <1>2, <2>2, OfTrees
  <1>9. node' = Moved(node, r, kids, f) /\ merged' = TRUE
    BY <1>8 DEF MergeOne, r, f, kids
  <1>10. LinkedAt(node, r) /\ NodeAt(node, r).up = Null /\ NodeAt(node, r).kids \in Seq(Refs)
    BY <1>2, <1>6, OfTrees DEF LinkedAt, NodeMembers
  <1>11. kids \in Seq(Refs) /\ ToSet(kids) = ToSet(NodeAt(node, r).kids)
    <2> DEFINE q == NodeAt(node, r).kids
               set == {k \in ToSet(q) : ~Node(k).dummy}
    <2>1. kids = Only(q, set)
      BY Names DEF Movable, kids
    <2>2. ASSUME NEW k \in ToSet(q) PROVE ~Node(k).dummy
      <3>1. k \in MadeIn(node) /\ NodeAt(node, k).up = r
        BY <1>10 DEF LinkedAt
      <3>2. ~NodeAt(node, k).dummy
        BY <1>2, <1>6, <3>1, OfTrees DEF LinkedAt
      <3> QED BY <3>2, Names
    <2>3. set = ToSet(q)
      BY <2>2
    <2>4. q \in Seq(Refs)
      BY <1>10
    <2> HIDE DEF q, set
    <2>5. Only(q, set) \in Seq(Refs) /\ ToSet(Only(q, set)) = ToSet(q) \cap set
      BY <2>4, OnlyAre
    <2>6. ToSet(kids) = ToSet(q)
      BY <2>1, <2>3, <2>5
    <2> QED BY <2>1, <2>5, <2>6 DEF q
  <1>12. /\ Trees(node') /\ MadeIn(node') = MadeIn(node) /\ Follows(node, node', r)
         /\ \A q \in MadeIn(node) :
              /\ TopIn(node')[q] = IF TopIn(node)[q] = r /\ q # r THEN TopIn(node)[f]
                                   ELSE TopIn(node)[q]
              /\ NodeAt(node, q).up # r => NodeAt(node', q).up = NodeAt(node, q).up
              /\ NodeAt(node', q).laps = NodeAt(node, q).laps
    <2>1. TopIn(node)[f] # r
      BY <1>6, <1>8
    <2> QED BY <1>2, <1>6, <1>8, <1>9, <1>10, <1>11, <2>1, TreesMoved
  <1>13. Forest(node')
    <2>1. ASSUME NEW q \in MadeIn(node), TopIn(node')[q] # Root
          PROVE  NodeAt(node', q).up = NodeAt(node, q).up
      <3>1. CASE NodeAt(node, q).up = r
        <4>1. q # r
          BY <1>6, <1>10, <3>1
        <4>2. TopIn(node)[q] = TopIn(node)[r] /\ TopIn(node)[r] = r
          BY <1>2, <1>6, <1>10, <3>1, TopIs
        <4>3. TopIn(node')[q] = Root
          BY <1>8, <1>12, <4>1, <4>2
        <4> QED BY <2>1, <4>3
      <3>2. CASE NodeAt(node, q).up # r
        BY <1>12, <3>2
      <3> QED BY <3>1, <3>2
    <2>2. MadeIn(node') \ MadeIn(node) = {}
      BY <1>12
    <2> QED BY <1>2, <1>6, <1>12, <2>1, <2>2, ForestFollows
  <1>14. ThreadOK(node', w, graph[w], open[w])
    BY <1>1, <1>2, <1>4, <1>12, ThreadFollows
  <1>15. MergeOK(graph', lock', left', merged')
    <2>1. \A q \in ToSet(left') : q \in ToSet(left)
      BY <1>3, <1>5
    <2> QED BY <1>2, <1>3, <1>9, <2>1 DEF MergeOK
  <1>16. graph' = Put(graph, w, graph[w]) /\ open' = Put(open, w, open[w])
    BY <1>1, <1>2, <1>3 DEF Put
  <1>17. CallInv'
    <2>1. /\ job' \in [Workers -> Jobs \cup {Null}] /\ \A v \in Workers : v # w => job'[v] = job[v]
          /\ lock' \in Workers \cup {Null} /\ left' \in Seq(Refs) /\ merged' \in BOOLEAN
          /\ JobOK(node', graph[w], job'[w])
      BY <1>2, <1>3, <1>4, <1>5, <1>9 DEF JobOK
    <2> QED BY <1>1, <1>2, <1>6, <1>12, <1>13, <1>14, <1>15, <1>16, <2>1, ThreadMoves
  <1>18. \A q \in MadeIn(node) :
            /\ NodeAt(node', q).laps = NodeAt(node, q).laps
            /\ TopIn(node')[q] = IF TopIn(node)[q] = r /\ q # r THEN Root ELSE TopIn(node)[q]
    BY <1>8, <1>12
  <1> QED BY <1>3, <1>4, <1>6, <1>12, <1>17, <1>18 DEF r

\* The merge ends: the place of some bookmark was found.
LEMMA EndMergeStep ==
  ASSUME CallInv, NEW w \in Workers, EndMerge(w)
  PROVE  CallInv' /\ node' = node /\ open' = open
         /\ \E h : h.phase # "live" /\ graph' = [graph EXCEPT ![w] = h]
  <1> DEFINE h == ClearedGraph("none")
  <1>1. w \in Threads /\ Master \in Threads /\ w # Master /\ w # Null /\ Null \notin Workers
        /\ Workers \subseteq Threads
    BY CallGraphAssumption DEF Threads
  <1>2. /\ Forest(node) /\ Trees(node) /\ graph[w] \in GraphMembers
        /\ graph \in [Threads -> GraphMembers] /\ open \in [Threads -> Seq(Timers)]
        /\ ThreadOK(node, w, graph[w], open[w])
        /\ job \in [Workers -> Jobs \cup {Null}] /\ JobOK(node, graph[w], job[w])
        /\ lock \in Workers \cup {Null} /\ left \in Seq(Refs) /\ merged \in BOOLEAN
        /\ MergeOK(graph, lock, left, merged) /\ open[w] \in Seq(Timers)
    BY <1>1, OfThread
  <1>3. lock = w /\ left = <<>> /\ lock' = Null /\ UNCHANGED <<open, job, left, merged>>
    BY DEF EndMerge
  <1>4. graph[w].phase = "merging" /\ open[w] = <<>> /\ job[w] = Null /\ merged
    BY <1>1, <1>2, <1>3 DEF MergeOK, ThreadOK, JobOK
  <1>5. node' = node /\ graph' = [graph EXCEPT ![w] = h]
    <2>1. graph' = [graph EXCEPT ![w] =
                      ClearedGraph(IF @.phase = "merging" THEN "none" ELSE "cleared")]
      BY DEF EndMerge
    <2>2. node' = node
      BY <1>4 DEF EndMerge
    <2> QED BY <1>4, <2>1, <2>2
  <1>6. h \in GraphMembers /\ ThreadOK(node, w, h, open[w])
    BY <1>4, ThreadCleared
  <1>7. h.phase = "none"
    BY DEF ClearedGraph
  <1> HIDE DEF h
  <1>8. graph' = Put(graph, w, h) /\ open' = Put(open, w, open[w])
    BY <1>1, <1>2, <1>3, <1>5 DEF Put
  <1>9. MergeOK(graph', lock', left', merged')
    <2>1. graph'[w] = h /\ \A u \in Threads \ {w} : graph'[u] = graph[u]
      BY <1>1, <1>2, <1>5
    <2>2. \A v \in Workers : graph'[v].phase # "merging"
      <3>1. \A v \in Workers : v # w => graph[v].phase # "merging"
        BY <1>2, <1>3 DEF MergeOK
      <3> QED BY <1>1, <1>7, <2>1, <3>1
    <2>3. graph'[Master].phase = "final" => \A v \in Workers : graph'[v].phase = "none"
      <3>1. graph[Master].phase = "final" => \A v \in Workers : graph[v].phase = "none"
        BY <1>2 DEF MergeOK
      <3> QED BY <1>1, <1>7, <2>1, <3>1
    <2>4. ToSet(left') = {}
      BY <1>3 DEF ToSet
    <2> QED BY <1>1, <1>3, <2>2, <2>3, <2>4 DEF MergeOK
  <1>10. CallInv'
    <2>1. /\ job' \in [Workers -> Jobs \cup {Null}] /\ \A v \in Workers : v # w => job'[v] = job[v]
          /\ lock' \in Workers \cup {Null} /\ left' \in Seq(Refs) /\ merged' \in BOOLEAN
          /\ JobOK(node', h, job'[w]) /\ ThreadOK(node', w, h, open[w]) /\ Forest(node')
          /\ Follows(node, node', Null)
      BY <1>2, <1>3, <1>4, <1>5, <1>6, FollowsItself DEF JobOK
    <2> QED BY <1>1, <1>2, <1>6, <1>8, <1>9, <2>1, ThreadMoves
  <1> QED BY <1>3, <1>5, <1>7, <1>10

-----------------------------------------------------------------------------
(* The main thread and the other threads' storages, and the invariant.     *)

\* synchronize() of a worker with nothing on its stack.
LEMMA SynchronizeIdleStep ==
  ASSUME CallInv, NEW w \in Workers, SynchronizeIdle(w)
  PROVE  /\ CallInv' /\ open' = open /\ open[w] = <<>> /\ Follows(node, node', Null)
         /\ \E h : /\ h.phase = "live" /\ graph' = [graph EXCEPT ![w] = h]
                   /\ ToSet(graph[w].tops) \subseteq ToSet(h.tops)
         /\ Grown(node, node') /\ \A r \in MadeIn(node') \ MadeIn(node) : NodeAt(node', r).dummy
  <1> DEFINE s == AddDummy(State, w, Master)
  <1>1. w \in Threads /\ Master \in Threads /\ w # Master
    BY CallGraphAssumption DEF Threads
  <1>2. /\ graph[w] \in GraphMembers /\ graph \in [Threads -> GraphMembers]
        /\ open \in [Threads -> Seq(Timers)] /\ open[w] \in Seq(Timers)
        /\ job \in [Workers -> Jobs \cup {Null}] /\ Trees(node)
        /\ lock \in Workers \cup {Null} /\ left \in Seq(Refs) /\ merged \in BOOLEAN
    BY <1>1, OfThread
  <1>3. /\ graph[w].phase = "live" /\ job[w] = Null /\ graph[Master].phase = "live"
        /\ open[w] = <<>> /\ node' = s.node /\ graph' = s.graph
        /\ UNCHANGED <<open, job, lock, left, merged>>
    BY DEF SynchronizeIdle, Synchronize
  <1>4. s = AddDummy(State, w, Master)
    OBVIOUS
  <1> HIDE DEF s
  <1>5. PICK y \in Refs, d \in Nat : Marked(s, w, y, d)
    BY <1>1, <1>3, <1>4, AddDummyIs
  <1> DEFINE h == Bookmarked(graph[w], y, d)
  <1>6. /\ graph' = [graph EXCEPT ![w] = h] /\ Forest(node') /\ Follows(node, node', Null)
        /\ h \in GraphMembers /\ h.phase = "live" /\ ThreadOK(node', w, h, open[w])
        /\ ToSet(graph[w].tops) \subseteq ToSet(h.tops) /\ Grown(node, node')
        /\ \A r \in MadeIn(node') \ MadeIn(node) : NodeAt(node', r).dummy
    BY <1>3, <1>5 DEF Marked
  <1> HIDE DEF h
  <1>7. graph' = Put(graph, w, h) /\ open' = Put(open, w, open[w])
    BY <1>1, <1>2, <1>3, <1>6 DEF Put
  <1>8. MergeOK(graph', lock, left, merged)
    <2>1. h.phase # "merging" /\ graph[w].phase # "merging" /\ h.phase = graph[w].phase
      BY <1>3, <1>6
    <2> QED BY <1>1, <1>6, <1>7, <2>1, MergeKept
  <1>9. CallInv'
    <2>1. /\ job' \in [Workers -> Jobs \cup {Null}] /\ \A v \in Workers : v # w => job'[v] = job[v]
          /\ lock' \in Workers \cup {Null} /\ left' \in Seq(Refs) /\ merged' \in BOOLEAN
          /\ MergeOK(graph', lock', left', merged') /\ JobOK(node', h, job'[w])
      BY <1>2, <1>3, <1>8 DEF JobOK
    <2> QED BY <1>1, <1>2, <1>6, <1>7, <2>1, ThreadMoves
  <1> QED BY <1>3, <1>6, <1>9

\* The main thread finalizes when the workers are gone.
LEMMA FinalizeStep ==
  ASSUME CallInv, Joined, Finalize
  PROVE  /\ CallInv' /\ Unmoved(node, node') /\ UNCHANGED job
         /\ \E h : h.phase = "final" /\ graph' = [graph EXCEPT ![Master] = h]
                   /\ open' = [open EXCEPT ![Master] = <<>>]
  <1> DEFINE g == graph[Master]
             h == [g EXCEPT !.phase = "final", !.level = 0, !.cur = Root]
  <1>1. Master \in Threads /\ Master \notin Workers /\ Workers \subseteq Threads
    BY CallGraphAssumption DEF Threads
  <1>2. /\ Forest(node) /\ Trees(node) /\ g \in GraphMembers
        /\ graph \in [Threads -> GraphMembers] /\ open \in [Threads -> Seq(Timers)]
        /\ ThreadOK(node, Master, g, open[Master])
        /\ job \in [Workers -> Jobs \cup {Null}] /\ open[Master] \in Seq(Timers)
        /\ lock \in Workers \cup {Null} /\ left \in Seq(Refs) /\ merged \in BOOLEAN
        /\ MergeOK(graph, lock, left, merged) /\ Nodes(node)
    BY <1>1, OfThread DEF Trees
  <1>3. /\ g.phase = "live" /\ g.tops = <<Root>> /\ g.tops[1] = Root /\ g.sea = 0
    BY <1>2 DEF ThreadOK, Finalize
  <1>4. /\ node' = ClearedStack(node, Master) /\ open' = [open EXCEPT ![Master] = <<>>]
        /\ UNCHANGED <<job, lock, left, merged>>
    BY DEF Finalize
  <1>5. graph' = [graph EXCEPT ![Master] = h]
    <2>1. graph' = [graph EXCEPT ![Master].phase = "final", ![Master].level = 0,
                                 ![Master].cur = Root]
      BY <1>3 DEF Finalize
    <2> QED BY <1>1, <1>2, <2>1
  <1>6. /\ Root \in MadeIn(node) /\ NodeAt(node, Root).dummy /\ NodeAt(node, Root).depth = 0
        /\ Root \in Refs
    BY <1>2, OfTrees DEF Forest, HasRoot
  <1>7. /\ h \in GraphMembers /\ h.phase = "final" /\ h.level = 0 /\ h.cur = Root /\ h.sea = 0
        /\ h.tops = <<Root>> /\ h.marks = g.marks
    BY <1>2, <1>3, <1>6 DEF GraphMembers, RefOrNull
  <1> HIDE DEF h
  <1>8. Unmoved(node, node')
    BY <1>1, <1>2, <1>4, StackCleared
  <1>9. Forest(node') /\ Follows(node, node', Null)
    BY <1>2, <1>8, ForestUnmoved
  <1>10. ThreadOK(node, Master, h, <<>>)
    <2>1. NodeAt(node, Root).up = Null
      BY <1>2, <1>6, OfTrees DEF LinkedAt
    <2>2. TopIn(node)[Root] = Root
      BY <1>2, <1>6, <2>1, TopIs
    <2>3. ToSet(<<Root>>) = {Root} /\ Len(<<>>) = 0 /\ DOMAIN <<>> = {}
      BY DEF ToSet
    <2>4. Placed(node, h, Len(<<>>))
      BY <1>6, <1>7, <2>2, <2>3 DEF Placed
    <2>5. \A i \in DOMAIN <<>> : <<>>[i].at \in MadeIn(node)
      BY <2>3
    <2>6. /\ \A r \in ToSet(h.tops) : r \in MadeIn(node) /\ NodeAt(node, r).dummy /\ r[1] = Master
          /\ ToSet(h.tops) = ToSet(h.marks)
      BY <1>2, <1>3, <1>7 DEF ThreadOK
    <2> QED BY <1>7, <2>4, <2>5, <2>6, CallGraphAssumption DEF ThreadOK
  <1>11. ThreadOK(node', Master, h, <<>>)
    <2>1. Null \notin ToSet(h.tops)
      BY <1>7, GraphParts
    <2> QED BY <1>1, <1>2, <1>7, <1>9, <1>10, <2>1, ThreadFollows
  <1>12. graph' = Put(graph, Master, h) /\ open' = Put(open, Master, <<>>)
    BY <1>4, <1>5 DEF Put
  <1>13. MergeOK(graph', lock', left', merged')
    <2>1. graph'[Master] = h /\ \A w \in Workers : graph'[w] = graph[w]
      BY <1>1, <1>2, <1>5
    <2>2. \A w \in Workers : graph[w].phase = "none"
      BY DEF Joined
    <2>3. lock = Null
      BY <1>2, <2>2 DEF MergeOK
    <2>4. ToSet(left) = {}
      BY <1>2, <2>3 DEF MergeOK
    <2> QED BY <1>2, <1>4, <2>1, <2>2, <2>3, <2>4, CallGraphAssumption DEF MergeOK
  <1>14. CallInv'
    <2>1. /\ job' \in [Workers -> Jobs \cup {Null}]
          /\ \A v \in Workers : v # Master => job'[v] = job[v]
          /\ lock' \in Workers \cup {Null} /\ left' \in Seq(Refs) /\ merged' \in BOOLEAN
          /\ <<>> \in Seq(Timers)
      BY <1>2, <1>4
    <2> QED BY <1>1, <1>7, <1>9, <1>11, <1>12, <1>13, <2>1, ThreadMoves
  <1> QED BY <1>4, <1>5, <1>7, <1>8, <1>14

\* It holds when the program starts.
LEMMA CallInit ==
  ASSUME Init
  PROVE  CallInv
  <1> DEFINE x == Dummy(RootKey, 0, Master, Null)
             g0 == NewGraph(Root, 0)
  <1>1. Master \in Threads /\ Master \notin Workers /\ Workers \subseteq Threads
        /\ MaxDepth \in Nat /\ Null \notin Workers /\ Root \in Refs /\ Root[1] = Master
    BY CallGraphAssumption DEF Threads, Refs, Root
  <1>2. /\ x \in NodeMembers /\ x.key = <<Null, 0>> /\ x.key[2] = 0 /\ x.depth = 0 /\ x.dummy
        /\ x.up = Null /\ x.kids = <<>> /\ x.tid = Master
    BY <1>1 DEF Dummy, RootKey, NodeMembers, RefOrNull
  <1>3. /\ node = [t \in Threads |-> IF t = Master THEN <<x>> ELSE <<>>]
        /\ graph = [t \in Threads |-> IF t = Master THEN g0 ELSE ClearedGraph("none")]
        /\ open = [t \in Threads |-> <<>>] /\ job = [w \in Workers |-> Null]
        /\ lock = Null /\ left = <<>> /\ merged = FALSE
    BY DEF Init, Root
  <1> HIDE DEF x
  <1>4. Nodes(node)
    <2>1. <<x>> \in Seq(NodeMembers) /\ <<>> \in Seq(NodeMembers)
      BY <1>2
    <2> HIDE DEF Nodes
    <2> QED BY <1>3, <2>1 DEF Nodes
  <1>5. MadeIn(node) = {Root} /\ NodeAt(node, Root) = x
    <2>1. DOMAIN <<x>> = {1} /\ DOMAIN <<>> = {} /\ <<x>>[1] = x
      OBVIOUS
    <2>2. NodeAt(node, Root) = x
      BY <1>1, <1>3, <2>1 DEF NodeAt, Root
    <2>3. \A t \in Threads : DOMAIN node[t] = IF t = Master THEN {1} ELSE {}
      BY <1>3, <2>1
    <2>4. MadeIn(node) = {Root}
      BY <1>1, <2>3 DEF MadeIn, Root
    <2> QED BY <2>2, <2>4
  <1>6. Trees(node)
    <2>1. ToSet(<<>>) = {}
      BY DEF ToSet
    <2>2. LinkedAt(node, Root)
      BY <1>1, <1>2, <1>5, <2>1 DEF LinkedAt
    <2> QED BY <1>4, <1>5, <2>2 DEF Trees
  <1>7. Forest(node)
    <2>1. HasRoot(node)
      BY <1>2, <1>5 DEF HasRoot
    <2>2. CopyAt(node, Root)
      BY DEF CopyAt
    <2>3. DepthAt(node, Root)
      BY <1>1, <1>2, <1>5 DEF DepthAt
    <2> QED BY <1>5, <1>6, <2>1, <2>2, <2>3 DEF Forest
  <1>8. /\ g0 \in GraphMembers /\ g0.phase = "live" /\ g0.tops = <<Root>> /\ g0.marks = <<Root>>
        /\ g0.cur = Root /\ g0.level = 0 /\ g0.sea = 0
    BY <1>1 DEF NewGraph, GraphMembers, RefOrNull
  <1> HIDE DEF g0
  <1>9. ThreadOK(node, Master, g0, <<>>)
    <2>1. NodeAt(node, Root).up = Null
      BY <1>2, <1>5
    <2>2. TopIn(node)[Root] = Root
      BY <1>5, <1>6, <2>1, TopIs
    <2>3. ToSet(<<Root>>) = {Root} /\ Len(<<>>) = 0 /\ DOMAIN <<>> = {}
      BY DEF ToSet
    <2>4. Placed(node, g0, Len(<<>>))
      BY <1>2, <1>5, <1>8, <2>2, <2>3 DEF Placed
    <2>5. \A i \in DOMAIN <<>> : <<>>[i].at \in MadeIn(node)
      BY <2>3
    <2> QED BY <1>1, <1>2, <1>5, <1>8, <2>3, <2>4, <2>5 DEF ThreadOK
  <1>10. ASSUME NEW t \in Threads
         PROVE  graph[t] \in GraphMembers /\ ThreadOK(node, t, graph[t], open[t])
    <2>1. CASE t = Master
      BY <1>3, <1>8, <1>9, <2>1
    <2>2. CASE t # Master
      <3>1. t \in Workers
        BY <2>2 DEF Threads
      <3> QED BY <1>3, <2>2, <3>1, ThreadCleared
    <2> QED BY <2>1, <2>2
  <1>11. CallTypes
    <2>1. graph \in [Threads -> GraphMembers]
      BY <1>3, <1>10
    <2>2. <<>> \in Seq(Timers) /\ <<>> \in Seq(Refs)
      OBVIOUS
    <2>3. open \in [Threads -> Seq(Timers)]
      BY <1>3, <2>2
    <2>4. job \in [Workers -> Jobs \cup {Null}]
      BY <1>3
    <2>5. lock \in Workers \cup {Null} /\ left \in Seq(Refs) /\ merged \in BOOLEAN
      BY <1>3, <2>2
    <2> QED BY <2>1, <2>3, <2>4, <2>5 DEF CallTypes
  <1>12. \A w \in Workers : JobOK(node, graph[w], job[w])
    BY <1>3 DEF JobOK
  <1>13. MergeOK(graph, lock, left, merged)
    <2>1. graph[Master].phase = "live" /\ \A w \in Workers : graph[w].phase = "none"
      BY <1>1, <1>3, <1>8 DEF ClearedGraph
    <2>2. ToSet(left) = {}
      BY <1>3 DEF ToSet
    <2> QED BY <1>1, <1>3, <2>1, <2>2 DEF MergeOK
  <1> QED BY <1>7, <1>10, <1>11, <1>12, <1>13 DEF CallInv

\* Every step keeps it.
LEMMA CallNext ==
  ASSUME CallInv, [Next]_vars
  PROVE  CallInv'
  <1>1. ASSUME NEW t \in Threads, Newest(t) PROVE CallInv'
    <2>1. Len(open[t]) \in DOMAIN open[t]
      <3>1. open[t] \in Seq(Timers) /\ open[t] # <<>>
        BY <1>1, OfThread DEF Newest
      <3>2. Len(open[t]) # 0 /\ Len(open[t]) \in Nat /\ DOMAIN open[t] = 1 .. Len(open[t])
        BY <3>1, EmptySeq, LenProperties
      <3> QED BY <3>2
    <2> QED BY <1>1, <2>1, PopStep DEF Newest
  <1>2. ASSUME NEW t \in Threads, Oldest(t) PROVE CallInv'
    <2>1. 1 \in DOMAIN open[t]
      <3>1. open[t] \in Seq(Timers) /\ Len(open[t]) > 1
        BY <1>2, OfThread DEF Oldest
      <3> QED BY <3>1, LenProperties
    <2> QED BY <1>2, <2>1, PopStep DEF Oldest
  <1>3. Master \in Threads /\ Workers \subseteq Threads
    BY DEF Threads
  <1>4. CASE MainUse
    BY <1>1, <1>3, <1>4, PushMasterStep DEF MainUse
  <1>5. ASSUME NEW w \in Workers, Use(w) \/ Exit(w) \/ MergeStep(w) PROVE CallInv'
    <2>1. CASE Start(w)
      BY <2>1, StartStep
    <2>2. CASE EndPush(w)
      BY <2>2, EndPushStep
    <2>3. CASE Newest(w)
      BY <1>1, <1>3, <2>3
    <2>4. CASE \E l \in Labels : BeginPush(w, l)
      BY <2>4, BeginPushStep
    <2>5. CASE Exit(w)
      BY <2>5, ExitStep
    <2>6. CASE BeginMerge(w)
      BY <2>6, BeginMergeStep
    <2>7. CASE MergeOne(w)
      BY <2>7, MergeOneStep
    <2>8. CASE EndMerge(w)
      BY <2>8, EndMergeStep
    <2> QED BY <1>5, <2>1, <2>2, <2>3, <2>4, <2>5, <2>6, <2>7, <2>8 DEF Use, MergeStep
  <1>6. CASE Joined /\ Finalize
    BY <1>6, FinalizeStep
  <1>7. ASSUME NEW w \in Workers, SynchronizeIdle(w) PROVE CallInv'
    BY <1>7, SynchronizeIdleStep
  <1>8. CASE UNCHANGED vars
    BY <1>8 DEF vars, CallInv, CallTypes
  <1> QED BY <1>2, <1>4, <1>5, <1>6, <1>7, <1>8 DEF Next, Work

-----------------------------------------------------------------------------
(* The properties.                                                         *)

\* A merge finds a node for a bookmark of a graph that is in order.
LEMMA BookmarkIsFound ==
  ASSUME CallInv, NEW r \in ToSet(left)
  PROVE  Find(r) # Null
  <1> DEFINE of == NodeAt(node, r).of
  <1>1. Master \in Threads /\ Workers \subseteq Threads /\ Master \notin Workers
    BY CallGraphAssumption DEF Threads
  <1>2. /\ Forest(node) /\ Trees(node) /\ MergeOK(graph, lock, left, merged)
        /\ ThreadOK(node, Master, graph[Master], open[Master]) /\ lock \in Workers \cup {Null}
    BY <1>1, OfThread
  <1>3. lock \in Workers /\ r \in ToSet(graph[lock].marks)
    BY <1>2 DEF MergeOK
  <1>4. ThreadOK(node, lock, graph[lock], open[lock])
    BY <1>1, <1>3, OfThread
  <1>5. r \in MadeIn(node) /\ NodeAt(node, r).dummy /\ r # Root
    BY <1>1, <1>3, <1>4 DEF ThreadOK, Root
  <1>6. /\ of \in MadeIn(node) /\ TopIn(node)[of] = Root
        /\ NodeAt(node, of).key = NodeAt(node, r).key
        /\ NodeAt(node, of).depth = NodeAt(node, r).depth
    BY <1>2, <1>5 DEF Forest, CopyAt
  <1> HIDE DEF of
  <1>7. /\ Root \in MadeIn(node) /\ NodeAt(node, Root).depth = 0 /\ graph[Master].tops = <<Root>>
    BY <1>2 DEF Forest, HasRoot, ThreadOK
  <1>8. Find(r) \in MadeIn(node)
    BY <1>2, <1>5, <1>6, <1>7, FoundIs
  <1> QED BY <1>2, <1>8, OfTrees

\* The nodes of a graph, by the tree they are in.
LEMMA LinkedAre ==
  ASSUME CallInv, NEW t \in Threads, NEW r \in Linked(t)
  PROVE  /\ r \in MadeIn(node) /\ LinkedAt(node, r) /\ DepthAt(node, r) /\ Node(r) = NodeAt(node, r)
         /\ NodeAt(node, r).depth \in Nat /\ (t # Master => TopIn(node)[r] # Root)
  <1>1. r \in MadeIn(node) /\ TopIn(node)[r] \in ToSet(graph[t].tops) /\ Node(r) = NodeAt(node, r)
    BY Names
  <1>2. Forest(node) /\ Trees(node) /\ ThreadOK(node, t, graph[t], open[t])
    BY OfThread
  <1>3. t # Master => TopIn(node)[r] # Root
    BY <1>1, <1>2 DEF ThreadOK, Root
  <1> QED BY <1>1, <1>2, <1>3, OfTrees DEF Forest

\* What the invariant gives the properties.
LEMMA CallProperties ==
  ASSUME CallInv
  PROVE  StackTracksDepth /\ ChildDepth /\ BookmarksFound /\ DepthExceededByOne
  <1>1. StackTracksDepth
    <2> SUFFICES ASSUME NEW t \in Threads, graph[t].phase = "live"
                 PROVE  /\ graph[t].cur \in Linked(t)
                        /\ graph[t].level = Node(graph[t].cur).depth
                        /\ graph[t].level = graph[t].sea + Len(open[t])
      BY DEF StackTracksDepth
    <2>1. Placed(node, graph[t], Len(open[t]))
      BY OfThread DEF ThreadOK
    <2> QED BY <2>1, Names DEF Placed
  <1>2. ChildDepth
    <2> SUFFICES ASSUME NEW t \in Threads, NEW r \in Linked(t), Node(r).up # Null
                 PROVE  Node(r).depth = Node(Node(r).up).depth + 1
      BY DEF ChildDepth
    <2> QED BY LinkedAre, Names DEF LinkedAt
  <1>3. BookmarksFound
    BY BookmarkIsFound DEF BookmarksFound
  <1>4. DepthExceededByOne
    <2> SUFFICES ASSUME NEW t \in Threads, NEW r \in Linked(t),
                        ~Node(r).dummy, Node(r).depth > MaxDepth
                 PROVE  /\ Node(r).depth = MaxDepth + 1 /\ Node(r).tid # Master
                        /\ t # Master => Node(Node(r).up).dummy
      BY DEF DepthExceededByOne
    <2> DEFINE d == NodeAt(node, r).depth
    <2>1. /\ r \in MadeIn(node) /\ LinkedAt(node, r) /\ DepthAt(node, r)
          /\ Node(r) = NodeAt(node, r) /\ d \in Nat /\ (t # Master => TopIn(node)[r] # Root)
      BY LinkedAre
    <2>2. d <= MaxDepth + 1 /\ d > MaxDepth /\ MaxDepth \in Nat
      BY <2>1, CallGraphAssumption DEF LinkedAt
    <2>3. d = MaxDepth + 1 /\ ~(d <= MaxDepth)
      BY <2>1, <2>2
    <2>4. NodeAt(node, r).tid = r[1] /\ r[1] # Master
      BY <2>1, <2>3 DEF LinkedAt, DepthAt
    <2>5. t # Master => NodeAt(node, NodeAt(node, r).up).dummy
      BY <2>1, <2>3 DEF DepthAt
    <2> QED BY <2>1, <2>3, <2>4, <2>5, Names
  <1> QED BY <1>1, <1>2, <1>3, <1>4

\* The call-graphs are forests of bookmarks and records, the stacks and the merge fit
\* them: what the properties below follow from.
THEOREM CallGraphsInOrder == Spec => []CallInv
  <1>1. CallInv /\ [Next]_vars => CallInv'
    BY CallNext
  <1> QED BY CallInit, <1>1, PTL DEF Spec

\* The depth a thread counts is that of its current node and as far above sea level as
\* it has timers on the stack (graph_data::pop_graph).
THEOREM StackTracksDepthHolds == Spec => []StackTracksDepth
  BY CallGraphsInOrder, CallProperties, PTL

\* A record is one level below its parent, before and after it is merged
\* (insert_hierarchy, merge).
THEOREM ChildDepthHolds == Spec => []ChildDepth
  BY CallGraphsInOrder, CallProperties, PTL

\* A merge finds a node for every bookmark (merge.hpp:248): it never has to fall back on
\* the head of the master call-graph.
THEOREM BookmarksFoundHolds == Spec => []BookmarksFound
  BY CallGraphsInOrder, CallProperties, PTL

\* Only a record of a worker is ever too deep, by one level (push_node, insert).
THEOREM DepthExceededByOneHolds == Spec => []DepthExceededByOne
  BY CallGraphsInOrder, CallProperties, PTL

\* One step of the program and the place a worker's push ends up in.
LEMMA StaleStep ==
  ASSUME CallInv, [Next]_vars, NEW w \in Workers, job[w] # Null, job'[w] = Null,
         graph[w].level = graph[w].sea, Len(graph[w].marks) < MaxBookmarks,
         Node(job[w].seen).depth # graph[w].sea
  PROVE  (Node(Node(graph[w].cur).up).of)' \in {job[w].seen, graph[Master].cur}
  <1>1. EndPush(w)
    <2>1. job' # job
      OBVIOUS
    <2>2. \A v \in Workers, l \in Labels : ~BeginPush(v, l)
      <3> SUFFICES ASSUME NEW v \in Workers, NEW l \in Labels, BeginPush(v, l) PROVE FALSE
        OBVIOUS
      <3>1. job[v] = Null /\ \E x : job' = [job EXCEPT ![v] = x]
        BY DEF BeginPush
      <3>2. v # w
        BY <3>1
      <3>3. job'[w] = job[w]
        BY <3>1, <3>2, OfThread DEF CallInv, CallTypes
      <3> QED BY <3>3
    <2>3. \A v \in Workers : EndPush(v) => v = w
      <3> SUFFICES ASSUME NEW v \in Workers, EndPush(v), v # w PROVE FALSE
        OBVIOUS
      <3>1. job' = [job EXCEPT ![v] = Null]
        BY DEF EndPush
      <3>2. job'[w] = job[w]
        BY <3>1 DEF CallInv, CallTypes
      <3> QED BY <3>2
    <2>4. \A t \in Threads : ~Newest(t) /\ ~Oldest(t)
      BY <2>1 DEF Newest, Oldest, Pop
    <2>5. \A l \in Labels : ~PushMaster(l)
      BY <2>1 DEF PushMaster
    <2>6. \A v \in Workers : ~Start(v) /\ ~Exit(v) /\ ~MergeStep(v) /\ ~SynchronizeIdle(v)
      BY <2>1 DEF Start, Exit, MergeStep, BeginMerge, MergeOne, EndMerge, SynchronizeIdle,
                  Synchronize
    <2>7. ~Finalize /\ ~UNCHANGED vars
      BY <2>1 DEF Finalize, vars
    <2>8. Master \in Threads /\ Workers \subseteq Threads
      BY DEF Threads
    <2> QED BY <2>2, <2>3, <2>4, <2>5, <2>6, <2>7, <2>8 DEF Next, Work, MainUse, Use
  <1>2. w \in Threads
    BY DEF Threads
  <1>3. JobOK(node, graph[w], job[w]) /\ job[w] \in Jobs /\ graph \in [Threads -> GraphMembers]
    BY <1>2, OfThread
  <1>4. job[w].mark
    BY <1>3, Names DEF JobOK
  <1>5. PICK n1, g1, y :
          /\ Forest(n1) /\ Below(n1, node', g1.cur, y)
          /\ graph' = [graph EXCEPT ![w] = Deeper(g1, y)]
          /\ g1.cur \in MadeIn(n1) /\ NodeAt(n1, g1.cur).of = graph[Master].cur
    BY <1>1, <1>4, EndPushStep
  <1>6. graph'[w].cur = y
    <2> DEFINE x == Deeper(g1, y)
    <2>1. graph'[w] = x
      BY <1>2, <1>3, <1>5
    <2>2. graph'[w] \in GraphMembers
      BY <1>1, <1>2, EndPushStep DEF CallInv, CallTypes
    <2>3. x.cur = y
      BY <2>1, <2>2 DEF Deeper, GraphMembers
    <2> QED BY <2>1, <2>3
  <1>7. NodeAt(node', y).up = g1.cur
    BY <1>5 DEF Below
  <1>8. NodeAt(node', g1.cur).of = graph[Master].cur
    BY <1>5 DEF Below, Follows, Same
  <1>9. (Node(Node(graph[w].cur).up).of)' = NodeAt(node', NodeAt(node', graph'[w].cur).up).of
    BY DEF Node, NodeAt
  <1> QED BY <1>6, <1>7, <1>8, <1>9

\* A push of a worker with bookmarks to spare ends up below a copy of a node the main
\* thread was in, unless the main thread was at the depth of the last bookmark
\* (storage::insert, add_dummy).
THEOREM StaleOnlyAtEqualDepthHolds == Spec => StaleOnlyAtEqualDepth
  <1>1. CallInv /\ [Next]_vars =>
          [\A w \in Workers :
             /\ job[w] # Null /\ job'[w] = Null
             /\ graph[w].level = graph[w].sea /\ Len(graph[w].marks) < MaxBookmarks
             /\ Node(job[w].seen).depth # graph[w].sea
             => (Node(Node(graph[w].cur).up).of)' \in {job[w].seen, graph[Master].cur}]_vars
    BY StaleStep
  <1> QED BY <1>1, CallGraphsInOrder, PTL DEF Spec, StaleOnlyAtEqualDepth

-----------------------------------------------------------------------------
(* Threads that only use scoped timers.                                    *)

\* The timers o on the stack of a thread with the graph g are nested in each other, the
\* last one in the current node.
StackOK(n, g, o) ==
  /\ \A i \in DOMAIN o : ~NodeAt(n, o[i].at).dummy
  /\ \A i \in DOMAIN o : i > 1 => NodeAt(n, o[i].at).up = o[i - 1].at
  /\ g.phase = "live" /\ o # <<>> => g.cur = o[Len(o)].at

Stacked == \A t \in Threads : StackOK(node, graph[t], open[t])

\* An empty stack is in order.
LEMMA EmptyStack ==
  ASSUME NEW n, NEW g
  PROVE  StackOK(n, g, <<>>)
  <1>1. DOMAIN <<>> = {}
    OBVIOUS
  <1> QED BY <1>1 DEF StackOK

\* A stack whose nodes keep their parents stays in order.
LEMMA StackFollows ==
  ASSUME NEW n, NEW m, NEW out, Trees(n), Follows(n, m, out), NEW g, NEW o, StackOK(n, g, o),
         \A i \in DOMAIN o : o[i].at \in MadeIn(n),
         \A r \in MadeIn(n) : NodeAt(n, r).up # out => NodeAt(m, r).up = NodeAt(n, r).up,
         out \in MadeIn(n) => NodeAt(n, out).dummy, out = Null \/ out \in MadeIn(n),
         NEW l \in Nat, DOMAIN o = 1 .. l
  PROVE  StackOK(m, g, o)
  <1>1. \A r \in MadeIn(n) : r \in MadeIn(m) /\ NodeAt(m, r).dummy = NodeAt(n, r).dummy
    BY DEF Follows, Same
  <1>2. ASSUME NEW i \in DOMAIN o, i > 1 PROVE NodeAt(m, o[i].at).up = o[i - 1].at
    <2>1. i - 1 \in DOMAIN o /\ NodeAt(n, o[i].at).up = o[i - 1].at
      BY <1>2 DEF StackOK
    <2>2. o[i - 1].at \in MadeIn(n) /\ ~NodeAt(n, o[i - 1].at).dummy
      BY <2>1 DEF StackOK
    <2>3. o[i - 1].at # out
      BY <2>2, OfTrees
    <2> QED BY <2>1, <2>3
  <1>3. \A i \in DOMAIN o : ~NodeAt(m, o[i].at).dummy
    BY <1>1 DEF StackOK
  <1> QED BY <1>2, <1>3 DEF StackOK

\* The timers of a thread are nested, and their nodes are there.
LEMMA OfStack ==
  ASSUME CallInv, Stacked, NEW t \in Threads
  PROVE  /\ StackOK(node, graph[t], open[t])
         /\ \A i \in DOMAIN open[t] : open[t][i].at \in MadeIn(node)
         /\ open[t] \in Seq(Timers) /\ Len(open[t]) \in Nat /\ DOMAIN open[t] = 1 .. Len(open[t])
         /\ graph[t] \in GraphMembers
  <1>1. open[t] \in Seq(Timers) /\ graph[t] \in GraphMembers /\ ThreadOK(node, t, graph[t], open[t])
    BY OfThread
  <1> QED BY <1>1, LenProperties DEF Stacked, ThreadOK

\* The other threads when t takes a step.
LEMMA OthersStacked ==
  ASSUME CallInv, Stacked, NEW t \in Threads, NEW out, Follows(node, node', out),
         \A r \in MadeIn(node) :
           NodeAt(node, r).up # out => NodeAt(node', r).up = NodeAt(node, r).up,
         out \in MadeIn(node) => NodeAt(node, out).dummy, out = Null \/ out \in MadeIn(node),
         NEW h, NEW o, graph' = Put(graph, t, h), open' = Put(open, t, o), StackOK(node', h, o)
  PROVE  Stacked'
  <1> SUFFICES ASSUME NEW u \in Threads PROVE StackOK(node', graph'[u], open'[u])
    BY DEF Stacked
  <1>1. /\ graph'[t] = h /\ open'[t] = o
        /\ u # t => graph'[u] = graph[u] /\ open'[u] = open[u]
    BY OfThread DEF Put
  <1>2. CASE u = t
    BY <1>1, <1>2
  <1>3. CASE u # t
    <2>1. Trees(node)
      BY OfThread
    <2>2. /\ StackOK(node, graph[u], open[u])
          /\ \A i \in DOMAIN open[u] : open[u][i].at \in MadeIn(node)
          /\ Len(open[u]) \in Nat /\ DOMAIN open[u] = 1 .. Len(open[u])
      BY OfStack
    <2> DEFINE l == Len(open[u])
    <2>3. l \in Nat /\ DOMAIN open[u] = 1 .. l
      BY <2>2
    <2> HIDE DEF l
    <2>4. StackOK(node', graph[u], open[u])
      BY <2>1, <2>2, <2>3, StackFollows
    <2> QED BY <1>1, <1>3, <2>4
  <1> QED BY <1>2, <1>3

\* Parents that are the same, or that were set when a bookmark gave up its children.
LEMMA ParentsKept ==
  ASSUME CallInv, NEW m, Unmoved(node, m)
  PROVE  /\ Follows(node, m, Null)
         /\ \A r \in MadeIn(node) :
              NodeAt(node, r).up # Null => NodeAt(m, r).up = NodeAt(node, r).up
  BY ForestUnmoved DEF CallInv, Unmoved

\* A push keeps the stacks in order and puts the new timer into the last one.
LEMMA PushStacked ==
  ASSUME CallInv, CallInv', Stacked, NEW t \in Threads, NEW label, NEW n1, NEW g1, NEW y,
         Forest(n1), Follows(node, n1, Null), Below(n1, node', g1.cur, y),
         graph' = [graph EXCEPT ![t] = Deeper(g1, y)],
         open' = [open EXCEPT ![t] = Append(@, Timer(label, y))],
         \A r \in MadeIn(node) : NodeAt(n1, r) = NodeAt(node, r), g1.cur \in MadeIn(n1),
         graph[t].phase = "live", g1.cur = graph[t].cur \/ open[t] = <<>>
  PROVE  /\ Stacked'
         /\ open[t] # <<>> => (Node(graph[t].cur).up)' = Last(open[t]).at
         /\ \A u \in Threads : Len(open'[u]) > Len(open[u]) => u = t
  <1> DEFINE o == open[t]
             k == Len(o)
             p == Append(o, Timer(label, y))
             h == Deeper(g1, y)
  <1>1. /\ StackOK(node, graph[t], o) /\ \A i \in DOMAIN o : o[i].at \in MadeIn(node)
        /\ o \in Seq(Timers) /\ k \in Nat /\ DOMAIN o = 1 .. k
    BY OfStack
  <1>2. /\ graph \in [Threads -> GraphMembers] /\ open \in [Threads -> Seq(Timers)]
        /\ graph' \in [Threads -> GraphMembers] /\ open' \in [Threads -> Seq(Timers)]
        /\ Trees(node) /\ Trees(node') /\ Trees(n1)
    BY OfThread DEF CallInv, CallTypes, Forest
  <1>3. /\ graph'[t] = h /\ open'[t] = p
        /\ graph' = Put(graph, t, h) /\ open' = Put(open, t, p)
        /\ \A u \in Threads \ {t} : open'[u] = open[u]
    BY <1>2 DEF Put
  <1>4. h.cur = y
    <2>1. h \in GraphMembers
      BY <1>2, <1>3
    <2> QED BY <2>1 DEF Deeper, GraphMembers
  <1>5. /\ y \in MadeIn(node') /\ NodeAt(node', y).up = g1.cur
        /\ TopIn(node')[y] = TopIn(n1)[g1.cur]
    BY DEF Below
  <1>6. Timer(label, y).at = y
    BY DEF Timer
  <1>7. /\ Len(p) = k + 1 /\ DOMAIN p = 1 .. k + 1 /\ p[k + 1] = Timer(label, y)
        /\ \A i \in 1 .. k : p[i] = o[i]
    <2>1. p \in Seq(Timers)
      BY <1>2, <1>3
    <2>2. Timer(label, y) \in Timers
      <3>1. Len(p) = k + 1 /\ p[k + 1] = Timer(label, y)
        BY <1>1
      <3>2. k + 1 \in 1 .. Len(p)
        BY <1>1, <3>1
      <3>3. p[k + 1] \in Timers
        BY <2>1, <3>2, ElementOfSeq
      <3> QED BY <3>1, <3>3
    <2> QED BY <1>1, <2>2, AppendProperties, LenProperties
  <1> HIDE DEF h, p, k
  <1>8. ~NodeAt(node', y).dummy
    <2>1. NodeAt(node', y).up # Null
      BY <1>2, <1>5, OfTrees
    <2> QED BY <1>2, <1>5, <2>1, OfTrees DEF LinkedAt
  <1>9. /\ Follows(node, node', Null)
        /\ \A r \in MadeIn(node) : NodeAt(node', r).up = NodeAt(node, r).up
    <2>1. Follows(n1, node', Null) /\ \A r \in MadeIn(n1) : NodeAt(node', r).up = NodeAt(n1, r).up
      BY DEF Below
    <2>2. \A r \in MadeIn(node) : r \in MadeIn(n1)
      BY DEF Follows
    <2> QED BY <1>2, <2>1, <2>2, FollowsOn
  <1>10. Null \notin MadeIn(node)
    BY <1>2, OfTrees
  <1>11. StackOK(node', graph[t], o)
    BY <1>1, <1>2, <1>9, <1>10, StackFollows
  <1>12. o # <<>> => k \in 1 .. k /\ NodeAt(node', y).up = o[k].at /\ Last(o) = o[k]
    <2>1. o # <<>> => k # 0
      BY <1>1, EmptySeq DEF k
    <2>2. o # <<>> => g1.cur = o[k].at
      BY <1>1 DEF StackOK, k
    <2> QED BY <1>1, <1>5, <2>1, <2>2 DEF Last, k
  <1>13. StackOK(node', h, p)
    <2>1. ASSUME NEW i \in DOMAIN p PROVE ~NodeAt(node', p[i].at).dummy
      <3>1. i \in 1 .. k \/ i = k + 1
        BY <1>1, <1>7
      <3>2. CASE i \in 1 .. k
        BY <1>1, <1>7, <1>11, <3>2 DEF StackOK
      <3>3. CASE i = k + 1
        BY <1>6, <1>7, <1>8, <3>3
      <3> QED BY <3>1, <3>2, <3>3
    <2>2. ASSUME NEW i \in DOMAIN p, i > 1 PROVE NodeAt(node', p[i].at).up = p[i - 1].at
      <3>1. i \in 1 .. k \/ i = k + 1
        BY <1>1, <1>7
      <3>2. CASE i \in 1 .. k
        <4>1. i - 1 \in 1 .. k
          BY <1>1, <2>2, <3>2
        <4> QED BY <1>1, <1>7, <1>11, <2>2, <3>2, <4>1 DEF StackOK
      <3>3. CASE i = k + 1
        <4>1. i - 1 = k /\ k # 0 /\ k \in 1 .. k
          BY <1>1, <2>2, <3>3
        <4>2. o # <<>>
          BY <1>1, <4>1
        <4> QED BY <1>6, <1>7, <1>12, <3>3, <4>1, <4>2
      <3> QED BY <3>1, <3>2, <3>3
    <2>3. h.cur = p[Len(p)].at
      BY <1>4, <1>6, <1>7
    <2> QED BY <2>1, <2>2, <2>3 DEF StackOK
  <1>14. Stacked'
    BY <1>3, <1>9, <1>10, <1>13, OthersStacked
  <1>15. (Node(graph[t].cur).up)' = NodeAt(node', y).up
    <2>1. (Node(graph[t].cur).up)' = NodeAt(node', graph'[t].cur).up
      BY DEF Node, NodeAt
    <2> QED BY <1>3, <1>4, <2>1
  <1>16. ASSUME NEW u \in Threads, Len(open'[u]) > Len(open[u]) PROVE u = t
    <2>1. Len(open[u]) \in Nat
      BY OfThread
    <2>2. u # t => Len(open'[u]) = Len(open[u])
      BY <1>3
    <2> QED BY <1>16, <2>1, <2>2
  <1> QED BY <1>12, <1>14, <1>15, <1>16

\* What a step does to the stacks of the threads that only use scoped timers.
NestedStep ==
  \A t \in Threads :
     (Len(open'[t]) > Len(open[t]) /\ open[t] # <<>>)
     => (Node(graph[t].cur).up)' = Last(open[t]).at

\* A step that leaves no stack longer.
LEMMA NoLonger ==
  ASSUME CallInv, NEW t \in Threads, NEW o, Len(o) \in Nat, Len(o) <= Len(open[t]),
         open' = Put(open, t, o)
  PROVE  NestedStep
  <1> SUFFICES ASSUME NEW u \in Threads PROVE ~(Len(open'[u]) > Len(open[u]))
    BY DEF NestedStep
  <1>1. Len(open[u]) \in Nat /\ Len(open[t]) \in Nat
    BY OfThread
  <1>2. open \in [Threads -> Seq(Timers)]
    BY OfThread
  <1>3. open'[u] = IF u = t THEN o ELSE open[u]
    BY <1>2 DEF Put
  <1>4. CASE u = t
    <2>1. Len(open'[u]) <= Len(open[u]) /\ Len(open'[u]) \in Nat
      BY <1>3, <1>4
    <2> QED BY <1>1, <2>1
  <1>5. CASE u # t
    BY <1>1, <1>3, <1>5
  <1> QED BY <1>4, <1>5

\* A thread that leaves its current stack as it is, or gives it up.
LEMMA StackKept ==
  ASSUME CallInv, Stacked, NEW t \in Threads, NEW h, NEW o, o = open[t] \/ o = <<>>,
         Follows(node, node', Null),
         \A r \in MadeIn(node) : NodeAt(node', r).up = NodeAt(node, r).up,
         graph' = Put(graph, t, h), open' = Put(open, t, o),
         h.phase # "live" \/ o = <<>>
  PROVE  Stacked' /\ NestedStep
  <1> DEFINE q == open[t]
             l == Len(q)
  <1>1. /\ StackOK(node, graph[t], q) /\ \A i \in DOMAIN q : q[i].at \in MadeIn(node)
        /\ l \in Nat /\ DOMAIN q = 1 .. l /\ Trees(node)
    BY OfStack, OfThread
  <1>2. Null \notin MadeIn(node)
    BY <1>1, OfTrees
  <1> HIDE DEF q, l
  <1>3. StackOK(node', graph[t], q)
    BY <1>1, <1>2, StackFollows
  <1>4. StackOK(node', h, o)
    <2>1. CASE o = <<>>
      BY <2>1, EmptyStack
    <2>2. CASE o # <<>>
      <3>1. o = q
        BY <2>2 DEF q
      <3> QED BY <1>3, <2>2, <3>1 DEF StackOK
    <2> QED BY <2>1, <2>2
  <1>5. Stacked'
    BY <1>2, <1>4, OthersStacked
  <1>6. Len(o) <= Len(open[t]) /\ Len(o) \in Nat
    <2>1. Len(<<>>) = 0
      OBVIOUS
    <2>2. Len(open[t]) \in Nat
      BY OfThread
    <2> QED BY <2>1, <2>2
  <1>7. NestedStep
    BY <1>6, NoLonger
  <1> QED BY <1>5, <1>7

\* A step of thread t that leaves the timers alone.
LEMMA TimersAlone ==
  ASSUME CallInv, NEW t \in Threads, open' = open
  PROVE  open' = Put(open, t, open[t]) /\ open \in [Threads -> Seq(Timers)]
  BY OfThread DEF Put

\* The last timer is popped.
LEMMA NewestStacked ==
  ASSUME CallInv, Stacked, NEW t \in Threads, Newest(t)
  PROVE  Stacked' /\ NestedStep
  <1> DEFINE q == open[t]
             k == Len(q)
             h == Popped(graph[t])
             o == RemoveAt(q, k)
  <1>1. /\ StackOK(node, graph[t], q) /\ \A i \in DOMAIN q : q[i].at \in MadeIn(node)
        /\ q \in Seq(Timers) /\ k \in Nat /\ DOMAIN q = 1 .. k /\ Trees(node)
        /\ graph \in [Threads -> GraphMembers]
    BY OfStack, OfThread
  <1>2. q # <<>> /\ Pop(t, k)
    BY DEF Newest
  <1>3. k # 0 /\ k \in DOMAIN q
    BY <1>1, <1>2, EmptySeq
  <1>4. /\ CallInv' /\ Unmoved(node, node')
        /\ graph' = Put(graph, t, h) /\ open' = Put(open, t, o)
        /\ graph'[t].cur = NodeAt(node, graph[t].cur).up /\ graph[t].phase = "live"
    BY <1>2, <1>3, PopStep DEF Put
  <1>5. h.cur = NodeAt(node, graph[t].cur).up
    BY <1>1, <1>4 DEF Put
  <1>6. Len(o) = k - 1 /\ DOMAIN o = 1 .. k - 1 /\ \A i \in 1 .. k - 1 : o[i] = q[i]
    <2>1. o \in Seq(Timers) /\ Len(o) = k - 1 /\ \A i \in 1 .. k - 1 : o[i] = q[i]
      BY <1>1, <1>3, RemovedAre
    <2> HIDE DEF o, k
    <2> QED BY <2>1, LenProperties
  <1>7. graph[t].cur = q[k].at /\ ~NodeAt(node, q[k].at).dummy
    BY <1>1, <1>2, <1>3, <1>4 DEF StackOK
  <1> HIDE DEF q, k, h, o
  <1>8. \A r \in MadeIn(node) : /\ NodeAt(node', r).dummy = NodeAt(node, r).dummy
                                /\ NodeAt(node', r).up = NodeAt(node, r).up
    BY <1>4 DEF Unmoved, Same
  <1>9. StackOK(node', h, o)
    <2>1. \A i \in DOMAIN o : ~NodeAt(node', o[i].at).dummy
      <3> SUFFICES ASSUME NEW i \in DOMAIN o PROVE ~NodeAt(node', o[i].at).dummy
        OBVIOUS
      <3>1. i \in DOMAIN q /\ o[i] = q[i]
        BY <1>1, <1>6
      <3> QED BY <1>1, <1>8, <3>1 DEF StackOK
    <2>2. \A i \in DOMAIN o : i > 1 => NodeAt(node', o[i].at).up = o[i - 1].at
      <3> SUFFICES ASSUME NEW i \in DOMAIN o, i > 1
                   PROVE  NodeAt(node', o[i].at).up = o[i - 1].at
        OBVIOUS
      <3>1. i \in DOMAIN q /\ o[i] = q[i] /\ o[i - 1] = q[i - 1]
        BY <1>1, <1>6
      <3> QED BY <1>1, <1>8, <3>1 DEF StackOK
    <2>3. o # <<>> => h.cur = o[Len(o)].at
      <3> SUFFICES ASSUME k # 1 PROVE h.cur = o[Len(o)].at
        <4>1. k = 1 => o = <<>>
          <5>1. o \in Seq(Timers)
            BY <1>1, <1>3, RemovedAre DEF o
          <5>2. k = 1 => Len(o) = 0
            BY <1>6
          <5> QED BY <5>1, <5>2, EmptySeq
        <4> QED BY <4>1
      <3>1. k > 1 /\ k - 1 \in 1 .. k - 1
        BY <1>1, <1>3
      <3>2. NodeAt(node, q[k].at).up = q[k - 1].at
        BY <1>1, <1>3, <3>1 DEF StackOK
      <3> QED BY <1>5, <1>6, <1>7, <3>1, <3>2
    <2> QED BY <2>1, <2>2, <2>3 DEF StackOK
  <1>10. Null \notin MadeIn(node) /\ Follows(node, node', Null)
    BY <1>1, <1>4, OfTrees, ParentsKept
  <1>11. Stacked'
    BY <1>4, <1>8, <1>9, <1>10, OthersStacked
  <1>12. Len(o) <= Len(open[t]) /\ Len(o) \in Nat
    BY <1>1, <1>3, <1>6 DEF q, k
  <1>13. NestedStep
    BY <1>4, <1>12, NoLonger
  <1> QED BY <1>11, <1>13

\* A worker takes its push to its end.
LEMMA EndPushStacked ==
  ASSUME CallInv, Stacked, NEW w \in Workers, EndPush(w)
  PROVE  Stacked' /\ NestedStep
  <1>1. w \in Threads
    BY DEF Threads
  <1>2. CallInv'
    BY EndPushStep
  <1>3. JobOK(node, graph[w], job[w]) /\ ThreadOK(node, w, graph[w], open[w]) /\ job[w] # Null
    BY <1>1, OfThread DEF EndPush
  <1>4. graph[w].phase = "live" /\ graph[w].cur \in MadeIn(node)
    BY <1>3 DEF JobOK, ThreadOK, Placed
  <1>5. PICK n1, g1, y :
          /\ Forest(n1) /\ Follows(node, n1, Null)
          /\ \A r \in MadeIn(node) : NodeAt(n1, r) = NodeAt(node, r)
          /\ Below(n1, node', g1.cur, y) /\ graph' = [graph EXCEPT ![w] = Deeper(g1, y)]
          /\ open' = [open EXCEPT ![w] = Append(@, Timer(job[w].label, y))]
          /\ \/ ~job[w].mark /\ n1 = node /\ g1 = graph[w]
             \/ /\ job[w].mark /\ open[w] = <<>> /\ g1.cur \in MadeIn(n1)
                /\ NodeAt(n1, g1.cur).of = graph[Master].cur
    BY EndPushStep
  <1>6. g1.cur \in MadeIn(n1) /\ (g1.cur = graph[w].cur \/ open[w] = <<>>)
    BY <1>4, <1>5
  <1>7. /\ Stacked'
        /\ open[w] # <<>> => (Node(graph[w].cur).up)' = Last(open[w]).at
        /\ \A u \in Threads : Len(open'[u]) > Len(open[u]) => u = w
    BY <1>1, <1>2, <1>4, <1>5, <1>6, PushStacked
  <1> QED BY <1>7 DEF NestedStep

\* The main thread pushes.
LEMMA PushMasterStacked ==
  ASSUME CallInv, Stacked, NEW label \in Labels, PushMaster(label)
  PROVE  Stacked' /\ NestedStep
  <1>1. Master \in Threads
    BY DEF Threads
  <1>2. /\ Forest(node) /\ ThreadOK(node, Master, graph[Master], open[Master])
        /\ graph[Master] \in GraphMembers
    BY <1>1, OfThread
  <1>3. graph[Master].phase = "live"
    BY <1>2 DEF PushMaster, MayPush, GraphMembers
  <1>4. graph[Master].cur \in MadeIn(node)
    BY <1>2, <1>3 DEF ThreadOK, Placed
  <1>5. PICK y : /\ Below(node, node', graph[Master].cur, y)
                 /\ graph' = [graph EXCEPT ![Master] = Deeper(graph[Master], y)]
                 /\ open' = [open EXCEPT ![Master] = Append(@, Timer(label, y))]
    BY PushMasterStep
  <1>6. CallInv' /\ Follows(node, node, Null)
    BY PushMasterStep, FollowsItself
  <1>7. /\ Stacked'
        /\ open[Master] # <<>> => (Node(graph[Master].cur).up)' = Last(open[Master]).at
        /\ \A u \in Threads : Len(open'[u]) > Len(open[u]) => u = Master
    BY <1>1, <1>2, <1>3, <1>4, <1>5, <1>6, PushStacked
  <1> QED BY <1>7 DEF NestedStep

\* A worker starts or ends.
LEMMA LifeStacked ==
  ASSUME CallInv, Stacked, NEW w \in Workers, Start(w) \/ Exit(w) \/ MergeStep(w)
  PROVE  Stacked' /\ NestedStep
  <1>1. w \in Threads
    BY DEF Threads
  <1>2. Follows(node, node, Null)
    BY FollowsItself
  <1>3. CASE Start(w)
    <2>1. /\ open' = open /\ open[w] = <<>> /\ Follows(node, node', Null)
          /\ \A r \in MadeIn(node) : NodeAt(node', r) = NodeAt(node, r)
      BY <1>3, StartStep
    <2>2. PICK h : graph' = Put(graph, w, h)
      BY <1>3, StartStep DEF Put
    <2>3. open' = Put(open, w, open[w])
      BY <1>1, <2>1, TimersAlone
    <2> QED BY <1>1, <2>1, <2>2, <2>3, StackKept
  <1>4. CASE Exit(w)
    <2>1. node' = node /\ open' = open
      BY <1>4, ExitStep
    <2>2. PICK h : h.phase = "exiting" /\ graph' = Put(graph, w, h)
      BY <1>4, ExitStep DEF Put
    <2>3. open' = Put(open, w, open[w])
      BY <1>1, <2>1, TimersAlone
    <2>4. Follows(node, node', Null)
          /\ \A r \in MadeIn(node) : NodeAt(node', r).up = NodeAt(node, r).up
      BY <1>2, <2>1
    <2>5. h.phase # "live"
      BY <2>2
    <2> QED BY <1>1, <2>2, <2>3, <2>4, <2>5, StackKept
  <1>5. CASE BeginMerge(w)
    <2>1. Unmoved(node, node')
      BY <1>5, BeginMergeStep
    <2>2. PICK h, o : /\ o \in {open[w], <<>>} /\ h.phase # "live"
                      /\ graph' = Put(graph, w, h) /\ open' = Put(open, w, o)
      BY <1>5, BeginMergeStep DEF Put
    <2>3. Follows(node, node', Null)
          /\ \A r \in MadeIn(node) : NodeAt(node', r).up = NodeAt(node, r).up
      BY <2>1, ParentsKept DEF Unmoved
    <2>4. o = open[w] \/ o = <<>>
      BY <2>2
    <2> QED BY <1>1, <2>2, <2>3, <2>4, StackKept
  <1>6. CASE EndMerge(w)
    <2>1. node' = node /\ open' = open
      BY <1>6, EndMergeStep
    <2>2. PICK h : h.phase # "live" /\ graph' = Put(graph, w, h)
      BY <1>6, EndMergeStep DEF Put
    <2>3. open' = Put(open, w, open[w])
      BY <1>1, <2>1, TimersAlone
    <2>4. Follows(node, node', Null)
          /\ \A r \in MadeIn(node) : NodeAt(node', r).up = NodeAt(node, r).up
      BY <1>2, <2>1
    <2>5. h.phase # "live"
      BY <2>2
    <2> QED BY <1>1, <2>2, <2>3, <2>4, <2>5, StackKept
  <1>7. CASE MergeOne(w)
    <2> DEFINE out == Head(left)
    <2>1. /\ UNCHANGED <<graph, open>> /\ Follows(node, node', out)
          /\ out \in ToSet(graph[w].tops)
          /\ \A r \in MadeIn(node) :
               NodeAt(node, r).up # out => NodeAt(node', r).up = NodeAt(node, r).up
      BY <1>7, MergeOneStep
    <2> HIDE DEF out
    <2>2. /\ ThreadOK(node, w, graph[w], open[w]) /\ graph \in [Threads -> GraphMembers]
          /\ graph[w].phase = "merging"
      BY <1>1, <1>7, OfThread, MergeOneStep
    <2>3. out \in MadeIn(node) /\ NodeAt(node, out).dummy /\ open[w] = <<>>
      BY <2>1, <2>2 DEF ThreadOK
    <2>4. graph' = Put(graph, w, graph[w]) /\ open' = Put(open, w, open[w])
      BY <1>1, <2>1, <2>2, TimersAlone DEF Put
    <2>5. StackOK(node', graph[w], open[w])
      BY <2>3, EmptyStack
    <2>6. Stacked'
      BY <1>1, <2>1, <2>3, <2>4, <2>5, OthersStacked
    <2>7. Len(open[w]) <= Len(open[w]) /\ Len(open[w]) \in Nat
      BY <1>1, OfThread
    <2> QED BY <1>1, <2>4, <2>6, <2>7, NoLonger
  <1> QED BY <1>3, <1>4, <1>5, <1>6, <1>7 DEF MergeStep

\* A step that touches neither nodes nor graphs nor timers.
LEMMA StillStacked ==
  ASSUME CallInv, Stacked, UNCHANGED <<node, graph, open>>
  PROVE  Stacked' /\ NestedStep
  <1>1. Stacked'
    BY DEF Stacked
  <1>2. \A t \in Threads : Len(open[t]) \in Nat
    BY OfThread
  <1>3. \A t \in Threads : ~(Len(open'[t]) > Len(open[t]))
    BY <1>2
  <1> QED BY <1>1, <1>3 DEF NestedStep

\* Every step of a program that only uses scoped timers.
LEMMA WorkStacked ==
  ASSUME CallInv, Stacked, [Work]_vars
  PROVE  CallInv' /\ Stacked' /\ NestedStep
  <1>1. CallInv'
    <2>1. [Next]_vars
      BY DEF Next
    <2> QED BY <2>1, CallNext
  <1>2. Master \in Threads /\ Workers \subseteq Threads
    BY DEF Threads
  <1>3. CASE MainUse
    BY <1>1, <1>2, <1>3, NewestStacked, PushMasterStacked DEF MainUse
  <1>4. ASSUME NEW w \in Workers, Use(w) \/ Exit(w) \/ MergeStep(w)
        PROVE  Stacked' /\ NestedStep
    <2>1. CASE Newest(w)
      BY <1>2, <2>1, NewestStacked
    <2>2. CASE EndPush(w)
      BY <2>2, EndPushStacked
    <2>3. CASE \E l \in Labels : BeginPush(w, l)
      BY <2>3, StillStacked DEF BeginPush
    <2>4. CASE Start(w) \/ Exit(w) \/ MergeStep(w)
      BY <2>4, LifeStacked
    <2> QED BY <1>4, <2>1, <2>2, <2>3, <2>4 DEF Use
  <1>5. CASE UNCHANGED vars
    BY <1>1, <1>5, StillStacked DEF vars
  <1> QED BY <1>1, <1>3, <1>4, <1>5 DEF Work

\* At the start nothing is on a stack.
LEMMA StackedInit ==
  ASSUME Init
  PROVE  Stacked
  BY EmptyStack DEF Init, Stacked

\* The stacks of threads that only use scoped timers are paths down their call-graphs.
THEOREM StacksInOrder == WorkSpec => [](CallInv /\ Stacked)
  <1>1. CallInv /\ Stacked /\ [Work]_vars => (CallInv /\ Stacked)'
    BY WorkStacked
  <1>2. Init => CallInv /\ Stacked
    BY CallInit, StackedInit
  <1> QED BY <1>1, <1>2, PTL DEF WorkSpec

\* A timer pushed while another of its thread is on the stack becomes a child of that
\* one's node (insert_hierarchy, pop_graph).
THEOREM NestedInOpenHolds == WorkSpec => NestedInOpen
  <1>1. CallInv /\ Stacked /\ [Work]_vars =>
          [\A t \in Threads :
             (Len(open'[t]) > Len(open[t]) /\ open[t] # <<>>)
             => (Node(graph[t].cur).up)' = Last(open[t]).at]_vars
    BY WorkStacked DEF NestedStep
  <1> QED BY <1>1, StacksInOrder, PTL DEF WorkSpec, NestedInOpen

-----------------------------------------------------------------------------
(* The types of the variables.                                             *)

\* A thread that is merged keeps the current node it had.
CurrentMade == \A t \in Threads : graph[t].cur \in MadeIn(node) \cup {Null}

\* A thread takes a step.
LEMMA CurrentKept ==
  ASSUME CallInv, CallInv', CurrentMade, NEW t \in Threads, NEW h, graph' = Put(graph, t, h),
         MadeIn(node) \subseteq MadeIn(node'),
         h.cur \in {graph[t].cur, Null} \/ h.phase \in {"live", "exiting", "final"}
  PROVE  CurrentMade'
  <1> SUFFICES ASSUME NEW u \in Threads PROVE graph'[u].cur \in MadeIn(node') \cup {Null}
    BY DEF CurrentMade
  <1>1. graph'[u] = IF u = t THEN h ELSE graph[u]
    BY OfThread DEF Put
  <1>2. graph[u].cur \in MadeIn(node') \cup {Null}
    BY DEF CurrentMade
  <1>3. CASE u = t /\ h.phase \in {"live", "exiting", "final"}
    <2>1. ThreadOK(node', t, h, open'[t])
      BY <1>1, <1>3 DEF CallInv
    <2> QED BY <1>1, <1>3, <2>1 DEF ThreadOK, Placed
  <1> QED BY <1>1, <1>2, <1>3

\* What follows has the nodes.
LEMMA FollowsMade ==
  ASSUME NEW n, NEW m, NEW out, Follows(n, m, out) \/ Unmoved(n, m)
  PROVE  MadeIn(n) \subseteq MadeIn(m)
  BY DEF Follows, Unmoved

\* A push makes a node current that is there.
LEMMA CurrentPushed ==
  ASSUME CallInv, CallInv', CurrentMade, NEW t \in Threads, NEW label, NEW n1, NEW g1, NEW y,
         Follows(node, n1, Null), Below(n1, node', g1.cur, y),
         graph' = [graph EXCEPT ![t] = Deeper(g1, y)]
  PROVE  CurrentMade'
  <1> DEFINE h == Deeper(g1, y)
  <1>1. graph' = Put(graph, t, h) /\ graph' \in [Threads -> GraphMembers]
    BY DEF Put, CallInv, CallTypes
  <1>2. graph'[t] = h /\ graph'[t] \in GraphMembers
    BY <1>1, OfThread DEF Put
  <1>3. h.cur = y
    BY <1>2 DEF Deeper, GraphMembers
  <1>4. y \in MadeIn(node') /\ MadeIn(node) \subseteq MadeIn(node')
    BY DEF Below, Follows
  <1> HIDE DEF h
  <1> SUFFICES ASSUME NEW u \in Threads PROVE graph'[u].cur \in MadeIn(node') \cup {Null}
    BY DEF CurrentMade
  <1>5. graph'[u] = IF u = t THEN h ELSE graph[u]
    BY <1>1, OfThread DEF Put
  <1>6. CASE u = t
    BY <1>3, <1>4, <1>5, <1>6
  <1>7. CASE u # t
    BY <1>4, <1>5, <1>7 DEF CurrentMade
  <1> QED BY <1>6, <1>7

\* A worker ends or is merged.
LEMMA CurrentMerged ==
  ASSUME CallInv, CallInv', CurrentMade, NEW w \in Workers, MergeStep(w)
  PROVE  CurrentMade'
  <1>1. w \in Threads /\ graph[w] \in GraphMembers /\ graph \in [Threads -> GraphMembers]
    <2>1. w \in Threads
      BY DEF Threads
    <2> QED BY <2>1, OfThread
  <1>2. CASE BeginMerge(w)
    <2>1. MadeIn(node) \subseteq MadeIn(node')
      BY <1>2, BeginMergeStep, FollowsMade
    <2>2. \E h : h.cur \in {graph[w].cur, Null} /\ graph' = Put(graph, w, h)
      <3>1. CASE IsEmpty(w)
        BY <1>2, <3>1 DEF BeginMerge, ClearedGraph, Put
      <3>2. CASE ~IsEmpty(w)
        <4> DEFINE h == [graph[w] EXCEPT !.phase = "merging"]
        <4>1. graph' = Put(graph, w, h)
          BY <1>2, <3>2 DEF BeginMerge, Put
        <4>2. h.cur = graph[w].cur
          <5> DEFINE g == graph[w]
          <5>1. g \in GraphMembers
            BY <1>1
          <5> HIDE DEF g
          <5>2. [g EXCEPT !.phase = "merging"].cur = g.cur
            BY <5>1 DEF GraphMembers
          <5> QED BY <5>2 DEF g
        <4> HIDE DEF h
        <4> QED BY <4>1, <4>2
      <3> QED BY <3>1, <3>2
    <2> QED BY <1>1, <2>1, <2>2, CurrentKept
  <1>3. CASE MergeOne(w)
    <2>1. MadeIn(node) \subseteq MadeIn(node') /\ graph' = graph
      BY <1>3, MergeOneStep, FollowsMade
    <2> QED BY <2>1 DEF CurrentMade
  <1>4. CASE EndMerge(w)
    <2>1. node' = node /\ \E p : graph' = Put(graph, w, ClearedGraph(p))
      BY <1>4, EndMergeStep DEF EndMerge, Put
    <2>2. \A p : ClearedGraph(p).cur = Null
      BY DEF ClearedGraph
    <2> QED BY <1>1, <2>1, <2>2, CurrentKept
  <1> QED BY <1>2, <1>3, <1>4 DEF MergeStep

\* Every step.
LEMMA CurrentNext ==
  ASSUME CallInv, CurrentMade, [Next]_vars
  PROVE  CurrentMade'
  <1>1. CallInv'
    BY CallNext
  <1>2. Master \in Threads /\ Workers \subseteq Threads
    BY DEF Threads
  <1>3. ASSUME NEW t \in Threads, NEW i \in DOMAIN open[t], Pop(t, i) PROVE CurrentMade'
    <2>1. /\ Unmoved(node, node') /\ graph' = Put(graph, t, Popped(graph[t]))
          /\ graph'[t].phase = "live"
      BY <1>3, PopStep DEF Put
    <2>2. Popped(graph[t]).phase = "live"
      <3> DEFINE h == Popped(graph[t])
      <3>1. graph' = Put(graph, t, h) /\ graph \in [Threads -> GraphMembers]
        BY <2>1, OfThread
      <3> HIDE DEF h
      <3>2. graph'[t] = h
        BY <3>1 DEF Put
      <3> QED BY <2>1, <3>2 DEF h
    <2>3. MadeIn(node) \subseteq MadeIn(node')
      BY <2>1, FollowsMade
    <2> QED BY <1>1, <2>1, <2>2, <2>3, CurrentKept
  <1>4. ASSUME NEW t \in Threads, Newest(t) \/ Oldest(t) PROVE CurrentMade'
    <2>1. open[t] \in Seq(Timers)
      BY OfThread
    <2>2. CASE Newest(t)
      <3>1. Len(open[t]) \in DOMAIN open[t]
        <4>1. open[t] # <<>>
          BY <2>2 DEF Newest
        <4>2. Len(open[t]) # 0 /\ Len(open[t]) \in Nat /\ DOMAIN open[t] = 1 .. Len(open[t])
          BY <2>1, <4>1, EmptySeq, LenProperties
        <4> QED BY <4>2
      <3> QED BY <1>3, <2>2, <3>1 DEF Newest
    <2>3. CASE Oldest(t)
      <3>1. 1 \in DOMAIN open[t]
        BY <2>1, <2>3, LenProperties DEF Oldest
      <3> QED BY <1>3, <2>3, <3>1 DEF Oldest
    <2> QED BY <1>4, <2>2, <2>3
  <1>5. ASSUME NEW l \in Labels, PushMaster(l) PROVE CurrentMade'
    <2>1. PICK y : /\ Below(node, node', graph[Master].cur, y)
                   /\ graph' = [graph EXCEPT ![Master] = Deeper(graph[Master], y)]
      BY <1>5, PushMasterStep
    <2> QED BY <1>1, <1>2, <2>1, FollowsItself, CurrentPushed
  <1>6. ASSUME NEW w \in Workers, EndPush(w) PROVE CurrentMade'
    <2>1. PICK n1, g1, y :
            /\ Forest(n1) /\ Follows(node, n1, Null)
            /\ \A r \in MadeIn(node) : NodeAt(n1, r) = NodeAt(node, r)
            /\ Below(n1, node', g1.cur, y) /\ graph' = [graph EXCEPT ![w] = Deeper(g1, y)]
            /\ open' = [open EXCEPT ![w] = Append(@, Timer(job[w].label, y))]
            /\ \/ ~job[w].mark /\ n1 = node /\ g1 = graph[w]
               \/ /\ job[w].mark /\ open[w] = <<>> /\ g1.cur \in MadeIn(n1)
                  /\ NodeAt(n1, g1.cur).of = graph[Master].cur
      BY <1>6, EndPushStep
    <2> QED BY <1>1, <1>2, <2>1, CurrentPushed
  <1>7. ASSUME NEW w \in Workers, NEW l \in Labels, BeginPush(w, l) PROVE CurrentMade'
    BY <1>7 DEF BeginPush, CurrentMade
  <1>8. ASSUME NEW w \in Workers, Start(w) \/ SynchronizeIdle(w) PROVE CurrentMade'
    <2>1. /\ Follows(node, node', Null)
          /\ \E h : h.phase = "live" /\ graph' = Put(graph, w, h)
      BY <1>8, StartStep, SynchronizeIdleStep DEF Put
    <2>2. MadeIn(node) \subseteq MadeIn(node')
      BY <2>1, FollowsMade
    <2> QED BY <1>1, <1>2, <2>1, <2>2, CurrentKept
  <1>9. ASSUME NEW w \in Workers, Exit(w) PROVE CurrentMade'
    <2>1. node' = node /\ \E h : h.phase = "exiting" /\ graph' = Put(graph, w, h)
      BY <1>9, ExitStep DEF Put
    <2> QED BY <1>1, <1>2, <2>1, CurrentKept
  <1>10. ASSUME NEW w \in Workers, MergeStep(w) PROVE CurrentMade'
    BY <1>1, <1>10, CurrentMerged
  <1>11. CASE Joined /\ Finalize
    <2>1. Unmoved(node, node') /\ \E h : h.phase = "final" /\ graph' = Put(graph, Master, h)
      BY <1>11, FinalizeStep DEF Put
    <2>2. MadeIn(node) \subseteq MadeIn(node')
      BY <2>1, FollowsMade
    <2> QED BY <1>1, <1>2, <2>1, <2>2, CurrentKept
  <1>12. CASE UNCHANGED vars
    BY <1>12 DEF vars, CurrentMade
  <1> QED
    BY <1>2, <1>4, <1>5, <1>6, <1>7, <1>8, <1>9, <1>10, <1>11, <1>12 DEF Next, Work, MainUse, Use

\* What the types are, in the words of the invariant.
LEMMA CallGraphTypes ==
  ASSUME CallInv, CurrentMade
  PROVE  TypeOK
  <1>1. Trees(node) /\ Made = MadeIn(node) /\ \A r : Node(r) = NodeAt(node, r)
    BY Names DEF CallInv, Forest
  <1>2. ASSUME NEW t \in Threads, NEW i \in DOMAIN node[t]
        PROVE  /\ node[t][i].depth \in Nat /\ node[t][i].laps \in Nat
               /\ node[t][i].up \in Made \union {Null}
               /\ \A q \in ToSet(node[t][i].kids) : q \in Made /\ Node(q).up = <<t, i>>
    <2>1. <<t, i>> \in MadeIn(node) /\ NodeAt(node, <<t, i>>) = node[t][i]
      BY DEF MadeIn, NodeAt
    <2> QED BY <1>1, <2>1, OfTrees DEF LinkedAt, NodeMembers
  <1>3. ASSUME NEW t \in Threads
        PROVE  /\ graph[t].phase \in {"none", "live", "exiting", "merging", "cleared", "final"}
               /\ graph[t].level \in Nat /\ graph[t].sea \in Nat
               /\ graph[t].cur \in Made \union {Null}
               /\ \A r \in ToSet(graph[t].tops) : r \in Made /\ Node(r).up = Null
               /\ ToSet(graph[t].marks) = ToSet(graph[t].tops)
    <2>1. graph[t] \in GraphMembers /\ ThreadOK(node, t, graph[t], open[t])
      BY OfThread
    <2>2. \A r \in ToSet(graph[t].tops) : r \in MadeIn(node) /\ NodeAt(node, r).up = Null
      BY <1>1, <2>1, OfTrees DEF ThreadOK, LinkedAt
    <2> QED BY <1>1, <2>1, <2>2, GraphParts DEF CurrentMade, ThreadOK
  <1>4. lock \in Workers \union {Null}
    BY DEF CallInv, CallTypes
  <1> QED BY <1>2, <1>3, <1>4 DEF TypeOK

\* The variables have the shape of storage, graph_data and the graph nodes; a child
\* always has the parent that lists it.
THEOREM CallGraphTypeCorrect == Spec => []TypeOK
  <1>1. Init => CurrentMade
    <2> SUFFICES ASSUME Init PROVE CurrentMade
      OBVIOUS
    <2>1. \A t \in Threads : graph[t].cur \in {Root, Null} /\ Root \in MadeIn(node)
      BY CallInit DEF Init, Root, NewGraph, ClearedGraph, CallInv, Forest, HasRoot
    <2> QED BY <2>1 DEF CurrentMade
  <1>2. CallInv /\ CurrentMade /\ [Next]_vars => CurrentMade'
    BY CurrentNext
  <1>3. Spec => []CurrentMade
    BY <1>1, <1>2, CallGraphsInOrder, PTL DEF Spec
  <1> QED BY <1>3, CallGraphsInOrder, CallGraphTypes, PTL

-----------------------------------------------------------------------------
(* Sums over finite sets.                                                  *)

\* f[s] is the sum of the w[x] with x in s, for all parts s of S: the function
\* MapThenSumSet defines.
Pick(s) == CHOOSE x \in s : TRUE
Rest(s) == s \ {Pick(s)}
Sums(f, w, S) == f = [s \in SUBSET S |-> IF s = {} THEN 0 ELSE w[Pick(s)] + f[Rest(s)]]

\* What is left of a finite set without the picked one.
LEMMA RestIs ==
  ASSUME NEW s, IsFiniteSet(s), s # {}
  PROVE  /\ Pick(s) \in s /\ Rest(s) \subseteq s /\ IsFiniteSet(Rest(s))
         /\ Cardinality(s) \in Nat /\ Cardinality(Rest(s)) = Cardinality(s) - 1
         /\ Cardinality(Rest(s)) \in Nat /\ s = Rest(s) \cup {Pick(s)} /\ Pick(s) \notin Rest(s)
  <1>1. Pick(s) \in s
    BY DEF Pick
  <1>2. /\ IsFiniteSet(s \ {Pick(s)})
        /\ Cardinality(s \ {Pick(s)}) = Cardinality(s) - 1
    BY <1>1, FS_RemoveElement
  <1>3. Cardinality(s) \in Nat /\ Cardinality(s \ {Pick(s)}) \in Nat
    BY <1>2, FS_CardinalityType
  <1> QED BY <1>1, <1>2, <1>3 DEF Rest

\* The parts of S with at most n members have their sums in f.
SumsTo(f, w, S, n) ==
  /\ f = [s \in SUBSET S |-> f[s]]
  /\ \A s \in SUBSET S : Cardinality(s) <= n =>
       f[s] = IF s = {} THEN 0 ELSE w[Pick(s)] + f[Rest(s)]

\* There is such a function.
LEMMA SumsExist ==
  ASSUME NEW S, IsFiniteSet(S), NEW w
  PROVE  \E f : Sums(f, w, S)
  <1> DEFINE Lacking == {n \in Nat : ~\E f : SumsTo(f, w, S, n)}
  <1>1. \A s \in SUBSET S : IsFiniteSet(s) /\ Cardinality(s) \in Nat
                            /\ Cardinality(s) <= Cardinality(S)
    BY FS_Subset, FS_CardinalityType
  <1>2. ASSUME Lacking # {} PROVE FALSE
    <2>1. PICK m \in Lacking : \A k \in Lacking : m <= k
      <3>1. Lacking \subseteq Nat
        OBVIOUS
      <3> HIDE DEF Lacking
      <3> QED BY <1>2, <3>1, LeastNumber
    <2>2. m # 0
      <3> DEFINE f == [s \in SUBSET S |-> 0]
      <3>1. \A s \in SUBSET S : Cardinality(s) <= 0 => s = {}
        <4> SUFFICES ASSUME NEW s \in SUBSET S, Cardinality(s) <= 0 PROVE s = {}
          OBVIOUS
        <4>1. Cardinality(s) = 0
          BY <1>1
        <4> QED BY <1>1, <4>1, FS_EmptySet
      <3>2. f = [s \in SUBSET S |-> f[s]] /\ \A s \in SUBSET S : f[s] = 0
        OBVIOUS
      <3> HIDE DEF f
      <3>3. SumsTo(f, w, S, 0)
        BY <3>1, <3>2 DEF SumsTo
      <3> QED BY <2>1, <3>3
    <2>3. m - 1 \in Nat /\ m \in Nat /\ ~(m <= m - 1)
      BY <2>1, <2>2
    <2>4. PICK f : SumsTo(f, w, S, m - 1)
      BY <2>1, <2>3
    <2> DEFINE Next1(s) == IF s = {} THEN 0 ELSE w[Pick(s)] + f[Rest(s)]
               g == [s \in SUBSET S |-> Next1(s)]
    <2>5. ASSUME NEW s \in SUBSET S, Cardinality(s) <= m
          PROVE  g[s] = IF s = {} THEN 0 ELSE w[Pick(s)] + g[Rest(s)]
      <3>1. CASE s = {}
        BY <3>1
      <3>2. CASE s # {}
        <4>1. /\ Rest(s) \in SUBSET S /\ Cardinality(Rest(s)) = Cardinality(s) - 1
              /\ Cardinality(s) \in Nat
          BY <1>1, <3>2, RestIs
        <4>2. Cardinality(Rest(s)) <= m - 1
          BY <2>3, <2>5, <4>1
        <4>3. f[Rest(s)] = Next1(Rest(s))
          BY <2>4, <4>1, <4>2 DEF SumsTo
        <4>4. g[Rest(s)] = Next1(Rest(s)) /\ g[s] = Next1(s)
          BY <4>1
        <4> QED BY <3>2, <4>3, <4>4
      <3> QED BY <3>1, <3>2
    <2>6. g = [s \in SUBSET S |-> g[s]]
      OBVIOUS
    <2> HIDE DEF g
    <2>7. SumsTo(g, w, S, m)
      BY <2>5, <2>6 DEF SumsTo
    <2> QED BY <2>1, <2>7
  <1>3. Cardinality(S) \in Nat
    BY FS_CardinalityType
  <1>4. PICK f : SumsTo(f, w, S, Cardinality(S))
    BY <1>2, <1>3
  <1>5. \A s \in SUBSET S : f[s] = IF s = {} THEN 0 ELSE w[Pick(s)] + f[Rest(s)]
    BY <1>1, <1>4 DEF SumsTo
  <1>6. f = [s \in SUBSET S |-> f[s]]
    BY <1>4 DEF SumsTo
  <1>7. f = [s \in SUBSET S |-> IF s = {} THEN 0 ELSE w[Pick(s)] + f[Rest(s)]]
    BY <1>5, <1>6
  <1> QED BY <1>7 DEF Sums

\* It depends on the values in the set only.
LEMMA SumsAgree ==
  ASSUME NEW S, NEW T, NEW U, IsFiniteSet(U), U \subseteq S, U \subseteq T,
         NEW w, NEW v, \A x \in U : w[x] = v[x],
         NEW f, Sums(f, w, S), NEW g, Sums(g, v, T)
  PROVE  f[U] = g[U]
  <1> DEFINE Bad == {s \in SUBSET U : f[s] # g[s]}
             Sizes == {Cardinality(s) : s \in Bad}
  <1>1. \A s \in SUBSET U : IsFiniteSet(s) /\ Cardinality(s) \in Nat
    BY FS_Subset, FS_CardinalityType
  <1>2. SUFFICES ASSUME Bad # {} PROVE FALSE
    OBVIOUS
  <1>3. Sizes \subseteq Nat /\ Sizes # {}
    BY <1>1, <1>2
  <1>4. PICK m \in Sizes : \A k \in Sizes : m <= k
    <2> HIDE DEF Sizes
    <2> QED BY <1>3, LeastNumber
  <1>5. PICK s \in Bad : m = Cardinality(s)
    BY <1>4
  <1>6. s \in SUBSET U /\ s \in SUBSET S /\ s \in SUBSET T /\ IsFiniteSet(s)
    BY <1>1, <1>5
  <1>7. /\ f[s] = IF s = {} THEN 0 ELSE w[Pick(s)] + f[Rest(s)]
        /\ g[s] = IF s = {} THEN 0 ELSE v[Pick(s)] + g[Rest(s)]
    BY <1>6 DEF Sums
  <1>8. s # {}
    BY <1>5, <1>7
  <1>9. /\ Pick(s) \in U /\ Rest(s) \in SUBSET U
        /\ Cardinality(Rest(s)) = m - 1 /\ m \in Nat
    BY <1>1, <1>5, <1>6, <1>8, RestIs
  <1>10. ~(m <= m - 1)
    BY <1>9
  <1>11. Rest(s) \notin Bad
    BY <1>4, <1>9, <1>10
  <1>12. f[Rest(s)] = g[Rest(s)]
    BY <1>9, <1>11
  <1> QED BY <1>5, <1>7, <1>8, <1>9, <1>12

\* The sums are numbers.
LEMMA SumsAreNat ==
  ASSUME NEW S, IsFiniteSet(S), NEW w, \A x \in S : w[x] \in Nat, NEW f, Sums(f, w, S)
  PROVE  \A s \in SUBSET S : f[s] \in Nat
  <1> DEFINE Bad == {s \in SUBSET S : f[s] \notin Nat}
             Sizes == {Cardinality(s) : s \in Bad}
  <1>1. \A s \in SUBSET S : IsFiniteSet(s) /\ Cardinality(s) \in Nat
    BY FS_Subset, FS_CardinalityType
  <1>2. SUFFICES ASSUME Bad # {} PROVE FALSE
    OBVIOUS
  <1>3. Sizes \subseteq Nat /\ Sizes # {}
    BY <1>1, <1>2
  <1>4. PICK m \in Sizes : \A k \in Sizes : m <= k
    <2> HIDE DEF Sizes
    <2> QED BY <1>3, LeastNumber
  <1>5. PICK s \in Bad : m = Cardinality(s)
    BY <1>4
  <1>6. s \in SUBSET S /\ IsFiniteSet(s)
        /\ f[s] = IF s = {} THEN 0 ELSE w[Pick(s)] + f[Rest(s)]
    BY <1>1, <1>5 DEF Sums
  <1>7. s # {}
    BY <1>5, <1>6
  <1>8. /\ Pick(s) \in S /\ Rest(s) \in SUBSET S
        /\ Cardinality(Rest(s)) = m - 1 /\ m \in Nat
    BY <1>5, <1>6, <1>7, RestIs
  <1>9. Rest(s) \notin Bad
    <2>1. ~(m <= m - 1)
      BY <1>8
    <2> QED BY <1>4, <1>8, <2>1
  <1>10. w[Pick(s)] \in Nat /\ f[Rest(s)] \in Nat
    BY <1>8, <1>9
  <1> QED BY <1>5, <1>6, <1>7, <1>10

\* The order does not matter: any one may be taken out.
LEMMA SumsTake ==
  ASSUME NEW S, IsFiniteSet(S), NEW w, \A x \in S : w[x] \in Nat, NEW f, Sums(f, w, S),
         NEW s \in SUBSET S, NEW x \in s
  PROVE  f[s] = w[x] + f[s \ {x}]
  <1> DEFINE Bad == {u \in SUBSET S : \E y \in u : f[u] # w[y] + f[u \ {y}]}
             Sizes == {Cardinality(u) : u \in Bad}
  <1>1. \A u \in SUBSET S : IsFiniteSet(u) /\ Cardinality(u) \in Nat
    BY FS_Subset, FS_CardinalityType
  <1>2. SUFFICES ASSUME Bad # {} PROVE FALSE
    OBVIOUS
  <1>3. Sizes \subseteq Nat /\ Sizes # {}
    BY <1>1, <1>2
  <1>4. PICK m \in Sizes : \A k \in Sizes : m <= k
    <2> HIDE DEF Sizes
    <2> QED BY <1>3, LeastNumber
  <1>5. PICK u \in Bad : m = Cardinality(u)
    BY <1>4
  <1>6. PICK y \in u : f[u] # w[y] + f[u \ {y}]
    BY <1>5
  <1> DEFINE p == Pick(u)
             r == Rest(u)
             v == u \ {y}
  <1>7. u \in SUBSET S /\ IsFiniteSet(u) /\ u # {}
    BY <1>1, <1>5, <1>6
  <1>8. f[u] = w[p] + f[r]
    BY <1>7 DEF Sums
  <1>9. /\ p \in u /\ r = u \ {p} /\ Cardinality(r) = m - 1 /\ m \in Nat /\ ~(m <= m - 1)
    BY <1>1, <1>5, <1>7, RestIs DEF Rest
  <1>10. Cardinality(v) = m - 1
    BY <1>5, <1>7, <1>6, FS_RemoveElement
  <1> HIDE DEF p, r, v
  <1>11. y # p
    BY <1>6, <1>8, <1>9 DEF v
  <1>12. r \in SUBSET S /\ v \in SUBSET S /\ y \in r /\ p \in v /\ r \ {y} = v \ {p}
    BY <1>6, <1>7, <1>9, <1>11 DEF v
  <1>13. r \notin Bad /\ v \notin Bad
    <2>1. Cardinality(r) \notin Sizes /\ Cardinality(v) \notin Sizes
      <3> HIDE DEF Sizes
      <3> QED BY <1>4, <1>9, <1>10
    <2> QED BY <2>1
  <1>14. f[r] = w[y] + f[r \ {y}] /\ f[v] = w[p] + f[v \ {p}]
    BY <1>12, <1>13
  <1>15. w[p] \in Nat /\ w[y] \in Nat /\ f[v \ {p}] \in Nat
    <2>1. v \ {p} \in SUBSET S
      BY <1>12
    <2> QED BY <1>6, <1>7, <1>9, <2>1, SumsAreNat
  <1>16. f[u] = w[y] + f[v]
    <2> DEFINE a == f[v \ {p}]
    <2>1. f[u] = w[p] + (w[y] + a) /\ f[v] = w[p] + a /\ a \in Nat
      BY <1>8, <1>12, <1>14, <1>15
    <2> HIDE DEF a
    <2> QED BY <1>15, <2>1
  <1> QED BY <1>6, <1>16 DEF v

\* What weighs nothing may be left out.
LEMMA SumsZero ==
  ASSUME NEW S, IsFiniteSet(S), NEW w, \A x \in S : w[x] \in Nat, NEW f, Sums(f, w, S),
         NEW T, T \subseteq S, \A x \in S \ T : w[x] = 0
  PROVE  f[S] = f[T]
  <1> DEFINE Bad == {s \in SUBSET S : f[s] # f[s \cap T]}
             Sizes == {Cardinality(s) : s \in Bad}
  <1>1. \A s \in SUBSET S : IsFiniteSet(s) /\ Cardinality(s) \in Nat
    BY FS_Subset, FS_CardinalityType
  <1>2. ASSUME Bad # {} PROVE FALSE
    <2>1. Sizes \subseteq Nat /\ Sizes # {}
      BY <1>1, <1>2
    <2>2. PICK m \in Sizes : \A k \in Sizes : m <= k
      <3> HIDE DEF Sizes
      <3> QED BY <2>1, LeastNumber
    <2>3. PICK s \in Bad : m = Cardinality(s)
      BY <2>2
    <2>4. s \in SUBSET S /\ IsFiniteSet(s) /\ f[s] # f[s \cap T]
      BY <1>1, <2>3
    <2>5. s # {}
      <3>1. {} \cap T = {}
        OBVIOUS
      <3> QED BY <2>4, <3>1
    <2> DEFINE p == Pick(s)
               r == Rest(s)
    <2>6. f[s] = w[p] + f[r]
      BY <2>4, <2>5 DEF Sums
    <2>7. /\ p \in s /\ r \in SUBSET S /\ Cardinality(r) = m - 1 /\ m \in Nat
          /\ s = r \cup {p} /\ p \notin r
      BY <2>3, <2>4, <2>5, RestIs
    <2> HIDE DEF p, r
    <2>8. f[r] = f[r \cap T]
      <3>1. ~(m <= m - 1)
        BY <2>7
      <3>2. r \notin Bad
        BY <2>2, <2>7, <3>1
      <3> QED BY <2>7, <3>2
    <2>9. f[r] \in Nat
      BY <2>7, SumsAreNat
    <2>10. CASE p \in T
      <3>1. s \cap T \in SUBSET S /\ p \in s \cap T /\ (s \cap T) \ {p} = r \cap T
        BY <2>4, <2>7, <2>10
      <3>2. f[s \cap T] = w[p] + f[(s \cap T) \ {p}]
        BY <3>1, SumsTake
      <3>3. f[s \cap T] = w[p] + f[r]
        BY <2>8, <3>1, <3>2
      <3> QED BY <2>4, <2>6, <3>3
    <2>11. CASE p \notin T
      <3>1. s \cap T = r \cap T /\ w[p] = 0
        BY <2>4, <2>7, <2>11
      <3> QED BY <2>4, <2>6, <2>8, <2>9, <3>1
    <2> QED BY <2>10, <2>11
  <1>3. S \cap T = T /\ S \in SUBSET S
    OBVIOUS
  <1> QED BY <1>2, <1>3

\* Members that weigh nothing do not change the sum.
LEMMA SumsMore ==
  ASSUME NEW S, IsFiniteSet(S), NEW w, \A x \in S : w[x] \in Nat, NEW f, Sums(f, w, S),
         NEW T, T \subseteq S, \A x \in S \ T : w[x] = 0,
         NEW v, \A x \in T : w[x] = v[x], NEW g, Sums(g, v, T)
  PROVE  f[S] = g[T]
  <1>1. f[S] = f[T]
    BY SumsZero
  <1>2. IsFiniteSet(T) /\ T \subseteq T
    BY FS_Subset
  <1>3. f[T] = g[T]
    BY <1>2, SumsAgree
  <1> QED BY <1>1, <1>3

\* Each x weighs one more for each of D that is at x: so does the sum.
LEMMA SumsCounted ==
  ASSUME NEW S, IsFiniteSet(S), NEW D, IsFiniteSet(D), NEW at, \A i \in D : at[i] \in S,
         NEW w, \A x \in S : w[x] \in Nat, NEW v,
         \A x \in S : v[x] = w[x] + Cardinality({i \in D : at[i] = x}),
         NEW f, Sums(f, w, S), NEW g, Sums(g, v, S)
  PROVE  g[S] = f[S] + Cardinality(D)
  <1> DEFINE In(s) == {i \in D : at[i] \in s}
             Bad == {s \in SUBSET S : g[s] # f[s] + Cardinality(In(s))}
             Sizes == {Cardinality(s) : s \in Bad}
  <1>1. \A s \in SUBSET S : IsFiniteSet(s) /\ Cardinality(s) \in Nat
    BY FS_Subset, FS_CardinalityType
  <1>2. ASSUME Bad # {} PROVE FALSE
    <2>1. Sizes \subseteq Nat /\ Sizes # {}
      BY <1>1, <1>2
    <2>2. PICK m \in Sizes : \A k \in Sizes : m <= k
      <3> HIDE DEF Sizes
      <3> QED BY <2>1, LeastNumber
    <2>3. PICK s \in Bad : m = Cardinality(s)
      BY <2>2
    <2>4. /\ s \in SUBSET S /\ IsFiniteSet(s) /\ g[s] # f[s] + Cardinality(In(s))
          /\ f[s] = IF s = {} THEN 0 ELSE w[Pick(s)] + f[Rest(s)]
          /\ g[s] = IF s = {} THEN 0 ELSE v[Pick(s)] + g[Rest(s)]
      BY <1>1, <2>3 DEF Sums
    <2>5. s # {}
      <3>1. In({}) = {}
        OBVIOUS
      <3>2. Cardinality({}) = 0
        BY FS_EmptySet
      <3> HIDE DEF In
      <3>3. s = {} => Cardinality(In(s)) = 0 /\ f[s] = 0 /\ g[s] = 0
        BY <2>4, <3>1, <3>2
      <3> QED BY <2>4, <3>3
    <2> DEFINE p == Pick(s)
               r == Rest(s)
               a == {i \in D : at[i] = p}
    <2>6. f[s] = w[p] + f[r] /\ g[s] = v[p] + g[r]
      BY <2>4, <2>5
    <2>7. /\ p \in s /\ r \in SUBSET S /\ Cardinality(r) = m - 1 /\ m \in Nat
          /\ s = r \cup {p} /\ p \notin r
      BY <2>3, <2>4, <2>5, RestIs
    <2>8. v[p] = w[p] + Cardinality(a)
      BY <2>4, <2>7
    <2> HIDE DEF p, r
    <2>9. g[r] = f[r] + Cardinality(In(r))
      <3>1. ~(m <= m - 1)
        BY <2>7
      <3>2. r \notin Bad
        BY <2>2, <2>7, <3>1
      <3> QED BY <2>7, <3>2
    <2>10. In(s) = In(r) \cup a /\ In(r) \cap a = {} /\ In(r) \subseteq D /\ a \subseteq D
      BY <2>7
    <2> DEFINE b == In(r)
    <2> HIDE DEF a, b
    <2>11. /\ Cardinality(b \cup a) = Cardinality(b) + Cardinality(a)
           /\ Cardinality(b) \in Nat /\ Cardinality(a) \in Nat
      <3>1. IsFiniteSet(a) /\ IsFiniteSet(b)
        BY <2>10, FS_Subset DEF b
      <3>2. Cardinality(b \cup a) = Cardinality(b) + Cardinality(a) - Cardinality(b \cap a)
        BY <3>1, FS_Union
      <3>3. Cardinality(b \cap a) = 0
        <4>1. b \cap a = {}
          BY <2>10 DEF b
        <4>2. Cardinality({}) = 0
          BY FS_EmptySet
        <4> QED BY <4>1, <4>2
      <3>4. Cardinality(b) \in Nat /\ Cardinality(a) \in Nat
        BY <3>1, FS_CardinalityType
      <3> QED BY <3>2, <3>3, <3>4
    <2>12. f[r] \in Nat /\ w[p] \in Nat
      BY <2>4, <2>7, SumsAreNat
    <2>13. /\ g[s] # f[s] + Cardinality(b \cup a) /\ g[r] = f[r] + Cardinality(b)
      BY <2>4, <2>9, <2>10 DEF b
    <2> QED BY <2>6, <2>8, <2>11, <2>12, <2>13
  <1>3. In(S) = D /\ S \in SUBSET S
    OBVIOUS
  <1> QED BY <1>2, <1>3

-----------------------------------------------------------------------------
(* The laps in the nodes and the laps that were counted.                   *)

\* What a node counts for the timers of t with the label.
Weighs(n, t, label) ==
  [r \in MadeIn(n) |-> IF TimerAt(n, r, t, label) THEN NodeAt(n, r).laps ELSE 0]

\* The laps c[t][label] are those in the nodes.
Counted(n, c) ==
  \A t \in Threads, label \in Labels : \A f :
    Sums(f, Weighs(n, t, label), MadeIn(n)) => c[t][label] = f[MadeIn(n)]

\* A node has a natural number of laps.
LEMMA WeighsAre ==
  ASSUME NEW n, Nodes(n), NEW t, NEW label
  PROVE  \A r \in MadeIn(n) : Weighs(n, t, label)[r] \in Nat /\ NodeAt(n, r).laps \in Nat
  <1>1. \A r \in MadeIn(n) : NodeAt(n, r).laps \in Nat
    BY MadeAre DEF NodeMembers
  <1> QED BY <1>1 DEF Weighs

\* LapsOf is such a sum.
LEMMA LapsAre ==
  ASSUME NEW S, S \subseteq MadeIn(node), IsFiniteSet(S), NEW t, NEW label,
         NEW f, Sums(f, Weighs(node, t, label), MadeIn(node))
  PROVE  LapsOf(S, t, label) = f[S]
  <1> DEFINE of(r) == IF Node(r).tid = t /\ Node(r).key[1] = label /\ ~Node(r).dummy
                      THEN Node(r).laps ELSE 0
             w == [r \in S |-> of(r)]
             h == CHOOSE g : g = [s \in SUBSET S |->
                    IF s = {} THEN 0
                    ELSE of(CHOOSE x \in s : TRUE) + g[s \ {CHOOSE x \in s : TRUE}]]
  <1>1. PICK g : Sums(g, w, S)
    BY SumsExist
  <1>2. g = [s \in SUBSET S |->
               IF s = {} THEN 0 ELSE of(CHOOSE x \in s : TRUE) + g[s \ {CHOOSE x \in s : TRUE}]]
    <2>1. g = [s \in SUBSET S |-> IF s = {} THEN 0 ELSE w[Pick(s)] + g[Rest(s)]]
      BY <1>1 DEF Sums
    <2>2. \A s \in SUBSET S : s # {} => w[Pick(s)] = of(CHOOSE x \in s : TRUE)
      BY DEF Pick
    <2> HIDE DEF w, of
    <2>3. \A s \in SUBSET S : g[s] =
            IF s = {} THEN 0 ELSE of(CHOOSE x \in s : TRUE) + g[s \ {CHOOSE x \in s : TRUE}]
      BY <2>1, <2>2 DEF Pick, Rest
    <2>4. g = [s \in SUBSET S |-> g[s]]
      BY <2>1
    <2> QED BY <2>3, <2>4
  <1>3. h = [s \in SUBSET S |->
               IF s = {} THEN 0 ELSE of(CHOOSE x \in s : TRUE) + h[s \ {CHOOSE x \in s : TRUE}]]
    BY <1>2
  <1>4. LapsOf(S, t, label) = h[S]
    BY DEF LapsOf, MapThenSumSet, MapThenFoldSet
  <1> HIDE DEF h
  <1>5. Sums(h, w, S)
    <2>1. \A s \in SUBSET S : s # {} => w[Pick(s)] = of(CHOOSE x \in s : TRUE)
      BY DEF Pick
    <2> HIDE DEF w, of
    <2>2. \A s \in SUBSET S : h[s] = IF s = {} THEN 0 ELSE w[Pick(s)] + h[Rest(s)]
      BY <1>3, <2>1 DEF Pick, Rest
    <2>3. h = [s \in SUBSET S |-> h[s]]
      BY <1>3
    <2>4. h = [s \in SUBSET S |-> IF s = {} THEN 0 ELSE w[Pick(s)] + h[Rest(s)]]
      BY <2>2, <2>3
    <2> QED BY <2>4 DEF Sums
  <1>6. \A r \in S : w[r] = Weighs(node, t, label)[r]
    BY Names DEF Weighs, TimerAt
  <1> HIDE DEF w
  <1>7. h[S] = f[S]
    BY <1>5, <1>6, SumsAgree
  <1> QED BY <1>4, <1>7

\* New nodes, without laps.
LEMMA CountedGrown ==
  ASSUME NEW n, Nodes(n), IsFiniteSet(MadeIn(n)), NEW m, Nodes(m), Grown(n, m),
         \A r \in MadeIn(n) : Same(n, m, r), NEW c, Counted(n, c)
  PROVE  IsFiniteSet(MadeIn(m)) /\ Counted(m, c)
  <1>1. IsFiniteSet(MadeIn(m)) /\ MadeIn(n) \subseteq MadeIn(m)
    BY DEF Grown
  <1>2. ASSUME NEW t \in Threads, NEW label \in Labels,
               NEW sm, Sums(sm, Weighs(m, t, label), MadeIn(m))
        PROVE  c[t][label] = sm[MadeIn(m)]
    <2> DEFINE old == Weighs(n, t, label)
               new == Weighs(m, t, label)
               Rm == MadeIn(m)
               Rn == MadeIn(n)
    <2>1. PICK sn : Sums(sn, old, Rn)
      BY SumsExist
    <2>2. c[t][label] = sn[Rn]
      BY <2>1 DEF Counted
    <2>3. \A r \in Rn : new[r] = old[r]
      BY <1>1 DEF Weighs, TimerAt, Same, Grown
    <2>4. \A r \in Rm : new[r] \in Nat
      BY WeighsAre
    <2>5. \A r \in Rm \ Rn : new[r] = 0
      BY DEF Weighs, Grown
    <2>6. Sums(sm, new, Rm) /\ IsFiniteSet(Rm) /\ Rn \subseteq Rm /\ IsFiniteSet(Rn)
      BY <1>1, <1>2
    <2> HIDE DEF old, new, Rm, Rn
    <2>7. sm[Rm] = sn[Rn]
      BY ONLY <2>1, <2>3, <2>4, <2>5, <2>6, SumsMore
    <2> QED BY <2>2, <2>7 DEF Rm, Rn
  <1> QED BY <1>1, <1>2 DEF Counted

\* The timers D of the stack o of t are popped: each adds a lap to its node, from n to m,
\* and to its count, from c to e.
Popping(n, m, t, o, D, c, e) ==
  /\ IsFiniteSet(D)
  /\ \A i \in D : o[i].at \in MadeIn(n) /\ TimerAt(n, o[i].at, t, o[i].label)
  /\ \A r \in MadeIn(n) :
       NodeAt(m, r).laps = NodeAt(n, r).laps + Cardinality({i \in D : o[i].at = r})
  /\ \A u \in Threads, label \in Labels :
       e[u][label] = c[u][label] + Cardinality({i \in D : u = t /\ o[i].label = label})

\* Timers are popped.
LEMMA CountedPopped ==
  ASSUME NEW n, Nodes(n), IsFiniteSet(MadeIn(n)), NEW m, Unmoved(n, m), NEW t \in Threads,
         NEW o, NEW D, NEW c, Counted(n, c), NEW e, Popping(n, m, t, o, D, c, e)
  PROVE  IsFiniteSet(MadeIn(m)) /\ Counted(m, e)
  <1>1. MadeIn(m) = MadeIn(n) /\ \A r \in MadeIn(n) : Same(n, m, r)
    BY DEF Unmoved
  <1>2. /\ IsFiniteSet(D)
        /\ \A i \in D : o[i].at \in MadeIn(n) /\ TimerAt(n, o[i].at, t, o[i].label)
        /\ \A r \in MadeIn(n) :
             NodeAt(m, r).laps = NodeAt(n, r).laps + Cardinality({i \in D : o[i].at = r})
        /\ \A u \in Threads, label \in Labels :
             e[u][label] = c[u][label] + Cardinality({i \in D : u = t /\ o[i].label = label})
    BY DEF Popping
  <1>3. ASSUME NEW u \in Threads, NEW label \in Labels,
               NEW sm, Sums(sm, Weighs(m, u, label), MadeIn(m))
        PROVE  e[u][label] = sm[MadeIn(m)]
    <2> DEFINE old == Weighs(n, u, label)
               new == Weighs(m, u, label)
               Rm == MadeIn(n)
               These == {i \in D : u = t /\ o[i].label = label}
               spot == [i \in These |-> o[i].at]
    <2>1. PICK sn : Sums(sn, old, Rm)
      BY SumsExist
    <2>2. c[u][label] = sn[Rm]
      BY <2>1 DEF Counted
    <2>3. These \subseteq D /\ IsFiniteSet(These)
      BY <1>2, FS_Subset
    <2>4. ASSUME NEW r \in Rm PROVE new[r] = old[r] + Cardinality({i \in These : spot[i] = r})
      <3> DEFINE X == {i \in These : spot[i] = r}
      <3>1. TimerAt(m, r, u, label) <=> TimerAt(n, r, u, label)
        BY <1>1 DEF Same, TimerAt
      <3>2. new[r] = IF TimerAt(n, r, u, label) THEN NodeAt(m, r).laps ELSE 0
        BY <1>1, <3>1 DEF Weighs
      <3>3. old[r] = IF TimerAt(n, r, u, label) THEN NodeAt(n, r).laps ELSE 0
        BY DEF Weighs
      <3>4. CASE TimerAt(n, r, u, label)
        <4>1. X = {i \in D : o[i].at = r}
          <5>1. ASSUME NEW i \in D, o[i].at = r PROVE u = t /\ o[i].label = label
            BY <1>2, <3>4, <5>1 DEF TimerAt
          <5> QED BY <5>1
        <4> HIDE DEF X, old, new
        <4>2. new[r] = old[r] + Cardinality(X)
          BY <1>2, <3>2, <3>3, <3>4, <4>1
        <4> QED BY <4>2 DEF X
      <3>5. CASE ~TimerAt(n, r, u, label)
        <4>1. X = {}
          BY <1>2, <3>5
        <4>2. Cardinality(X) = 0
          <5> HIDE DEF X
          <5> QED BY <4>1, FS_EmptySet
        <4> HIDE DEF X, old, new
        <4>3. new[r] = old[r] + Cardinality(X)
          BY <3>2, <3>3, <3>5, <4>2
        <4> QED BY <4>3 DEF X
      <3> QED BY <3>4, <3>5
    <2>5. \A r \in Rm : old[r] \in Nat
      BY WeighsAre
    <2>6. \A i \in These : spot[i] \in Rm
      BY <1>2
    <2>7. Sums(sm, new, Rm) /\ IsFiniteSet(Rm)
      BY <1>1, <1>3
    <2>8. e[u][label] = c[u][label] + Cardinality(These)
      BY <1>2
    <2> HIDE DEF old, new, Rm, These, spot
    <2>9. sm[Rm] = sn[Rm] + Cardinality(These)
      <3>1. IsFiniteSet(Rm) /\ IsFiniteSet(These) /\ Sums(sn, old, Rm) /\ Sums(sm, new, Rm)
        BY <2>1, <2>3, <2>7
      <3>2. \A r \in Rm : new[r] = old[r] + Cardinality({i \in These : spot[i] = r})
        BY <2>4
      <3> QED BY ONLY <2>5, <2>6, <3>1, <3>2, SumsCounted, SMTT(30)
    <2> QED BY <1>1, <2>2, <2>8, <2>9 DEF Rm
  <1> QED BY <1>1, <1>3 DEF Counted

-----------------------------------------------------------------------------
(* No lap is lost: the invariant.                                          *)

\* Where the records of u hang: while u is merged, below the bookmarks still to visit.
Holds(G, l, rest, u) == IF l = u THEN ToSet(rest) ELSE ToSet(G[u].tops)

\* Every record is in the graph of some thread, or below a bookmark the merge will visit.
Kept(n, G, l, rest) ==
  \A r \in MadeIn(n) : ~NodeAt(n, r).dummy =>
     \E u \in Threads : TopIn(n)[r] \in Holds(G, l, rest, u)

\* A timer on the stack is at a record of its thread with its label.
TimersIn(n, o) ==
  \A t \in Threads : \A i \in DOMAIN o[t] : TimerAt(n, o[t][i].at, t, o[t][i].label)

NoneEmpty(G) == \A t \in Threads : G[t].phase = "none" => G[t].tops = <<>>

LapsInv ==
  /\ IsFiniteSet(MadeIn(node)) /\ closed \in [Threads -> [Labels -> Nat]]
  /\ Counted(node, closed) /\ TimersIn(node, open) /\ NoneEmpty(graph)
  /\ Kept(node, graph, lock, left)

\* A thread that is not merged does not hold the mutex.
LEMMA NotMerged ==
  ASSUME CallInv, NEW t \in Threads, graph[t].phase # "merging"
  PROVE  lock # t
  <1>1. lock \in Workers \cup {Null} /\ \A w \in Workers : graph[w].phase = "merging" <=> lock = w
    BY DEF CallInv, CallTypes, MergeOK
  <1> QED BY <1>1, CallGraphAssumption DEF Threads

\* A thread's graph has a new top, or new nodes below the ones it had.
LEMMA KeptGrown ==
  ASSUME NEW n, Trees(n), NEW m, Follows(n, m, Null), NEW G, DOMAIN G = Threads,
         NEW t \in Threads, NEW h, NEW H, H = Put(G, t, h),
         ToSet(G[t].tops) \subseteq ToSet(h.tops), NEW l, l # t, NEW rest, Kept(n, G, l, rest),
         \A r \in MadeIn(m) \ MadeIn(n) : NodeAt(m, r).dummy \/ TopIn(m)[r] \in ToSet(h.tops)
  PROVE  Kept(m, H, l, rest)
  <1>1. H[t] = h /\ \A u \in Threads : u # t => H[u] = G[u]
    BY DEF Put
  <1>2. Holds(H, l, rest, t) = ToSet(h.tops)
    BY <1>1 DEF Holds
  <1>3. \A u \in Threads : Holds(G, l, rest, u) \subseteq Holds(H, l, rest, u)
    BY <1>1 DEF Holds
  <1>4. SUFFICES ASSUME NEW r \in MadeIn(m), ~NodeAt(m, r).dummy
                 PROVE  \E u \in Threads : TopIn(m)[r] \in Holds(H, l, rest, u)
    BY DEF Kept
  <1>5. CASE r \notin MadeIn(n)
    BY <1>2, <1>4, <1>5
  <1>6. CASE r \in MadeIn(n)
    <2>1. TopIn(n)[r] # Null
      BY <1>6, TopsAre, OfTrees
    <2>2. TopIn(m)[r] = TopIn(n)[r] /\ ~NodeAt(n, r).dummy
      BY <1>4, <1>6, <2>1 DEF Follows, Same
    <2>3. PICK u \in Threads : TopIn(n)[r] \in Holds(G, l, rest, u)
      BY <1>6, <2>2 DEF Kept
    <2> QED BY <1>3, <2>2, <2>3
  <1> QED BY <1>5, <1>6

\* The stack q of t has timers it had, and new ones.
LEMMA TimersKept ==
  ASSUME CallInv, TimersIn(node, open), NEW m,
         \A r \in MadeIn(node) : r \in MadeIn(m) /\ Same(node, m, r), NEW t \in Threads, NEW q,
         \A i \in DOMAIN q : \/ \E j \in DOMAIN open[t] : q[i] = open[t][j]
                             \/ TimerAt(m, q[i].at, t, q[i].label),
         NEW O, O = Put(open, t, q)
  PROVE  TimersIn(m, O)
  <1>1. \A u \in Threads : \A i \in DOMAIN open[u] :
          TimerAt(m, open[u][i].at, u, open[u][i].label)
    <2> SUFFICES ASSUME NEW u \in Threads, NEW i \in DOMAIN open[u]
                 PROVE  TimerAt(m, open[u][i].at, u, open[u][i].label)
      OBVIOUS
    <2>1. open[u][i].at \in MadeIn(node)
      BY DEF CallInv, ThreadOK
    <2>2. TimerAt(node, open[u][i].at, u, open[u][i].label)
      BY DEF TimersIn
    <2> QED BY <2>1, <2>2 DEF TimerAt, Same
  <1>2. open \in [Threads -> Seq(Timers)]
    BY DEF CallInv, CallTypes
  <1>3. O[t] = q /\ \A u \in Threads : u # t => O[u] = open[u]
    BY <1>2 DEF Put
  <1>4. \A i \in DOMAIN q : TimerAt(m, q[i].at, t, q[i].label)
    BY <1>1
  <1> QED BY <1>1, <1>3, <1>4 DEF TimersIn

\* The graphs that are not in use stay empty.
LEMMA NonePut ==
  ASSUME CallInv, NoneEmpty(graph), NEW t \in Threads, NEW h, h.phase = "none" => h.tops = <<>>
  PROVE  NoneEmpty(Put(graph, t, h))
  <1>1. graph \in [Threads -> GraphMembers]
    BY DEF CallInv, CallTypes
  <1> QED BY <1>1 DEF Put, NoneEmpty

\* A worker takes a bookmark or ends: nothing is recorded.
LEMMA LapsMarked ==
  ASSUME CallInv, LapsInv, CallInv', NEW w \in Workers, graph[w].phase # "merging",
         NEW h, h.phase # "none", graph' = Put(graph, w, h),
         ToSet(graph[w].tops) \subseteq ToSet(h.tops), Follows(node, node', Null),
         Grown(node, node'), \A r \in MadeIn(node') \ MadeIn(node) : NodeAt(node', r).dummy,
         UNCHANGED <<open, lock, left, closed>>
  PROVE  LapsInv'
  <1>1. /\ Trees(node) /\ Nodes(node) /\ Nodes(node') /\ DOMAIN graph = Threads /\ w \in Threads
        /\ open \in [Threads -> Seq(Timers)]
    BY DEF CallInv, CallTypes, Forest, Trees, Threads
  <1>2. \A r \in MadeIn(node) : r \in MadeIn(node') /\ Same(node, node', r)
    BY DEF Follows
  <1>3. IsFiniteSet(MadeIn(node')) /\ Counted(node', closed)
    BY <1>1, <1>2, CountedGrown DEF LapsInv
  <1>4. Kept(node', graph', lock, left)
    <2>1. lock # w
      BY <1>1, NotMerged
    <2>2. Kept(node, graph, lock, left)
      BY DEF LapsInv
    <2> QED BY <1>1, <2>1, <2>2, KeptGrown
  <1>5. TimersIn(node', open)
    <2>1. open = Put(open, w, open[w])
      BY <1>1 DEF Put
    <2>2. \A i \in DOMAIN open[w] : \/ \E j \in DOMAIN open[w] : open[w][i] = open[w][j]
                                    \/ TimerAt(node', open[w][i].at, w, open[w][i].label)
      OBVIOUS
    <2>3. TimersIn(node, open)
      BY DEF LapsInv
    <2> QED BY <1>1, <1>2, <2>1, <2>2, <2>3, TimersKept
  <1>6. NoneEmpty(graph')
    <2>1. NoneEmpty(graph)
      BY DEF LapsInv
    <2> QED BY <1>1, <2>1, NonePut
  <1> QED BY <1>3, <1>4, <1>5, <1>6 DEF LapsInv

\* The current node and the bookmarks of a graph one level deeper.
LEMMA DeeperIs ==
  ASSUME NEW g, NEW y, Deeper(g, y) \in GraphMembers
  PROVE  Deeper(g, y).cur = y /\ Deeper(g, y).tops = g.tops
  <1>1. DOMAIN Deeper(g, y) = DOMAIN g
    BY DEF Deeper
  <1>2. "cur" \in DOMAIN Deeper(g, y) /\ "tops" \in DOMAIN Deeper(g, y)
    BY DEF GraphMembers
  <1> QED BY <1>1, <1>2 DEF Deeper

\* A thread pushes below g1, its graph with or without a new bookmark.
LEMMA LapsPushed ==
  ASSUME CallInv, LapsInv, CallInv', NEW t \in Threads, graph[t].phase # "merging",
         NEW n1, Trees(n1), Follows(node, n1, Null), Grown(node, n1),
         \A r \in MadeIn(n1) \ MadeIn(node) : NodeAt(n1, r).dummy,
         NEW g1, ToSet(graph[t].tops) \subseteq ToSet(g1.tops), NEW y, NEW label,
         Below(n1, node', g1.cur, y), TimerAt(node', y, t, label),
         graph' = Put(graph, t, Deeper(g1, y)),
         open' = Put(open, t, Append(open[t], Timer(label, y))), UNCHANGED <<lock, left, closed>>
  PROVE  LapsInv'
  <1> DEFINE h == Deeper(g1, y)
             q == Append(open[t], Timer(label, y))
  <1>1. /\ Trees(node) /\ Nodes(node) /\ Trees(node') /\ Nodes(node') /\ Nodes(n1)
        /\ graph' \in [Threads -> GraphMembers] /\ open' \in [Threads -> Seq(Timers)]
        /\ DOMAIN graph = Threads /\ open \in [Threads -> Seq(Timers)]
        /\ ThreadOK(node', t, graph'[t], open'[t])
    BY DEF CallInv, CallTypes, Forest, Trees
  <1>2. graph'[t] = h /\ open'[t] = q
    BY <1>1 DEF Put
  <1>3. h \in GraphMembers /\ ThreadOK(node', t, h, q)
    BY <1>1, <1>2
  <1>4. h.cur = y /\ h.tops = g1.tops
    BY <1>3, DeeperIs
  <1>5. open[t] \in Seq(Timers) /\ q # <<>> /\ Len(open[t]) \in Nat
        /\ DOMAIN q = 1 .. Len(open[t]) + 1 /\ q[Len(open[t]) + 1] = Timer(label, y)
        /\ DOMAIN open[t] = 1 .. Len(open[t]) /\ \A i \in 1 .. Len(open[t]) : q[i] = open[t][i]
    <2>1. open[t] \in Seq(Timers)
      BY <1>1
    <2>2. /\ open[t] \in Seq(Timers \cup {Timer(label, y)})
          /\ Timer(label, y) \in Timers \cup {Timer(label, y)}
      BY <2>1
    <2> HIDE DEF q
    <2>3. Len(open[t]) \in Nat /\ DOMAIN open[t] = 1 .. Len(open[t])
      BY <2>1, LenProperties
    <2>4. Len(q) = Len(open[t]) + 1 /\ q \in Seq(Timers \cup {Timer(label, y)})
          /\ q[Len(open[t]) + 1] = Timer(label, y)
          /\ \A i \in 1 .. Len(open[t]) : q[i] = open[t][i]
      BY <2>2, AppendProperties DEF q
    <2> QED BY <2>1, <2>3, <2>4, LenProperties, EmptySeq
  <1> HIDE DEF h, q
  <1>6. h.phase \notin {"none", "merging"} /\ h.phase \in {"live", "exiting", "final"}
    BY <1>3, <1>5, GraphParts DEF ThreadOK
  <1>7. TopIn(node')[y] \in ToSet(h.tops)
    BY <1>3, <1>4, <1>6 DEF ThreadOK, Placed
  <1>8. /\ Follows(n1, node', Null) /\ Grown(n1, node') /\ y \in MadeIn(node')
        /\ MadeIn(node') \subseteq MadeIn(n1) \cup {y}
    BY DEF Below
  <1>9. Follows(node, node', Null)
    BY <1>1, <1>8, FollowsOn
  <1>10. \A r \in MadeIn(node) : r \in MadeIn(node') /\ Same(node, node', r)
    BY <1>9 DEF Follows
  <1>11. IsFiniteSet(MadeIn(node')) /\ Counted(node', closed)
    <2>1. \A r \in MadeIn(node) : Same(node, n1, r)
      BY DEF Follows
    <2>2. IsFiniteSet(MadeIn(n1)) /\ Counted(n1, closed)
      BY <1>1, <2>1, CountedGrown DEF LapsInv
    <2>3. \A r \in MadeIn(n1) : Same(n1, node', r)
      BY <1>8 DEF Follows
    <2> QED BY <1>1, <1>8, <2>2, <2>3, CountedGrown
  <1>12. Kept(node', graph', lock, left)
    <2>1. lock # t
      BY NotMerged
    <2>2. Kept(node, graph, lock, left)
      BY DEF LapsInv
    <2>3. ToSet(graph[t].tops) \subseteq ToSet(h.tops)
      BY <1>4
    <2>4. ASSUME NEW r \in MadeIn(node') \ MadeIn(node)
          PROVE  NodeAt(node', r).dummy \/ TopIn(node')[r] \in ToSet(h.tops)
      <3>1. CASE r = y
        BY <1>7, <3>1
      <3>2. CASE r # y
        <4>1. r \in MadeIn(n1) \ MadeIn(node)
          BY <1>8, <3>2
        <4> QED BY <1>8, <4>1 DEF Follows, Same
      <3> QED BY <3>1, <3>2
    <2>5. graph' = Put(graph, t, h)
      BY DEF h
    <2> QED BY <1>1, <1>9, <2>1, <2>2, <2>3, <2>4, <2>5, KeptGrown
  <1>13. TimersIn(node', open')
    <2>1. TimersIn(node, open)
      BY DEF LapsInv
    <2>2. ASSUME NEW i \in DOMAIN q
          PROVE  \/ \E j \in DOMAIN open[t] : q[i] = open[t][j]
                 \/ TimerAt(node', q[i].at, t, q[i].label)
      <3>1. CASE i \in 1 .. Len(open[t])
        BY <1>5, <3>1
      <3>2. CASE i = Len(open[t]) + 1
        <4>1. q[i].at = y /\ q[i].label = label
          BY <1>5, <3>2 DEF Timer
        <4> QED BY <4>1
      <3> QED BY <1>5, <3>1, <3>2
    <2>3. open' = Put(open, t, q)
      BY DEF q
    <2> QED BY <1>10, <2>1, <2>2, <2>3, TimersKept
  <1>14. NoneEmpty(graph')
    <2>1. NoneEmpty(graph) /\ graph' = Put(graph, t, h)
      BY DEF LapsInv, h
    <2> QED BY <1>6, <2>1, NonePut
  <1> QED BY <1>11, <1>12, <1>13, <1>14 DEF LapsInv

\* The main thread pushes.
LEMMA LapsPushMaster ==
  ASSUME CallInv, LapsInv, NEW label \in Labels, PushMaster(label)
  PROVE  LapsInv'
  <1>1. PICK y : /\ Below(node, node', graph[Master].cur, y)
                 /\ graph' = [graph EXCEPT ![Master] = Deeper(graph[Master], y)]
                 /\ open' = [open EXCEPT ![Master] = Append(@, Timer(label, y))]
                 /\ TimerAt(node', y, Master, label)
    BY PushMasterStep
  <1>2. Master \in Threads /\ CallInv' /\ UNCHANGED <<lock, left, closed>>
    BY PushMasterStep DEF Threads, PushMaster, Become
  <1>3. graph[Master].phase # "merging" /\ Trees(node)
    BY <1>2 DEF CallInv, ThreadOK, Forest
  <1>4. Follows(node, node, Null) /\ Grown(node, node)
    BY <1>3, FollowsItself DEF Grown
  <1>5. /\ graph' = Put(graph, Master, Deeper(graph[Master], y))
        /\ open' = Put(open, Master, Append(open[Master], Timer(label, y)))
    BY <1>1 DEF Put
  <1>6. ToSet(graph[Master].tops) \subseteq ToSet(graph[Master].tops)
        /\ \A r \in MadeIn(node) \ MadeIn(node) : NodeAt(node, r).dummy
    OBVIOUS
  <1> QED BY <1>1, <1>2, <1>3, <1>4, <1>5, <1>6, LapsPushed

\* A worker pushes.
LEMMA LapsEndPush ==
  ASSUME CallInv, LapsInv, NEW w \in Workers, EndPush(w)
  PROVE  LapsInv'
  <1> DEFINE label == job[w].label
  <1>1. PICK n1, g1, y :
              /\ Forest(n1) /\ Follows(node, n1, Null)
              /\ Below(n1, node', g1.cur, y) /\ graph' = [graph EXCEPT ![w] = Deeper(g1, y)]
              /\ open' = [open EXCEPT ![w] = Append(@, Timer(label, y))]
              /\ Grown(node, n1) /\ ToSet(graph[w].tops) \subseteq ToSet(g1.tops)
              /\ \A r \in MadeIn(n1) \ MadeIn(node) : NodeAt(n1, r).dummy
              /\ TimerAt(node', y, w, label)
    BY EndPushStep
  <1>2. w \in Threads /\ CallInv' /\ UNCHANGED <<lock, left, closed>>
    BY EndPushStep DEF Threads, EndPush, Become
  <1>3. graph[w].phase # "merging"
    BY DEF CallInv, JobOK, EndPush
  <1>4. Trees(n1)
    BY <1>1 DEF Forest
  <1>5. /\ graph' = Put(graph, w, Deeper(g1, y))
        /\ open' = Put(open, w, Append(open[w], Timer(label, y)))
    BY <1>1 DEF Put
  <1> HIDE DEF label
  <1> QED BY <1>1, <1>2, <1>3, <1>4, <1>5, LapsPushed

\* A worker starts.
LEMMA LapsStart ==
  ASSUME CallInv, LapsInv, NEW w \in Workers, Start(w)
  PROVE  LapsInv'
  <1>1. /\ CallInv' /\ graph[w].phase = "none" /\ Follows(node, node', Null) /\ Grown(node, node')
        /\ \A r \in MadeIn(node') \ MadeIn(node) : NodeAt(node', r).dummy
    BY StartStep
  <1>2. PICK h : h.phase = "live" /\ graph' = [graph EXCEPT ![w] = h]
    BY StartStep
  <1>3. UNCHANGED <<open, lock, left, closed>>
    BY DEF Start
  <1>4. ToSet(graph[w].tops) \subseteq ToSet(h.tops)
    <2>1. graph[w].tops = <<>>
      BY <1>1 DEF LapsInv, NoneEmpty, Threads
    <2> QED BY <2>1 DEF ToSet
  <1>5. graph' = Put(graph, w, h) /\ graph[w].phase # "merging" /\ h.phase # "none"
    BY <1>1, <1>2 DEF Put
  <1> QED BY <1>1, <1>2, <1>3, <1>4, <1>5, LapsMarked

\* A worker is synchronized.
LEMMA LapsSynchronize ==
  ASSUME CallInv, LapsInv, NEW w \in Workers, SynchronizeIdle(w)
  PROVE  LapsInv'
  <1>1. /\ CallInv' /\ Follows(node, node', Null) /\ Grown(node, node')
        /\ \A r \in MadeIn(node') \ MadeIn(node) : NodeAt(node', r).dummy
    BY SynchronizeIdleStep
  <1>2. PICK h : /\ h.phase = "live" /\ graph' = [graph EXCEPT ![w] = h]
                 /\ ToSet(graph[w].tops) \subseteq ToSet(h.tops)
    BY SynchronizeIdleStep
  <1>3. UNCHANGED <<open, lock, left, closed>> /\ graph[w].phase = "live"
    BY DEF SynchronizeIdle, Synchronize
  <1>4. graph' = Put(graph, w, h) /\ graph[w].phase # "merging" /\ h.phase # "none"
    BY <1>2, <1>3 DEF Put
  <1> QED BY <1>1, <1>2, <1>3, <1>4, LapsMarked

\* A worker ends.
LEMMA LapsExit ==
  ASSUME CallInv, LapsInv, NEW w \in Workers, Exit(w)
  PROVE  LapsInv'
  <1> DEFINE h == [graph[w] EXCEPT !.phase = "exiting"]
  <1>1. CallInv' /\ node' = node /\ UNCHANGED <<open, lock, left, closed>>
    BY ExitStep DEF Exit
  <1>2. w \in Threads /\ graph[w] \in GraphMembers /\ graph \in [Threads -> GraphMembers]
        /\ Trees(node)
    BY OfThread DEF Threads
  <1>3. graph' = Put(graph, w, h) /\ graph[w].phase # "merging"
    BY <1>2 DEF Exit, Put
  <1>4. h.phase # "none" /\ ToSet(graph[w].tops) \subseteq ToSet(h.tops)
    <2>1. h.phase = "exiting" /\ h.tops = graph[w].tops
      BY <1>2 DEF GraphMembers
    <2> QED BY <2>1
  <1> HIDE DEF h
  <1>5. /\ Follows(node, node', Null) /\ Grown(node, node')
        /\ \A r \in MadeIn(node') \ MadeIn(node) : NodeAt(node', r).dummy
    BY <1>1, <1>2, FollowsItself DEF Grown
  <1> QED BY <1>1, <1>3, <1>4, <1>5, LapsMarked

\* The timers D of t are popped: nothing new is on its stack.
LEMMA LapsPopped ==
  ASSUME CallInv, LapsInv, CallInv', NEW t \in Threads, NEW D, Unmoved(node, node'),
         Popping(node, node', t, open[t], D, closed, closed'),
         closed' \in [Threads -> [Labels -> Nat]], open' = Put(open, t, open'[t]),
         \A i \in DOMAIN open'[t] : \E j \in DOMAIN open[t] : open'[t][i] = open[t][j],
         \A u \in Threads : Holds(graph, lock, left, u) \subseteq Holds(graph', lock', left', u),
         NoneEmpty(graph')
  PROVE  LapsInv'
  <1>1. Trees(node) /\ Nodes(node)
    BY OfThread DEF Trees
  <1>2. /\ Follows(node, node', Null) /\ MadeIn(node') = MadeIn(node)
        /\ \A r \in MadeIn(node) : /\ r \in MadeIn(node') /\ Same(node, node', r)
                                   /\ TopIn(node')[r] = TopIn(node)[r]
    BY <1>1, TreesQuiet DEF Unmoved
  <1>3. IsFiniteSet(MadeIn(node)) /\ Counted(node, closed) /\ TimersIn(node, open)
        /\ Kept(node, graph, lock, left)
    BY DEF LapsInv
  <1>4. IsFiniteSet(MadeIn(node')) /\ Counted(node', closed')
    BY <1>1, <1>3, CountedPopped
  <1>5. TimersIn(node', open')
    BY <1>2, <1>3, TimersKept
  <1>6. Kept(node', graph', lock', left')
    BY <1>2, <1>3 DEF Kept, Same
  <1> QED BY <1>4, <1>5, <1>6 DEF LapsInv

\* What is popped from a stack.
LEMMA PoppingIs ==
  ASSUME CallInv, LapsInv, NEW t \in Threads, NEW D \in SUBSET DOMAIN open[t], NEW m, NEW e,
         \A r \in MadeIn(node) :
           NodeAt(m, r).laps =
             NodeAt(node, r).laps + Cardinality({i \in D : open[t][i].at = r}),
         \A u \in Threads, label \in Labels :
           e[u][label] =
             closed[u][label] + Cardinality({i \in D : u = t /\ open[t][i].label = label})
  PROVE  Popping(node, m, t, open[t], D, closed, e)
  <1>1. open[t] \in Seq(Timers) /\ ThreadOK(node, t, graph[t], open[t])
    BY OfThread
  <1>2. IsFiniteSet(D)
    <2>1. DOMAIN open[t] = 1 .. Len(open[t]) /\ Len(open[t]) \in Nat
      BY <1>1, LenProperties
    <2>2. IsFiniteSet(1 .. Len(open[t]))
      BY <2>1, FS_Interval
    <2> QED BY <2>1, <2>2, FS_Subset
  <1>3. \A i \in D : /\ open[t][i].at \in MadeIn(node)
                     /\ TimerAt(node, open[t][i].at, t, open[t][i].label)
    BY <1>1 DEF ThreadOK, LapsInv, TimersIn
  <1> QED BY <1>2, <1>3 DEF Popping

\* A thread pops a timer.
LEMMA LapsPop ==
  ASSUME CallInv, LapsInv, NEW t \in Threads, NEW i \in DOMAIN open[t], Pop(t, i)
  PROVE  LapsInv'
  <1> DEFINE D == {i}
  <1>1. /\ CallInv' /\ Unmoved(node, node')
        /\ open' = [open EXCEPT ![t] = RemoveAt(open[t], i)]
        /\ graph' = [graph EXCEPT ![t] = Popped(graph[t])]
        /\ graph[t].phase = "live" /\ graph'[t].phase = "live"
        /\ graph'[t].tops = graph[t].tops
        /\ \A r \in MadeIn(node) :
             NodeAt(node', r).laps = NodeAt(node, r).laps + IF r = open[t][i].at THEN 1 ELSE 0
    BY PopStep
  <1>2. /\ open[t] \in Seq(Timers) /\ graph \in [Threads -> GraphMembers] /\ Nodes(node)
        /\ closed \in [Threads -> [Labels -> Nat]] /\ open[t][i].label \in Labels
    <2>1. open[t] \in Seq(Timers)
      BY OfThread
    <2>2. open[t][i] \in Timers
      BY <2>1, ElementOfSeq, LenProperties
    <2> QED BY <2>1, <2>2, OfThread DEF Trees, LapsInv, Timers
  <1>3. UNCHANGED <<lock, left>> /\ closed' = [closed EXCEPT ![t][open[t][i].label] = @ + 1]
    BY DEF Pop
  <1>4. \A P : Cardinality({j \in {i} : P}) = IF P THEN 1 ELSE 0
    <2> SUFFICES ASSUME NEW P PROVE Cardinality({j \in {i} : P}) = IF P THEN 1 ELSE 0
      OBVIOUS
    <2>1. CASE P
      <3>1. {j \in {i} : P} = {i}
        BY <2>1
      <3> QED BY <2>1, <3>1, FS_Singleton
    <2>2. CASE ~P
      <3>1. {j \in {i} : P} = {}
        BY <2>2
      <3> QED BY <2>2, <3>1, FS_EmptySet
    <2> QED BY <2>1, <2>2
  <1>5. \A r \in MadeIn(node) : NodeAt(node', r).laps =
          NodeAt(node, r).laps + Cardinality({j \in D : open[t][j].at = r})
    <2> SUFFICES ASSUME NEW r \in MadeIn(node)
                 PROVE  Cardinality({j \in D : open[t][j].at = r})
                          = IF r = open[t][i].at THEN 1 ELSE 0
      BY <1>1
    <2>1. {j \in D : open[t][j].at = r} = {j \in {i} : open[t][i].at = r}
      OBVIOUS
    <2> QED BY <1>4, <2>1
  <1>6. \A u \in Threads, label \in Labels :
          closed'[u][label] =
            closed[u][label] + Cardinality({j \in D : u = t /\ open[t][j].label = label})
    <2> SUFFICES ASSUME NEW u \in Threads, NEW label \in Labels
                 PROVE  closed'[u][label] = closed[u][label]
                          + Cardinality({j \in D : u = t /\ open[t][j].label = label})
      OBVIOUS
    <2>1. {j \in D : u = t /\ open[t][j].label = label}
            = {j \in {i} : u = t /\ open[t][i].label = label}
      OBVIOUS
    <2>2. Cardinality({j \in D : u = t /\ open[t][j].label = label})
            = IF u = t /\ open[t][i].label = label THEN 1 ELSE 0
      BY <1>4, <2>1
    <2>3. closed'[u][label] =
            closed[u][label] + IF u = t /\ open[t][i].label = label THEN 1 ELSE 0
      BY <1>2, <1>3
    <2> QED BY <2>2, <2>3
  <1>7. closed' \in [Threads -> [Labels -> Nat]]
    BY <1>2, <1>3
  <1>8. /\ open' = Put(open, t, open'[t])
        /\ \A k \in DOMAIN open'[t] : \E j \in DOMAIN open[t] : open'[t][k] = open[t][j]
    <2>1. open'[t] = RemoveAt(open[t], i) /\ open' = Put(open, t, RemoveAt(open[t], i))
      BY <1>1, OfThread DEF Put
    <2>2. \A k \in DOMAIN RemoveAt(open[t], i) :
             \E j \in DOMAIN open[t] : RemoveAt(open[t], i)[k] = open[t][j]
      BY <1>2, RemovedAre
    <2> QED BY <2>1, <2>2
  <1>9. \A u \in Threads : /\ graph'[u].tops = graph[u].tops
                           /\ graph'[u].phase = "none" => graph[u].phase = "none"
    BY <1>1, <1>2
  <1>10. \A u \in Threads : Holds(graph, lock, left, u) \subseteq Holds(graph', lock', left', u)
    BY <1>3, <1>9 DEF Holds
  <1>11. NoneEmpty(graph')
    BY <1>9 DEF LapsInv, NoneEmpty
  <1>12. Popping(node, node', t, open[t], D, closed, closed')
    <2>1. D \in SUBSET DOMAIN open[t]
      OBVIOUS
    <2> HIDE DEF D
    <2> QED BY <1>5, <1>6, <2>1, PoppingIs
  <1>13. CallInv /\ LapsInv /\ CallInv' /\ Unmoved(node, node')
    BY <1>1
  <1> HIDE DEF D
  <1> QED BY <1>7, <1>8, <1>10, <1>11, <1>12, <1>13, LapsPopped

\* A thread's stack is cleared.
LEMMA LapsCleared ==
  ASSUME CallInv, LapsInv, CallInv', NEW t \in Threads, node' = ClearedStack(node, t),
         closed' = ClosedStack(t), open' = Put(open, t, <<>>),
         \A u \in Threads : Holds(graph, lock, left, u) \subseteq Holds(graph', lock', left', u),
         NoneEmpty(graph')
  PROVE  LapsInv'
  <1> DEFINE D == DOMAIN open[t]
  <1>1. /\ Nodes(node) /\ open[t] \in Seq(Timers) /\ open \in [Threads -> Seq(Timers)]
        /\ closed \in [Threads -> [Labels -> Nat]]
    BY OfThread DEF Trees, LapsInv
  <1>2. /\ Unmoved(node, node')
        /\ \A r \in MadeIn(node) : NodeAt(node', r).laps =
             NodeAt(node, r).laps + Cardinality({i \in D : open[t][i].at = r})
    BY <1>1, StackCleared
  <1>3. ASSUME NEW u \in Threads, NEW label \in Labels
        PROVE  /\ closed'[u][label] = closed[u][label]
                    + Cardinality({i \in D : u = t /\ open[t][i].label = label})
               /\ Cardinality({i \in D : open[t][i].label = label}) \in Nat
    <2> DEFINE X == {i \in D : open[t][i].label = label}
    <2>1. Cardinality(X) \in Nat
      <3>1. D = 1 .. Len(open[t]) /\ Len(open[t]) \in Nat
        BY <1>1, LenProperties
      <3>2. IsFiniteSet(D) /\ X \subseteq D
        BY <3>1, FS_Interval
      <3> HIDE DEF D, X
      <3> QED BY <3>2, FS_Subset, FS_CardinalityType
    <2>2. CASE u = t
      <3>1. closed'[t][label] = closed[t][label] + Cardinality(X)
        BY <1>1 DEF ClosedStack
      <3>2. {i \in D : u = t /\ open[t][i].label = label} = X
        BY <2>2
      <3> QED BY <2>1, <2>2, <3>1, <3>2
    <2>3. CASE u # t
      <3>1. closed'[u][label] = closed[u][label] /\ closed[u][label] \in Nat
        BY <1>1, <2>3 DEF ClosedStack
      <3> DEFINE Y == {i \in D : u = t /\ open[t][i].label = label}
      <3>2. Y = {}
        BY <2>3
      <3> HIDE DEF Y
      <3>3. closed'[u][label] = closed[u][label] + Cardinality(Y)
        BY <3>1, <3>2, FS_EmptySet
      <3> QED BY <2>1, <3>3 DEF Y
    <2> QED BY <2>2, <2>3
  <1>4. closed' \in [Threads -> [Labels -> Nat]]
    <2> DEFINE row == [label \in Labels |->
                         closed[t][label] + Cardinality({i \in D : open[t][i].label = label})]
    <2>1. closed' = [closed EXCEPT ![t] = row]
      BY <1>1 DEF ClosedStack
    <2>2. \A label \in Labels : closed[t][label] \in Nat
      BY <1>1
    <2>3. \A label \in Labels : Cardinality({i \in D : open[t][i].label = label}) \in Nat
      BY <1>3
    <2>4. row \in [Labels -> Nat]
      BY <2>2, <2>3
    <2> HIDE DEF row
    <2> QED BY <1>1, <2>1, <2>4
  <1>5. Popping(node, node', t, open[t], D, closed, closed')
    <2>1. D \in SUBSET DOMAIN open[t]
      OBVIOUS
    <2>2. \A u \in Threads, label \in Labels :
            closed'[u][label] =
              closed[u][label] + Cardinality({i \in D : u = t /\ open[t][i].label = label})
      BY <1>3
    <2> HIDE DEF D
    <2> QED BY <1>2, <2>1, <2>2, PoppingIs
  <1>6. /\ open' = Put(open, t, open'[t])
        /\ \A i \in DOMAIN open'[t] : \E j \in DOMAIN open[t] : open'[t][i] = open[t][j]
    BY <1>1 DEF Put
  <1> HIDE DEF D
  <1> QED BY <1>2, <1>4, <1>5, <1>6, LapsPopped

\* The merge of a worker begins, or there is nothing to merge.
LEMMA LapsBeginMerge ==
  ASSUME CallInv, LapsInv, NEW w \in Workers, BeginMerge(w)
  PROVE  LapsInv'
  <1>1. w \in Threads /\ w \in Workers /\ Null \notin Threads
    BY CallGraphAssumption DEF Threads
  <1>2. /\ Trees(node) /\ graph[w] \in GraphMembers /\ graph \in [Threads -> GraphMembers]
        /\ open \in [Threads -> Seq(Timers)] /\ ThreadOK(node, w, graph[w], open[w])
    BY <1>1, OfThread
  <1>3. lock = Null /\ graph[w].phase = "exiting" /\ CallInv'
    BY BeginMergeStep DEF BeginMerge
  <1>4. CASE IsEmpty(w)
    <2> DEFINE h == ClearedGraph("none")
    <2>1. graph' = Put(graph, w, h) /\ UNCHANGED <<node, open, lock, left, closed>>
      BY <1>4 DEF BeginMerge, Put
    <2>2. h.tops = <<>>
      BY DEF ClearedGraph
    <2> HIDE DEF h
    <2>3. NoneEmpty(graph')
      BY <1>1, <2>1, <2>2, NonePut DEF LapsInv
    <2>4. Kept(node, graph', lock, left)
      <3> SUFFICES ASSUME NEW r \in MadeIn(node), ~NodeAt(node, r).dummy
                   PROVE  \E u \in Threads : TopIn(node)[r] \in Holds(graph', lock, left, u)
        BY DEF Kept
      <3>1. PICK u \in Threads : TopIn(node)[r] \in Holds(graph, lock, left, u)
        BY DEF LapsInv, Kept
      <3>2. TopIn(node)[r] \in ToSet(graph[u].tops)
        BY <1>1, <1>3, <3>1 DEF Holds
      <3>3. u # w
        BY <1>4, <3>2, Names DEF IsEmpty
      <3>4. graph'[u] = graph[u]
        BY <2>1, <3>3 DEF Put
      <3> QED BY <1>1, <1>3, <3>2, <3>4 DEF Holds
    <2> QED BY <2>1, <2>3, <2>4 DEF LapsInv
  <1>5. CASE ~IsEmpty(w)
    <2>1. /\ lock' = w /\ left' = InverseInsert(graph[w].marks)
          /\ node' = ClearedStack(node, w) /\ closed' = ClosedStack(w)
          /\ open' = [open EXCEPT ![w] = <<>>] /\ graph' = [graph EXCEPT ![w].phase = "merging"]
      BY <1>5 DEF BeginMerge
    <2>2. \A u \in Threads : /\ graph'[u].tops = graph[u].tops
                             /\ graph'[u].phase = IF u = w THEN "merging" ELSE graph[u].phase
      <3> SUFFICES ASSUME NEW u \in Threads
                   PROVE  /\ graph'[u].tops = graph[u].tops
                          /\ graph'[u].phase = IF u = w THEN "merging" ELSE graph[u].phase
        OBVIOUS
      <3>1. CASE u = w
        <4>1. graph'[u] = [graph[w] EXCEPT !.phase = "merging"]
          BY <1>2, <2>1, <3>1
        <4> QED BY <1>2, <3>1, <4>1 DEF GraphMembers
      <3>2. CASE u # w
        BY <1>2, <2>1, <3>2
      <3> QED BY <3>1, <3>2
    <2>3. ToSet(left') = ToSet(graph[w].tops)
      <3>1. /\ graph[w].marks \in Seq(Refs) /\ ToSet(graph[w].tops) = ToSet(graph[w].marks)
            /\ \A r \in ToSet(graph[w].marks) : r \in MadeIn(node)
        BY <1>2, GraphParts DEF ThreadOK
      <3>2. ToSet(InverseInsert(graph[w].marks)) = ToSet(graph[w].marks)
        BY <1>2, <3>1, InverseInsertIs
      <3> QED BY <2>1, <3>1, <3>2
    <2>4. ASSUME NEW u \in Threads
          PROVE  Holds(graph, lock, left, u) \subseteq Holds(graph', lock', left', u)
      <3>1. Holds(graph, lock, left, u) = ToSet(graph[u].tops)
        BY <1>1, <1>3 DEF Holds
      <3>2. Holds(graph', lock', left', u) = ToSet(graph[u].tops)
        BY <2>1, <2>2, <2>3 DEF Holds
      <3> QED BY <3>1, <3>2
    <2>5. NoneEmpty(graph')
      <3>1. NoneEmpty(graph)
        BY DEF LapsInv
      <3> QED BY <2>2, <3>1 DEF NoneEmpty
    <2>6. open' = Put(open, w, <<>>)
      BY <2>1 DEF Put
    <2> QED BY <1>1, <1>3, <2>1, <2>4, <2>5, <2>6, LapsCleared
  <1> QED BY <1>4, <1>5

\* The merge visits a bookmark: what hangs below it moves to the master call-graph.
LEMMA LapsMergeOne ==
  ASSUME CallInv, LapsInv, NEW w \in Workers, MergeOne(w)
  PROVE  LapsInv'
  <1> DEFINE b == Head(left)
  <1>1. /\ CallInv' /\ UNCHANGED <<graph, open>> /\ Follows(node, node', b)
        /\ MadeIn(node') = MadeIn(node) /\ NodeAt(node, b).dummy
        /\ \A r \in MadeIn(node) :
             /\ NodeAt(node', r).laps = NodeAt(node, r).laps
             /\ TopIn(node')[r] = IF TopIn(node)[r] = b /\ r # b THEN Root ELSE TopIn(node)[r]
    BY MergeOneStep
  <1>2. lock = w /\ left # <<>> /\ left' = Tail(left) /\ UNCHANGED <<lock, closed>>
    BY DEF MergeOne
  <1>3. Master \in Threads /\ w \in Threads /\ Master # w
    BY CallGraphAssumption DEF Threads
  <1>4. /\ Nodes(node) /\ Nodes(node') /\ left \in Seq(Refs) /\ graph[Master].tops = <<Root>>
        /\ open \in [Threads -> Seq(Timers)]
    BY <1>1, <1>3 DEF CallInv, CallTypes, Forest, Trees, ThreadOK
  <1>5. \A r \in MadeIn(node) : r \in MadeIn(node') /\ Same(node, node', r)
    BY <1>1 DEF Follows
  <1>6. IsFiniteSet(MadeIn(node')) /\ Counted(node', closed)
    <2>1. Grown(node, node')
      BY <1>1 DEF Grown
    <2> QED BY <1>4, <1>5, <2>1, CountedGrown DEF LapsInv
  <1>7. TimersIn(node', open)
    <2>1. open = Put(open, w, open[w])
      BY <1>3, <1>4 DEF Put
    <2>2. \A i \in DOMAIN open[w] : \/ \E j \in DOMAIN open[w] : open[w][i] = open[w][j]
                                    \/ TimerAt(node', open[w][i].at, w, open[w][i].label)
      OBVIOUS
    <2>3. TimersIn(node, open)
      BY DEF LapsInv
    <2> QED BY <1>3, <1>5, <2>1, <2>2, <2>3, TimersKept
  <1>8. Kept(node', graph, lock, left')
    <2> SUFFICES ASSUME NEW r \in MadeIn(node), ~NodeAt(node', r).dummy
                 PROVE  \E u \in Threads : TopIn(node')[r] \in Holds(graph, lock, left', u)
      BY <1>1 DEF Kept
    <2>1. ~NodeAt(node, r).dummy
      BY <1>5 DEF Same
    <2>2. PICK u \in Threads : TopIn(node)[r] \in Holds(graph, lock, left, u)
      BY <2>1 DEF LapsInv, Kept
    <2>3. CASE TopIn(node)[r] = b
      <3>1. TopIn(node')[r] = Root
        BY <1>1, <2>1, <2>3
      <3>2. Root \in ToSet(<<Root>>)
        BY DEF ToSet
      <3> QED BY <1>2, <1>3, <1>4, <3>1, <3>2 DEF Holds
    <2>4. CASE TopIn(node)[r] # b
      <3>1. TopIn(node')[r] = TopIn(node)[r]
        BY <1>1, <2>4
      <3>2. CASE u # w
        BY <1>2, <2>2, <3>1, <3>2 DEF Holds
      <3>3. CASE u = w
        <4>1. TopIn(node)[r] \in ToSet(left)
          BY <1>2, <2>2, <3>3 DEF Holds
        <4>2. PICK k \in DOMAIN left : TopIn(node)[r] = left[k]
          BY <4>1 DEF ToSet
        <4>3. k \in 1 .. Len(left) /\ k # 1 /\ Len(left) \in Nat /\ Tail(left) \in Seq(Refs)
              /\ Len(Tail(left)) = Len(left) - 1
              /\ \A j \in 1 .. Len(left) - 1 : Tail(left)[j] = left[j + 1]
          BY <1>2, <1>4, <2>4, <4>2, HeadTailProperties, LenProperties, EmptySeq
        <4>4. k - 1 \in DOMAIN Tail(left) /\ Tail(left)[k - 1] = left[k]
          BY <4>3, LenProperties
        <4>5. TopIn(node)[r] \in ToSet(left')
          BY <1>2, <4>2, <4>4 DEF ToSet
        <4> QED BY <1>2, <3>1, <3>3, <4>5 DEF Holds
      <3> QED BY <3>2, <3>3
    <2> QED BY <2>3, <2>4
  <1> QED BY <1>1, <1>2, <1>6, <1>7, <1>8 DEF LapsInv

\* The merge ends.
LEMMA LapsEndMerge ==
  ASSUME CallInv, LapsInv, NEW w \in Workers, EndMerge(w)
  PROVE  LapsInv'
  <1> DEFINE h == ClearedGraph(IF graph[w].phase = "merging" THEN "none" ELSE "cleared")
  <1>1. node' = node /\ open' = open /\ UNCHANGED closed /\ lock = w /\ left = <<>>
        /\ lock' = Null /\ left' = left
    BY EndMergeStep DEF EndMerge
  <1>2. w \in Threads /\ Null \notin Threads /\ graph \in [Threads -> GraphMembers]
    BY CallGraphAssumption DEF Threads, CallInv, CallTypes
  <1>3. graph' = Put(graph, w, h)
    BY <1>2 DEF EndMerge, Put
  <1>4. h.tops = <<>>
    BY DEF ClearedGraph
  <1> HIDE DEF h
  <1>5. NoneEmpty(graph')
    BY <1>2, <1>3, <1>4, NonePut DEF LapsInv
  <1>6. Kept(node, graph', lock', left)
    <2> SUFFICES ASSUME NEW r \in MadeIn(node), ~NodeAt(node, r).dummy
                 PROVE  \E u \in Threads : TopIn(node)[r] \in Holds(graph', lock', left, u)
      BY DEF Kept
    <2>1. PICK u \in Threads : TopIn(node)[r] \in Holds(graph, lock, left, u)
      BY DEF LapsInv, Kept
    <2>2. u # w
      <3>1. ToSet(<<>>) = {}
        BY DEF ToSet
      <3> QED BY <1>1, <2>1, <3>1 DEF Holds
    <2>3. graph'[u] = graph[u]
      BY <1>2, <1>3, <2>2 DEF Put
    <2> QED BY <1>1, <1>2, <2>1, <2>2, <2>3 DEF Holds
  <1> QED BY <1>1, <1>5, <1>6 DEF LapsInv

\* The main thread finalizes.
LEMMA LapsFinalize ==
  ASSUME CallInv, LapsInv, Joined, Finalize
  PROVE  LapsInv'
  <1>1. Master \in Threads /\ CallInv'
    BY FinalizeStep DEF Threads
  <1>2. PICK h : h.phase = "final" /\ graph' = [graph EXCEPT ![Master] = h]
    BY FinalizeStep
  <1>3. /\ node' = ClearedStack(node, Master) /\ closed' = ClosedStack(Master)
        /\ open' = Put(open, Master, <<>>) /\ UNCHANGED <<lock, left>>
    BY DEF Finalize, Put
  <1>4. graph \in [Threads -> GraphMembers] /\ graph[Master].tops = <<Root>>
        /\ graph'[Master].tops = <<Root>>
    BY <1>1 DEF CallInv, CallTypes, ThreadOK
  <1>5. \A u \in Threads : /\ graph'[u].tops = graph[u].tops
                           /\ graph'[u].phase = "none" => graph[u].phase = "none"
    BY <1>1, <1>2, <1>4
  <1>6. \A u \in Threads : Holds(graph, lock, left, u) \subseteq Holds(graph', lock', left', u)
    BY <1>3, <1>5 DEF Holds
  <1>7. NoneEmpty(graph')
    BY <1>5 DEF LapsInv, NoneEmpty
  <1> QED BY <1>1, <1>3, <1>6, <1>7, LapsCleared

\* Before anything is pushed.
LEMMA LapsInit ==
  ASSUME Init
  PROVE  LapsInv
  <1>1. /\ Nodes(node) /\ Master \in Threads
    BY CallInit DEF CallInv, Forest, Trees, Threads
  <1>2. \A t \in Threads : t # Master => node[t] = <<>>
    BY DEF Init
  <1>3. node[Master] = <<Dummy(RootKey, 0, Master, Null)>>
    BY <1>1 DEF Init
  <1>4. MadeIn(node) = {Root}
    <2>1. DOMAIN node[Master] = {1}
      <3> DEFINE x == Dummy(RootKey, 0, Master, Null)
      <3>1. node[Master] = <<x>>
        BY <1>3
      <3> HIDE DEF x
      <3>2. DOMAIN <<x>> = {1}
        OBVIOUS
      <3> QED BY <3>1, <3>2
    <2>2. \A t \in Threads : t # Master => DOMAIN node[t] = {}
      BY <1>2
    <2> QED BY <1>1, <2>1, <2>2 DEF MadeIn, Root
  <1>5. NodeAt(node, Root) = Dummy(RootKey, 0, Master, Null)
    BY <1>3 DEF NodeAt, Root
  <1>6. NodeAt(node, Root).dummy
    BY <1>5 DEF Dummy
  <1>7. closed = [t \in Threads |-> [l \in Labels |-> 0]]
    BY DEF Init
  <1>8. IsFiniteSet(MadeIn(node)) /\ closed \in [Threads -> [Labels -> Nat]]
    BY <1>4, <1>7, FS_Singleton
  <1>9. Counted(node, closed)
    <2> SUFFICES ASSUME NEW t \in Threads, NEW label \in Labels,
                        NEW f, Sums(f, Weighs(node, t, label), MadeIn(node))
                 PROVE  closed[t][label] = f[MadeIn(node)]
      BY DEF Counted
    <2> DEFINE w == Weighs(node, t, label)
               S == MadeIn(node)
    <2>1. \A x \in S : w[x] = 0
      BY <1>4, <1>6 DEF Weighs, TimerAt
    <2>2. Sums(f, w, S) /\ IsFiniteSet(S)
      BY <1>8
    <2> HIDE DEF w, S
    <2>3. f[S] = f[{}]
      <3>1. /\ {} \subseteq S /\ \A x \in S \ {} : w[x] = 0
            /\ \A x \in S : w[x] \in Nat
        BY <2>1
      <3> QED BY <2>2, <3>1, SumsZero
    <2>4. f[{}] = 0
      BY <2>2 DEF Sums
    <2> QED BY <1>7, <2>3, <2>4 DEF S
  <1>10. TimersIn(node, open)
    BY DEF Init, TimersIn
  <1>11. NoneEmpty(graph)
    <2> SUFFICES ASSUME NEW t \in Threads, graph[t].phase = "none" PROVE graph[t].tops = <<>>
      BY DEF NoneEmpty
    <2>1. graph[t] = IF t = Master THEN NewGraph(<<Master, 1>>, 0) ELSE ClearedGraph("none")
      BY DEF Init
    <2>2. NewGraph(<<Master, 1>>, 0).phase = "live" /\ ClearedGraph("none").tops = <<>>
      BY DEF NewGraph, ClearedGraph
    <2> QED BY <2>1, <2>2
  <1>12. Kept(node, graph, lock, left)
    BY <1>4, <1>6 DEF Kept
  <1> QED BY <1>8, <1>9, <1>10, <1>11, <1>12 DEF LapsInv

\* Every step keeps the laps.
LEMMA LapsNext ==
  ASSUME CallInv, LapsInv, [Next]_vars
  PROVE  LapsInv'
  <1>1. ASSUME NEW t \in Threads, Newest(t) \/ Oldest(t) PROVE LapsInv'
    <2>1. open[t] \in Seq(Timers)
      BY OfThread
    <2>2. Len(open[t]) \in Nat /\ DOMAIN open[t] = 1 .. Len(open[t])
          /\ (open[t] # <<>> => Len(open[t]) # 0)
      BY <2>1, EmptySeq, LenProperties
    <2>3. CASE Newest(t)
      <3>1. Len(open[t]) \in DOMAIN open[t] /\ Pop(t, Len(open[t]))
        BY <2>2, <2>3 DEF Newest
      <3> QED BY <3>1, LapsPop
    <2>4. CASE Oldest(t)
      <3>1. 1 \in DOMAIN open[t] /\ Pop(t, 1)
        BY <2>2, <2>4 DEF Oldest
      <3> QED BY <3>1, LapsPop
    <2> QED BY <1>1, <2>3, <2>4
  <1>2. Master \in Threads /\ Workers \subseteq Threads
    BY DEF Threads
  <1>3. CASE MainUse
    BY <1>1, <1>2, <1>3, LapsPushMaster DEF MainUse
  <1>4. ASSUME NEW w \in Workers, Use(w) \/ Exit(w) \/ MergeStep(w) PROVE LapsInv'
    <2>1. CASE Start(w)
      BY <2>1, LapsStart
    <2>2. CASE EndPush(w)
      BY <2>2, LapsEndPush
    <2>3. CASE Newest(w)
      BY <1>1, <1>2, <2>3
    <2>4. CASE \E l \in Labels : BeginPush(w, l)
      BY <2>4 DEF BeginPush, LapsInv
    <2>5. CASE Exit(w)
      BY <2>5, LapsExit
    <2>6. CASE BeginMerge(w)
      BY <2>6, LapsBeginMerge
    <2>7. CASE MergeOne(w)
      BY <2>7, LapsMergeOne
    <2>8. CASE EndMerge(w)
      BY <2>8, LapsEndMerge
    <2> QED BY <1>4, <2>1, <2>2, <2>3, <2>4, <2>5, <2>6, <2>7, <2>8 DEF Use, MergeStep
  <1>5. CASE Joined /\ Finalize
    BY <1>5, LapsFinalize
  <1>6. ASSUME NEW w \in Workers, SynchronizeIdle(w) PROVE LapsInv'
    BY <1>6, LapsSynchronize
  <1>7. CASE UNCHANGED vars
    BY <1>7 DEF vars, LapsInv
  <1> QED BY <1>1, <1>3, <1>4, <1>5, <1>6, <1>7 DEF Next, Work

\* All records are in some graph, so the laps in the graphs are all there are.
LEMMA LapsAreInGraphs ==
  ASSUME CallInv, LapsInv
  PROVE  LapsConserved
  <1> DEFINE All == UNION {Linked(u) : u \in Threads}
  <1>1. All \subseteq MadeIn(node)
    BY Names
  <1>2. Nodes(node) /\ IsFiniteSet(MadeIn(node)) /\ IsFiniteSet(All)
    BY <1>1, FS_Subset DEF CallInv, Forest, Trees, LapsInv
  <1>3. ASSUME NEW r \in MadeIn(node) \ All PROVE NodeAt(node, r).dummy
    <2> SUFFICES ASSUME ~NodeAt(node, r).dummy PROVE FALSE
      OBVIOUS
    <2>1. PICK u \in Threads : TopIn(node)[r] \in Holds(graph, lock, left, u)
      BY DEF LapsInv, Kept
    <2>2. TopIn(node)[r] \in ToSet(graph[u].tops)
      <3>1. CASE lock = u
        <4>1. TopIn(node)[r] \in ToSet(left)
          BY <2>1, <3>1 DEF Holds
        <4>2. TopIn(node)[r] \in ToSet(graph[u].marks)
          BY <3>1, <4>1 DEF CallInv, MergeOK
        <4> QED BY <4>2 DEF CallInv, ThreadOK
      <3>2. CASE lock # u
        BY <2>1, <3>2 DEF Holds
      <3> QED BY <3>1, <3>2
    <2>3. r \in Linked(u)
      BY <2>2, Names
    <2> QED BY <2>3
  <1> SUFFICES ASSUME NEW t \in Threads, NEW label \in Labels
               PROVE  closed[t][label] = LapsOf(All, t, label)
    BY DEF LapsConserved
  <1> DEFINE w == Weighs(node, t, label)
             S == MadeIn(node)
  <1>4. PICK f : Sums(f, w, S)
    BY <1>2, SumsExist
  <1>5. closed[t][label] = f[S]
    BY <1>4 DEF LapsInv, Counted
  <1>6. \A x \in S : w[x] \in Nat
    BY <1>2, WeighsAre
  <1>7. \A x \in S \ All : w[x] = 0
    BY <1>3 DEF Weighs, TimerAt
  <1> HIDE DEF All
  <1>8. LapsOf(All, t, label) = f[All]
    BY <1>1, <1>2, <1>4, LapsAre
  <1> HIDE DEF w, S
  <1>9. f[S] = f[All]
    <2>1. IsFiniteSet(S) /\ All \subseteq S
      BY <1>1, <1>2 DEF S
    <2> QED BY <1>4, <1>6, <1>7, <2>1, SumsZero
  <1> QED BY <1>5, <1>8, <1>9

\* The merge loses and doubles no record: every lap a timer added is in exactly one
\* call-graph (operation::finalize::merge, pop_node).
THEOREM LapsConservedHolds == Spec => []LapsConserved
  <1>1. Init => LapsInv
    BY LapsInit
  <1>2. CallInv /\ LapsInv /\ [Next]_vars => LapsInv'
    BY LapsNext
  <1>3. CallInv /\ LapsInv => LapsConserved
    BY LapsAreInGraphs
  <1> QED BY CallGraphsInOrder, <1>1, <1>2, <1>3, PTL DEF Spec
=============================================================================

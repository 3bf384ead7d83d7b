----------------------------- MODULE GraphProofs -----------------------------
(***************************************************************************)
(* Proofs about Graph for any set of graphs and any number of slots, and   *)
(* about RingBufferAllocator, which its nodes lie in the memory of.        *)
(*                                                                         *)
(* LinksAgree speaks of the links and NodesHaveMemory of the memory, and   *)
(* neither is inductive. The invariant GraphInv says that the links        *)
(* represent a forest (GraphLinkProofs) and, for the memory, whose the     *)
(* nodes are: Safe says that a graph keeps every allocator that one of its *)
(* nodes or dangling slots comes from, also in the middle of a merge.      *)
(*                                                                         *)
(* Of the allocator, for any number of them, sizes of buffers and          *)
(* requests: blocks lie inside their buffers and apart, a slot is lost     *)
(* only with the tail of a buffer, and the allocator is a pool.            *)
(***************************************************************************)
EXTENDS GraphLinkProofs, RingBufferAllocator

-----------------------------------------------------------------------------
(* Exchange of two nodes.                                                  *)

\* The names with x and y exchanged.
Traded(x, y) == [[z \in Nodes |-> z] EXCEPT ![x] = y, ![y] = x]

\* Exchanging two names twice changes nothing.
LEMMA TradedIs ==
  ASSUME NEW n \in Nodes, NEW m \in Nodes, n # m
  PROVE  /\ DOMAIN Traded(n, m) = Nodes
         /\ \A z \in Nodes : /\ Traded(n, m)[z] = IF z = n THEN m ELSE IF z = m THEN n ELSE z
                             /\ Traded(n, m)[z] \in Nodes /\ Traded(n, m)[Traded(n, m)[z]] = z
<1> DEFINE f == [[z \in Nodes |-> z] EXCEPT ![n] = m]
<1>1. DOMAIN f = Nodes /\ \A z \in Nodes : f[z] = IF z = n THEN m ELSE z
  OBVIOUS
<1>2. Traded(n, m) = [f EXCEPT ![m] = n]
  BY DEF Traded
<1> HIDE DEF f
<1>3. DOMAIN Traded(n, m) = Nodes
  BY <1>1, <1>2
<1>4. \A z \in Nodes : Traded(n, m)[z] = IF z = n THEN m ELSE IF z = m THEN n ELSE z
  BY <1>1, <1>2
<1> QED BY <1>3, <1>4

\* v is the sequence s of members of K, under other names.
NamesOf(s, f, K, v) ==
  /\ v \in Seq(K) /\ Len(v) = Len(s) /\ Len(s) \in Nat
  /\ DOMAIN v = 1 .. Len(s) /\ DOMAIN s = 1 .. Len(s)
  /\ \A j \in 1 .. Len(s) : v[j] = f[s[j]] /\ s[j] \in K
  /\ IsInjective(v)
  /\ \A z : z \in ToSet(v) <=> \E y \in ToSet(s) : z = f[y]
  /\ s = <<>> => v = <<>>

\* The children of a node under names that are exchanged.
LEMMA NamedSeq ==
  ASSUME NEW F, NEW K, Shape(F, K), NEW f, \A z \in K : f[z] \in K, \A y, z \in K : f[y] = f[z] => y = z,
         NEW q \in Parents
  PROVE  NamesOf(F[q], f, K, Named(F, f)[q])
<1> DEFINE s == F[q]
           v == [j \in DOMAIN s |-> f[s[j]]]
<1>1. s \in Seq(K) /\ s \in Seq(Nodes) /\ IsInjective(s) /\ K \subseteq Nodes
  BY ShapeIs
<1>2. Named(F, f)[q] = v
  BY DEF Named
<1> HIDE DEF s
<1>3. Len(s) \in Nat /\ DOMAIN s = 1 .. Len(s) /\ (\A j \in 1 .. Len(s) : s[j] \in K /\ s[j] \in ToSet(s))
      /\ (\A i, j \in 1 .. Len(s) : s[i] = s[j] => i = j) /\ (\A y \in ToSet(s) : \E j \in 1 .. Len(s) : y = s[j])
  BY <1>1, SetOf
<1>4. v = [j \in 1 .. Len(s) |-> v[j]] /\ \A j \in 1 .. Len(s) : v[j] \in K /\ v[j] = f[s[j]]
  BY <1>3
<1>5. DOMAIN v = 1 .. Len(s)
  BY <1>3
<1> HIDE DEF v
<1>6. v \in Seq(K) /\ Len(v) = Len(s)
  <2> DEFINE c == Len(s)
  <2>1. c \in Nat /\ v = [j \in 1 .. c |-> v[j]] /\ \A j \in 1 .. c : v[j] \in K
    BY <1>3, <1>4
  <2> HIDE DEF c
  <2>2. v \in Seq(K) /\ Len(v) = c
    BY ONLY <2>1, FunctionSeq
  <2> QED BY <2>2 DEF c
<1>7. IsInjective(v)
  <2>1. \A i, j \in 1 .. Len(s) : v[i] = v[j] => i = j
    BY <1>3, <1>4
  <2> QED BY <1>6, <2>1, SetOf
<1>8. \A z : z \in ToSet(v) <=> \E y \in ToSet(s) : z = f[y]
  <2>1. ASSUME NEW z \in ToSet(v) PROVE \E y \in ToSet(s) : z = f[y]
    <3>1. PICK j \in 1 .. Len(v) : z = v[j]
      BY <1>6, SetOf
    <3> QED BY <1>3, <1>4, <1>6, <3>1
  <2>2. ASSUME NEW y \in ToSet(s) PROVE f[y] \in ToSet(v)
    <3>1. PICK j \in 1 .. Len(s) : y = s[j]
      BY <1>3
    <3>2. v[j] \in ToSet(v)
      BY <1>6, <3>1, SetOf
    <3> QED BY <1>4, <3>1, <3>2
  <2> QED BY <2>1, <2>2
<1>9. s = <<>> => v = <<>>
  BY <1>1, <1>6, SetOf
<1> QED BY <1>2, <1>3, <1>4, <1>5, <1>6, <1>7, <1>8, <1>9 DEF s, NamesOf

\* Of two nodes one is behind the other just when this is before that.
LEMMA Mutual ==
  ASSUME NEW L, NEW F, NEW K, NEW E, Linked(L, F, K, E), NEW x \in Attached(F)
  PROVE  /\ L[x].next # x /\ L[x].prev # x
         /\ \A y \in Attached(F) : L[x].next = y <=> L[y].prev = x
<1>1. ASSUME NEW z \in Attached(F)
      PROVE  \E p, i : /\ p \in Held(K, E) /\ i \in 1 .. Len(F[p]) /\ z = F[p][i] /\ p \in Parents
                         /\ L[z].prev = At(F[p], p, i - 1) /\ L[z].next = At(F[p], p, i + 1)
  <2>1. PICK p \in Held(K, E) : \E i \in 1 .. Len(F[p]) :
              /\ p \in Parents /\ z = F[p][i]
              /\ L[z].prev = At(F[p], p, i - 1) /\ L[z].next = At(F[p], p, i + 1)
    BY Place
  <2> QED BY <2>1
<1>2. ASSUME NEW p \in Held(K, E), p \in Parents
      PROVE  /\ F[p] \in Seq(Nodes) /\ IsInjective(F[p]) /\ Len(F[p]) \in Nat
             /\ LeftEnd(p) \notin Nodes /\ RightEnd(p) \notin Nodes
             /\ \A i, j \in 1 .. Len(F[p]) : F[p][i] = F[p][j] => i = j
             /\ \A i \in 1 .. Len(F[p]) : /\ L[F[p][i]].prev = At(F[p], p, i - 1)
                                          /\ L[F[p][i]].next = At(F[p], p, i + 1) /\ F[p][i] \in Nodes
  <2> DEFINE s == F[p]
  <2>1. Shape(F, K) /\ Sibs(L, p, s)
    BY DEF Linked
  <2>2. s \in Seq(Nodes) /\ IsInjective(s)
    BY <1>2, <2>1, ShapeIs
  <2> HIDE DEF s
  <2>3. /\ Len(s) \in Nat /\ DOMAIN s = 1 .. Len(s)
        /\ \A i, j \in 1 .. Len(s) : s[i] = s[j] => i = j
        /\ \A i \in 1 .. Len(s) : s[i] \in Nodes
    BY <2>2, SetOf
  <2>4. LeftEnd(p) \notin Nodes /\ RightEnd(p) \notin Nodes
    <3>1. 0 \in 0 .. Len(s) + 1
      BY <2>3
    <3> QED BY <1>2, <2>2, <3>1, AtIs
  <2>5. \A i \in 1 .. Len(s) : L[s[i]].prev = At(s, p, i - 1) /\ L[s[i]].next = At(s, p, i + 1)
    BY <2>1, <2>3 DEF Sibs
  <2> QED BY <2>2, <2>3, <2>4, <2>5 DEF s
<1>3. ASSUME NEW z \in Attached(F), NEW y \in Nodes, L[z].next = y
      PROVE  y # z /\ L[y].prev = z
  <2>1. PICK p, i : /\ p \in Held(K, E) /\ i \in 1 .. Len(F[p]) /\ z = F[p][i] /\ p \in Parents
                      /\ L[z].prev = At(F[p], p, i - 1) /\ L[z].next = At(F[p], p, i + 1)
    BY <1>1
  <2>2. i + 1 # 0 /\ i + 1 # Len(F[p]) + 1 /\ y = F[p][i + 1] /\ Len(F[p]) \in Nat
    BY <1>2, <1>3, <2>1 DEF At
  <2>3. i + 1 \in 1 .. Len(F[p]) /\ (i + 1) - 1 = i /\ i # 0 /\ i # Len(F[p]) + 1 /\ i + 1 # i
    BY <2>1, <2>2
  <2>4. L[y].prev = At(F[p], p, (i + 1) - 1)
    BY <1>2, <2>1, <2>2, <2>3
  <2>5. L[y].prev = z
    BY <2>1, <2>3, <2>4 DEF At
  <2> QED BY <1>2, <2>1, <2>2, <2>3, <2>5
<1>4. ASSUME NEW z \in Attached(F), NEW y \in Nodes, L[z].prev = y
      PROVE  y # z /\ L[y].next = z
  <2>1. PICK p, i : /\ p \in Held(K, E) /\ i \in 1 .. Len(F[p]) /\ z = F[p][i] /\ p \in Parents
                      /\ L[z].prev = At(F[p], p, i - 1) /\ L[z].next = At(F[p], p, i + 1)
    BY <1>1
  <2>2. i - 1 # 0 /\ i - 1 # Len(F[p]) + 1 /\ y = F[p][i - 1] /\ Len(F[p]) \in Nat
    BY <1>2, <1>4, <2>1 DEF At
  <2>3. i - 1 \in 1 .. Len(F[p]) /\ (i - 1) + 1 = i /\ i # 0 /\ i # Len(F[p]) + 1 /\ i - 1 # i
    BY <2>1, <2>2
  <2>4. L[y].next = At(F[p], p, (i - 1) + 1)
    BY <1>2, <2>1, <2>2, <2>3
  <2>5. L[y].next = z
    BY <2>1, <2>3, <2>4 DEF At
  <2> QED BY <1>2, <2>1, <2>2, <2>3, <2>5
<1>5. \A z \in Attached(F) : z \in Nodes
  BY Place
<1> QED BY <1>3, <1>4, <1>5

\* Two nodes of which neither is below the other change places.
LEMMA ShapeTraded ==
  ASSUME NEW F, NEW K, Shape(F, K), NEW n \in Attached(F), NEW m \in Attached(F), n # m,
         n \notin Under(F, m), m \notin Under(F, n), NEW G, G = Named(F, Traded(n, m))
  PROVE  Shape(G, K) /\ Attached(G) = Attached(F)
<1> DEFINE f == Traded(n, m)
           A == Under(F, n)
           B == Under(F, m)
<1>1. /\ K \subseteq Nodes /\ Nodes \subseteq Parents /\ DOMAIN F = Parents
      /\ \A p \in Parents : F[p] \in Seq(K) /\ IsInjective(F[p]) /\ ToSet(F[p]) \subseteq K
  BY ShapeIs
<1>2. /\ \A p \in Parents : ToSet(F[p]) \subseteq Parents
      /\ \A p, q \in Parents, x \in K : x \in ToSet(F[p]) /\ x \in ToSet(F[q]) => p = q
  <2>1. \A p, q \in Parents, x \in K : x \in ToSet(F[p]) /\ x \in ToSet(F[q]) => p = q
    BY ShapeIs
  <2> QED BY <1>1, <2>1
<1>3. PICK p \in Parents : n \in ToSet(F[p])
  BY DEF Attached
<1>4. PICK q \in Parents : m \in ToSet(F[q])
  BY DEF Attached
<1>5. n \in K /\ m \in K /\ n \in Nodes /\ m \in Nodes /\ n \in Parents /\ m \in Parents
  BY <1>1, <1>3, <1>4
<1>6. \A z \in Nodes : f[z] = IF z = n THEN m ELSE IF z = m THEN n ELSE z
  BY <1>5, TradedIs
<1>7. (\A z \in K : f[z] \in K) /\ (\A y, z \in K : f[y] = f[z] => y = z)
  BY <1>1, <1>5, <1>6
<1> HIDE DEF f
<1>8. ASSUME NEW r \in Parents
      PROVE  /\ G[r] \in Seq(K) /\ IsInjective(G[r]) /\ (F[r] = <<>> => G[r] = <<>>)
             /\ \A z : z \in ToSet(G[r]) <=> \E y \in ToSet(F[r]) : z = f[y]
  <2>1. G[r] = Named(F, f)[r]
    BY DEF f
  <2>2. NamesOf(F[r], f, K, Named(F, f)[r])
    BY <1>7, NamedSeq
  <2> QED BY <2>1, <2>2 DEF NamesOf
<1>9. G = [r \in Parents |-> G[r]]
  BY DEF Named
<1>10. ASSUME NEW r \in Parents, NEW z \in K
       PROVE  z \in ToSet(G[r]) <=> f[z] \in ToSet(F[r])
  <2>1. \A y \in K : z = f[y] <=> f[z] = y
    BY <1>1, <1>5, <1>6
  <2>2. \A y \in ToSet(F[r]) : y \in K
    BY <1>1
  <2>3. z \in ToSet(G[r]) <=> \E y \in ToSet(F[r]) : z = f[y]
    BY <1>8
  <2> QED BY <2>1, <2>2, <2>3
<1> HIDE DEF A, B
<1>11. /\ n \in A /\ m \in B /\ A \cap B = {} /\ p \notin A /\ q \notin B /\ n \notin B /\ m \notin A
       /\ Closed(F, A) /\ Closed(F, B)
       /\ \A z \in A : z # n => \E u \in A : z \in ToSet(F[u])
       /\ \A z \in B : z # m => \E u \in B : z \in ToSet(F[u])
       /\ A \subseteq Parents /\ B \subseteq Parents
  <2>1. p \notin Under(F, n)
    BY <1>3, Acyclic
  <2>2. q \notin Under(F, m)
    BY <1>4, Acyclic
  <2>3. Under(F, n) \cap Under(F, m) = {}
    BY <1>5, UnderApart
  <2>4. /\ n \in Under(F, n) /\ Closed(F, Under(F, n)) /\ Under(F, n) \subseteq Parents
        /\ \A z \in Under(F, n) : z # n => \E u \in Under(F, n) : z \in ToSet(F[u])
    BY <1>2, <1>5, UnderIs
  <2>5. /\ m \in Under(F, m) /\ Closed(F, Under(F, m)) /\ Under(F, m) \subseteq Parents
        /\ \A z \in Under(F, m) : z # m => \E u \in Under(F, m) : z \in ToSet(F[u])
    BY <1>2, <1>5, UnderIs
  <2> QED BY <2>1, <2>2, <2>3, <2>4, <2>5 DEF A, B
<1>12. q \notin A /\ p \notin B
  BY <1>3, <1>4, <1>11 DEF Closed
<1>13. Grounded(G, K)
  <2> SUFFICES ASSUME NEW S \in SUBSET K, S # {}, \A x \in S : \E u \in S : x \in ToSet(G[u])
               PROVE  FALSE
    BY DEF Grounded
  <2>1. S \subseteq Parents
    BY <1>1
  <2>2. ASSUME NEW C \in SUBSET S, C # {}, n \notin C, m \notin C,
               \A x \in C, u \in S : x \in ToSet(F[u]) => u \in C
        PROVE  FALSE
    <3>1. \A x \in C : \E u \in C : x \in ToSet(F[u])
      <4> SUFFICES ASSUME NEW x \in C PROVE \E u \in C : x \in ToSet(F[u])
        OBVIOUS
      <4>1. PICK u \in S : x \in ToSet(G[u])
        OBVIOUS
      <4>2. f[x] = x /\ x \in K
        BY <1>1, <1>6, <2>2
      <4>3. x \in ToSet(F[u])
        BY <1>10, <2>1, <4>1, <4>2
      <4> QED BY <2>2, <4>3
    <3>2. C \in SUBSET K
      OBVIOUS
    <3>3. Grounded(F, K)
      BY DEF Shape
    <3> QED BY <2>2, <3>1, <3>2, <3>3 DEF Grounded
  <2>3. CASE n \notin S /\ m \notin S
    BY <2>2, <2>3
  <2>4. CASE n \in S \/ m \in S
    <3> DEFINE C == S \ (A \cup B)
    <3>1. C # {}
      <4>1. CASE n \in S
        <5>1. PICK u \in S : n \in ToSet(G[u])
          BY <4>1
        <5>2. f[n] = m
          BY <1>5, <1>6
        <5>3. m \in ToSet(F[u])
          BY <1>5, <1>10, <2>1, <5>1, <5>2
        <5>4. u = q
          BY <1>2, <1>4, <1>5, <2>1, <5>3
        <5> QED BY <1>11, <1>12, <5>4
      <4>2. CASE m \in S
        <5>1. PICK u \in S : m \in ToSet(G[u])
          BY <4>2
        <5>2. f[m] = n
          BY <1>5, <1>6
        <5>3. n \in ToSet(F[u])
          BY <1>5, <1>10, <2>1, <5>1, <5>2
        <5>4. u = p
          BY <1>2, <1>3, <1>5, <2>1, <5>3
        <5> QED BY <1>11, <1>12, <5>4
      <4> QED BY <2>4, <4>1, <4>2
    <3>2. n \notin C /\ m \notin C
      BY <1>11
    <3>3. \A x \in C, u \in S : x \in ToSet(F[u]) => u \in C
      BY <1>11 DEF Closed
    <3> HIDE DEF C
    <3>4. C \in SUBSET S
      BY DEF C
    <3> QED BY <2>2, <3>1, <3>2, <3>3, <3>4
  <2> QED BY <2>3, <2>4
<1>14. \A r, u \in Parents : r # u => ToSet(G[r]) \cap ToSet(G[u]) = {}
  <2> SUFFICES ASSUME NEW r \in Parents, NEW u \in Parents, r # u, NEW z \in ToSet(G[r]), z \in ToSet(G[u])
               PROVE  FALSE
    OBVIOUS
  <2>1. z \in K
    <3>1. ToSet(G[r]) \subseteq K
      BY <1>8, SetOf
    <3> QED BY <3>1
  <2>2. f[z] \in ToSet(F[r]) /\ f[z] \in ToSet(F[u]) /\ f[z] \in K
    BY <1>7, <1>10, <2>1
  <2> QED BY <1>2, <2>2
<1>15. Shape(G, K)
  <2>1. G \in [Parents -> Seq(K)]
    BY <1>8, <1>9
  <2>2. \A r \in Nodes \ K : G[r] = <<>>
    BY <1>1, <1>8 DEF Shape
  <2> QED BY <1>1, <1>8, <1>13, <1>14, <2>1, <2>2 DEF Shape
<1>16. Attached(G) = Attached(F)
  <2>1. ASSUME NEW z \in Attached(F) PROVE z \in Attached(G) /\ f[z] \in Attached(F)
    <3>1. PICK r \in Parents : z \in ToSet(F[r])
      BY DEF Attached
    <3>2. z \in K
      BY <1>1, <3>1
    <3>3. f[z] \in Attached(F) /\ f[z] \in K /\ f[f[z]] = z
      <4>1. f[z] = z \/ f[z] = n \/ f[z] = m
        BY <1>1, <1>6, <3>2
      <4> QED BY <1>1, <1>5, <1>6, <1>7, <2>1, <3>2, <4>1
    <3>4. PICK u \in Parents : f[z] \in ToSet(F[u])
      BY <3>3 DEF Attached
    <3>5. z \in ToSet(G[u])
      BY <1>10, <3>2, <3>4
    <3> QED BY <3>3, <3>5 DEF Attached
  <2>2. ASSUME NEW z \in Attached(G) PROVE z \in Attached(F)
    <3>1. PICK r \in Parents : z \in ToSet(G[r])
      BY DEF Attached
    <3>2. PICK y \in ToSet(F[r]) : z = f[y]
      BY <1>8, <3>1
    <3>3. y \in Attached(F)
      BY DEF Attached
    <3> QED BY <2>1, <3>2, <3>3
  <2> QED BY <2>1, <2>2
<1> QED BY <1>15, <1>16

\* z with the names x and y exchanged, ends keep theirs.
Other(x, y, z) == IF z = x THEN y ELSE IF z = y THEN x ELSE z

\* The links M are the links L with n and m exchanged.
Swapped(L, M, K, E, n, m) ==
  /\ M \in Table
  /\ \A v \in K : /\ M[Other(n, m, v)].next = Other(n, m, L[v].next)
                  /\ M[Other(n, m, v)].prev = Other(n, m, L[v].prev)
                  /\ M[Other(n, m, v)].up = L[v].up
  /\ \A r \in Held(K, E) : /\ Leftmost(M, r) = Other(n, m, Leftmost(L, r))
                           /\ Rightmost(M, r) = Other(n, m, Rightmost(L, r))

\* Which links lead to the i-th child of p.
Leads(L, K, E, n, p) ==
  /\ p \in Parents /\ p \in Held(K, E) /\ L[n].up = UpFrom(p) /\ n \in K
  /\ L[n].prev \in Nodes \cup {LeftEnd(p)} /\ L[n].next \in Nodes \cup {RightEnd(p)}
  /\ L[n].next # n /\ L[n].prev # n
  /\ \A v \in K : (L[v].next = n <=> L[n].prev = v) /\ (L[v].prev = n <=> L[n].next = v)
  /\ \A r \in Held(K, E) : /\ Leftmost(L, r) = n <=> r = p /\ L[n].prev = LeftEnd(p)
                           /\ Rightmost(L, r) = n <=> r = p /\ L[n].next = RightEnd(p)

\* The links that lead to a node of the forest.
LEMMA LeadsTo ==
  ASSUME NEW L, NEW F, NEW E, Fits(L, F, E), NEW n \in Attached(F)
  PROVE  \E p : Leads(L, Attached(F), E, n, p)
<1> DEFINE K == Attached(F)
<1>1. Linked(L, F, K, E) /\ Shape(F, K)
  BY DEF Fits, Linked
<1>2. n \in K
  OBVIOUS
<1>3. /\ n \in Nodes
      /\ \E p \in Held(K, E) : \E i \in 1 .. Len(F[p]) :
              /\ p \in Parents /\ n = F[p][i] /\ n \in ToSet(F[p]) /\ L[n].up = UpFrom(p)
              /\ L[n].prev = At(F[p], p, i - 1) /\ L[n].next = At(F[p], p, i + 1)
  BY <1>1, Place
<1>0. PICK p \in Held(K, E) : \E i \in 1 .. Len(F[p]) :
              /\ p \in Parents /\ n = F[p][i] /\ n \in ToSet(F[p]) /\ L[n].up = UpFrom(p)
              /\ L[n].prev = At(F[p], p, i - 1) /\ L[n].next = At(F[p], p, i + 1)
  BY <1>3
<1>4. PICK i \in 1 .. Len(F[p]) :
              /\ p \in Parents /\ n = F[p][i] /\ n \in ToSet(F[p]) /\ L[n].up = UpFrom(p)
              /\ L[n].prev = At(F[p], p, i - 1) /\ L[n].next = At(F[p], p, i + 1)
  BY <1>0
<1>5. \A v \in K : L[n].next = v <=> L[v].prev = n
  BY <1>1, Mutual
<1>6. \A v \in K : L[v].next = n <=> L[n].prev = v
  <2>1. ASSUME NEW v \in K PROVE \A y \in K : L[v].next = y <=> L[y].prev = v
    BY <1>1, Mutual
  <2> QED BY <2>1
<1>7. L[n].next # n /\ L[n].prev # n
  BY <1>1, Mutual
<1>8. ASSUME NEW r \in Held(K, E)
      PROVE  /\ r \in Parents /\ F[r] \in Seq(Nodes) /\ Len(F[r]) \in Nat
             /\ \A k, l \in 1 .. Len(F[r]) : F[r][k] = F[r][l] => k = l
             /\ \A k \in 1 .. Len(F[r]) : F[r][k] \in ToSet(F[r])
             /\ Leftmost(L, r) = At(F[r], r, 1) /\ Rightmost(L, r) = At(F[r], r, Len(F[r]))
             /\ LeftEnd(r) \notin Nodes /\ RightEnd(r) \notin Nodes
             /\ Len(F[r]) # 0 => At(F[r], r, 1) = F[r][1] /\ At(F[r], r, Len(F[r])) = F[r][Len(F[r])]
             /\ Len(F[r]) = 0 => At(F[r], r, 1) = RightEnd(r) /\ At(F[r], r, Len(F[r])) = LeftEnd(r)
  <2> DEFINE s == F[r]
  <2>1. r \in Parents
    BY <1>1, HeldIs
  <2>2. s \in Seq(Nodes) /\ IsInjective(s)
    BY <1>1, <2>1, ShapeIs
  <2>3. Leftmost(L, r) = At(s, r, 1) /\ Rightmost(L, r) = At(s, r, Len(s))
    BY <1>1, Ends
  <2> HIDE DEF s
  <2>4. /\ Len(s) \in Nat /\ \A k \in 1 .. Len(s) : s[k] \in ToSet(s)
    BY ONLY <2>2, SetOf
  <2>5. \A k, l \in 1 .. Len(s) : s[k] = s[l] => k = l
    BY ONLY <2>2, SetOf
  <2>6. LeftEnd(r) \notin Nodes /\ RightEnd(r) \notin Nodes
    <3>1. 0 \in 0 .. Len(s) + 1
      BY <2>4
    <3> QED BY ONLY <2>1, <2>2, <3>1, AtIs
  <2>7. /\ Len(s) # 0 => At(s, r, 1) = s[1] /\ At(s, r, Len(s)) = s[Len(s)]
        /\ Len(s) = 0 => At(s, r, 1) = RightEnd(r) /\ At(s, r, Len(s)) = LeftEnd(r)
    <3> DEFINE c == Len(s)
    <3> HIDE DEF c
    <3>1. c \in Nat /\ Len(s) = c
      BY <2>4 DEF c
    <3> QED BY <3>1 DEF At
  <2> QED BY <2>1, <2>2, <2>3, <2>4, <2>5, <2>6, <2>7 DEF s
<1>9. \A r, u \in Parents, x \in K : x \in ToSet(F[r]) /\ x \in ToSet(F[u]) => r = u
  BY <1>1, ShapeIs
<1>10. \A k \in 0 .. Len(F[p]) + 1 :
          /\ k \in 1 .. Len(F[p]) => At(F[p], p, k) = F[p][k] /\ At(F[p], p, k) \in Nodes
          /\ At(F[p], p, 0) = LeftEnd(p) /\ At(F[p], p, Len(F[p]) + 1) = RightEnd(p)
          /\ At(F[p], p, k) \in Nodes <=> k \in 1 .. Len(F[p])
          /\ k # Len(F[p]) + 1 => At(F[p], p, k) \in Nodes \cup {LeftEnd(p)}
          /\ k # 0 => At(F[p], p, k) \in Nodes \cup {RightEnd(p)}
  <2> DEFINE s == F[p]
  <2>1. p \in Parents /\ s \in Seq(Nodes)
    BY <1>4, <1>8
  <2> HIDE DEF s
  <2>2. ASSUME NEW k \in 0 .. Len(s) + 1
        PROVE  /\ k \in 1 .. Len(s) => At(s, p, k) = s[k] /\ At(s, p, k) \in Nodes
               /\ At(s, p, 0) = LeftEnd(p) /\ At(s, p, Len(s) + 1) = RightEnd(p)
               /\ At(s, p, k) \in Nodes <=> k \in 1 .. Len(s)
               /\ k # Len(s) + 1 => At(s, p, k) \in Nodes \cup {LeftEnd(p)}
               /\ k # 0 => At(s, p, k) \in Nodes \cup {RightEnd(p)}
    BY ONLY <2>1, <2>2, AtIs
  <2> QED BY <2>2 DEF s
<1> DEFINE c == Len(F[p])
<1>11. c \in Nat /\ i \in 1 .. c
  BY <1>8
<1>12. L[n].prev \in Nodes \cup {LeftEnd(p)} /\ L[n].next \in Nodes \cup {RightEnd(p)}
  <2>1. i - 1 \in 0 .. c + 1 /\ i - 1 # c + 1 /\ i + 1 \in 0 .. c + 1 /\ i + 1 # 0
    BY <1>11
  <2> QED BY <1>4, <1>10, <2>1
<1>13. L[n].prev = LeftEnd(p) <=> i = 1
  <2>1. i # 1 => i - 1 \in 1 .. c /\ i - 1 \in 0 .. c + 1
    BY <1>11
  <2>2. i = 1 => i - 1 = 0 /\ 0 \in 0 .. c + 1
    BY <1>11
  <2> QED BY <1>4, <1>8, <1>10, <2>1, <2>2
<1>14. L[n].next = RightEnd(p) <=> i = c
  <2>1. i # c => i + 1 \in 1 .. c /\ i + 1 \in 0 .. c + 1
    BY <1>11
  <2>2. i = c => i + 1 = c + 1 /\ c + 1 \in 0 .. c + 1
    BY <1>11
  <2> QED BY <1>4, <1>8, <1>10, <2>1, <2>2
<1>15. ASSUME NEW r \in Held(K, E)
       PROVE  /\ Leftmost(L, r) = n <=> r = p /\ i = 1
              /\ Rightmost(L, r) = n <=> r = p /\ i = c
  <2>1. CASE Len(F[r]) = 0
    <3>1. r # p
      BY <1>11, <2>1
    <3> QED BY <1>3, <1>8, <2>1, <3>1
  <2>2. CASE Len(F[r]) # 0
    <3>1. 1 \in 1 .. Len(F[r]) /\ Len(F[r]) \in 1 .. Len(F[r])
      BY <1>8, <2>2
    <3>2. Leftmost(L, r) = F[r][1] /\ Rightmost(L, r) = F[r][Len(F[r])]
      BY <1>8, <2>2
    <3>3. Leftmost(L, r) = n \/ Rightmost(L, r) = n => r = p
      BY <1>2, <1>4, <1>8, <1>9, <3>1, <3>2
    <3> QED BY <1>4, <1>8, <3>1, <3>2, <3>3
  <2> QED BY <2>1, <2>2
<1> QED BY <1>2, <1>4, <1>5, <1>6, <1>7, <1>12, <1>13, <1>14, <1>15 DEF Leads

\* Each is put where the other was.
LEMMA SwappedIs ==
  ASSUME NEW L \in Table, NEW K, K \subseteq Nodes, NEW E, Held(K, E) \subseteq Parents,
         NEW n, NEW m, n # m, NEW p, NEW q, Leads(L, K, E, n, p), Leads(L, K, E, m, q),
         L[n].next # m, L[m].next # n
  PROVE  Swapped(L, PutIn(PutIn(L, n, L[m].up, L[m].prev, L[m].next), m, L[n].up, L[n].prev, L[n].next),
                 K, E, n, m)
<1> DEFINE a == L[n].prev
           b == L[n].next
           c == L[m].prev
           d == L[m].next
           M == PutIn(L, n, UpFrom(q), c, d)
           N == PutIn(M, m, UpFrom(p), a, b)
<1>1. /\ p \in Parents /\ q \in Parents /\ n \in Nodes /\ m \in Nodes /\ n \in K /\ m \in K
      /\ L[n].up = UpFrom(p) /\ L[m].up = UpFrom(q)
      /\ a \in Nodes \cup {LeftEnd(p)} /\ b \in Nodes \cup {RightEnd(p)}
      /\ c \in Nodes \cup {LeftEnd(q)} /\ d \in Nodes \cup {RightEnd(q)}
      /\ a \notin {n, m} /\ b \notin {n, m} /\ c \notin {n, m} /\ d \notin {n, m}
  BY DEF Leads
<1>2. /\ \A v \in K : (L[v].next = n <=> v = a) /\ (L[v].prev = n <=> v = b)
      /\ \A v \in K : (L[v].next = m <=> v = c) /\ (L[v].prev = m <=> v = d)
      /\ \A r \in Held(K, E) : /\ Leftmost(L, r) = n <=> r = p /\ a = LeftEnd(p)
                               /\ Rightmost(L, r) = n <=> r = p /\ b = RightEnd(p)
                               /\ Leftmost(L, r) = m <=> r = q /\ c = LeftEnd(q)
                               /\ Rightmost(L, r) = m <=> r = q /\ d = RightEnd(q)
  BY DEF Leads
<1>3. PutIn(PutIn(L, n, L[m].up, L[m].prev, L[m].next), m, L[n].up, L[n].prev, L[n].next) = N
  BY <1>1
<1> HIDE DEF a, b, c, d
<1>4. RunJoined(L, M, <<n>>, q, c, d)
  BY <1>1, PutInReads
<1> HIDE DEF M
<1>5. M \in Table
  BY <1>4 DEF RunJoined
<1>6. RunJoined(M, N, <<m>>, p, a, b)
  BY <1>1, <1>5, PutInReads
<1> HIDE DEF N
<1>7. \A x : ToSet(<<x>>) = {x} /\ Len(<<x>>) = 1 /\ <<x>>[1] = x
  BY DEF ToSet
<1>8. /\ \A r \in Parents :
           /\ Leftmost(M, r) = IF r = q /\ c = LeftEnd(q) THEN n ELSE Leftmost(L, r)
           /\ Rightmost(M, r) = IF r = q /\ d = RightEnd(q) THEN n ELSE Rightmost(L, r)
      /\ \A y \in Nodes :
           /\ M[y].up = IF y = n THEN UpFrom(q) ELSE L[y].up
           /\ M[y].next = IF y = c THEN n ELSE IF y = n THEN d ELSE L[y].next
           /\ M[y].prev = IF y = n THEN c ELSE IF y = d THEN n ELSE L[y].prev
  BY <1>4, <1>7 DEF RunJoined
<1>9. /\ \A r \in Parents :
           /\ Leftmost(N, r) = IF r = p /\ a = LeftEnd(p) THEN m ELSE Leftmost(M, r)
           /\ Rightmost(N, r) = IF r = p /\ b = RightEnd(p) THEN m ELSE Rightmost(M, r)
      /\ \A y \in Nodes :
           /\ N[y].up = IF y = m THEN UpFrom(p) ELSE M[y].up
           /\ N[y].next = IF y = a THEN m ELSE IF y = m THEN b ELSE M[y].next
           /\ N[y].prev = IF y = m THEN a ELSE IF y = b THEN m ELSE M[y].prev
      /\ N \in Table
  BY <1>6, <1>7 DEF RunJoined
<1>10. ASSUME NEW r \in Held(K, E)
       PROVE  /\ Leftmost(N, r) = Other(n, m, Leftmost(L, r))
              /\ Rightmost(N, r) = Other(n, m, Rightmost(L, r))
  <2>1. r \in Parents
    OBVIOUS
  <2> QED BY <1>2, <1>8, <1>9, <2>1 DEF Other
<1>11. ASSUME NEW v \in K
       PROVE  /\ N[Other(n, m, v)].next = Other(n, m, L[v].next)
              /\ N[Other(n, m, v)].prev = Other(n, m, L[v].prev)
              /\ N[Other(n, m, v)].up = L[v].up
  <2>1. CASE v = n
    <3>1. Other(n, m, v) = m /\ Other(n, m, L[v].next) = b /\ Other(n, m, L[v].prev) = a
      BY <1>1, <2>1 DEF Other, a, b
    <3> QED BY <1>1, <1>9, <2>1, <3>1
  <2>2. CASE v = m
    <3>1. Other(n, m, v) = n /\ Other(n, m, L[v].next) = d /\ Other(n, m, L[v].prev) = c
      BY <1>1, <2>2 DEF Other, c, d
    <3> QED BY <1>1, <1>8, <1>9, <2>2, <3>1
  <2>3. CASE v # n /\ v # m
    <3>1. Other(n, m, v) = v /\ v \in Nodes
      BY <2>3 DEF Other
    <3>2. N[v].up = L[v].up
      BY <1>8, <1>9, <2>3, <3>1
    <3>3. N[v].next = IF v = a THEN m ELSE IF v = c THEN n ELSE L[v].next
      BY <1>8, <1>9, <2>3, <3>1
    <3>4. N[v].prev = IF v = b THEN m ELSE IF v = d THEN n ELSE L[v].prev
      BY <1>8, <1>9, <2>3, <3>1
    <3> QED BY <1>2, <3>1, <3>2, <3>3, <3>4 DEF Other
  <2> QED BY <2>1, <2>2, <2>3
<1> QED BY <1>3, <1>9, <1>10, <1>11 DEF Swapped

\* Exchanged links say the exchanged forest.
LEMMA SwapFits ==
  ASSUME NEW L, NEW F, NEW E, Fits(L, F, E), NEW n \in Attached(F), NEW m \in Attached(F), n # m,
         n \notin Under(F, m), m \notin Under(F, n), NEW G, G = Named(F, Traded(n, m)),
         NEW M, Swapped(L, M, Attached(F), E, n, m)
  PROVE  Says(M, G, E, Attached(F))
<1> DEFINE K == Attached(F)
           f == Traded(n, m)
<1>1. Linked(L, F, K, E) /\ Shape(F, K) /\ E \subseteq Graphs /\ (\A g \in Graphs \ E : F[HeadOf(g)] = <<>>)
  BY DEF Fits, Linked
<1>2. Shape(G, K) /\ Attached(G) = K
  BY <1>1, ShapeTraded
<1>3. n \in Nodes /\ m \in Nodes /\ K \subseteq Nodes /\ n \in K /\ m \in K
  <2>1. K \subseteq Nodes
    BY <1>1, HeldIs
  <2> QED BY <2>1
<1>4. \A z \in Nodes : f[z] = Other(n, m, z)
  BY <1>3, TradedIs DEF Other
<1>5. (\A z \in K : f[z] \in K) /\ (\A y, z \in K : f[y] = f[z] => y = z)
  BY <1>3, <1>4 DEF Other
<1>6. Held(K, E) \subseteq Parents
  BY <1>1, HeldIs
<1> HIDE DEF f, K
<1>7. ASSUME NEW r \in Parents PROVE NamesOf(F[r], f, K, G[r])
  <2>1. NamesOf(F[r], f, K, Named(F, f)[r])
    BY <1>1, <1>5, NamedSeq
  <2> QED BY <2>1 DEF f
<1>8. ASSUME NEW r \in Held(K, E) PROVE Sibs(M, r, G[r])
  <2> DEFINE s == F[r]
             v == G[r]
             c == Len(F[r])
  <2>1. r \in Parents /\ Sibs(L, r, s)
    BY <1>1, <1>6 DEF Linked
  <2>2. s \in Seq(Nodes)
    BY <1>1, <2>1, ShapeIs
  <2>3. NamesOf(s, f, K, v)
    BY <1>7, <2>1
  <2> HIDE DEF s, v
  <2>4. /\ c \in Nat /\ Len(v) = c /\ Len(s) = c /\ DOMAIN v = 1 .. c /\ DOMAIN s = 1 .. c
        /\ \A j \in 1 .. c : s[j] \in K /\ v[j] = Other(n, m, s[j])
    BY <1>3, <1>4, <2>3 DEF NamesOf, s
  <2> HIDE DEF c
  <2>5. LeftEnd(r) \notin Nodes /\ RightEnd(r) \notin Nodes
    <3>1. 0 \in 0 .. Len(s) + 1
      BY <2>4
    <3> QED BY <2>1, <2>2, <3>1, AtIs
  <2>6. ASSUME NEW j \in 0 .. c + 1 PROVE At(v, r, j) = Other(n, m, At(s, r, j))
    <3>1. CASE j = 0
      BY <1>3, <2>5, <3>1 DEF At, Other
    <3>2. CASE j = c + 1
      <4>1. At(v, r, j) = RightEnd(r) /\ At(s, r, j) = RightEnd(r)
        BY <2>4, <3>2 DEF At
      <4> QED BY <1>3, <2>5, <4>1 DEF Other
    <3>3. CASE j \in 1 .. c
      <4>1. j # 0 /\ j # c + 1
        BY <2>4, <3>3
      <4>2. At(v, r, j) = v[j] /\ At(s, r, j) = s[j]
        BY <2>4, <4>1 DEF At
      <4> QED BY <2>4, <3>3, <4>2
    <3>4. j = 0 \/ j = c + 1 \/ j \in 1 .. c
      BY <2>4
    <3> QED BY <3>1, <3>2, <3>3, <3>4
  <2>7. Leftmost(M, r) = At(v, r, 1) /\ Rightmost(M, r) = At(v, r, c)
    <3>1. Leftmost(L, r) = At(s, r, 1) /\ Rightmost(L, r) = At(s, r, c)
      BY <2>1, <2>4 DEF Sibs
    <3>2. Leftmost(M, r) = Other(n, m, Leftmost(L, r)) /\ Rightmost(M, r) = Other(n, m, Rightmost(L, r))
      BY DEF Swapped, K
    <3>3. 1 \in 0 .. c + 1 /\ c \in 0 .. c + 1
      BY <2>4
    <3> QED BY <2>6, <3>1, <3>2, <3>3
  <2>8. ASSUME NEW j \in 1 .. c
        PROVE  /\ M[v[j]].up = UpFrom(r) /\ M[v[j]].prev = At(v, r, j - 1) /\ M[v[j]].next = At(v, r, j + 1)
    <3>1. L[s[j]].up = UpFrom(r) /\ L[s[j]].prev = At(s, r, j - 1) /\ L[s[j]].next = At(s, r, j + 1)
      BY <2>1, <2>4 DEF Sibs
    <3>2. /\ M[v[j]].next = Other(n, m, L[s[j]].next) /\ M[v[j]].prev = Other(n, m, L[s[j]].prev)
          /\ M[v[j]].up = L[s[j]].up
      BY <2>4 DEF Swapped, K
    <3>3. j - 1 \in 0 .. c + 1 /\ j + 1 \in 0 .. c + 1
      BY <2>4
    <3> QED BY <2>6, <3>1, <3>2, <3>3
  <2> QED BY <2>4, <2>7, <2>8 DEF Sibs, v
<1>9. \A g \in Graphs \ E : G[HeadOf(g)] = <<>>
  BY <1>1, <1>7, ParentsAre DEF NamesOf
<1>10. Linked(M, G, K, E)
  BY <1>1, <1>2, <1>8, <1>9 DEF Linked, Swapped
<1> QED BY <1>2, <1>10 DEF Says, Fits, K

\* Two nodes that change places are an Exchange.
LEMMA ExchangeStep ==
  ASSUME NEW F, NEW K, Shape(F, K), NEW n \in Attached(F), NEW m \in Attached(F),
         n \notin Under(F, m), m \notin Under(F, n), NEW G, G = Named(F, Traded(n, m)),
         Shape(G, K), Attached(G) = Attached(F)
  PROVE  F = G \/ Forest!Step(F, G)
<1>1. n \in Nodes /\ m \in Nodes
  <2>1. K \subseteq Nodes /\ (\A p \in Parents : ToSet(F[p]) \subseteq K)
    BY ShapeIs
  <2> QED BY <2>1 DEF Attached
<1>2. Forest!Members(F) = Attached(F)
  BY ForestNames
<1>3. Forest!Members(G) = Attached(G)
  BY ForestNames
<1>4. Forest!Within(F, m) = Under(F, m) /\ Forest!Within(F, n) = Under(F, n)
  BY <1>1, ForestWithinIs
<1>5. G = Forest!Renamed(F, [Forest!Same EXCEPT ![n] = m, ![m] = n])
  BY NamedIs DEF Traded
<1>6. Forest!Exchange(F, G)
  BY <1>2, <1>3, <1>4, <1>5 DEF Forest!Exchange
<1> QED BY <1>6, StepIs

\* Two nodes that are not next to each other change places.
LEMMA SwapFarTurns ==
  ASSUME NEW L, NEW F, NEW E, Fits(L, F, E), NEW n \in Attached(F), NEW m \in Attached(F),
         n \notin Under(F, m), m \notin Under(F, n), L[n].next # m, L[m].next # n,
         NEW P, Whole(F, P), n \in P, m \in P
  PROVE  \E G : /\ Becomes(F, G, PutIn(PutIn(L, n, L[m].up, L[m].prev, L[m].next),
                                       m, L[n].up, L[n].prev, L[n].next), E, Attached(F))
                /\ Gains(F, G, P, P)
<1> DEFINE K == Attached(F)
           G == Named(F, Traded(n, m))
           M == PutIn(PutIn(L, n, L[m].up, L[m].prev, L[m].next), m, L[n].up, L[n].prev, L[n].next)
<1>1. Linked(L, F, K, E) /\ Shape(F, K) /\ L \in Table
  BY DEF Fits, Linked
<1>2. Held(K, E) \subseteq Parents /\ K \subseteq Nodes
  BY <1>1, HeldIs
<1>3. n # m
  <2>1. n \in Parents
    BY <1>2, ParentsAre
  <2>2. n \in Under(F, n)
    BY <2>1 DEF Under
  <2> QED BY <2>2
<1>4. PICK p : Leads(L, K, E, n, p)
  BY LeadsTo
<1>5. PICK q : Leads(L, K, E, m, q)
  BY LeadsTo
<1>6. Swapped(L, M, K, E, n, m)
  BY <1>1, <1>2, <1>3, <1>4, <1>5, SwappedIs
<1> HIDE DEF M
<1>7. Says(M, G, E, K)
  BY <1>3, <1>6, SwapFits
<1>8. Shape(G, K) /\ Attached(G) = K
  BY <1>7 DEF Says
<1>9. F = G \/ Forest!Step(F, G)
  BY <1>1, <1>8, ExchangeStep
<1>10. Gains(F, G, P, P)
  <2> DEFINE f == Traded(n, m)
  <2>1. \A z \in K : f[z] = IF z = n THEN m ELSE IF z = m THEN n ELSE z
    BY <1>2, <1>3, TradedIs
  <2> HIDE DEF f
  <2>2. (\A z \in K : f[z] \in K) /\ (\A y, z \in K : f[y] = f[z] => y = z)
    BY <2>1
  <2>3. ASSUME NEW r \in Parents, NEW z \in ToSet(G[r]) PROVE z \in ToSet(F[r]) \/ (r \in P /\ z \in P)
    <3>1. NamesOf(F[r], f, K, Named(F, f)[r])
      BY <1>1, <2>2, NamedSeq
    <3>2. PICK y \in ToSet(F[r]) : z = f[y]
      BY <3>1 DEF NamesOf, f
    <3>3. y \in K
      BY DEF Attached
    <3> QED BY <2>1, <3>2, <3>3 DEF Whole
  <2> QED BY <2>3 DEF Gains
<1>11. Becomes(F, G, M, E, K)
  BY <1>7, <1>8, <1>9 DEF Becomes, Says
<1> HIDE DEF G
<1> QED BY <1>10, <1>11 DEF M

-----------------------------------------------------------------------------
(* Replacement by a copy.                                                  *)

\* x under its name in the copy, if it has one.
Copy(image, x) == IF x \in DOMAIN image THEN image[x] ELSE x

\* The links of the copies, before the topmost is put in.
CopyOf(L, image) ==
  [y \in DOMAIN L |->
     IF \E x \in DOMAIN image : image[x] = y
     THEN LET r == L[CHOOSE x \in DOMAIN image : image[x] = y] IN
          [up |-> Copy(image, r.up), first |-> Copy(image, r.first), last |-> Copy(image, r.last),
           prev |-> Copy(image, r.prev), next |-> Copy(image, r.next)]
     ELSE L[y]]

\* M is L with the links of the copies, which are those of the originals renamed.
Imaged(L, M, image) ==
  /\ M \in Table
  /\ \A x \in DOMAIN image : /\ M[image[x]].up = Copy(image, L[x].up)
                             /\ M[image[x]].first = Copy(image, L[x].first)
                             /\ M[image[x]].last = Copy(image, L[x].last)
                             /\ M[image[x]].prev = Copy(image, L[x].prev)
                             /\ M[image[x]].next = Copy(image, L[x].next)
  /\ \A y \in Linkable : (\A x \in DOMAIN image : image[x] # y) => M[y] = L[y]

\* Different nodes have different copies.
OneToOne(image, D) == image \in [D -> Nodes] /\ \A a, b \in D : a # b => image[a] # image[b]

\* What ReplaceBy links: the copies, with the topmost put in.
LEMMA CopiedIs ==
  ASSUME NEW L, NEW from, NEW pos, NEW image
  PROVE  Copied(L, from, pos, image) = PutIn(CopyOf(L, image), image[from], L[pos].up, L[pos].prev, L[pos].next)
BY DEF Copied, CopyOf, Copy

\* The copies have the links of their originals, under the new names.
LEMMA ImagedIs ==
  ASSUME NEW L \in Table, NEW D, D \subseteq Nodes, NEW image, OneToOne(image, D)
  PROVE  Imaged(L, CopyOf(L, image), image)
<1> DEFINE M == CopyOf(L, image)
           rec(r) == [up |-> Copy(image, r.up), first |-> Copy(image, r.first), last |-> Copy(image, r.last),
                      prev |-> Copy(image, r.prev), next |-> Copy(image, r.next)]
<1>1. DOMAIN image = D /\ (\A x \in D : image[x] \in Nodes /\ x \in Linkable /\ image[x] \in Linkable)
      /\ DOMAIN L = Linkable /\ (\A y \in Linkable : L[y] \in Links)
      /\ \A a, b \in D : image[a] = image[b] => a = b
  BY ParentsAre DEF OneToOne, Table, Links
<1>2. \A v \in Int : Copy(image, v) \in Int
  BY <1>1, ParentsAre DEF Copy
<1>3. \A r \in Links : rec(r) \in Links
  BY <1>2 DEF Links
<1>4. ASSUME NEW x \in D PROVE M[image[x]] = rec(L[x])
  <2>1. \E z \in DOMAIN image : image[z] = image[x]
    BY <1>1
  <2>2. (CHOOSE z \in DOMAIN image : image[z] = image[x]) = x
    BY <1>1
  <2> QED BY <1>1, <2>1, <2>2 DEF CopyOf
<1>5. \A y \in Linkable : (\A x \in DOMAIN image : image[x] # y) => M[y] = L[y]
  BY <1>1 DEF CopyOf
<1>6. M = [y \in Linkable |-> M[y]]
  BY <1>1 DEF CopyOf
<1>7. \A y \in Linkable : M[y] \in Links
  <2> SUFFICES ASSUME NEW y \in Linkable PROVE M[y] \in Links
    OBVIOUS
  <2>1. CASE \E x \in D : image[x] = y
    BY <1>1, <1>3, <1>4, <2>1, ZenonT(30)
  <2>2. CASE \A x \in D : image[x] # y
    BY <1>1, <1>5, <2>2
  <2> QED BY <2>1, <2>2
<1> HIDE DEF M
<1>8. M \in Table
  <2>1. M \in [Linkable -> Links]
    BY <1>6, <1>7
  <2> QED BY <2>1 DEF Table, Links
<1>9. ASSUME NEW x \in D
      PROVE  /\ M[image[x]].up = Copy(image, L[x].up)
             /\ M[image[x]].first = Copy(image, L[x].first)
             /\ M[image[x]].last = Copy(image, L[x].last)
             /\ M[image[x]].prev = Copy(image, L[x].prev)
             /\ M[image[x]].next = Copy(image, L[x].next)
  <2>1. PICK r : r = rec(L[x])
    OBVIOUS
  <2>2. M[image[x]] = r
    BY <1>4, <2>1
  <2> QED BY <2>1, <2>2
<1> QED BY <1>1, <1>5, <1>8, <1>9 DEF Imaged, M

\* v is the sequence s under the names f gives.
ImageOf(s, f, S, v) ==
  /\ v \in Seq(S) /\ Len(v) = Len(s) /\ Len(s) \in Nat
  /\ DOMAIN v = 1 .. Len(s) /\ DOMAIN s = 1 .. Len(s)
  /\ \A j \in 1 .. Len(s) : v[j] = f[s[j]]
  /\ IsInjective(v)
  /\ \A z : z \in ToSet(v) <=> \E y \in ToSet(s) : z = f[y]
  /\ s = <<>> => v = <<>>

\* Siblings under new names are siblings in the same order.
LEMMA ImageSeq ==
  ASSUME NEW D, NEW s \in Seq(D), IsInjective(s), NEW S, NEW f, \A z \in D : f[z] \in S,
         \A y, z \in D : f[y] = f[z] => y = z, NEW v, v = [j \in DOMAIN s |-> f[s[j]]]
  PROVE  ImageOf(s, f, S, v)
<1>1. Len(s) \in Nat /\ DOMAIN s = 1 .. Len(s) /\ (\A j \in 1 .. Len(s) : s[j] \in D /\ s[j] \in ToSet(s))
      /\ (\A i, j \in 1 .. Len(s) : s[i] = s[j] => i = j) /\ (\A y \in ToSet(s) : \E j \in 1 .. Len(s) : y = s[j])
  BY SetOf
<1>2. v = [j \in 1 .. Len(s) |-> v[j]] /\ \A j \in 1 .. Len(s) : v[j] \in S /\ v[j] = f[s[j]]
  BY <1>1
<1>3. DOMAIN v = 1 .. Len(s)
  BY <1>1
<1>4. v \in Seq(S) /\ Len(v) = Len(s)
  <2> DEFINE c == Len(s)
  <2>1. c \in Nat /\ v = [j \in 1 .. c |-> v[j]] /\ \A j \in 1 .. c : v[j] \in S
    BY <1>1, <1>2
  <2> HIDE DEF c
  <2>2. v \in Seq(S) /\ Len(v) = c
    BY ONLY <2>1, FunctionSeq
  <2> QED BY <2>2 DEF c
<1>5. IsInjective(v)
  <2>1. \A i, j \in 1 .. Len(s) : v[i] = v[j] => i = j
    BY <1>1, <1>2
  <2> QED BY <1>4, <2>1, SetOf
<1>6. \A z : z \in ToSet(v) <=> \E y \in ToSet(s) : z = f[y]
  <2>1. ASSUME NEW z \in ToSet(v) PROVE \E y \in ToSet(s) : z = f[y]
    <3>1. PICK j \in 1 .. Len(v) : z = v[j]
      BY <1>4, SetOf
    <3> QED BY <1>1, <1>2, <1>4, <3>1
  <2>2. ASSUME NEW y \in ToSet(s) PROVE f[y] \in ToSet(v)
    <3>1. PICK j \in 1 .. Len(s) : y = s[j]
      BY <1>1
    <3>2. v[j] \in ToSet(v)
      BY <1>4, <3>1, SetOf
    <3> QED BY <1>2, <3>1, <3>2
  <2> QED BY <2>1, <2>2
<1>7. s = <<>> => v = <<>>
  BY <1>4, SetOf
<1> QED BY <1>1, <1>2, <1>3, <1>4, <1>5, <1>6, <1>7 DEF ImageOf

\* The children of the copies are the copies of the children.
WithCopies(F, image) ==
  [q \in Parents |-> IF \E a \in DOMAIN image : image[a] = q
                     THEN LET a == CHOOSE a \in DOMAIN image : image[a] = q
                          IN [j \in DOMAIN F[a] |-> image[F[a][j]]]
                     ELSE F[q]]

\* The nodes of a copy and what there is besides.
CopiesAre(F, image, D, R, G) ==
  /\ R = {image[x] : x \in D} /\ G = [q \in Parents |-> G[q]]
  /\ \A a \in D : G[image[a]] = [j \in DOMAIN F[a] |-> image[F[a][j]]] /\ ImageOf(F[a], image, R, G[image[a]])
  /\ \A q \in Parents : q \notin R => G[q] = F[q]

\* The forest with the copies beside it.
LEMMA CopiesNamed ==
  ASSUME NEW F, NEW K, Shape(F, K), NEW D, D \subseteq K, Closed(F, D), NEW image, OneToOne(image, D),
         NEW R, R = {image[x] : x \in D}
  PROVE  CopiesAre(F, image, D, R, WithCopies(F, image))
<1> DEFINE G == WithCopies(F, image)
<1>1. DOMAIN image = D /\ (\A x \in D : image[x] \in Nodes /\ image[x] \in R)
      /\ \A a, b \in D : image[a] = image[b] => a = b
  BY DEF OneToOne
<1>2. K \subseteq Nodes /\ Nodes \subseteq Parents /\ R \subseteq Nodes
  BY <1>1, ShapeIs
<1>3. ASSUME NEW a \in D PROVE G[image[a]] = [j \in DOMAIN F[a] |-> image[F[a][j]]]
  <2>1. \E z \in DOMAIN image : image[z] = image[a]
    BY <1>1
  <2>2. (CHOOSE z \in DOMAIN image : image[z] = image[a]) = a
    BY <1>1
  <2>3. image[a] \in Parents
    BY <1>1, <1>2
  <2> QED BY <2>1, <2>2, <2>3 DEF WithCopies
<1>4. \A q \in Parents : q \notin R => G[q] = F[q]
  BY <1>1 DEF WithCopies
<1>5. G = [q \in Parents |-> G[q]]
  BY DEF WithCopies
<1> HIDE DEF G
<1>6. ASSUME NEW a \in D PROVE ImageOf(F[a], image, R, G[image[a]])
  <2> DEFINE s == F[a]
             v == G[image[a]]
  <2>1. a \in Parents
    BY <1>2
  <2>2. s \in Seq(Nodes) /\ IsInjective(s)
    BY <2>1, ShapeIs
  <2>3. ToSet(s) \subseteq D
    BY DEF Closed
  <2>4. v = [j \in DOMAIN s |-> image[s[j]]]
    BY <1>3
  <2> HIDE DEF s, v
  <2>5. Len(s) \in Nat /\ DOMAIN s = 1 .. Len(s) /\ \A j \in 1 .. Len(s) : s[j] \in ToSet(s)
    BY <2>2, SetOf
  <2>6. s \in Seq(D)
    <3> DEFINE c == Len(s)
    <3>1. c \in Nat /\ s = [j \in 1 .. c |-> s[j]] /\ \A j \in 1 .. c : s[j] \in D
      BY <2>2, <2>3, <2>5
    <3> HIDE DEF c
    <3> QED BY ONLY <3>1, FunctionSeq
  <2>7. ImageOf(s, image, R, v)
    BY <1>1, <2>2, <2>4, <2>6, ImageSeq
  <2> QED BY <2>7 DEF s, v
<1> QED BY <1>3, <1>4, <1>5, <1>6 DEF CopiesAre, G

\* A copy under names that are not used yet.
LEMMA CopyShape ==
  ASSUME NEW F, NEW K, Shape(F, K), NEW D, D \subseteq K, Closed(F, D), NEW image, OneToOne(image, D),
         NEW R, R \cap K = {}, NEW G, CopiesAre(F, image, D, R, G)
  PROVE  Shape(G, K \cup R)
<1>1. /\ K \subseteq Nodes /\ Nodes \subseteq Parents
      /\ \A p \in Parents : F[p] \in Seq(K) /\ IsInjective(F[p]) /\ ToSet(F[p]) \subseteq K
  BY ShapeIs
<1>2. /\ \A p \in Nodes \ K : F[p] = <<>>
      /\ \A p, q \in Parents : p # q => ToSet(F[p]) \cap ToSet(F[q]) = {}
      /\ Grounded(F, K)
  BY DEF Shape
<1>3. /\ R = {image[x] : x \in D} /\ R \subseteq Nodes /\ DOMAIN image = D
      /\ \A a, b \in D : image[a] = image[b] => a = b
      /\ \A q \in R : \E a \in D : q = image[a]
      /\ \A a \in D : image[a] \in R
  BY DEF CopiesAre, OneToOne
<1>4. /\ \A q \in Parents : q \notin R => G[q] = F[q]
      /\ G = [q \in Parents |-> G[q]]
      /\ \A a \in D : ImageOf(F[a], image, R, G[image[a]])
  BY DEF CopiesAre
<1>5. ASSUME NEW a \in D
      PROVE  /\ G[image[a]] \in Seq(R) /\ IsInjective(G[image[a]])
             /\ \A z : z \in ToSet(G[image[a]]) <=> \E y \in ToSet(F[a]) : z = image[y]
             /\ ToSet(F[a]) \subseteq D
  BY <1>4 DEF ImageOf, Closed
<1>6. ASSUME NEW q \in Parents PROVE G[q] \in Seq(K \cup R) /\ IsInjective(G[q])
  <2>1. CASE q \in R
    <3>1. PICK a \in D : q = image[a]
      BY <1>3, <2>1
    <3>2. Seq(R) \subseteq Seq(K \cup R)
      OBVIOUS
    <3> QED BY <1>5, <3>1, <3>2
  <2>2. CASE q \notin R
    <3>2. Seq(K) \subseteq Seq(K \cup R)
      OBVIOUS
    <3> QED BY <1>1, <1>4, <2>2, <3>2
  <2> QED BY <2>1, <2>2
<1>7. \A q \in Nodes \ (K \cup R) : G[q] = <<>>
  BY <1>1, <1>2, <1>4
<1>8. ASSUME NEW q \in R PROVE ToSet(G[q]) \subseteq R /\ ToSet(G[q]) \cap K = {}
  <2>1. PICK a \in D : q = image[a]
    BY <1>3
  <2>2. ASSUME NEW z \in ToSet(G[q]) PROVE z \in R
    <3>0. z \in ToSet(G[image[a]])
      BY <2>1
    <3>1. \A y : y \in ToSet(G[image[a]]) <=> \E x \in ToSet(F[a]) : y = image[x]
      BY <1>5
    <3>2. PICK x \in ToSet(F[a]) : z = image[x]
      BY <3>0, <3>1
    <3> QED BY <1>3, <1>5, <3>2
  <2> QED BY <2>2
<1>9. ASSUME NEW p \in Parents, NEW q \in Parents, p # q, NEW z \in ToSet(G[p]), z \in ToSet(G[q])
      PROVE  FALSE
  <2>1. CASE p \in R /\ q \in R
    <3>1. PICK a \in D : p = image[a]
      BY <1>3, <2>1
    <3>2. PICK b \in D : q = image[b]
      BY <1>3, <2>1
    <3>3. PICK x \in ToSet(F[a]) : z = image[x]
      BY <1>5, <3>1
    <3>0. z \in ToSet(G[image[b]])
      BY <1>9, <3>2
    <3>4. PICK y \in ToSet(F[b]) : z = image[y]
      BY <1>5, <3>0
    <3>5. x = y
      BY <1>3, <1>5, <3>3, <3>4
    <3>6. a # b /\ a \in Parents /\ b \in Parents
      BY <1>1, <1>9, <3>1, <3>2
    <3> QED BY <1>2, <3>3, <3>4, <3>5, <3>6
  <2>2. CASE p \notin R /\ q \notin R
    BY <1>2, <1>4, <1>9, <2>2
  <2>3. CASE (p \in R /\ q \notin R) \/ (p \notin R /\ q \in R)
    BY <1>1, <1>4, <1>8, <1>9, <2>3
  <2> QED BY <2>1, <2>2, <2>3
<1>10. Grounded(G, K \cup R)
  <2> SUFFICES ASSUME NEW S \in SUBSET (K \cup R), S # {}
               PROVE  \E x \in S : \A p \in S : x \notin ToSet(G[p])
    BY DEF Grounded
  <2>1. CASE S \cap K # {}
    <3>1. S \cap K \in SUBSET K
      OBVIOUS
    <3>2. PICK x \in S \cap K : \A p \in S \cap K : x \notin ToSet(F[p])
      BY <1>2, <2>1, <3>1 DEF Grounded
    <3>3. ASSUME NEW p \in S, x \in ToSet(G[p]) PROVE FALSE
      <4>1. p \notin R
        BY <1>8, <3>2, <3>3
      <4>2. p \in K /\ p \in Parents
        BY <1>1, <4>1
      <4> QED BY <1>4, <3>2, <3>3, <4>1, <4>2
    <3> QED BY <3>2, <3>3
  <2>2. CASE S \cap K = {}
    <3> DEFINE C == {x \in D : image[x] \in S}
    <3>1. C \in SUBSET K
      OBVIOUS
    <3>2. C # {}
      <4>1. PICK q \in S : TRUE
        OBVIOUS
      <4>2. q \in R
        BY <2>2
      <4> QED BY <1>3, <4>2
    <3>3. PICK x \in C : \A p \in C : x \notin ToSet(F[p])
      BY <1>2, <3>1, <3>2 DEF Grounded
    <3>4. ASSUME NEW q \in S, image[x] \in ToSet(G[q]) PROVE FALSE
      <4>1. q \in R
        BY <2>2
      <4>2. PICK a \in D : q = image[a]
        BY <1>3, <4>1
      <4>3. PICK y \in ToSet(F[a]) : image[x] = image[y]
        BY <1>5, <3>4, <4>2
      <4>4. x = y
        BY <1>3, <1>5, <4>3
      <4> QED BY <3>3, <4>2, <4>3, <4>4
    <3> QED BY <3>3, <3>4
  <2> QED BY <2>1, <2>2
<1>11. G \in [Parents -> Seq(K \cup R)]
  BY <1>4, <1>6
<1> QED BY <1>1, <1>3, <1>6, <1>7, <1>9, <1>10, <1>11 DEF Shape

\* The links say the forest with the copies, before the topmost has a place.
LEMMA CopyLinked ==
  ASSUME NEW L, NEW F, NEW K, NEW E, Linked(L, F, K, E), NEW D, D \subseteq K, Closed(F, D),
         NEW image, OneToOne(image, D), NEW R, R \cap K = {}, NEW G, CopiesAre(F, image, D, R, G),
         NEW M, Imaged(L, M, image)
  PROVE  Linked(M, G, K \cup R, E)
<1>1. /\ Shape(F, K) /\ L \in Table /\ E \subseteq Graphs
      /\ \A g \in Graphs \ E : F[HeadOf(g)] = <<>>
      /\ \A p \in Held(K, E) : Sibs(L, p, F[p])
  BY DEF Linked
<1>2. /\ K \subseteq Nodes /\ Nodes \subseteq Parents
      /\ \A p \in Parents : F[p] \in Seq(K) /\ F[p] \in Seq(Nodes) /\ IsInjective(F[p]) /\ ToSet(F[p]) \subseteq K
  BY <1>1, ShapeIs
<1>3. /\ R = {image[x] : x \in D} /\ R \subseteq Nodes /\ DOMAIN image = D
      /\ \A q \in R : \E a \in D : q = image[a]
      /\ \A a \in D : image[a] \in R
      /\ 0 \notin D /\ NoNode = 0
  BY <1>2, ParentsAre DEF CopiesAre, OneToOne
<1>4. /\ \A q \in Parents : q \notin R => G[q] = F[q]
      /\ \A a \in D : ImageOf(F[a], image, R, G[image[a]])
  BY DEF CopiesAre
<1>5. /\ M \in Table
      /\ \A y \in Linkable : y \notin R => M[y] = L[y]
      /\ \A x \in D : /\ M[image[x]].up = Copy(image, L[x].up)
                      /\ M[image[x]].first = Copy(image, L[x].first)
                      /\ M[image[x]].last = Copy(image, L[x].last)
                      /\ M[image[x]].prev = Copy(image, L[x].prev)
                      /\ M[image[x]].next = Copy(image, L[x].next)
  BY <1>3 DEF Imaged
<1>6. Shape(G, K \cup R)
  BY <1>1, CopyShape
<1>7. \A g \in Graphs \ E : G[HeadOf(g)] = <<>>
  <2>1. \A g \in Graphs : HeadOf(g) \in Parents /\ HeadOf(g) \notin Nodes
    BY ParentsAre
  <2> QED BY <1>1, <1>3, <1>4, <2>1
<1>8. ASSUME NEW p \in Held(K, E) PROVE Sibs(M, p, G[p])
  <2>1. p \in Parents /\ p \notin R
    <3>1. p \in Parents
      BY HeldIs
    <3>2. p \in K \/ p \notin Nodes
      BY <1>1, ParentsAre DEF Held
    <3> QED BY <1>3, <3>1, <3>2
  <2>2. G[p] = F[p]
    BY <1>4, <2>1
  <2>3. Leftmost(M, p) = Leftmost(L, p) /\ Rightmost(M, p) = Rightmost(L, p)
    <3>1. p \in Linkable /\ M[p] = L[p]
      BY <1>5, <2>1, ParentsAre
    <3>2. p < 0 => p - 1 \in Linkable /\ p - 1 \notin Parents
      BY <2>1, ParentsAre
    <3>3. p < 0 => M[p - 1] = L[p - 1]
      BY <1>2, <1>3, <1>5, <3>2
    <3> QED BY <3>1, <3>3 DEF Leftmost, Rightmost
  <2>4. \A y \in ToSet(F[p]) : M[y] = L[y]
    <3>1. \A y \in ToSet(F[p]) : y \in K /\ y \in Linkable
      BY <1>2, <2>1, ParentsAre
    <3> QED BY <1>5, <3>1
  <2>5. Sibs(L, p, F[p]) /\ F[p] \in Seq(Nodes)
    BY <1>1, <1>2, <2>1
  <2>6. Sibs(M, p, F[p])
    BY <2>3, <2>4, <2>5, SibsKept
  <2> QED BY <2>2, <2>6
<1>9. ASSUME NEW q \in R PROVE Sibs(M, q, G[q])
  <2>1. PICK a \in D : q = image[a]
    BY <1>3
  <2> DEFINE s == F[a]
             v == G[q]
             c == Len(F[a])
  <2>2. a \in K /\ a \in Nodes /\ a \in Parents /\ q \in Nodes /\ q \in Parents
    BY <1>2, <1>3
  <2>3. ImageOf(s, image, R, v)
    BY <1>4, <2>1
  <2>4. Sibs(L, a, s) /\ s \in Seq(Nodes) /\ ToSet(s) \subseteq D
    BY <1>1, <1>2, <2>2 DEF Held, Closed
  <2> HIDE DEF s, v
  <2>5. /\ c \in Nat /\ Len(v) = c /\ Len(s) = c /\ DOMAIN v = 1 .. c /\ DOMAIN s = 1 .. c
        /\ \A j \in 1 .. c : v[j] = image[s[j]]
    BY <2>3 DEF ImageOf, s
  <2>6. \A j \in 1 .. c : s[j] \in D
    <3>1. \A j \in 1 .. Len(s) : s[j] \in ToSet(s)
      BY <2>4, SetOf
    <3> QED BY <2>4, <2>5, <3>1
  <2> HIDE DEF c
  <2>7. /\ a > 0 /\ q > 0 /\ LeftEnd(a) = 0 /\ RightEnd(a) = 0 /\ LeftEnd(q) = 0 /\ RightEnd(q) = 0
        /\ UpFrom(a) = a /\ UpFrom(q) = q
        /\ Leftmost(L, a) = L[a].first /\ Rightmost(L, a) = L[a].last
        /\ Leftmost(M, q) = M[q].first /\ Rightmost(M, q) = M[q].last
    <3>1. a > 0 /\ q > 0 /\ a \in Nat /\ q \in Nat
      BY <2>2, ParentsAre
    <3> QED BY <3>1 DEF LeftEnd, RightEnd, UpFrom, Leftmost, Rightmost, NoNode
  <2>8. ASSUME NEW j \in 0 .. c + 1 PROVE At(v, q, j) = Copy(image, At(s, a, j))
    <3>1. CASE j = 0
      BY <1>3, <2>7, <3>1 DEF At, Copy
    <3>2. CASE j = c + 1
      <4>1. At(v, q, j) = 0 /\ At(s, a, j) = 0
        BY <2>5, <2>7, <3>2 DEF At
      <4> QED BY <1>3, <4>1 DEF Copy
    <3>3. CASE j \in 1 .. c
      <4>1. j # 0 /\ j # c + 1
        BY <2>5, <3>3
      <4>2. At(v, q, j) = v[j] /\ At(s, a, j) = s[j]
        BY <2>5, <4>1 DEF At
      <4> QED BY <1>3, <2>5, <2>6, <3>3, <4>2 DEF Copy
    <3>4. j = 0 \/ j = c + 1 \/ j \in 1 .. c
      BY <2>5
    <3> QED BY <3>1, <3>2, <3>3, <3>4
  <2>9. Leftmost(M, q) = At(v, q, 1) /\ Rightmost(M, q) = At(v, q, c)
    <3>1. Leftmost(L, a) = At(s, a, 1) /\ Rightmost(L, a) = At(s, a, c)
      BY <2>4, <2>5 DEF Sibs
    <3>2. 1 \in 0 .. c + 1 /\ c \in 0 .. c + 1
      BY <2>5
    <3>3. M[q].first = Copy(image, L[a].first) /\ M[q].last = Copy(image, L[a].last)
      BY <1>5, <2>1
    <3>4. At(v, q, 1) = Copy(image, At(s, a, 1)) /\ At(v, q, c) = Copy(image, At(s, a, c))
      BY <2>8, <3>2
    <3> QED BY <2>7, <3>1, <3>3, <3>4
  <2>10. ASSUME NEW j \in 1 .. c
        PROVE  /\ M[v[j]].up = UpFrom(q) /\ M[v[j]].prev = At(v, q, j - 1) /\ M[v[j]].next = At(v, q, j + 1)
    <3>1. L[s[j]].up = UpFrom(a) /\ L[s[j]].prev = At(s, a, j - 1) /\ L[s[j]].next = At(s, a, j + 1)
      BY <2>4, <2>5 DEF Sibs
    <3>2. /\ M[v[j]].next = Copy(image, L[s[j]].next) /\ M[v[j]].prev = Copy(image, L[s[j]].prev)
          /\ M[v[j]].up = Copy(image, L[s[j]].up)
      BY <1>5, <2>5, <2>6
    <3>3. j - 1 \in 0 .. c + 1 /\ j + 1 \in 0 .. c + 1
      BY <2>5
    <3>4. Copy(image, UpFrom(a)) = UpFrom(q)
      BY <1>3, <2>1, <2>7 DEF Copy
    <3> QED BY <2>8, <3>1, <3>2, <3>3, <3>4
  <2> QED BY <2>5, <2>9, <2>10 DEF Sibs, v
<1>10. \A p \in Held(K \cup R, E) : p \in Held(K, E) \/ p \in R
  BY DEF Held
<1> QED BY <1>1, <1>5, <1>6, <1>7, <1>8, <1>9, <1>10 DEF Linked

\* All copies but the topmost have a place.
LEMMA CopyAttached ==
  ASSUME NEW F, NEW K, Shape(F, K), NEW from, from \in K, NEW D, D = Under(F, from),
         NEW image, OneToOne(image, D), NEW R, R \cap K = {}, NEW G, CopiesAre(F, image, D, R, G)
  PROVE  /\ Attached(G) = Attached(F) \cup (R \ {image[from]})
         /\ image[from] \in R /\ Closed(G, R)
<1>1. /\ K \subseteq Nodes /\ Nodes \subseteq Parents /\ from \in Parents
      /\ \A p \in Parents : ToSet(F[p]) \subseteq K /\ ToSet(F[p]) \subseteq Parents
  BY ShapeIs
<1>2. /\ from \in D /\ Closed(F, D)
      /\ \A z \in D : z # from => \E p \in D : z \in ToSet(F[p])
      /\ D \subseteq Parents
  BY <1>1, UnderIs
<1>3. \A p \in D : from \notin ToSet(F[p])
  <2> SUFFICES ASSUME NEW p \in D, from \in ToSet(F[p]) PROVE FALSE
    OBVIOUS
  <2>1. p \notin Under(F, from)
    BY <1>2, Acyclic
  <2> QED BY <2>1
<1>4. /\ R = {image[x] : x \in D} /\ R \subseteq Nodes /\ DOMAIN image = D
      /\ \A q \in R : \E a \in D : q = image[a]
      /\ \A a \in D : image[a] \in R
      /\ \A a, b \in D : image[a] = image[b] => a = b
  BY DEF CopiesAre, OneToOne
<1>5. /\ \A q \in Parents : q \notin R => G[q] = F[q]
      /\ \A a \in D : ImageOf(F[a], image, R, G[image[a]])
  BY DEF CopiesAre
<1>6. ASSUME NEW a \in D
      PROVE  \A z : z \in ToSet(G[image[a]]) <=> \E y \in ToSet(F[a]) : z = image[y]
  BY <1>5 DEF ImageOf
<1>7. ASSUME NEW q \in R, NEW z \in ToSet(G[q]) PROVE z \in R /\ z # image[from]
  <2>1. PICK a \in D : q = image[a]
    BY <1>4
  <2>2. z \in ToSet(G[image[a]])
    BY <2>1
  <2>3. PICK y \in ToSet(F[a]) : z = image[y]
    BY <1>6, <2>2
  <2>4. y \in D /\ y # from
    BY <1>2, <1>3 DEF Closed
  <2> QED BY <1>2, <1>4, <2>3, <2>4
<1>8. ASSUME NEW z \in Attached(G) PROVE z \in Attached(F) \cup (R \ {image[from]})
  <2>1. PICK q \in Parents : z \in ToSet(G[q])
    BY DEF Attached
  <2>2. CASE q \in R
    BY <1>7, <2>1, <2>2
  <2>3. CASE q \notin R
    BY <1>5, <2>1, <2>3 DEF Attached
  <2> QED BY <2>2, <2>3
<1>9. ASSUME NEW z \in Attached(F) PROVE z \in Attached(G)
  <2>1. PICK q \in Parents : z \in ToSet(F[q])
    BY DEF Attached
  <2>2. F[q] # <<>>
    BY <2>1 DEF ToSet
  <2>3. q \notin R
    <3>1. \A p \in Nodes \ K : F[p] = <<>>
      BY DEF Shape
    <3> QED BY <1>4, <2>2, <3>1
  <2> QED BY <1>5, <2>1, <2>3 DEF Attached
<1>10. ASSUME NEW z \in R, z # image[from] PROVE z \in Attached(G)
  <2>1. PICK x \in D : z = image[x]
    BY <1>4
  <2>2. x # from
    BY <1>10, <2>1
  <2>3. PICK p \in D : x \in ToSet(F[p])
    BY <1>2, <2>2
  <2>4. z \in ToSet(G[image[p]])
    BY <1>6, <2>1, <2>3
  <2>5. image[p] \in Parents
    BY <1>1, <1>4
  <2> QED BY <2>4, <2>5 DEF Attached
<1> QED BY <1>2, <1>4, <1>7, <1>8, <1>9, <1>10 DEF Closed

\* The copy of `from' comes to its place whether x is still in its own or not.
LEMMA CopyJoined ==
  ASSUME NEW L \in Table, NEW T \in Table, NEW D, D \subseteq Nodes, NEW image, OneToOne(image, D),
         NEW M1, Imaged(L, M1, image), NEW M2, Imaged(T, M2, image),
         NEW p \in Parents, p \notin D, NEW a, NEW b, Joined(L, T, p, a, b), NEW from \in D,
         \A z \in D : z # from => z # a /\ z # b,
         NEW N, RunJoined(M1, N, <<image[from]>>, p, a, b)
  PROVE  RunJoined(M2, N, <<image[from]>>, p, a, b)
<1> DEFINE top == image[from]
<1>1. \A x : ToSet(<<x>>) = {x} /\ Len(<<x>>) = 1 /\ <<x>>[1] = x
  BY DEF ToSet
<1>2. /\ DOMAIN image = D /\ \A z \in D : image[z] \in Nodes /\ z \in Linkable /\ image[z] \in Linkable
  BY ParentsAre DEF OneToOne
<1>3. /\ \A y \in Linkable : (\A z \in D : image[z] # y) => M1[y] = L[y] /\ M2[y] = T[y]
      /\ \A z \in D : /\ M1[image[z]].up = Copy(image, L[z].up) /\ M2[image[z]].up = Copy(image, T[z].up)
                      /\ M1[image[z]].first = Copy(image, L[z].first)
                      /\ M2[image[z]].first = Copy(image, T[z].first)
                      /\ M1[image[z]].last = Copy(image, L[z].last)
                      /\ M2[image[z]].last = Copy(image, T[z].last)
                      /\ M1[image[z]].prev = Copy(image, L[z].prev)
                      /\ M2[image[z]].prev = Copy(image, T[z].prev)
                      /\ M1[image[z]].next = Copy(image, L[z].next)
                      /\ M2[image[z]].next = Copy(image, T[z].next)
  BY <1>2 DEF Imaged
<1>4. /\ \A q \in Parents :
           /\ Leftmost(T, q) = IF q = p /\ a = LeftEnd(p) THEN b ELSE Leftmost(L, q)
           /\ Rightmost(T, q) = IF q = p /\ b = RightEnd(p) THEN a ELSE Rightmost(L, q)
      /\ \A y \in Nodes :
           /\ T[y].up = L[y].up
           /\ T[y].next = IF y = a THEN b ELSE L[y].next
           /\ T[y].prev = IF y = b THEN a ELSE L[y].prev
  BY DEF Joined
<1>5. /\ N \in Table
      /\ \A q \in Parents :
           /\ Leftmost(N, q) = IF q = p /\ a = LeftEnd(p) THEN top ELSE Leftmost(M1, q)
           /\ Rightmost(N, q) = IF q = p /\ b = RightEnd(p) THEN top ELSE Rightmost(M1, q)
      /\ \A y \in Nodes :
           /\ N[y].up = IF y = top THEN UpFrom(p) ELSE M1[y].up
           /\ N[y].next = IF y = a THEN top ELSE IF y = top THEN b ELSE M1[y].next
           /\ N[y].prev = IF y = top THEN a ELSE IF y = b THEN top ELSE M1[y].prev
  BY <1>1 DEF RunJoined
<1>6. ASSUME NEW q \in Parents
      PROVE  /\ ~(q = p /\ a = LeftEnd(p)) => Leftmost(M1, q) = Leftmost(M2, q)
             /\ ~(q = p /\ b = RightEnd(p)) => Rightmost(M1, q) = Rightmost(M2, q)
  <2>1. CASE \A z \in D : image[z] # q
    <3>1. q \in Linkable /\ (q < 0 => q - 1 \in Linkable /\ q - 1 \notin Parents)
      BY ParentsAre
    <3>2. M1[q] = L[q] /\ M2[q] = T[q]
      BY <1>3, <2>1, <3>1
    <3>3. q < 0 => M1[q - 1] = L[q - 1] /\ M2[q - 1] = T[q - 1]
      BY <1>2, <1>3, <3>1 DEF Parents
    <3>4. /\ Leftmost(M1, q) = Leftmost(L, q) /\ Leftmost(M2, q) = Leftmost(T, q)
          /\ Rightmost(M1, q) = Rightmost(L, q) /\ Rightmost(M2, q) = Rightmost(T, q)
      BY <3>2, <3>3 DEF Leftmost, Rightmost
    <3> QED BY <1>4, <3>4
  <2>2. CASE \E z \in D : image[z] = q
    <3>1. PICK z \in D : image[z] = q
      BY <2>2
    <3>2. z \in Parents /\ z > 0 /\ q > 0 /\ z # p
      BY <1>2, <3>1, ParentsAre
    <3>3. Leftmost(T, z) = Leftmost(L, z) /\ Rightmost(T, z) = Rightmost(L, z)
      BY <1>4, <3>2
    <3>4. T[z].first = L[z].first /\ T[z].last = L[z].last
      BY <3>2, <3>3, ParentsAre DEF Leftmost, Rightmost
    <3>5. M1[q].first = M2[q].first /\ M1[q].last = M2[q].last
      BY <1>3, <3>1, <3>4
    <3> QED BY <3>2, <3>5, ParentsAre DEF Leftmost, Rightmost
  <2> QED BY <2>1, <2>2
<1>7. ASSUME NEW y \in Nodes
      PROVE  /\ M1[y].up = M2[y].up
             /\ y # a /\ y # top => M1[y].next = M2[y].next
             /\ y # b /\ y # top => M1[y].prev = M2[y].prev
  <2>1. CASE \A z \in D : image[z] # y
    <3>1. y \in Linkable
      BY ParentsAre
    <3> QED BY <1>3, <1>4, <2>1, <3>1
  <2>2. CASE \E z \in D : image[z] = y
    <3>1. PICK z \in D : image[z] = y
      BY <2>2
    <3>2. y # top => z # a /\ z # b
      BY <3>1
    <3>3. T[z].up = L[z].up /\ (z # a => T[z].next = L[z].next) /\ (z # b => T[z].prev = L[z].prev)
      BY <1>4
    <3> QED BY <1>3, <3>1, <3>2, <3>3
  <2> QED BY <2>1, <2>2
<1>8. /\ \A q \in Parents :
           /\ Leftmost(N, q) = IF q = p /\ a = LeftEnd(p) THEN top ELSE Leftmost(M2, q)
           /\ Rightmost(N, q) = IF q = p /\ b = RightEnd(p) THEN top ELSE Rightmost(M2, q)
      /\ \A y \in Nodes :
           /\ N[y].up = IF y = top THEN UpFrom(p) ELSE M2[y].up
           /\ N[y].next = IF y = a THEN top ELSE IF y = top THEN b ELSE M2[y].next
           /\ N[y].prev = IF y = top THEN a ELSE IF y = b THEN top ELSE M2[y].prev
  BY <1>5, <1>6, <1>7
<1> HIDE DEF top
<1>9. RunJoined(M2, N, <<top>>, p, a, b)
  BY <1>1, <1>5, <1>8 DEF RunJoined
<1> QED BY <1>9 DEF top

\* The links say that a copy stands in the place of x; it is new in A.
Overlaid(L, E, p, i, x, y, U, D, R, image, K, A, C) ==
  /\ Says(Copied(ChildrenCut(L, x), y, x, image), Long(C, <<image[y]>>, p, i), E, (K \ U) \cup R)
  /\ CopiesAre(A, image, D, R, C) /\ p \notin U /\ p \notin R /\ p \in Parents

\* x, the i-th child of p, is overwritten with a copy of y and of all below y.
LEMMA OverwriteFits ==
  ASSUME NEW L, NEW F, NEW E, Fits(L, F, E), NEW p \in Held(Attached(F), E), NEW i \in 1 .. Len(F[p]),
         NEW x, x = F[p][i], NEW y \in Attached(F), x \notin Under(F, y), y \notin Under(F, x),
         NEW U, U = Under(F, x), NEW D, D = Under(F, y), NEW image, OneToOne(image, D),
         NEW R, R = {image[z] : z \in D}, R \cap (Attached(F) \ U) = {},
         NEW A, A = Bare(Short(F, p, i, i), U), NEW C, C = WithCopies(A, image)
  PROVE  Overlaid(L, E, p, i, x, y, U, D, R, image, Attached(F), A, C)
<1> DEFINE K == Attached(F)
           L1 == ChildrenCut(L, x)
           T == Erased(L, x)
           F1 == Bare(F, U)
           K1 == K \ (U \ {x})
           K2 == K \ U
           s == F[p]
           a == At(s, p, i - 1)
           b == At(s, p, i + 1)
           top == image[y]
<1>1. Linked(L, F, K, E) /\ Shape(F, K)
  BY DEF Fits, Linked
<1>2. /\ Held(K, E) \subseteq Parents /\ K \subseteq Nodes /\ p \in Parents /\ Nodes \subseteq Parents
  <2>1. Held(K, E) \subseteq Parents /\ K \subseteq Nodes
    BY <1>1, HeldIs
  <2> QED BY <2>1 DEF Parents
<1>3. s \in Seq(Nodes) /\ IsInjective(s) /\ x \in K /\ x \in ToSet(s) /\ s \in Seq(K)
  <2>1. s \in Seq(Nodes) /\ IsInjective(s) /\ s \in Seq(K)
    BY <1>1, <1>2, ShapeIs
  <2>2. x \in K /\ x \in ToSet(s)
    BY <1>1, <1>2, ShapeIs
  <2> QED BY <2>1, <2>2
<1>4. /\ \A q \in Parents : ToSet(F[q]) \subseteq Parents
      /\ \A q \in Parents : ToSet(F[q]) \subseteq K
      /\ \A q, r \in Parents, z \in K : z \in ToSet(F[q]) /\ z \in ToSet(F[r]) => q = r
  <2>1. \A q, r \in Parents, z \in K : z \in ToSet(F[q]) /\ z \in ToSet(F[r]) => q = r
    BY <1>1, ShapeIs
  <2>2. \A q \in Parents : ToSet(F[q]) \subseteq K
    BY <1>1, ShapeIs
  <2> QED BY <1>2, <2>1, <2>2
<1>5. /\ Linked(L1, F1, K1, E) /\ U \subseteq K /\ x \in U /\ Closed(F, U)
  <2>1. x \in K
    BY <1>3
  <2> HIDE DEF K
  <2>2. Linked(ChildrenCut(L, x), Bare(F, Under(F, x)), K \ (Under(F, x) \ {x}), E)
    BY <1>1, <2>1, CutFits
  <2>3. Under(F, x) \subseteq K /\ x \in Under(F, x) /\ Closed(F, Under(F, x))
    <3>1. Linked(L, F, K, E) /\ x \in K
      BY <1>1, <2>1
    <3> QED BY ONLY <3>1, CutFits
  <2> QED BY <2>2, <2>3
<1>6. /\ Fits(T, A, E) /\ Attached(A) = K2 /\ p \notin U
  BY <1>3, ErasedFits
<1>7. Linked(T, A, K2, E) /\ Shape(A, K2) /\ T \in Table
  BY <1>6 DEF Fits, Linked
<1>8. /\ y \in D /\ Closed(F, D) /\ D \subseteq Parents
      /\ \A z \in D : z # y => \E q \in D : z \in ToSet(F[q])
  <2>1. y \in Parents
    BY <1>2
  <2> QED BY <1>4, <2>1, UnderIs
<1>9. D \cap U = {} /\ D \subseteq K /\ p \notin D
  <2>1. x \in Parents /\ y \in Parents
    BY <1>2, <1>3
  <2>2. D \cap U = {}
    BY <1>1, <2>1, UnderApart
  <2>3. D \subseteq K
    BY <1>1, <2>1, UnderAttached
  <2>4. p \notin D
    BY <1>3, <1>8 DEF Closed
  <2> QED BY <2>2, <2>3, <2>4
<1>10. F1[p] = s /\ p \in Held(K1, E)
  BY <1>2, <1>6 DEF Bare, Held
<1>11. /\ Joined(L1, T, p, a, b) /\ L1[x].up = UpFrom(p) /\ L1[x].prev = a /\ L1[x].next = b
       /\ L1 \in Table
  <2>1. i \in 1 .. Len(F1[p]) /\ F1[p][i] = x
    BY <1>10
  <2>2. Joined(L1, TakenOut(L1, F1[p][i]), p, At(F1[p], p, i - 1), At(F1[p], p, i + 1))
    BY <1>5, <1>10, <2>1, TakeOne
  <2>3. T = TakenOut(L1, x)
    BY DEF Erased
  <2>4. Sibs(L1, p, s) /\ L1 \in Table
    BY <1>5, <1>10 DEF Linked
  <2>5. DOMAIN s = 1 .. Len(s)
    BY <1>3, SetOf
  <2> QED BY <1>10, <2>1, <2>2, <2>3, <2>4, <2>5 DEF Sibs
<1>12. Gap(Shorter(s, i, i), p, a, b, i)
  BY <1>2, <1>3, GapLeft
<1>13. A[p] = Shorter(s, i, i)
  <2>1. DOMAIN F = Parents
    BY <1>1, ShapeIs
  <2> QED BY <1>2, <1>6, <2>1 DEF Bare, Short
<1>14. \A q \in Parents : q \notin U /\ q # p => A[q] = F[q]
  <2>1. DOMAIN F = Parents
    BY <1>1, ShapeIs
  <2> QED BY <2>1 DEF Bare, Short
<1>15. D = Under(A, y)
  <2>1. \A q \in Parents : ToSet(F[q]) \subseteq Parents /\ ToSet(A[q]) \subseteq ToSet(F[q])
    <3>1. \A q \in Parents : ToSet(Bare(Short(F, p, i, i), Under(F, x))[q]) \subseteq ToSet(F[q])
      BY <1>3, ErasedFits
    <3> QED BY <1>4, <3>1
  <2>2. \A q \in Under(F, y) : A[q] = F[q]
    BY <1>8, <1>9, <1>14
  <2>3. y \in Parents
    BY <1>2
  <2> QED BY <2>1, <2>2, <2>3, UnderKept
<1>16. D \subseteq K2 /\ Closed(A, D) /\ D \subseteq Nodes /\ y \in K2
  BY <1>2, <1>8, <1>9, <1>14 DEF Closed
<1>17. CopiesAre(A, image, D, R, C)
  BY <1>7, <1>16, CopiesNamed
<1>18. R \cap K2 = {}
  OBVIOUS
<1>19. /\ DOMAIN image = D /\ (\A z \in D : image[z] \in Nodes) /\ R \subseteq Nodes /\ top \in R /\ top \in Nodes
  BY <1>8 DEF OneToOne
<1>20. p \notin R
  <2>1. p \in K2 \/ p \notin Nodes
    <3>1. p \in K \/ \E g \in Graphs : p = HeadOf(g)
      BY <1>1 DEF Held, Linked
    <3> QED BY <1>6, <3>1, ParentsAre
  <2> QED BY <1>18, <1>19, <2>1
<1>21. C[p] = Shorter(s, i, i)
  BY <1>2, <1>13, <1>17, <1>20 DEF CopiesAre
<1> DEFINE M1 == CopyOf(L1, image)
           M2 == CopyOf(T, image)
           N == PutIn(M1, top, UpFrom(p), a, b)
           G == Long(C, <<top>>, p, i)
<1>22. Imaged(L1, M1, image) /\ Imaged(T, M2, image) /\ M1 \in Table
  <2>1. Imaged(L1, M1, image)
    BY <1>11, <1>16, ImagedIs
  <2>2. Imaged(T, M2, image)
    BY <1>7, <1>16, ImagedIs
  <2> QED BY <2>1, <2>2 DEF Imaged
<1>23. Copied(L1, y, x, image) = N
  BY <1>11, CopiedIs
<1>24. /\ a \in Nodes \cup {LeftEnd(p)} /\ b \in Nodes \cup {RightEnd(p)}
       /\ a \in Nodes => a \in ToSet(Shorter(s, i, i))
       /\ b \in Nodes => b \in ToSet(Shorter(s, i, i))
       /\ LeftEnd(p) \notin Nodes /\ RightEnd(p) \notin Nodes
  <2>1. Shorter(s, i, i) \in Seq(Nodes)
    <3>1. i \in i .. Len(s)
      BY <1>3, SetOf
    <3> QED BY <1>3, <3>1, TakeSeq
  <2> QED BY <1>2, <1>12, <2>1, GapIs
<1>25. \A z \in ToSet(Shorter(s, i, i)) : z \in K2 /\ z \in ToSet(s)
  <2>1. ToSet(A[p]) \subseteq K2
    BY <1>2, <1>6 DEF Attached
  <2>2. ToSet(Shorter(s, i, i)) \subseteq ToSet(s)
    <3>1. ToSet(Bare(Short(F, p, i, i), Under(F, x))[p]) \subseteq ToSet(F[p])
      BY <1>2, <1>3, ErasedFits
    <3> QED BY <1>13, <3>1
  <2> QED BY <1>13, <2>1, <2>2
<1>26. a # top /\ b # top
  BY <1>18, <1>19, <1>24, <1>25
<1>27. \A z \in D : z # y => z # a /\ z # b
  <2> SUFFICES ASSUME NEW z \in D, z # y, z = a \/ z = b PROVE FALSE
    OBVIOUS
  <2>1. PICK q \in D : z \in ToSet(F[q])
    BY <1>8
  <2>2. z \in ToSet(s)
    BY <1>16, <1>24, <1>25
  <2>3. q = p
    BY <1>2, <1>4, <1>8, <1>9, <2>1, <2>2
  <2> QED BY <1>9, <2>3
<1> HIDE DEF M1, M2, a, b, top, T, L1, F1, K1, s
<1>28. RunJoined(M1, N, <<top>>, p, a, b)
  BY <1>2, <1>19, <1>22, <1>24, <1>26, PutInReads
<1> HIDE DEF N
<1>29. RunJoined(M2, N, <<top>>, p, a, b)
  <2>1. RunJoined(M1, N, <<image[y]>>, p, a, b)
    BY <1>28 DEF top
  <2>2. RunJoined(M2, N, <<image[y]>>, p, a, b)
    BY <1>2, <1>7, <1>8, <1>9, <1>11, <1>16, <1>22, <1>27, <2>1, CopyJoined
  <2> QED BY <2>2 DEF top
<1> HIDE DEF K2
<1>30. Linked(M2, C, K2 \cup R, E)
  BY <1>7, <1>16, <1>17, <1>18, <1>22, CopyLinked DEF K2
<1>31. /\ Attached(C) = Attached(A) \cup (R \ {top}) /\ Closed(C, R)
  <2>1. Shape(A, K2) /\ y \in K2 /\ D = Under(A, y) /\ OneToOne(image, D) /\ R \cap K2 = {}
        /\ CopiesAre(A, image, D, R, C)
    BY <1>7, <1>15, <1>16, <1>17, <1>18
  <2>2. Attached(C) = Attached(A) \cup (R \ {image[y]})
    BY ONLY <2>1, CopyAttached
  <2>3. Closed(C, R)
    BY ONLY <2>1, CopyAttached
  <2> QED BY <2>2, <2>3 DEF top
<1>32. /\ <<top>> \in Seq(K2 \cup R) /\ <<top>> # <<>> /\ ToSet(<<top>>) = {top} /\ IsInjective(<<top>>)
       /\ Chained(M2, <<top>>)
  <2>1. top \in K2 \cup R
    BY <1>19
  <2> QED BY <2>1, One
<1>33. {top} \cap Attached(C) = {} /\ {top} \subseteq R
  BY <1>6, <1>18, <1>19, <1>31 DEF K2
<1>34. p \in Held(K2 \cup R, E)
  BY <1>6 DEF Held, K2
<1>35. Gap(C[p], p, a, b, i)
  BY <1>12, <1>21
<1>36. Linked(N, G, K2 \cup R, E)
  <2> DEFINE xs == <<top>>
             J == K2 \cup R
  <2>1. xs \in Seq(J) /\ xs # <<>> /\ ToSet(xs) \cap Attached(C) = {} /\ IsInjective(xs) /\ Chained(M2, xs)
        /\ ToSet(xs) \subseteq R /\ p \in Held(J, E) /\ Linked(M2, C, J, E) /\ RunJoined(M2, N, xs, p, a, b)
    BY <1>29, <1>30, <1>32, <1>33, <1>34
  <2> HIDE DEF xs, J
  <2>2. Linked(N, Long(C, xs, p, i), J, E)
    BY <1>20, <1>31, <1>35, <2>1, PutRun
  <2> QED BY <2>2 DEF xs, J
<1>37. Attached(G) = K2 \cup R
  <2> DEFINE xs == <<top>>
             J == K2 \cup R
  <2>0. i \in 1 .. Len(C[p]) + 1
    BY <1>35 DEF Gap
  <2>1. xs \in Seq(J) /\ ToSet(xs) \cap Attached(C) = {} /\ IsInjective(xs) /\ ToSet(xs) \subseteq R
        /\ Shape(C, J) /\ (p \in Nodes => p \in J)
    <3>1. p \in Nodes => p \in K2 \cup R
      BY <1>1, <1>34, ParentsAre DEF Held, Linked
    <3> QED BY <1>30, <1>32, <1>33, <3>1 DEF Linked
  <2>2. ToSet(xs) = {top}
    BY <1>32
  <2> HIDE DEF xs, J
  <2>3. Attached(Long(C, xs, p, i)) = Attached(C) \cup ToSet(xs)
    BY <1>2, <1>20, <1>31, <2>0, <2>1, ShapeLong
  <2> QED BY <1>6, <1>19, <1>31, <2>2, <2>3 DEF xs
<1> HIDE DEF G
<1>38. Says(N, G, E, K2 \cup R)
  <2>1. Shape(G, K2 \cup R)
    BY <1>36 DEF Linked
  <2> QED BY <1>36, <1>37, <2>1 DEF Says, Fits
<1> QED BY <1>2, <1>6, <1>17, <1>20, <1>23, <1>38 DEF G, K2, top, L1, Overlaid

\* G is F with the copies of D in the place of x, U being all within x.
Overwritten(F, G, x, y, U, D, R, image) ==
  /\ G = [q \in Parents |-> G[q]]
  /\ \A a \in D : G[image[a]] = [j \in DOMAIN F[a] |-> image[F[a][j]]]
  /\ \A q \in Parents : q \in U /\ q \notin R => G[q] = <<>>
  /\ \A q \in Parents : q \notin U /\ q \notin R =>
       G[q] = [j \in DOMAIN F[q] |-> IF F[q][j] = x THEN image[y] ELSE F[q][j]]

\* What the children of everything are then.
LEMMA OverwriteIs ==
  ASSUME NEW F, NEW K, Shape(F, K), NEW p \in Parents, NEW i \in 1 .. Len(F[p]), NEW x, x = F[p][i],
         NEW y \in Parents, NEW U, p \notin U, NEW D, D \subseteq K, D \cap U = {}, p \notin D,
         NEW image, OneToOne(image, D), y \in D, NEW R, p \notin R, NEW A, A = Bare(Short(F, p, i, i), U),
         NEW C, CopiesAre(A, image, D, R, C), NEW G, G = Long(C, <<image[y]>>, p, i)
  PROVE  Overwritten(F, G, x, y, U, D, R, image)
<1> DEFINE top == image[y]
<1>1. DOMAIN F = Parents /\ K \subseteq Nodes /\ Nodes \subseteq Parents
      /\ \A q \in Parents : F[q] \in Seq(Nodes) /\ IsInjective(F[q])
  BY ShapeIs
<1>2. DOMAIN image = D /\ (\A z \in D : image[z] \in Nodes /\ image[z] \in R) /\ top \in Nodes
      /\ R = {image[z] : z \in D} /\ C = [q \in Parents |-> C[q]]
  BY DEF CopiesAre, OneToOne
<1>3. G = [C EXCEPT ![p] = Longer(C[p], <<top>>, i)]
  BY DEF Long
<1>4. /\ G = [q \in Parents |-> G[q]] /\ G[p] = Longer(C[p], <<top>>, i)
      /\ \A q \in Parents : q # p => G[q] = C[q]
  BY <1>2, <1>3
<1>5. /\ A[p] = Shorter(F[p], i, i)
      /\ \A q \in Parents : q # p => A[q] = IF q \in U THEN <<>> ELSE F[q]
  BY <1>1 DEF Bare, Short
<1>6. /\ \A a \in D : C[image[a]] = [j \in DOMAIN A[a] |-> image[A[a][j]]]
      /\ \A q \in Parents : q \notin R => C[q] = A[q]
  BY DEF CopiesAre
<1>7. \A a \in D : G[image[a]] = [j \in DOMAIN F[a] |-> image[F[a][j]]]
  <2> SUFFICES ASSUME NEW a \in D PROVE G[image[a]] = [j \in DOMAIN F[a] |-> image[F[a][j]]]
    OBVIOUS
  <2>1. image[a] # p /\ image[a] \in Parents /\ a # p /\ a \notin U /\ a \in Parents
    BY <1>1, <1>2
  <2>2. A[a] = F[a]
    BY <1>5, <2>1
  <2> QED BY <1>4, <1>6, <2>1, <2>2
<1>8. \A q \in Parents : q \in U /\ q \notin R => G[q] = <<>>
  BY <1>4, <1>5, <1>6
<1>9. G[p] = [j \in DOMAIN F[p] |-> IF F[p][j] = x THEN top ELSE F[p][j]]
  <2> DEFINE s == F[p]
  <2>1. s \in Seq(Nodes) /\ IsInjective(s) /\ i \in 1 .. Len(s) /\ x = s[i]
    BY <1>1
  <2>2. G[p] = Longer(Shorter(s, i, i), <<top>>, i)
    BY <1>4, <1>5, <1>6
  <2> HIDE DEF s, top
  <2>3. Longer(Shorter(s, i, i), <<top>>, i) = [j \in DOMAIN s |-> IF s[j] = s[i] THEN top ELSE s[j]]
    BY <1>2, <2>1, PutBack
  <2> QED BY <2>1, <2>2, <2>3 DEF s
<1>10. ASSUME NEW q \in Parents, q \notin U, q \notin R, q # p
       PROVE  G[q] = [j \in DOMAIN F[q] |-> IF F[q][j] = x THEN image[y] ELSE F[q][j]]
  <2>1. G[q] = F[q]
    BY <1>4, <1>5, <1>6, <1>10
  <2>2. \A j \in DOMAIN F[q] : F[q][j] # x
    <3> SUFFICES ASSUME NEW j \in DOMAIN F[q], F[q][j] = x PROVE FALSE
      OBVIOUS
    <3>1. x \in ToSet(F[q]) /\ x \in ToSet(F[p]) /\ x \in K
      <4>1. DOMAIN F[q] = 1 .. Len(F[q])
        BY <1>1
      <4>2. F[q][j] \in ToSet(F[q])
        BY <4>1, ShapeIs
      <4>3. x \in K /\ x \in ToSet(F[p])
        BY ShapeIs
      <4> QED BY <4>2, <4>3
    <3>2. \A r, u \in Parents, z \in K : z \in ToSet(F[r]) /\ z \in ToSet(F[u]) => r = u
      BY ShapeIs
    <3> QED BY <1>10, <3>1, <3>2
  <2>3. F[q] = [j \in DOMAIN F[q] |-> F[q][j]]
    BY <1>1
  <2> QED BY <2>1, <2>2, <2>3
<1> QED BY <1>4, <1>7, <1>8, <1>9, <1>10, SMTT(30) DEF Overwritten

\* A copy in the place of what was erased is an Overwrite.
LEMMA OverwriteStep ==
  ASSUME NEW F, NEW K, Shape(F, K), NEW x \in Attached(F), NEW y \in Attached(F), NEW U, U = Under(F, x),
         NEW D, D = Under(F, y), D \cap U = {}, NEW image, OneToOne(image, D),
         NEW R, R = {image[z] : z \in D}, R \cap (Attached(F) \ U) = {}, NEW G,
         Overwritten(F, G, x, y, U, D, R, image)
  PROVE  F = G \/ Forest!Step(F, G)
<1>1. x \in Nodes /\ y \in Nodes
  <2>1. K \subseteq Nodes /\ (\A p \in Parents : ToSet(F[p]) \subseteq K)
    BY ShapeIs
  <2> QED BY <2>1 DEF Attached
<1>2. Forest!Members(F) = Attached(F) /\ Forest!Holders = Parents
  BY ForestNames
<1>3. Forest!Within(F, x) = U /\ Forest!Within(F, y) = D
  BY <1>1, ForestWithinIs
<1>4. image \in [D -> Nodes \ (Attached(F) \ U)] /\ DOMAIN image = D /\ (\A a, b \in D : a # b => image[a] # image[b])
  BY DEF OneToOne
<1> DEFINE B(q) == IF \E a \in D : image[a] = q
                   THEN LET a == CHOOSE a \in D : image[a] = q
                        IN [j \in DOMAIN F[a] |-> image[F[a][j]]]
                   ELSE IF q \in U THEN <<>>
                   ELSE [j \in DOMAIN F[q] |-> IF F[q][j] = x THEN image[y] ELSE F[q][j]]
<1>0. /\ G = [q \in Parents |-> G[q]]
      /\ \A a \in D : G[image[a]] = [j \in DOMAIN F[a] |-> image[F[a][j]]]
      /\ \A q \in Parents : q \in U /\ q \notin R => G[q] = <<>>
      /\ \A q \in Parents : q \notin U /\ q \notin R =>
           G[q] = [j \in DOMAIN F[q] |-> IF F[q][j] = x THEN image[y] ELSE F[q][j]]
  BY DEF Overwritten
<1>5. ASSUME NEW q \in Parents PROVE G[q] = B(q)
  <2>1. CASE \E a \in D : image[a] = q
    <3>1. PICK a \in D : image[a] = q
      BY <2>1
    <3>2. (CHOOSE c \in D : image[c] = q) = a
      BY <1>4, <3>1
    <3>3. G[q] = [j \in DOMAIN F[a] |-> image[F[a][j]]]
      BY <1>0, <3>1
    <3> QED BY <2>1, <3>2, <3>3
  <2>2. CASE \A a \in D : image[a] # q
    <3>1. q \notin R
      BY <2>2
    <3> QED BY <1>0, <2>2, <3>1
  <2> QED BY <2>1, <2>2
<1>6. G = [q \in Parents |-> B(q)]
  BY <1>0, <1>5
<1>7. /\ x \in Forest!Members(F) /\ y \in Forest!Members(F)
      /\ Forest!Within(F, x) \cap Forest!Within(F, y) = {}
  BY <1>2, <1>3
<1>8. \E im \in [Forest!Within(F, y) -> Nodes \ (Forest!Members(F) \ Forest!Within(F, x))] :
        /\ \A a, b \in Forest!Within(F, y) : a # b => im[a] # im[b]
        /\ G = [q \in Forest!Holders |->
               IF \E a \in Forest!Within(F, y) : im[a] = q
               THEN LET a == CHOOSE a \in Forest!Within(F, y) : im[a] = q
                    IN [j \in DOMAIN F[a] |-> im[F[a][j]]]
               ELSE IF q \in Forest!Within(F, x) THEN <<>>
               ELSE [j \in DOMAIN F[q] |-> IF F[q][j] = x THEN im[y] ELSE F[q][j]]]
  <2>1. image \in [Forest!Within(F, y) -> Nodes \ (Forest!Members(F) \ Forest!Within(F, x))]
    BY <1>2, <1>3, <1>4
  <2>2. \A a, b \in Forest!Within(F, y) : a # b => image[a] # image[b]
    BY <1>3, <1>4
  <2>3. G = [q \in Forest!Holders |->
               IF \E a \in Forest!Within(F, y) : image[a] = q
               THEN LET a == CHOOSE a \in Forest!Within(F, y) : image[a] = q
                    IN [j \in DOMAIN F[a] |-> image[F[a][j]]]
               ELSE IF q \in Forest!Within(F, x) THEN <<>>
               ELSE [j \in DOMAIN F[q] |-> IF F[q][j] = x THEN image[y] ELSE F[q][j]]]
    BY <1>2, <1>3, <1>6
  <2> QED BY <2>1, <2>2, <2>3
<1>9. Forest!Overwrite(F, G)
  BY ONLY <1>7, <1>8, ZenonT(60) DEF Forest!Overwrite
<1> QED BY <1>9, StepIs

\* replace: a copy of y comes to the place of x, which is erased.
LEMMA OverwriteTurns ==
  ASSUME NEW L, NEW F, NEW E, Fits(L, F, E), NEW x \in Attached(F), NEW y \in Attached(F),
         x \notin Under(F, y), y \notin Under(F, x), NEW image, OneToOne(image, Under(F, y)),
         NEW R, R = {image[z] : z \in Under(F, y)}, R \cap (Attached(F) \ Under(F, x)) = {},
         NEW back, back \subseteq Under(F, x) \ R, NEW P, Whole(F, P), x \in P
  PROVE  \E G : /\ Becomes(F, G, Forgotten(Copied(ChildrenCut(L, x), y, x, image), back), E,
                           (Attached(F) \ Under(F, x)) \cup R)
                /\ Gains(F, G, P \cup R, P \cup R)
<1> DEFINE K == Attached(F)
           U == Under(F, x)
           D == Under(F, y)
           J == (K \ U) \cup R
           M == Copied(ChildrenCut(L, x), y, x, image)
<1>1. Linked(L, F, K, E) /\ Shape(F, K)
  BY DEF Fits, Linked
<1>2. /\ K \subseteq Nodes /\ Nodes \subseteq Parents
      /\ \A p \in Parents : ToSet(F[p]) \subseteq Parents /\ ToSet(F[p]) \subseteq K
  BY <1>1, ShapeIs
<1>3. PICK p \in Held(K, E) : \E i \in 1 .. Len(F[p]) : p \in Parents /\ x = F[p][i] /\ x \in ToSet(F[p])
  BY <1>1, Place
<1>4. PICK i \in 1 .. Len(F[p]) : p \in Parents /\ x = F[p][i] /\ x \in ToSet(F[p])
  BY <1>3
<1> DEFINE A == Bare(Short(F, p, i, i), U)
           C == WithCopies(A, image)
           G == Long(C, <<image[y]>>, p, i)
<1>5. /\ Says(M, G, E, J) /\ CopiesAre(A, image, D, R, C) /\ p \notin U /\ p \notin R
  <2>1. /\ Fits(L, F, E) /\ p \in Held(Attached(F), E) /\ i \in 1 .. Len(F[p]) /\ x = F[p][i]
        /\ y \in Attached(F) /\ x \notin Under(F, y) /\ y \notin Under(F, x) /\ U = Under(F, x) /\ D = Under(F, y)
        /\ OneToOne(image, D) /\ R = {image[z] : z \in D} /\ R \cap (Attached(F) \ U) = {}
        /\ A = Bare(Short(F, p, i, i), U) /\ C = WithCopies(A, image)
    BY <1>4
  <2> HIDE DEF U, D, A, C
  <2>2. Overlaid(L, E, p, i, x, y, U, D, R, image, Attached(F), A, C)
    BY ONLY <2>1, OverwriteFits
  <2> QED BY <2>2 DEF Overlaid, A, C, U, D
<1>6. x \in Parents /\ y \in Parents /\ U \subseteq K /\ D \subseteq K /\ D \cap U = {} /\ y \in D /\ p \notin D
  <2>1. x \in Parents /\ y \in Parents
    BY <1>2
  <2>2. U \subseteq K /\ D \subseteq K
    BY <1>1, <2>1, UnderAttached
  <2>3. D \cap U = {}
    BY <1>1, <2>1, UnderApart
  <2>4. y \in D /\ Closed(F, D)
    BY <1>2, <2>1, UnderIs
  <2>5. p \notin D
    BY <1>4, <2>4 DEF Closed
  <2> QED BY <2>1, <2>2, <2>3, <2>4, <2>5
<1> HIDE DEF M, A, C, G, K
<1>12. Overwritten(F, G, x, y, U, D, R, image)
  BY <1>1, <1>4, <1>5, <1>6, OverwriteIs DEF A, G
<1>7. /\ G = [q \in Parents |-> G[q]]
      /\ \A a \in D : G[image[a]] = [j \in DOMAIN F[a] |-> image[F[a][j]]]
      /\ \A q \in Parents : q \in U /\ q \notin R => G[q] = <<>>
      /\ \A q \in Parents : q \notin U /\ q \notin R =>
           G[q] = [j \in DOMAIN F[q] |-> IF F[q][j] = x THEN image[y] ELSE F[q][j]]
  BY <1>12 DEF Overwritten
<1>8. F = G \/ Forest!Step(F, G)
  BY <1>1, <1>6, <1>12, OverwriteStep
<1>9. DOMAIN image = D /\ (\A z \in D : image[z] \in R)
  BY DEF OneToOne
<1>10. Gains(F, G, P \cup R, P \cup R)
  <2> SUFFICES ASSUME NEW q \in Parents, NEW z \in ToSet(G[q])
               PROVE  z \in ToSet(F[q]) \/ (q \in P \cup R /\ z \in P \cup R)
    BY DEF Gains
  <2>1. PICK j \in DOMAIN G[q] : z = G[q][j]
    BY DEF ToSet
  <2>2. CASE q \in R
    <3>1. PICK a \in D : q = image[a]
      BY <2>2
    <3>0. G[q] = [k \in DOMAIN F[a] |-> image[F[a][k]]]
      BY <1>7, <3>1
    <3>2. j \in DOMAIN F[a] /\ z = image[F[a][j]]
      BY <2>1, <3>0
    <3>3. F[a][j] \in ToSet(F[a]) /\ a \in Parents
      BY <1>2, <1>6, <3>2 DEF ToSet
    <3>4. F[a][j] \in D
      <4>1. Closed(F, D)
        BY <1>2, <1>6, UnderIs
      <4> QED BY <3>3, <4>1 DEF Closed
    <3> QED BY <1>9, <2>2, <3>2, <3>4
  <2>3. CASE q \in U /\ q \notin R
    <3>1. G[q] = <<>>
      BY <1>7, <2>3
    <3> QED BY <2>1, <3>1
  <2>4. CASE q \notin U /\ q \notin R
    <3>1. G[q] = [k \in DOMAIN F[q] |-> IF F[q][k] = x THEN image[y] ELSE F[q][k]]
      BY <1>7, <2>4
    <3>2. j \in DOMAIN F[q] /\ z = IF F[q][j] = x THEN image[y] ELSE F[q][j]
      BY <2>1, <3>1
    <3>3. CASE F[q][j] = x
      <4>1. x \in ToSet(F[q])
        BY <3>2, <3>3 DEF ToSet
      <4>2. q \in P
        BY <4>1 DEF Whole
      <4> QED BY <1>6, <1>9, <3>2, <3>3, <4>2
    <3>4. CASE F[q][j] # x
      <4>1. z \in ToSet(F[q])
        BY <3>2, <3>4 DEF ToSet
      <4> QED BY <4>1
    <3> QED BY <3>3, <3>4
  <2> QED BY <2>2, <2>3, <2>4
<1>11. Becomes(F, G, Forgotten(M, back), E, J)
  <2>1. Fits(M, G, E) /\ Attached(G) = J
    BY <1>5 DEF Says
  <2>2. Linked(M, G, J, E)
    BY <2>1 DEF Fits
  <2>3. back \subseteq Nodes /\ back \cap J = {}
    BY <1>2, <1>6
  <2> HIDE DEF J
  <2>4. Linked(Forgotten(M, back), G, J, E)
    BY <2>2, <2>3, ForgetLinked
  <2> QED BY <1>8, <2>1, <2>4 DEF Becomes, Fits
<1> QED BY <1>10, <1>11 DEF M, K

-----------------------------------------------------------------------------
(* The graphs a forest is divided into.                                    *)

\* The nodes of graph g.
Region(F, g) == Under(F, HeadOf(g)) \cap Nodes

\* Every node that has a place is in a graph: going up from it ends at a head.
LEMMA Rooted ==
  ASSUME NEW F, Shape(F, Attached(F)), NEW x \in Attached(F)
  PROVE  \E g \in Graphs : x \in Region(F, g)
<1> DEFINE S == {y \in Attached(F) : \A g \in Graphs : y \notin Under(F, HeadOf(g))}
<1>1. /\ Attached(F) \subseteq Nodes /\ \A p \in Parents : ToSet(F[p]) \subseteq Parents
      /\ \A p \in Nodes : p \notin Attached(F) => ToSet(F[p]) = {}
  <2>1. \A p \in Nodes : p \notin Attached(F) => F[p] = <<>>
    BY DEF Shape
  <2> QED
    BY <2>1, ShapeIs
<1>2. S = {}
  <2> SUFFICES ASSUME S # {} PROVE FALSE
    OBVIOUS
  <2>1. PICK y \in S : \A p \in S : y \notin ToSet(F[p])
    <3>1. Grounded(F, Attached(F))
      BY DEF Shape
    <3>2. S \in SUBSET Attached(F)
      OBVIOUS
    <3> HIDE DEF S
    <3> QED
      BY <3>1, <3>2 DEF Grounded
  <2>2. PICK p \in Parents : y \in ToSet(F[p])
    BY DEF Attached
  <2>3. CASE p \in Nodes
    <3>1. p \in Attached(F)
      BY <2>2, <2>3, <1>1
    <3>2. PICK g \in Graphs : p \in Under(F, HeadOf(g))
      BY <3>1, <2>1, <2>2
    <3>3. y \in Under(F, HeadOf(g))
      BY <3>2, <2>2, UnderIs, ParentsAre, <1>1 DEF Closed
    <3> QED
      BY <3>3, <2>1
  <2>4. CASE p \notin Nodes
    <3>1. PICK g \in Graphs : p = HeadOf(g)
      BY <2>4 DEF Parents
    <3>2. y \in Under(F, HeadOf(g))
      BY <3>1, <2>2, UnderIs, ParentsAre, <1>1
    <3> QED
      BY <3>2, <2>1
  <2> QED
    BY <2>3, <2>4
<1> QED
  BY <1>1, <1>2 DEF Region

\* The graphs divide the nodes that have a place, and no node is in two.
RegionsAre(F) ==
  /\ \A g \in Graphs : /\ Region(F, g) \subseteq Attached(F)
                       /\ Under(F, HeadOf(g)) = Region(F, g) \cup {HeadOf(g)}
                       /\ Region(F, g) = Under(F, HeadOf(g)) \ {HeadOf(g)}
                       /\ Whole(F, Under(F, HeadOf(g)))
                       /\ \A x \in Region(F, g) : Under(F, x) \subseteq Region(F, g)
  /\ \A g, h \in Graphs : g # h => Region(F, g) \cap Region(F, h) = {}
  /\ \A x \in Attached(F) : \E g \in Graphs : x \in Region(F, g)
  /\ Attached(F) \subseteq Nodes

\* A forest is divided into its graphs.
LEMMA RegionsOf ==
  ASSUME NEW F, Shape(F, Attached(F))
  PROVE  RegionsAre(F)
<1>1. /\ Attached(F) \subseteq Nodes /\ \A p \in Parents : ToSet(F[p]) \subseteq Parents
      /\ \A p, q \in Parents, x \in Attached(F) : x \in ToSet(F[p]) /\ x \in ToSet(F[q]) => p = q
      /\ \A p \in Parents : ToSet(F[p]) \subseteq Attached(F)
  BY ShapeIs
<1>2. \A x \in Attached(F) : \E g \in Graphs : x \in Region(F, g)
  BY Rooted
<1>3. ASSUME NEW g \in Graphs
      PROVE  /\ Region(F, g) \subseteq Attached(F)
             /\ Under(F, HeadOf(g)) = Region(F, g) \cup {HeadOf(g)}
             /\ Region(F, g) = Under(F, HeadOf(g)) \ {HeadOf(g)}
  <2>1. HeadOf(g) \in Parents /\ HeadOf(g) \notin Nodes
    BY ParentsAre
  <2>2. \A z \in Under(F, HeadOf(g)) : z = HeadOf(g) \/ z \in Attached(F)
    BY <2>1, UnderAttached
  <2>3. HeadOf(g) \in Under(F, HeadOf(g))
    BY <2>1, <1>1, UnderIs
  <2> QED
    BY <2>1, <2>2, <2>3, <1>1 DEF Region
<1>4. ASSUME NEW g \in Graphs
      PROVE  Whole(F, Under(F, HeadOf(g)))
  <2>1. HeadOf(g) \in Parents /\ HeadOf(g) \notin Nodes
    BY ParentsAre
  <2>2. Closed(F, Under(F, HeadOf(g)))
    BY <2>1, <1>1, UnderIs
  <2>3. ASSUME NEW q \in Parents, NEW x \in ToSet(F[q]), x \in Under(F, HeadOf(g))
        PROVE  q \in Under(F, HeadOf(g))
    <3>1. x \in Attached(F) /\ x # HeadOf(g)
      BY <2>3, <2>1, <1>1
    <3>2. PICK p \in Under(F, HeadOf(g)) : x \in ToSet(F[p])
      <4>1. \A z \in Under(F, HeadOf(g)) : z # HeadOf(g) => \E p \in Under(F, HeadOf(g)) : z \in ToSet(F[p])
        BY <2>1, <1>1, UnderIs
      <4> QED
        BY <4>1, <3>1, <2>3
    <3>3. p \in Parents
      BY <3>2 DEF Under
    <3> QED
      BY <3>1, <3>2, <3>3, <1>1
  <2> QED
    BY <2>2, <2>3 DEF Whole
<1>5. ASSUME NEW g \in Graphs, NEW x \in Region(F, g)
      PROVE  Under(F, x) \subseteq Region(F, g)
  <2>1. x \in Under(F, HeadOf(g)) /\ x \in Nodes /\ x \in Parents /\ HeadOf(g) \in Parents
    BY ParentsAre DEF Region
  <2>2. Under(F, x) \subseteq Under(F, HeadOf(g))
    BY <2>1, <1>1, UnderIs
  <2>3. HeadOf(g) \notin Under(F, x)
    BY <2>1, HeadsOnTop, ParentsAre
  <2> QED
    BY <2>2, <2>3, <1>3
<1>6. ASSUME NEW g \in Graphs, NEW h \in Graphs, g # h
      PROVE  Region(F, g) \cap Region(F, h) = {}
  <2>1. HeadOf(g) \in Parents /\ HeadOf(h) \in Parents /\ HeadOf(g) # HeadOf(h)
    BY <1>6, ParentsAre, HeadsDiffer
  <2>2. HeadOf(g) \notin Under(F, HeadOf(h)) /\ HeadOf(h) \notin Under(F, HeadOf(g))
    BY <2>1, HeadsOnTop
  <2>3. Under(F, HeadOf(g)) \cap Under(F, HeadOf(h)) = {}
    BY <2>1, <2>2, UnderApart
  <2> QED
    BY <2>3 DEF Region
<1> QED
  BY <1>1, <1>2, <1>3, <1>4, <1>5, <1>6 DEF RegionsAre

\* What gained little gained no more than that.
LEMMA GainsMore ==
  ASSUME NEW F, NEW G, NEW P, NEW X, Gains(F, G, P, X), NEW Q, P \subseteq Q, NEW Y, X \subseteq Y
  PROVE  Gains(F, G, Q, Y)
BY DEF Gains

\* Within a node is only what was there and what could have come there.
LEMMA UnderGains ==
  ASSUME NEW F, \A p \in Parents : ToSet(F[p]) \subseteq Parents,
         NEW G, \A p \in Parents : ToSet(G[p]) \subseteq Parents, NEW P, NEW X, Gains(F, G, P, X),
         NEW x \in Parents, NEW Z \in SUBSET Parents, Closed(F, Under(F, x) \cup Z),
         \/ (Under(F, x) \cup Z) \cap P = {}
         \/ X \subseteq Under(F, x) \cup Z
  PROVE  Under(G, x) \subseteq Under(F, x) \cup Z
<1> DEFINE T == Under(F, x) \cup Z
<1>1. T \in SUBSET Parents /\ x \in T
  BY UnderIs
<1>2. Closed(G, T)
  <2> SUFFICES ASSUME NEW y \in T PROVE ToSet(G[y]) \subseteq T
    BY DEF Closed
  <2>1. ToSet(G[y]) \subseteq ToSet(F[y]) \cup (IF y \in P THEN X ELSE {})
    BY <1>1 DEF Gains
  <2>2. ToSet(F[y]) \subseteq T
    BY DEF Closed
  <2> QED
    BY <2>1, <2>2
<1> HIDE DEF T
<1>3. Under(G, x) \subseteq T
  BY <1>1, <1>2, UnderIs
<1> QED
  BY <1>3 DEF T

\* Where the nodes of the graphs may be after a turn of g that takes from h.
RegionsStay(F, G, g, h, N) ==
  /\ \A k \in Graphs : k # g => Region(G, k) \subseteq Region(F, k)
  /\ Region(G, g) \subseteq Region(F, g) \cup Region(F, h) \cup N

\* An operation of g brings nodes to g only, from g, from h or new ones.
LEMMA RegionsTurn ==
  ASSUME NEW F, Shape(F, Attached(F)), NEW G, Shape(G, Attached(G)), NEW g \in Graphs, NEW h \in Graphs,
         NEW N, N \subseteq Nodes, N \cap Attached(F) \subseteq Region(F, g),
         NEW P, P \subseteq Region(F, g) \cup {HeadOf(g)} \cup N,
         NEW X, X \subseteq Region(F, g) \cup Region(F, h) \cup {HeadOf(g), HeadOf(h)} \cup N, Gains(F, G, P, X)
  PROVE  RegionsStay(F, G, g, h, N)
<1>1. RegionsAre(F)
  BY RegionsOf
<1>2. /\ \A p \in Parents : ToSet(F[p]) \subseteq Parents
      /\ \A p \in Parents : ToSet(G[p]) \subseteq Parents
      /\ \A p \in Nodes : p \notin Attached(F) => ToSet(F[p]) = {}
  <2>1. \A p \in Nodes : p \notin Attached(F) => F[p] = <<>>
    BY DEF Shape
  <2> QED
    BY <2>1, ShapeIs
<1>3. ASSUME NEW k \in Graphs, k # g
      PROVE  Region(G, k) \subseteq Region(F, k)
  <2>1. HeadOf(k) \in Parents /\ HeadOf(k) # HeadOf(g) /\ HeadOf(k) \notin Nodes /\ HeadOf(g) \notin Nodes
    BY <1>3, ParentsAre, HeadsDiffer
  <2>2. Under(F, HeadOf(k)) = Region(F, k) \cup {HeadOf(k)} /\ Region(F, k) \subseteq Nodes
    BY <1>1 DEF RegionsAre, Region
  <2>3. Region(F, k) \cap Region(F, g) = {} /\ Region(F, k) \subseteq Attached(F) /\ Region(F, g) \subseteq Nodes
    BY <1>1, <1>3 DEF RegionsAre, Region
  <2>4. (Under(F, HeadOf(k)) \cup {}) \cap P = {}
    BY <2>1, <2>2, <2>3
  <2>5. Closed(F, Under(F, HeadOf(k)) \cup {})
    <3>1. Closed(F, Under(F, HeadOf(k)))
      BY <2>1, <1>2, UnderIs
    <3> QED
      BY <3>1
  <2>6. Under(G, HeadOf(k)) \subseteq Under(F, HeadOf(k)) \cup {}
    BY <1>2, <2>1, <2>4, <2>5, UnderGains
  <2> QED
    BY <2>6 DEF Region
<1>4. Region(G, g) \subseteq Region(F, g) \cup Region(F, h) \cup N
  <2> DEFINE Z == Under(F, HeadOf(h)) \cup N
  <2>1. HeadOf(g) \in Parents /\ HeadOf(h) \in Parents /\ HeadOf(h) \notin Nodes /\ HeadOf(g) \notin Nodes
    BY ParentsAre
  <2>2. Closed(F, Under(F, HeadOf(g))) /\ Closed(F, Under(F, HeadOf(h))) /\ Under(F, HeadOf(h)) \subseteq Parents
    BY <2>1, <1>2, UnderIs
  <2>3. /\ Under(F, HeadOf(g)) = Region(F, g) \cup {HeadOf(g)}
        /\ Under(F, HeadOf(h)) = Region(F, h) \cup {HeadOf(h)}
    BY <1>1 DEF RegionsAre
  <2>4. Closed(F, Under(F, HeadOf(g)) \cup Z)
    <3> SUFFICES ASSUME NEW y \in Under(F, HeadOf(g)) \cup Z
                 PROVE  ToSet(F[y]) \subseteq Under(F, HeadOf(g)) \cup Z
      BY DEF Closed
    <3>1. CASE y \in Under(F, HeadOf(g))
      BY <3>1, <2>2 DEF Closed
    <3>2. CASE y \in Under(F, HeadOf(h))
      BY <3>2, <2>2 DEF Closed
    <3>3. CASE y \in N /\ y \notin Under(F, HeadOf(g))
      <4>1. y \notin Attached(F) /\ y \in Nodes
        BY <3>3, <2>3
      <4> QED
        BY <4>1, <1>2
    <3> QED
      BY <3>1, <3>2, <3>3
  <2>5. Z \in SUBSET Parents
    BY <2>2, ParentsAre
  <2>6. X \subseteq Under(F, HeadOf(g)) \cup Z
    BY <2>3
  <2> HIDE DEF Z
  <2>7. Under(G, HeadOf(g)) \subseteq Under(F, HeadOf(g)) \cup Z
    BY <1>2, <2>1, <2>4, <2>5, <2>6, UnderGains
  <2> QED
    BY <2>7, <2>3, <2>1 DEF Region, Z
<1> QED
  BY <1>3, <1>4 DEF RegionsStay

-----------------------------------------------------------------------------
(* Memory.                                                                 *)

\* What is taken out of the graphs and not given back is below a first child.
Cutoff(F, B, U) ==
  \A n \in U \ B : \E p \in Attached(F) :
    F[p] # <<>> /\ n \in Under(F, F[p][1]) /\ Under(F, F[p][1]) \subseteq U \ B

\* No node that erase_children destroys is within a first child that it cuts off.
LEMMA BackBelow ==
  ASSUME NEW L, NEW F, NEW K, NEW E, Linked(L, F, K, E), NEW n \in K, NEW B, B = {n} \cup ErasedBelow(L, n),
         NEW y \in B, F[y] # <<>>
  PROVE  Under(F, F[y][1]) \cap B = {}
<1>1. /\ B \subseteq Under(F, n) /\ Under(F, n) \subseteq K
      /\ \A z \in B : z # n => \E p \in B : z \in Rest(F, p)
  BY ErasedBelowIs
<1>2. /\ Shape(F, K) /\ K \subseteq Nodes /\ y \in Nodes /\ y \in Parents /\ B \subseteq Parents
      /\ B \subseteq K
  BY <1>1, ShapeIs, ParentsAre DEF Linked
<1>3. /\ F[y][1] \in ToSet(F[y]) /\ F[y][1] \in Parents
      /\ \A p \in Parents : ToSet(F[p]) \subseteq Parents
      /\ \A p, q \in Parents, x \in K : x \in ToSet(F[p]) /\ x \in ToSet(F[q]) => p = q
      /\ \A p \in Parents : ToSet(F[p]) \subseteq K
  <2>1. F[y] \in Seq(K)
    BY <1>2, ShapeIs
  <2>2. Len(F[y]) \in Nat /\ Len(F[y]) # 0
    BY <2>1, SetOf
  <2>3. 1 \in 1 .. Len(F[y])
    BY <2>2
  <2> QED
    BY <2>3, <1>2, ShapeIs
<1> DEFINE f == F[y][1]
<1> DEFINE S == Under(F, f) \cap B
<1> SUFFICES ASSUME S # {} PROVE FALSE
  OBVIOUS
<1>4. PICK z \in S : \A p \in S : z \notin ToSet(F[p])
  <2>1. Grounded(F, K)
    BY <1>2 DEF Shape
  <2>2. S \in SUBSET K
    BY <1>2
  <2> HIDE DEF S
  <2> QED
    BY <2>1, <2>2 DEF Grounded
<1>5. y \notin Under(F, f)
  BY <1>2, <1>3, Acyclic
<1>6. z # n
  <2> SUFFICES ASSUME z = n PROVE FALSE
    OBVIOUS
  <2>1. Under(F, n) \subseteq Under(F, f)
    BY <1>3, <1>4, UnderIs
  <2> QED
    BY <2>1, <1>1, <1>5
<1>7. PICK p \in B : z \in Rest(F, p)
  BY <1>1, <1>4, <1>6
<1>8. p \in Parents /\ z \in ToSet(F[p]) /\ z # F[p][1] /\ z \in K
  BY <1>7, <1>2, <1>4 DEF Rest
<1>9. p \notin Under(F, f)
  BY <1>4, <1>7, <1>8
<1>10. z = f
  <2>1. \A v \in Under(F, f) : v # f => \E q \in Under(F, f) : v \in ToSet(F[q])
    BY <1>3, UnderIs
  <2> SUFFICES ASSUME z # f PROVE FALSE
    OBVIOUS
  <2>2. PICK q \in Under(F, f) : z \in ToSet(F[q])
    BY <2>1, <1>4
  <2>3. q \in Parents
    BY <2>2 DEF Under
  <2> QED
    BY <2>2, <2>3, <1>3, <1>8, <1>9
<1>11. p = y
  BY <1>10, <1>8, <1>3, <1>2
<1> QED
  BY <1>8, <1>10, <1>11

\* What erase and erase_children take out and do not destroy is within a first child.
LEMMA CutoffBelow ==
  ASSUME NEW L, NEW F, NEW E, Fits(L, F, E), NEW n \in Attached(F), NEW B, B = {n} \cup ErasedBelow(L, n)
  PROVE  /\ Cutoff(F, B, Under(F, n)) /\ Cutoff(F, ErasedBelow(L, n), Under(F, n) \ {n})
         /\ B \subseteq Under(F, n) /\ Under(F, n) \subseteq Attached(F) /\ n \notin ErasedBelow(L, n)
<1>1. Linked(L, F, Attached(F), E) /\ Shape(F, Attached(F))
  BY DEF Fits, Linked
<1>2. /\ B \subseteq Under(F, n) /\ Under(F, n) \subseteq Attached(F) /\ n \notin ErasedBelow(L, n)
      /\ \A y \in B : Rest(F, y) \subseteq B
  BY <1>1, ErasedBelowIs
<1>3. /\ Attached(F) \subseteq Nodes /\ Attached(F) \subseteq Parents
      /\ \A p \in Parents : ToSet(F[p]) \subseteq Parents /\ ToSet(F[p]) \subseteq Attached(F)
      /\ \A p \in Parents : F[p] = <<>> => ToSet(F[p]) = {}
  BY <1>1, ShapeIs, ParentsAre
<1>4. ASSUME NEW z \in Under(F, n) \ B
      PROVE  \E y \in B : F[y] # <<>> /\ z \in Under(F, F[y][1])
  <2> DEFINE T == B \cup UNION {Under(F, F[y][1]) : y \in {v \in B : F[v] # <<>>}}
  <2>1. ASSUME NEW y \in B, F[y] # <<>>
        PROVE  F[y][1] \in Parents /\ F[y][1] \in Under(F, F[y][1])
    <3>1. F[y] \in Seq(Attached(F)) /\ y \in Parents
      BY <1>1, <1>2, <1>3, ShapeIs
    <3>2. Len(F[y]) \in Nat /\ Len(F[y]) # 0
      BY <2>1, <3>1, SetOf
    <3>3. 1 \in 1 .. Len(F[y])
      BY <3>2
    <3>4. F[y][1] \in Parents
      BY <3>1, <3>3, <1>1, <1>3, ShapeIs
    <3> QED
      BY <3>4, <1>3, UnderIs
  <2>2. T \in SUBSET Parents /\ n \in T
    BY <1>2, <1>3 DEF Under
  <2>3. Closed(F, T)
    <3> SUFFICES ASSUME NEW v \in T, NEW w \in ToSet(F[v]) PROVE w \in T
      BY DEF Closed
    <3>1. CASE v \in B
      <4>1. F[v] # <<>>
        BY <3>1, <1>2, <1>3
      <4>2. w = F[v][1] \/ w \in Rest(F, v)
        BY <4>1 DEF Rest
      <4> QED
        BY <4>1, <4>2, <3>1, <1>2, <2>1
    <3>2. ASSUME NEW y \in B, F[y] # <<>>, v \in Under(F, F[y][1])
          PROVE  w \in T
      <4>1. Closed(F, Under(F, F[y][1]))
        BY <2>1, <3>2, <1>3, UnderIs
      <4>2. w \in Under(F, F[y][1])
        BY <4>1, <3>2 DEF Closed
      <4> QED
        BY <4>2, <3>2
    <3> QED
      BY <3>1, <3>2
  <2>4. n \in Parents
    BY <1>3
  <2> HIDE DEF T
  <2>5. Under(F, n) \subseteq T
    BY <2>2, <2>3, <2>4, <1>3, UnderIs
  <2> USE DEF T
  <2> QED
    BY <2>5
<1>5. ASSUME NEW z \in Under(F, n) \ B
      PROVE  \E p \in Attached(F) : /\ F[p] # <<>> /\ z \in Under(F, F[p][1])
                                    /\ Under(F, F[p][1]) \subseteq Under(F, n) \ B
  <2>1. PICK y \in B : F[y] # <<>> /\ z \in Under(F, F[y][1])
    BY <1>4
  <2>2. y \in Attached(F) /\ y \in Parents /\ n \in Parents /\ y \in Under(F, n)
    BY <1>2, <1>3
  <2>3. Under(F, F[y][1]) \cap B = {}
    BY <1>1, <2>1, BackBelow
  <2>4. Under(F, F[y][1]) \subseteq Under(F, n)
    <3>1. F[y][1] \in Under(F, y)
      <4>1. F[y] \in Seq(Attached(F))
        BY <1>1, <2>2, ShapeIs
      <4>2. Len(F[y]) \in Nat /\ Len(F[y]) # 0
        BY <2>1, <4>1, SetOf
      <4>3. 1 \in 1 .. Len(F[y])
        BY <4>2
      <4>4. F[y][1] \in ToSet(F[y])
        BY <4>1, <4>3, <2>2, <1>1, ShapeIs
      <4> QED
        BY <4>4, <2>2, <1>3, UnderIs
    <3>2. Under(F, y) \subseteq Under(F, n)
      BY <2>2, <1>3, UnderIs
    <3>3. Under(F, F[y][1]) \subseteq Under(F, y)
      BY <3>1, <2>2, <1>3, UnderIs
    <3> QED
      BY <3>2, <3>3
  <2> QED
    BY <2>1, <2>2, <2>3, <2>4
<1>6. Cutoff(F, B, Under(F, n))
  BY <1>5 DEF Cutoff
<1>7. Cutoff(F, ErasedBelow(L, n), Under(F, n) \ {n})
  <2>1. (Under(F, n) \ {n}) \ ErasedBelow(L, n) = Under(F, n) \ B
    OBVIOUS
  <2> QED
    BY <2>1, <1>5 DEF Cutoff
<1> QED
  BY <1>2, <1>6, <1>7

\* What clear() takes out and does not destroy is within a first child.
LEMMA CutoffCleared ==
  ASSUME NEW F, NEW E, Fits(link, F, E), NEW g \in E
  PROVE  /\ Cutoff(F, ClearedNodes(g), Region(F, g))
         /\ ClearedNodes(g) \subseteq Region(F, g) /\ g \in Graphs
<1>1. Linked(link, F, Attached(F), E) /\ Shape(F, Attached(F)) /\ g \in Graphs
  BY DEF Fits, Linked
<1> DEFINE h == HeadOf(g)
<1> DEFINE Back(n) == {n} \cup ErasedBelow(link, n)
<1>2. h \in Parents /\ h \notin Nodes
  BY <1>1, ParentsAre
<1>3. /\ \A p \in Parents : ToSet(F[p]) \subseteq Parents /\ ToSet(F[p]) \subseteq Attached(F)
      /\ \A p, q \in Parents, x \in Attached(F) : x \in ToSet(F[p]) /\ x \in ToSet(F[q]) => p = q
      /\ Attached(F) \subseteq Parents
  BY <1>1, ShapeIs
<1>4. ClearedNodes(g) = UNION {Back(n) : n \in ToSet(F[h])} /\ ToSet(F[h]) \subseteq Attached(F)
  BY <1>1, ClearedIn
<1>5. ClearedNodes(g) \subseteq Region(F, g)
  BY ClearedIn DEF Region
<1>6. ASSUME NEW n \in ToSet(F[h]), NEW m \in ToSet(F[h]), n # m
      PROVE  m \notin Under(F, n)
  <2> SUFFICES ASSUME m \in Under(F, n) PROVE FALSE
    OBVIOUS
  <2>1. n \in Parents /\ m \in Attached(F)
    BY <1>4, <1>3
  <2>2. \A z \in Under(F, n) : z # n => \E p \in Under(F, n) : z \in ToSet(F[p])
    BY <1>3, <2>1, UnderIs
  <2>3. PICK p \in Under(F, n) : m \in ToSet(F[p])
    BY <1>6, <2>2
  <2>4. p \in Parents
    BY DEF Under
  <2>5. p = h
    BY <1>2, <1>3, <2>1, <2>3, <2>4
  <2>6. h \notin Under(F, n)
    BY <1>1, <1>2, Acyclic
  <2> QED
    BY <2>5, <2>6
<1>7. ASSUME NEW z \in Region(F, g) \ ClearedNodes(g)
      PROVE  \E p \in Attached(F) : /\ F[p] # <<>> /\ z \in Under(F, F[p][1])
                                    /\ Under(F, F[p][1]) \subseteq Region(F, g) \ ClearedNodes(g)
  <2>1. PICK n \in ToSet(F[h]) : z \in Under(F, n)
    <3>1. Under(F, h) = {h} \cup UNION {Under(F, y) : y \in ToSet(F[h])}
      BY <1>2, <1>3, UnderIs
    <3>2. z \in Under(F, h) /\ z # h
      BY <1>2 DEF Region
    <3> QED
      BY <3>1, <3>2
  <2>2. n \in Attached(F) /\ n \in Parents
    BY <1>3, <1>4
  <2>3. z \in Under(F, n) \ Back(n)
    BY <1>4, <2>1
  <2>4. Cutoff(F, Back(n), Under(F, n))
    BY <2>2, CutoffBelow
  <2>5. PICK p \in Attached(F) : /\ F[p] # <<>> /\ z \in Under(F, F[p][1])
                                 /\ Under(F, F[p][1]) \subseteq Under(F, n) \ Back(n)
    BY <2>3, <2>4 DEF Cutoff
  <2>6. ASSUME NEW m \in ToSet(F[h]), m # n
        PROVE  Under(F, n) \cap Back(m) = {}
    <3>1. m \in Attached(F) /\ m \in Parents
      BY <1>3, <1>4
    <3>2. Back(m) \subseteq Under(F, m)
      BY <3>1, CutoffBelow
    <3>3. Under(F, n) \cap Under(F, m) = {}
      BY <1>1, <1>6, <2>2, <2>6, <3>1, UnderApart
    <3> QED
      BY <3>2, <3>3
  <2>7. n \in Region(F, g)
    <3>1. n \in Under(F, h)
      BY <1>2, <1>3, UnderIs
    <3>2. n \in Nodes
      BY <1>1, <2>2, ShapeIs
    <3> QED
      BY <3>1, <3>2 DEF Region
  <2>8. Under(F, n) \subseteq Region(F, g)
    BY <1>1, <2>7, RegionsOf DEF RegionsAre
  <2> QED
    BY <1>4, <2>5, <2>6, <2>8
<1> QED
  BY <1>1, <1>5, <1>7 DEF Cutoff

\* g keeps the memory of allocator o: its own, one it stole, or that of the graph
\* whose merge into it has begun.
Keeps(g, o, st, mg) == o = g \/ o \in st[g] \/ (g = Main /\ o = mg /\ mg # NoNode)

\* The invariant of the memory. Nodes with a place are constructed and no constructed
\* node lies in memory that was given back; a graph keeps the allocators of its nodes
\* and of its dangling slots; a dangling slot is no node and dangles once; only the
\* main graph steals; the registry holds the allocators that a graph holds.
Safe(F, lv, ow, dg, ex, st, rg, mg) ==
  /\ lv \subseteq Nodes /\ ow \in [Nodes -> Graphs \cup {NoNode}] /\ ex \subseteq Graphs
  /\ dg \in [Graphs -> SUBSET Nodes] /\ st \in [Graphs -> SUBSET Graphs]
  /\ Attached(F) \subseteq lv /\ \A n \in lv : ow[n] # NoNode
  /\ \A g \in ex : \A n \in Region(F, g) \cup dg[g] : Keeps(g, ow[n], st, mg)
  /\ \A g \in Graphs : dg[g] \cap lv = {} /\ (g \notin ex => dg[g] = {})
  /\ \A g, h \in Graphs : g # h => dg[g] \cap dg[h] = {}
  /\ \A g \in Graphs : g # Main \/ g \notin ex => st[g] = {}
  /\ st[Main] \subseteq Graphs \ {Main}
  /\ mg = NoNode \/ (mg \in ex \ {Main} /\ Main \in ex)
  /\ rg = {g \in Graphs : \E h \in ex : h = g \/ g \in st[h]}

\* What an allocator gets back, constructs, cuts and ends with.
Taken(ow, dg, g, B, T, got, free) ==
  /\ T \subseteq Nodes /\ free \subseteq Nodes /\ got \subseteq Nodes
  /\ \A n \in got : n \in dg[g] \cup B \/ ow[n] = NoNode
  /\ T \cup free \subseteq dg[g] \cup B \cup got /\ T \cap free = {}

\* An operation of g, which may take nodes of h: B are destroyed, T constructed.
Stirred(F, G, lv, ow, dg, ex, mg, lv2, ow2, dg2, mh, g, h, B, T, got, free) ==
  /\ g \in ex /\ h \in ex /\ B \subseteq Region(F, g) /\ B \subseteq lv
  /\ Taken(ow, dg, g, B, T, got, free)
  /\ RegionsStay(F, G, g, h, T) /\ Attached(G) \subseteq (lv \ B) \cup T
  /\ \/ h = g /\ mh = mg
     \/ g = Main /\ h # Main /\ mg \in {NoNode, h} /\ mh = h
  /\ lv2 = (lv \ B) \cup T /\ dg2 = [dg EXCEPT ![g] = free]
  /\ ow2 = [n \in Nodes |-> IF n \in got /\ ow[n] = NoNode THEN g ELSE ow[n]]

\* An operation that destroys, constructs and moves nodes keeps the memory safe.
LEMMA MemoryMoves ==
  ASSUME NEW F, NEW lv, NEW ow, NEW dg, NEW ex, NEW st, NEW rg, NEW mg,
         Safe(F, lv, ow, dg, ex, st, rg, mg), NEW G, NEW lv2, NEW ow2, NEW dg2, NEW mh,
         NEW g, NEW h, NEW B, NEW T, NEW got, NEW free,
         Stirred(F, G, lv, ow, dg, ex, mg, lv2, ow2, dg2, mh, g, h, B, T, got, free)
  PROVE  Safe(G, lv2, ow2, dg2, ex, st, rg, mh)
<1>0. /\ g \in ex /\ h \in ex /\ B \subseteq Region(F, g) /\ B \subseteq lv
      /\ Taken(ow, dg, g, B, T, got, free)
      /\ RegionsStay(F, G, g, h, T) /\ Attached(G) \subseteq (lv \ B) \cup T
      /\ \/ h = g /\ mh = mg
         \/ g = Main /\ h # Main /\ mg \in {NoNode, h} /\ mh = h
      /\ lv2 = (lv \ B) \cup T /\ dg2 = [dg EXCEPT ![g] = free]
      /\ ow2 = [n \in Nodes |-> IF n \in got /\ ow[n] = NoNode THEN g ELSE ow[n]]
  BY DEF Stirred
<1> USE <1>0
<1>1. /\ lv \subseteq Nodes /\ ow \in [Nodes -> Graphs \cup {NoNode}] /\ ex \subseteq Graphs
      /\ dg \in [Graphs -> SUBSET Nodes] /\ st \in [Graphs -> SUBSET Graphs]
      /\ \A n \in lv : ow[n] # NoNode
      /\ \A k \in ex : \A n \in Region(F, k) \cup dg[k] : Keeps(k, ow[n], st, mg)
      /\ \A k \in Graphs : dg[k] \cap lv = {} /\ (k \notin ex => dg[k] = {})
      /\ \A k, j \in Graphs : k # j => dg[k] \cap dg[j] = {}
      /\ \A k \in Graphs : k # Main \/ k \notin ex => st[k] = {}
      /\ st[Main] \subseteq Graphs \ {Main}
      /\ mg = NoNode \/ (mg \in ex \ {Main} /\ Main \in ex)
      /\ rg = {k \in Graphs : \E j \in ex : j = k \/ k \in st[j]}
  BY DEF Safe
<1>2. g \in Graphs /\ h \in Graphs /\ NoNode \notin Graphs /\ Main \in Graphs
  BY <1>1, GraphAssumption DEF NoNode
<1>3. /\ T \subseteq Nodes /\ free \subseteq Nodes /\ got \subseteq Nodes
      /\ \A n \in got : n \in dg[g] \cup B \/ ow[n] = NoNode
      /\ T \subseteq dg[g] \cup B \cup got /\ free \subseteq dg[g] \cup B \cup got /\ T \cap free = {}
  BY DEF Taken
<1>4. /\ \A n \in Nodes : ow2[n] = IF n \in got /\ ow[n] = NoNode THEN g ELSE ow[n]
      /\ ow2 \in [Nodes -> Graphs \cup {NoNode}]
  BY <1>1, <1>2
<1>5. /\ dg2 \in [Graphs -> SUBSET Nodes] /\ dg2[g] = free
      /\ \A k \in Graphs : k # g => dg2[k] = dg[k]
  BY <1>1, <1>2, <1>3
<1>6. ASSUME NEW k \in ex, NEW o, Keeps(k, o, st, mg)
      PROVE  o # NoNode /\ Keeps(k, o, st, mh)
  <2>1. st[k] \subseteq Graphs /\ k \in Graphs
    BY <1>1
  <2> QED
    BY <2>1, <1>2, <1>6 DEF Keeps
<1>7. ASSUME NEW k \in ex, NEW n \in Nodes, Keeps(k, ow[n], st, mg)
      PROVE  Keeps(k, ow2[n], st, mh)
  BY <1>4, <1>6, <1>7
<1>8. ASSUME NEW n \in dg[g] \cup B
      PROVE  n \in Nodes /\ Keeps(g, ow2[n], st, mh)
  <2>1. n \in Nodes
    BY <1>1, <1>2
  <2>2. Keeps(g, ow[n], st, mg)
    BY <1>1
  <2> QED
    BY <2>1, <2>2, <1>7
<1>9. ASSUME NEW n \in T \cup free
      PROVE  n \in Nodes /\ Keeps(g, ow2[n], st, mh)
  <2>1. CASE n \in dg[g] \cup B
    BY <1>8, <2>1
  <2>2. CASE n \in got /\ ow[n] = NoNode
    <3>1. ow2[n] = g /\ n \in Nodes
      BY <1>3, <1>4, <2>2
    <3> QED
      BY <3>1 DEF Keeps
  <2> QED
    BY <1>3, <2>1, <2>2
<1>10. ASSUME NEW n \in Region(F, h)
       PROVE  Keeps(g, ow2[n], st, mh)
  <2>1. n \in Nodes /\ Keeps(h, ow[n], st, mg)
    BY <1>1 DEF Region
  <2>2. CASE h = g
    BY <2>1, <2>2, <1>7
  <2>3. CASE g = Main /\ h # Main /\ mh = h
    <3>1. ow[n] = h
      <4>1. st[h] = {}
        BY <1>1, <1>2, <2>3
      <4> QED
        BY <4>1, <2>1, <2>3 DEF Keeps
    <3>2. ow2[n] = h /\ h # NoNode
      BY <3>1, <2>1, <1>2, <1>4
    <3> QED
      BY <3>2, <2>3 DEF Keeps
  <2> QED
    BY <2>2, <2>3
<1>11. \A k \in ex : \A n \in Region(G, k) \cup dg2[k] : Keeps(k, ow2[n], st, mh)
  <2> SUFFICES ASSUME NEW k \in ex, NEW n \in Region(G, k) \cup dg2[k] PROVE Keeps(k, ow2[n], st, mh)
    OBVIOUS
  <2>1. CASE k # g
    <3>1. n \in Region(F, k) \cup dg[k] /\ k \in Graphs
      BY <1>1, <1>5, <2>1 DEF RegionsStay
    <3>2. n \in Nodes /\ Keeps(k, ow[n], st, mg)
      BY <3>1, <1>1 DEF Region
    <3> QED
      BY <3>2, <1>7
  <2>2. CASE k = g
    <3>1. n \in Region(F, g) \cup Region(F, h) \cup T \cup free
      BY <1>5, <2>2 DEF RegionsStay
    <3>2. CASE n \in Region(F, g)
      <4>1. n \in Nodes /\ Keeps(g, ow[n], st, mg)
        BY <3>2, <1>1 DEF Region
      <4> QED
        BY <4>1, <2>2, <1>7
    <3> QED
      BY <3>1, <3>2, <2>2, <1>9, <1>10
  <2> QED
    BY <2>1, <2>2
<1>12. ASSUME NEW n \in got \cup T \cup free
       PROVE  /\ n \in lv => n \in B
              /\ \A k \in Graphs : k # g => n \notin dg[k]
  <2>1. n \in dg[g] \cup B \/ (n \in got /\ ow[n] = NoNode)
    BY <1>3
  <2>2. n \in lv => n \in B
    BY <2>1, <1>1, <1>2
  <2>3. ASSUME NEW k \in Graphs, k # g, n \in dg[k]
        PROVE  FALSE
    <3>1. k \in ex
      BY <2>3, <1>1
    <3>2. ow[n] # NoNode
      BY <3>1, <2>3, <1>1, <1>6
    <3>3. n \in B
      BY <3>2, <2>1, <2>3, <1>1, <1>2
    <3> QED
      BY <3>3, <2>3, <1>1
  <2> QED
    BY <2>2, <2>3
<1>13. \A k \in Graphs : dg2[k] \cap lv2 = {} /\ (k \notin ex => dg2[k] = {})
  <2> SUFFICES ASSUME NEW k \in Graphs PROVE dg2[k] \cap lv2 = {} /\ (k \notin ex => dg2[k] = {})
    OBVIOUS
  <2>1. CASE k = g
    BY <2>1, <1>3, <1>5, <1>12
  <2>2. CASE k # g
    <3>1. dg2[k] = dg[k] /\ dg[k] \cap lv = {} /\ (k \notin ex => dg[k] = {})
      BY <2>2, <1>1, <1>5
    <3>2. dg[k] \cap T = {}
      BY <2>2, <1>12
    <3> QED
      BY <3>1, <3>2
  <2> QED
    BY <2>1, <2>2
<1>14. \A k, j \in Graphs : k # j => dg2[k] \cap dg2[j] = {}
  BY <1>1, <1>5, <1>12
<1>15. lv2 \subseteq Nodes /\ \A n \in lv2 : ow2[n] # NoNode
  <2>1. ASSUME NEW n \in lv PROVE ow2[n] # NoNode /\ n \in Nodes
    <3>1. n \in Nodes /\ ow[n] # NoNode
      BY <1>1
    <3> QED
      BY <3>1, <1>4
  <2>2. ASSUME NEW n \in T PROVE ow2[n] # NoNode /\ n \in Nodes
    <3>1. n \in Nodes /\ Keeps(g, ow2[n], st, mh)
      BY <1>9
    <3>2. mh = mg \/ mh = h
      OBVIOUS
    <3>3. st[g] \subseteq Graphs
      BY <1>1, <1>2
    <3> QED
      BY <3>1, <3>3, <1>2 DEF Keeps
  <2> QED
    BY <2>1, <2>2
<1>16. mh = NoNode \/ (mh \in ex \ {Main} /\ Main \in ex)
  BY <1>1
<1> QED
  BY <1>1, <1>4, <1>5, <1>11, <1>13, <1>14, <1>15, <1>16 DEF Safe

\* A graph without tops has no nodes.
LEMMA EmptyRegion ==
  ASSUME NEW F, NEW K, Shape(F, K), NEW g \in Graphs, F[HeadOf(g)] = <<>>
  PROVE  Region(F, g) = {}
<1>1. HeadOf(g) \in Parents /\ HeadOf(g) \notin Nodes
  BY ParentsAre
<1>2. \A p \in Parents : ToSet(F[p]) \subseteq Parents /\ (F[p] = <<>> => ToSet(F[p]) = {})
  BY ShapeIs
<1>3. Under(F, HeadOf(g)) = {HeadOf(g)} \cup UNION {Under(F, y) : y \in ToSet(F[HeadOf(g)])}
  BY <1>1, <1>2, UnderIs
<1>4. ToSet(F[HeadOf(g)]) = {}
  BY <1>1, <1>2
<1>5. Under(F, HeadOf(g)) = {HeadOf(g)}
  BY <1>3, <1>4
<1> QED
  BY <1>1, <1>5 DEF Region

\* The end of a merge: the allocator of h is kept from now on.
LEMMA StealSafe ==
  ASSUME NEW F, NEW lv, NEW ow, NEW dg, NEW ex, NEW st, NEW rg, NEW mg,
         Safe(F, lv, ow, dg, ex, st, rg, mg), Main \in ex, NEW h \in ex \ {Main}, mg \in {NoNode, h}
  PROVE  Safe(F, lv, ow, dg, ex, [st EXCEPT ![Main] = st[Main] \cup {h}], rg, NoNode)
<1> DEFINE st2 == [st EXCEPT ![Main] = st[Main] \cup {h}]
<1>1. /\ lv \subseteq Nodes /\ ow \in [Nodes -> Graphs \cup {NoNode}] /\ ex \subseteq Graphs
      /\ dg \in [Graphs -> SUBSET Nodes] /\ st \in [Graphs -> SUBSET Graphs]
      /\ Attached(F) \subseteq lv /\ \A n \in lv : ow[n] # NoNode
      /\ \A g \in ex : \A n \in Region(F, g) \cup dg[g] : Keeps(g, ow[n], st, mg)
      /\ \A g \in Graphs : dg[g] \cap lv = {} /\ (g \notin ex => dg[g] = {})
      /\ \A g, k \in Graphs : g # k => dg[g] \cap dg[k] = {}
      /\ \A g \in Graphs : g # Main \/ g \notin ex => st[g] = {}
      /\ st[Main] \subseteq Graphs \ {Main}
      /\ rg = {g \in Graphs : \E k \in ex : k = g \/ g \in st[k]}
  BY DEF Safe
<1>2. Main \in Graphs /\ h \in Graphs /\ h # Main
  BY <1>1, GraphAssumption
<1>3. /\ st2 \in [Graphs -> SUBSET Graphs] /\ st2[Main] = st[Main] \cup {h}
      /\ \A g \in Graphs : g # Main => st2[g] = st[g]
  BY <1>1, <1>2
<1> HIDE DEF st2
<1>4. ASSUME NEW g \in ex, NEW n \in Region(F, g) \cup dg[g]
      PROVE  Keeps(g, ow[n], st2, NoNode)
  <2>1. Keeps(g, ow[n], st, mg) /\ g \in Graphs
    BY <1>1
  <2>2. st[g] \subseteq st2[g]
    BY <1>3, <2>1
  <2> QED
    BY <2>1, <2>2, <1>3 DEF Keeps
<1>5. \A g \in Graphs : g # Main \/ g \notin ex => st2[g] = {}
  BY <1>1, <1>3
<1>6. st2[Main] \subseteq Graphs \ {Main}
  BY <1>1, <1>2, <1>3
<1>7. rg = {g \in Graphs : \E k \in ex : k = g \/ g \in st2[k]}
  <2>1. ASSUME NEW g \in Graphs
        PROVE  (\E k \in ex : k = g \/ g \in st2[k]) <=> (\E k \in ex : k = g \/ g \in st[k])
    <3>1. CASE g = h
      BY <3>1
    <3>2. CASE g # h
      <4>1. \A k \in ex : g \in st2[k] <=> g \in st[k]
        BY <1>1, <1>3, <3>2
      <4> QED
        BY <4>1
    <3> QED
      BY <3>1, <3>2
  <2> QED
    BY <2>1, <1>1
<1>8. Safe(F, lv, ow, dg, ex, st2, rg, NoNode)
  BY <1>1, <1>3, <1>4, <1>5, <1>6, <1>7 DEF Safe
<1> QED
  BY <1>8 DEF st2

\* A new graph has an allocator of its own.
LEMMA ConstructSafe ==
  ASSUME NEW F, NEW lv, NEW ow, NEW dg, NEW ex, NEW st, NEW rg,
         Safe(F, lv, ow, dg, ex, st, rg, NoNode), NEW g \in Graphs \ ex, Region(F, g) = {}
  PROVE  Safe(F, lv, ow, [dg EXCEPT ![g] = {}], ex \cup {g}, st, rg \cup {g}, NoNode)
<1> DEFINE dg2 == [dg EXCEPT ![g] = {}]
<1>1. /\ lv \subseteq Nodes /\ ow \in [Nodes -> Graphs \cup {NoNode}] /\ ex \subseteq Graphs
      /\ dg \in [Graphs -> SUBSET Nodes] /\ st \in [Graphs -> SUBSET Graphs]
      /\ Attached(F) \subseteq lv /\ \A n \in lv : ow[n] # NoNode
      /\ \A k \in ex : \A n \in Region(F, k) \cup dg[k] : Keeps(k, ow[n], st, NoNode)
      /\ \A k \in Graphs : dg[k] \cap lv = {} /\ (k \notin ex => dg[k] = {})
      /\ \A j, k \in Graphs : j # k => dg[j] \cap dg[k] = {}
      /\ \A k \in Graphs : k # Main \/ k \notin ex => st[k] = {}
      /\ st[Main] \subseteq Graphs \ {Main}
      /\ rg = {j \in Graphs : \E k \in ex : k = j \/ j \in st[k]}
  BY DEF Safe
<1>2. dg2 = dg
  BY <1>1
<1>3. st[g] = {}
  BY <1>1
<1>4. rg \cup {g} = {j \in Graphs : \E k \in ex \cup {g} : k = j \/ j \in st[k]}
  BY <1>1, <1>3
<1>5. \A k \in ex \cup {g} : \A n \in Region(F, k) \cup dg[k] : Keeps(k, ow[n], st, NoNode)
  BY <1>1
<1>6. Safe(F, lv, ow, dg, ex \cup {g}, st, rg \cup {g}, NoNode)
  <2>1. ex \cup {g} \subseteq Graphs /\ \A k \in Graphs : k \notin ex \cup {g} => k \notin ex
    BY <1>1
  <2> QED
    BY <2>1, <1>1, <1>4, <1>5 DEF Safe
<1> QED
  BY <1>2, <1>6

\* ~graph: the nodes B are destroyed and the slots `gone' given back.
Razed(F, G, lv, ow, dg, ex, st, lv2, ow2, dg2, st2, stay, g, B, gone) ==
  /\ g \in ex /\ B \subseteq Region(F, g) /\ gone = {n \in Nodes : ow[n] \notin stay}
  /\ stay = {a \in Graphs : \E k \in ex \ {g} : k = a \/ a \in st[k]}
  /\ RegionsStay(F, G, g, g, {}) /\ Attached(G) = Attached(F) \ Region(F, g) /\ RegionsAre(F)
  /\ \A k \in Graphs \ ex : Region(F, k) = {}
  /\ lv2 = (lv \ B) \ gone /\ ow2 = [n \in Nodes |-> IF n \in gone THEN NoNode ELSE ow[n]]
  /\ dg2 = [dg EXCEPT ![g] = {}] /\ st2 = [st EXCEPT ![g] = {}]

\* What the other graphs have lies in memory that ~graph does not give back.
LEMMA DestroySafe ==
  ASSUME NEW F, NEW lv, NEW ow, NEW dg, NEW ex, NEW st, NEW rg,
         Safe(F, lv, ow, dg, ex, st, rg, NoNode), NEW G, NEW lv2, NEW ow2, NEW dg2, NEW st2, NEW stay,
         NEW g, NEW B, NEW gone, Razed(F, G, lv, ow, dg, ex, st, lv2, ow2, dg2, st2, stay, g, B, gone)
  PROVE  Safe(G, lv2, ow2, dg2, ex \ {g}, st2, stay, NoNode)
<1> USE DEF Razed
<1>1. /\ lv \subseteq Nodes /\ ow \in [Nodes -> Graphs \cup {NoNode}] /\ ex \subseteq Graphs
      /\ dg \in [Graphs -> SUBSET Nodes] /\ st \in [Graphs -> SUBSET Graphs]
      /\ Attached(F) \subseteq lv /\ \A n \in lv : ow[n] # NoNode
      /\ \A k \in ex : \A n \in Region(F, k) \cup dg[k] : Keeps(k, ow[n], st, NoNode)
      /\ \A k \in Graphs : dg[k] \cap lv = {} /\ (k \notin ex => dg[k] = {})
      /\ \A j, k \in Graphs : j # k => dg[j] \cap dg[k] = {}
      /\ \A k \in Graphs : k # Main \/ k \notin ex => st[k] = {}
      /\ st[Main] \subseteq Graphs \ {Main}
  BY DEF Safe
<1>2. g \in Graphs /\ Main \in Graphs /\ NoNode \notin Graphs /\ NoNode \notin stay
  BY <1>1, GraphAssumption DEF NoNode
<1>3. /\ ow2 \in [Nodes -> Graphs \cup {NoNode}]
      /\ \A n \in Nodes : n \notin gone => ow2[n] = ow[n]
  BY <1>1
<1>4. dg2 \in [Graphs -> SUBSET Nodes] /\ dg2[g] = {} /\ \A k \in Graphs : k # g => dg2[k] = dg[k]
  BY <1>1, <1>2
<1>5. st2 \in [Graphs -> SUBSET Graphs] /\ st2[g] = {} /\ \A k \in Graphs : k # g => st2[k] = st[k]
  BY <1>1, <1>2
<1>6. ASSUME NEW k \in ex \ {g}, NEW n \in Region(F, k) \cup dg[k]
      PROVE  n \in Nodes \ gone
  <2>1. n \in Nodes /\ Keeps(k, ow[n], st, NoNode) /\ k \in Graphs
    BY <1>1 DEF Region
  <2>2. ow[n] \in stay
    <3>1. ow[n] = k \/ ow[n] \in st[k]
      BY <2>1 DEF Keeps
    <3>2. ow[n] \in Graphs
      BY <3>1, <2>1, <1>1
    <3> QED
      BY <3>1, <3>2
  <2> QED
    BY <2>1, <2>2
<1>7. ASSUME NEW x \in Attached(G)
      PROVE  \E k \in ex \ {g} : x \in Region(F, k)
  <2>1. PICK k \in Graphs : x \in Region(F, k)
    BY DEF RegionsAre
  <2>2. k # g
    BY <2>1
  <2>3. k \in ex
    BY <2>1, <2>2
  <2> QED
    BY <2>1, <2>2, <2>3
<1>8. gone \cap Attached(G) = {}
  BY <1>6, <1>7
<1>9. Attached(G) \subseteq lv2 /\ lv2 \subseteq Nodes /\ \A n \in lv2 : ow2[n] # NoNode
  BY <1>1, <1>3, <1>8
<1>10. ASSUME NEW k \in ex \ {g}, NEW n \in Region(G, k) \cup dg2[k]
       PROVE  Keeps(k, ow2[n], st2, NoNode)
  <2>1. k \in Graphs /\ k # g
    BY <1>1
  <2>2. n \in Region(F, k) \cup dg[k]
    BY <1>4, <2>1 DEF RegionsStay
  <2>3. n \in Nodes \ gone /\ Keeps(k, ow[n], st, NoNode)
    BY <1>1, <1>6, <2>2
  <2>4. ow2[n] = ow[n] /\ st2[k] = st[k]
    BY <1>3, <1>5, <2>1, <2>3
  <2> QED
    BY <2>3, <2>4 DEF Keeps
<1>11. \A k \in Graphs : dg2[k] \cap lv2 = {} /\ (k \notin ex \ {g} => dg2[k] = {})
  BY <1>1, <1>4
<1>12. \A j, k \in Graphs : j # k => dg2[j] \cap dg2[k] = {}
  BY <1>1, <1>4
<1>13. /\ \A k \in Graphs : k # Main \/ k \notin ex \ {g} => st2[k] = {}
       /\ st2[Main] \subseteq Graphs \ {Main}
  BY <1>1, <1>2, <1>5
<1>14. stay = {a \in Graphs : \E k \in ex \ {g} : k = a \/ a \in st2[k]}
  BY <1>1, <1>5
<1> QED
  BY <1>1, <1>3, <1>4, <1>5, <1>9, <1>10, <1>11, <1>12, <1>13, <1>14 DEF Safe

\* What is lost by a step was within a first child, and all that was is lost.
Loses(F, G, lv, lv2, ow2) ==
  \A n \in (lv2 \ Attached(G)) \ (lv \ Attached(F)) : \E p \in Attached(F) :
    /\ F[p] # <<>> /\ n \in Under(F, F[p][1])
    /\ \A m \in Under(F, F[p][1]) : m \in lv2 \ Attached(G) \/ ow2[m] = NoNode

\* An operation that takes out U and destroys B loses what Cutoff says.
LEMMA LosesOnly ==
  ASSUME NEW F, NEW G, NEW lv, NEW B, NEW U, NEW T, NEW gone, U \subseteq Attached(F), Attached(F) \subseteq lv,
         Cutoff(F, B, U), Attached(G) = (Attached(F) \ U) \cup T, T \cap lv \subseteq B, T \cap gone = {},
         NEW ow2, \A m \in gone : ow2[m] = NoNode
  PROVE  Loses(F, G, lv, ((lv \ B) \cup T) \ gone, ow2)
<1> DEFINE lv2 == ((lv \ B) \cup T) \ gone
<1> SUFFICES ASSUME NEW n \in (lv2 \ Attached(G)) \ (lv \ Attached(F))
             PROVE  \E p \in Attached(F) :
                      /\ F[p] # <<>> /\ n \in Under(F, F[p][1])
                      /\ \A m \in Under(F, F[p][1]) : m \in lv2 \ Attached(G) \/ ow2[m] = NoNode
  BY DEF Loses
<1>1. n \in U \ B
  OBVIOUS
<1>2. PICK p \in Attached(F) : F[p] # <<>> /\ n \in Under(F, F[p][1]) /\ Under(F, F[p][1]) \subseteq U \ B
  BY <1>1 DEF Cutoff
<1>3. ASSUME NEW m \in U \ B
      PROVE  m \in lv2 \ Attached(G) \/ ow2[m] = NoNode
  OBVIOUS
<1> QED
  BY <1>2, <1>3

\* An allocator hands out dangling slots and slots that were never cut.
LEMMA SuppliesAre ==
  ASSUME NEW dd, dd \in SUBSET Nodes, NEW cut, NEW k \in Nat, NEW got \in Supplies(dd, cut, k)
  PROVE  /\ got \subseteq Nodes /\ Cardinality(got) = k
         /\ \A n \in got : n \in dd \/ n \notin cut
<1> DEFINE few == IF k < Cardinality(dd) THEN k ELSE Cardinality(dd)
<1> DEFINE uncut == Nodes \ (cut \cup dd)
<1>1. PICK old \in SUBSET dd, new \in SUBSET uncut :
        got = old \cup new /\ Cardinality(old) = few /\ Cardinality(new) = k - few
  BY DEF Supplies
<1>2. IsFiniteSet(old) /\ IsFiniteSet(new) /\ Cardinality(dd) \in Nat
  <2>1. old \in SUBSET Nodes /\ new \in SUBSET Nodes
    OBVIOUS
  <2> QED
    BY <2>1, NodesFinite
<1>3. old \cap new = {}
  OBVIOUS
<1>4. Cardinality(old \cap new) = 0
  BY <1>3, FS_EmptySet
<1>5. Cardinality(old \cup new) = Cardinality(old) + Cardinality(new) - Cardinality(old \cap new)
  BY <1>2, FS_Union
<1>6. few \in Int
  BY <1>2
<1>7. Cardinality(got) = k
  BY <1>1, <1>4, <1>5, <1>6
<1>8. got \subseteq Nodes /\ \A n \in got : n \in dd \/ n \notin cut
  BY <1>1
<1> QED
  BY <1>7, <1>8

\* The same of a single slot.
LEMMA SupplyOne ==
  ASSUME NEW dd, dd \in SUBSET Nodes, NEW cut, NEW n \in Nodes, {n} \in Supplies(dd, cut, 1)
  PROVE  n \in dd \/ n \notin cut
<1>1. \A m \in {n} : m \in dd \/ m \notin cut
  BY SuppliesAre
<1> QED
  BY <1>1

\* The copies of replace() are the slots it was given, each for one node.
LEMMA ImagesAre ==
  ASSUME NEW from, NEW D, D \in SUBSET Nodes, D = UnderOf(from), from \in D, NEW top \in Nodes,
         NEW rest \in SUBSET Nodes, top \notin rest, Cardinality(rest) = Cardinality(D) - 1,
         NEW image, image = Images(from, top, rest)
  PROVE  /\ OneToOne(image, D) /\ {image[z] : z \in D} = rest \cup {top} /\ image[from] = top
<1> DEFINE S == D \ {from}
<1>1. IsFiniteSet(S) /\ IsFiniteSet(rest) /\ Cardinality(S) = Cardinality(rest)
  <2>1. IsFiniteSet(D) /\ Cardinality(D) \in Nat /\ IsFiniteSet(rest)
    BY NodesFinite
  <2>2. IsFiniteSet(S) /\ Cardinality(S) = Cardinality(D) - 1
    BY <2>1, FS_RemoveElement
  <2> QED
    BY <2>1, <2>2
<1> DEFINE f == CHOOSE f \in Injection(S, rest) : TRUE
<1>2. f \in Injection(S, rest)
  <2>1. ExistsBijection(S, rest)
    BY <1>1, FS_SameCardinalityBij
  <2>2. Injection(S, rest) # {}
    BY <2>1 DEF ExistsBijection, Bijection
  <2> QED
    BY <2>2
<1>3. image = [x \in D |-> IF x = from THEN top ELSE f[x]]
  BY DEF Images
<1> HIDE DEF f
<1>4. f \in Surjection(S, rest)
  BY <1>1, <1>2, FS_Injection
<1>5. /\ f \in [S -> rest] /\ \A a, b \in S : f[a] = f[b] => a = b
      /\ \A t \in rest : \E s \in S : f[s] = t
  BY <1>2, <1>4 DEF Injection, Surjection, IsInjective
<1>6. OneToOne(image, D)
  BY <1>3, <1>5 DEF OneToOne
<1>7. \A z \in D : image[z] = IF z = from THEN top ELSE f[z]
  BY <1>3
<1>8. ASSUME NEW t \in rest PROVE t \in {image[z] : z \in D}
  <2>1. PICK s \in S : f[s] = t
    BY <1>5
  <2> QED
    BY <2>1, <1>7
<1>9. {image[z] : z \in D} \subseteq rest \cup {top}
  BY <1>5, <1>7
<1> QED
  BY <1>6, <1>7, <1>8, <1>9

-----------------------------------------------------------------------------
(* Every step is a turn of the forest.                                     *)

\* The inductive invariant: the links say the forest `forest', and its memory is kept.
GraphInv ==
  /\ Fits(link, forest, exists)
  /\ Safe(forest, live, owner, dangles, exists, stolen, registered, merging)

\* What every step does, G being the forest after it: the links say G, G is one step
\* of OrderedForest away, the memory is safe and only first children are lost.
Turned(G) ==
  /\ Becomes(forest, G, link', exists', Attached(G))
  /\ Safe(G, live', owner', dangles', exists', stolen', registered', merging')
  /\ Loses(forest, G, live, live', owner')

\* The memory side of an operation of g that takes U out of its nodes.
Did(g, h, B, T, got, free, U) ==
  /\ B \subseteq U /\ U \subseteq Region(forest, g) /\ Cutoff(forest, B, U)
  /\ Taken(owner, dangles, g, B, T, got, free)
  /\ live' = (live \ B) \cup T /\ Supplied(g, got, free) /\ stolen' = stolen
  /\ \/ h = g /\ merging' = merging
     \/ g = Main /\ h # Main /\ merging \in {NoNode, h} /\ merging' = h

\* What the invariant says of the state.
LEMMA StateIs ==
  ASSUME GraphInv
  PROVE  /\ Fits(link, forest, exists) /\ Linked(link, forest, Attached(forest), exists)
         /\ Shape(forest, Attached(forest)) /\ RegionsAre(forest)
         /\ Attached(forest) \subseteq live /\ live \subseteq Nodes /\ exists \subseteq Graphs
         /\ \A g \in exists : HeadOf(g) \in Held(Attached(forest), exists)
         /\ \A g \in Graphs : /\ dangles[g] \subseteq Nodes /\ dangles[g] \cap live = {}
                              /\ g \notin exists => Region(forest, g) = {}
         /\ \A n \in live : owner[n] # NoNode
         /\ owner \in [Nodes -> Graphs \cup {NoNode}] /\ dangles \in [Graphs -> SUBSET Nodes]
<1>1. Fits(link, forest, exists) /\ Linked(link, forest, Attached(forest), exists)
  BY DEF GraphInv, Fits
<1>2. Shape(forest, Attached(forest)) /\ \A g \in Graphs \ exists : forest[HeadOf(g)] = <<>>
  BY <1>1 DEF Linked
<1>3. \A g \in Graphs : g \notin exists => Region(forest, g) = {}
  BY <1>2, EmptyRegion
<1> QED
  BY <1>1, <1>2, <1>3, RegionsOf, HeldIs DEF GraphInv, Safe

\* An operation that turns the links and does its memory side is a turn.
LEMMA Acts ==
  ASSUME GraphInv, NEW g \in exists, NEW h \in exists, NEW B, NEW T, NEW got, NEW free, NEW U,
         Did(g, h, B, T, got, free, U),
         NEW P, P \subseteq Region(forest, g) \cup {HeadOf(g)} \cup T,
         NEW X, X \subseteq Region(forest, g) \cup Region(forest, h) \cup {HeadOf(g), HeadOf(h)} \cup T,
         NEW G, Becomes(forest, G, link', exists, (Attached(forest) \ U) \cup T), Gains(forest, G, P, X)
  PROVE  Turned(G)
<1>1. /\ Shape(forest, Attached(forest)) /\ RegionsAre(forest) /\ Attached(forest) \subseteq live
      /\ exists \subseteq Graphs /\ owner \in [Nodes -> Graphs \cup {NoNode}]
      /\ dangles \in [Graphs -> SUBSET Nodes] /\ live \subseteq Nodes
      /\ \A k \in Graphs : dangles[k] \cap live = {}
      /\ \A n \in live : owner[n] # NoNode
      /\ Safe(forest, live, owner, dangles, exists, stolen, registered, merging)
  BY StateIs DEF GraphInv
<1>2. /\ B \subseteq U /\ U \subseteq Region(forest, g) /\ Cutoff(forest, B, U)
      /\ Taken(owner, dangles, g, B, T, got, free)
      /\ live' = (live \ B) \cup T /\ stolen' = stolen
      /\ \/ h = g /\ merging' = merging
         \/ g = Main /\ h # Main /\ merging \in {NoNode, h} /\ merging' = h
  BY DEF Did
<1>3. /\ owner' = [n \in Nodes |-> IF n \in got /\ owner[n] = NoNode THEN g ELSE owner[n]]
      /\ dangles' = [dangles EXCEPT ![g] = free]
      /\ exists' = exists /\ registered' = registered
  BY DEF Did, Supplied
<1>4. Attached(G) = (Attached(forest) \ U) \cup T /\ Fits(link', G, exists) /\ Shape(G, Attached(G))
  BY DEF Becomes, Fits, Linked
<1>5. T \subseteq Nodes /\ T \cap live \subseteq B
  BY <1>1, <1>2 DEF Taken
<1>6. U \subseteq Attached(forest) /\ Region(forest, g) \subseteq Attached(forest) /\ g \in Graphs /\ h \in Graphs
  BY <1>1, <1>2 DEF RegionsAre
<1>7. T \cap Attached(forest) \subseteq Region(forest, g)
  BY <1>1, <1>2, <1>5
<1>8. RegionsStay(forest, G, g, h, T)
  BY <1>1, <1>4, <1>5, <1>6, <1>7, RegionsTurn
<1>9. B \subseteq Region(forest, g) /\ B \subseteq live /\ Attached(G) \subseteq (live \ B) \cup T
  BY <1>1, <1>2, <1>4, <1>6
<1>11. Safe(G, live', owner', dangles', exists, stolen, registered, merging')
  <2>1. Stirred(forest, G, live, owner, dangles, exists, merging, live', owner', dangles', merging',
                g, h, B, T, got, free)
    BY <1>1, <1>2, <1>3, <1>8, <1>9 DEF Stirred
  <2>2. Safe(forest, live, owner, dangles, exists, stolen, registered, merging)
    BY <1>1
  <2> QED
    BY ONLY <2>1, <2>2, MemoryMoves
<1>12. Loses(forest, G, live, ((live \ B) \cup T) \ {}, owner')
  <2>1. T \cap {} = {} /\ \A m \in {} : owner'[m] = NoNode
    OBVIOUS
  <2> QED
    BY <2>1, <1>1, <1>2, <1>4, <1>5, <1>6, LosesOnly
<1>13. Loses(forest, G, live, live', owner')
  <2>1. ((live \ B) \cup T) \ {} = live'
    BY <1>2
  <2> QED
    BY <2>1, <1>12
<1> QED
  BY <1>2, <1>3, <1>4, <1>11, <1>13 DEF Turned, Becomes

\* What is read from the heads is what has a place.
LEMMA ReachedIs ==
  ASSUME GraphInv
  PROVE  /\ \A n \in Nodes : UnderOf(n) = Under(forest, n) /\ Within(n) = Under(forest, n)
         /\ \A g \in Graphs : Reached(g) = Region(forest, g)
         /\ AllReached = Attached(forest)
         /\ \A g \in Graphs : \A n \in Reached(g) : n \in Attached(forest) /\ n \in Nodes /\ n \in Parents
                                                    /\ n \in Under(forest, HeadOf(g))
         /\ \A g \in Graphs : /\ HeadOf(g) \in Parents /\ Whole(forest, Under(forest, HeadOf(g)))
                              /\ HeadOf(g) \in Under(forest, HeadOf(g))
                              /\ Under(forest, HeadOf(g)) = Region(forest, g) \cup {HeadOf(g)}
<1>1. Shape(forest, Attached(forest)) /\ RegionsAre(forest)
  BY StateIs
<1>2. \A x \in Parents : Within(x) = Under(forest, x)
  BY <1>1, WithinIs
<1>3. \A n \in Nodes : UnderOf(n) = Under(forest, n) /\ Within(n) = Under(forest, n)
  BY <1>2, ParentsAre DEF UnderOf
<1>4. \A g \in Graphs : Reached(g) = Region(forest, g)
  BY <1>1, <1>2, ParentsAre DEF Reached, RegionsAre
<1>5. AllReached = Attached(forest)
  BY <1>1, <1>4 DEF AllReached, RegionsAre
<1> QED
  BY <1>1, <1>3, <1>4, <1>5, ParentsAre DEF RegionsAre

\* An operation that takes nothing out loses nothing.
LEMMA NothingCut ==
  ASSUME NEW F
  PROVE  Cutoff(F, {}, {})
BY DEF Cutoff

\* g works alone, or it is the main graph and merges h.
Takes(g, h) ==
  \/ h = g /\ merging' = merging
  \/ g = Main /\ h # Main /\ merging \in {NoNode, h} /\ merging' = h

\* An operation that only moves nodes is a turn.
LEMMA MovesAct ==
  ASSUME GraphInv, NEW g \in exists, NEW h \in exists, Takes(g, h), UNCHANGED memoryVars,
         NEW G, Becomes(forest, G, link', exists, Attached(forest)),
         Gains(forest, G, Under(forest, HeadOf(g)), Under(forest, HeadOf(g)) \cup Under(forest, HeadOf(h)))
  PROVE  Turned(G)
<1>1. live' = live /\ owner' = owner /\ dangles' = dangles /\ exists' = exists /\ registered' = registered
      /\ stolen' = stolen
  BY DEF memoryVars
<1>2. g \in Graphs /\ h \in Graphs /\ dangles \in [Graphs -> SUBSET Nodes]
      /\ owner \in [Nodes -> Graphs \cup {NoNode}]
  BY StateIs
<1>3. /\ Under(forest, HeadOf(g)) = Region(forest, g) \cup {HeadOf(g)}
      /\ Under(forest, HeadOf(h)) = Region(forest, h) \cup {HeadOf(h)}
  BY <1>2, ReachedIs
<1>4. Taken(owner, dangles, g, {}, {}, {}, dangles[g])
  BY <1>2 DEF Taken
<1>5. Supplied(g, {}, dangles[g])
  BY <1>1, <1>2 DEF Supplied
<1>6. Cutoff(forest, {}, {})
  BY NothingCut
<1>7. Did(g, h, {}, {}, {}, dangles[g], {})
  BY <1>1, <1>4, <1>5, <1>6 DEF Did, Takes
<1>8. (Attached(forest) \ {}) \cup {} = Attached(forest)
  OBVIOUS
<1> DEFINE P == Under(forest, HeadOf(g))
<1> DEFINE X == Under(forest, HeadOf(g)) \cup Under(forest, HeadOf(h))
<1>9. P \subseteq Region(forest, g) \cup {HeadOf(g)} \cup {}
  BY <1>3
<1>10. X \subseteq Region(forest, g) \cup Region(forest, h) \cup {HeadOf(g), HeadOf(h)} \cup {}
  BY <1>3
<1>11. Becomes(forest, G, link', exists, (Attached(forest) \ {}) \cup {}) /\ Gains(forest, G, P, X)
  BY <1>8
<1> HIDE DEF P, X
<1> QED
  BY <1>7, <1>9, <1>10, <1>11, Acts

\* A slot that an allocator hands out is no node.
LEMMA NewNode ==
  ASSUME GraphInv, NEW g \in exists, NEW n \in Nodes, {n} \in Supplies(dangles[g], Slots, 1)
  PROVE  n \notin Attached(forest) /\ (n \in dangles[g] \/ owner[n] = NoNode)
<1>1. g \in Graphs /\ dangles[g] \in SUBSET Nodes /\ dangles[g] \cap live = {}
      /\ Attached(forest) \subseteq live /\ \A m \in live : owner[m] # NoNode
  BY StateIs
<1>2. n \in dangles[g] \/ n \notin Slots
  BY <1>1, SupplyOne
<1> QED
  BY <1>1, <1>2 DEF Slots

\* An operation that adds a node is a turn.
LEMMA AddActs ==
  ASSUME GraphInv, NEW g \in exists, NEW n \in Nodes, {n} \in Supplies(dangles[g], Slots, 1),
         live' = live \cup {n}, Supplied(g, {n}, dangles[g] \ {n}), stolen' = stolen, merging' = merging,
         NEW G, Becomes(forest, G, link', exists, Attached(forest) \cup {n}),
         Gains(forest, G, Under(forest, HeadOf(g)) \cup {n}, Under(forest, HeadOf(g)) \cup {n})
  PROVE  Turned(G)
<1>1. g \in Graphs /\ dangles[g] \subseteq Nodes
  BY StateIs
<1>2. Under(forest, HeadOf(g)) = Region(forest, g) \cup {HeadOf(g)}
  BY <1>1, ReachedIs
<1>3. n \in dangles[g] \/ owner[n] = NoNode
  BY NewNode
<1>4. Taken(owner, dangles, g, {}, {n}, {n}, dangles[g] \ {n})
  BY <1>1, <1>3 DEF Taken
<1>5. Cutoff(forest, {}, {})
  BY NothingCut
<1>6. Did(g, g, {}, {n}, {n}, dangles[g] \ {n}, {})
  BY <1>4, <1>5 DEF Did
<1>7. (Attached(forest) \ {}) \cup {n} = Attached(forest) \cup {n}
  OBVIOUS
<1> DEFINE P == Under(forest, HeadOf(g)) \cup {n}
<1>8. P \subseteq Region(forest, g) \cup {HeadOf(g)} \cup {n}
  BY <1>2
<1>9. P \subseteq Region(forest, g) \cup Region(forest, g) \cup {HeadOf(g), HeadOf(g)} \cup {n}
  BY <1>8
<1>10. Becomes(forest, G, link', exists, (Attached(forest) \ {}) \cup {n}) /\ Gains(forest, G, P, P)
  BY <1>7
<1> HIDE DEF P
<1> QED
  BY <1>6, <1>8, <1>9, <1>10, Acts

\* An operation that erases nodes is a turn.
LEMMA EraseActs ==
  ASSUME GraphInv, NEW g \in exists, NEW B, NEW U, B \subseteq U, U \subseteq Region(forest, g),
         Cutoff(forest, B, U), Returned(g, B), merging' = merging,
         NEW G, Becomes(forest, G, link', exists, Attached(forest) \ U),
         Gains(forest, G, Under(forest, HeadOf(g)), Under(forest, HeadOf(g)))
  PROVE  Turned(G)
<1>1. g \in Graphs /\ dangles[g] \subseteq Nodes /\ B \subseteq Nodes
  BY StateIs DEF Region
<1>2. Under(forest, HeadOf(g)) = Region(forest, g) \cup {HeadOf(g)}
  BY <1>1, ReachedIs
<1>3. Taken(owner, dangles, g, B, {}, {}, dangles[g] \cup B)
  BY <1>1 DEF Taken
<1>4. Did(g, g, B, {}, {}, dangles[g] \cup B, U)
  BY <1>3 DEF Did, Returned
<1>5. (Attached(forest) \ U) \cup {} = Attached(forest) \ U
  OBVIOUS
<1> DEFINE P == Under(forest, HeadOf(g))
<1>6. P \subseteq Region(forest, g) \cup {HeadOf(g)} \cup {}
  BY <1>2
<1>7. P \subseteq Region(forest, g) \cup Region(forest, g) \cup {HeadOf(g), HeadOf(g)} \cup {}
  BY <1>6
<1>8. Becomes(forest, G, link', exists, (Attached(forest) \ U) \cup {}) /\ Gains(forest, G, P, P)
  BY <1>5
<1> HIDE DEF P
<1> QED
  BY <1>4, <1>6, <1>7, <1>8, Acts

\* The memory side of an operation that makes the node n.
Made(g, n) ==
  /\ {n} \in Supplies(dangles[g], Slots, 1) /\ live' = live \cup {n}
  /\ Supplied(g, {n}, dangles[g] \ {n}) /\ stolen' = stolen /\ merging' = merging

\* The same of one that adds a node, from what the links turn to.
LEMMA MadeActs ==
  ASSUME GraphInv, NEW g \in exists, NEW n \in Nodes, Made(g, n),
         \E G : /\ Becomes(forest, G, link', exists, Attached(forest) \cup {n})
                /\ Gains(forest, G, Under(forest, HeadOf(g)), {n})
  PROVE  \E G : Turned(G)
<1>1. PICK G : /\ Becomes(forest, G, link', exists, Attached(forest) \cup {n})
               /\ Gains(forest, G, Under(forest, HeadOf(g)), {n})
  OBVIOUS
<1> DEFINE P == Under(forest, HeadOf(g))
<1>2. P \subseteq P \cup {n} /\ {n} \subseteq P \cup {n}
  OBVIOUS
<1>3. Gains(forest, G, P, {n})
  BY <1>1
<1> HIDE DEF P
<1>4. Gains(forest, G, P \cup {n}, P \cup {n})
  BY <1>2, <1>3, GainsMore
<1>5. Gains(forest, G, Under(forest, HeadOf(g)) \cup {n}, Under(forest, HeadOf(g)) \cup {n})
  BY <1>4 DEF P
<1>6. Turned(G)
  BY <1>1, <1>5, AddActs DEF Made
<1> QED
  BY <1>6

\* InsertBefore and InsertAfter are turns.
LEMMA AddsBeside ==
  ASSUME GraphInv, NEW g \in exists, NEW x \in Reached(g), merging' = merging,
         InsertBefore(g, x) \/ InsertAfter(g, x)
  PROVE  \E G : Turned(G)
<1> DEFINE P == Under(forest, HeadOf(g))
<1>1. Fits(link, forest, exists) /\ g \in Graphs
  BY StateIs
<1>2. x \in Attached(forest) /\ x \in P /\ Whole(forest, P)
  BY <1>1, ReachedIs
<1>3. CASE InsertBefore(g, x)
  <2>1. PICK n \in Nodes : /\ Made(g, n)
                           /\ link' = PutIn([link EXCEPT ![n] = NoLinks], n, link[x].up, link[x].prev, x)
    BY <1>3 DEF InsertBefore, Add, Made
  <2>2. n \notin Attached(forest)
    BY <2>1, NewNode DEF Made
  <2> HIDE DEF P
  <2>3. \E G : /\ Becomes(forest, G, link', exists, Attached(forest) \cup {n})
               /\ Gains(forest, G, P, {n})
    BY <1>1, <1>2, <2>1, <2>2, AddBeside
  <2> USE DEF P
  <2> QED
    BY <2>1, <2>3, MadeActs
<1>4. CASE InsertAfter(g, x)
  <2>1. PICK n \in Nodes : /\ Made(g, n)
                           /\ link' = PutIn([link EXCEPT ![n] = NoLinks], n, link[x].up, x, link[x].next)
    BY <1>4 DEF InsertAfter, Add, Made
  <2>2. n \notin Attached(forest)
    BY <2>1, NewNode DEF Made
  <2> HIDE DEF P
  <2>3. \E G : /\ Becomes(forest, G, link', exists, Attached(forest) \cup {n})
               /\ Gains(forest, G, P, {n})
    BY <1>1, <1>2, <2>1, <2>2, AddBeside
  <2> USE DEF P
  <2> QED
    BY <2>1, <2>3, MadeActs
<1> QED
  BY <1>3, <1>4

\* AppendChild and PrependChild are turns.
LEMMA AddsBelow ==
  ASSUME GraphInv, NEW g \in exists, NEW x \in Reached(g), merging' = merging,
         AppendChild(g, x) \/ PrependChild(g, x)
  PROVE  \E G : Turned(G)
<1> DEFINE P == Under(forest, HeadOf(g))
<1>1. Fits(link, forest, exists) /\ g \in Graphs
  BY StateIs
<1>2. x \in Attached(forest) /\ x \in P
  BY <1>1, ReachedIs
<1>3. CASE AppendChild(g, x)
  <2>1. PICK n \in Nodes : /\ Made(g, n)
                           /\ link' = PutIn([link EXCEPT ![n] = NoLinks], n, x, link[x].last, NoNode)
    BY <1>3 DEF AppendChild, Add, Made
  <2>2. n \notin Attached(forest)
    BY <2>1, NewNode DEF Made
  <2> HIDE DEF P
  <2>3. \E G : /\ Becomes(forest, G, link', exists, Attached(forest) \cup {n})
               /\ Gains(forest, G, P, {n})
    BY <1>1, <1>2, <2>1, <2>2, AddChild
  <2> USE DEF P
  <2> QED
    BY <2>1, <2>3, MadeActs
<1>4. CASE PrependChild(g, x)
  <2>1. PICK n \in Nodes : /\ Made(g, n)
                           /\ link' = PutIn([link EXCEPT ![n] = NoLinks], n, x, NoNode, link[x].first)
    BY <1>4 DEF PrependChild, Add, Made
  <2>2. n \notin Attached(forest)
    BY <2>1, NewNode DEF Made
  <2> HIDE DEF P
  <2>3. \E G : /\ Becomes(forest, G, link', exists, Attached(forest) \cup {n})
               /\ Gains(forest, G, P, {n})
    BY <1>1, <1>2, <2>1, <2>2, AddChild
  <2> USE DEF P
  <2> QED
    BY <2>1, <2>3, MadeActs
<1> QED
  BY <1>3, <1>4

\* SetHead is a turn.
LEMMA AddsTop ==
  ASSUME GraphInv, NEW g \in exists, merging' = merging, SetHead(g)
  PROVE  \E G : Turned(G)
<1> DEFINE P == Under(forest, HeadOf(g))
<1>1. Fits(link, forest, exists) /\ g \in Graphs
  BY StateIs
<1>2. HeadOf(g) \in P
  BY <1>1, ReachedIs
<1>3. PICK n \in Nodes : /\ Made(g, n) /\ link[HeadOf(g)].next = FeetOf(g)
                         /\ link' = PutIn([link EXCEPT ![n] = NoLinks], n, NoNode, HeadOf(g), FeetOf(g))
  BY DEF SetHead, Add, Made
<1>4. n \notin Attached(forest)
  BY <1>3, NewNode DEF Made
<1> HIDE DEF P
<1>5. \E G : /\ Becomes(forest, G, link', exists, Attached(forest) \cup {n})
             /\ Gains(forest, G, P, {n})
  BY <1>1, <1>2, <1>3, <1>4, AddTop
<1> USE DEF P
<1> QED
  BY <1>3, <1>5, MadeActs

\* Wrap is a turn.
LEMMA Wraps ==
  ASSUME GraphInv, NEW g \in exists, NEW n \in Reached(g), merging' = merging, Wrap(g, n)
  PROVE  \E G : Turned(G)
<1> DEFINE P == Under(forest, HeadOf(g))
<1>1. Fits(link, forest, exists) /\ g \in Graphs
  BY StateIs
<1>2. n \in Attached(forest) /\ n \in P /\ Whole(forest, P)
  BY <1>1, ReachedIs
<1>3. PICK x \in Nodes :
        /\ Made(g, x)
        /\ link' = RunIn(TakenOut(PutIn([link EXCEPT ![x] = NoLinks], x, link[n].up, link[n].prev, n), n),
                         <<n>>, x, NoNode, NoNode)
  BY DEF Wrap, Made
<1>4. x \notin Attached(forest)
  BY <1>3, NewNode DEF Made
<1> DEFINE M == PutIn([link EXCEPT ![x] = NoLinks], x, link[n].up, link[n].prev, n)
<1>5. link' = RunIn(TakenOut(M, n), <<n>>, x, NoNode, NoNode)
  BY <1>3
<1>6. M = PutIn([link EXCEPT ![x] = NoLinks], x, link[n].up, link[n].prev, n)
  OBVIOUS
<1> HIDE DEF P, M
<1>7. PICK G : /\ Becomes(forest, G, link', exists, Attached(forest) \cup {x})
               /\ Gains(forest, G, P \cup {x}, P \cup {x})
  BY <1>1, <1>2, <1>4, <1>5, <1>6, WrapTurns
<1>8. Gains(forest, G, Under(forest, HeadOf(g)) \cup {x}, Under(forest, HeadOf(g)) \cup {x})
  BY <1>7 DEF P
<1>9. Turned(G)
  BY <1>3, <1>7, <1>8, AddActs DEF Made
<1> QED
  BY <1>9

\* Every operation that builds is a turn.
LEMMA Builds ==
  ASSUME GraphInv, NEW g \in exists, merging' = merging, Build(g)
  PROVE  \E G : Turned(G)
BY AddsTop, AddsBelow, AddsBeside, Wraps DEF Build

\* Erase and EraseChildren are turns.
LEMMA Erases ==
  ASSUME GraphInv, NEW g \in exists, NEW n \in Reached(g), merging' = merging,
         Erase(g, n) \/ EraseChildren(g, n)
  PROVE  \E G : Turned(G)
<1> DEFINE P == Under(forest, HeadOf(g))
<1> DEFINE B == {n} \cup ErasedBelow(link, n)
<1> DEFINE C == ErasedBelow(link, n)
<1>1. Fits(link, forest, exists) /\ g \in Graphs /\ RegionsAre(forest)
  BY StateIs
<1>2. n \in Attached(forest) /\ n \in Region(forest, g)
  BY <1>1, ReachedIs
<1>3. Under(forest, n) \subseteq Region(forest, g)
  BY <1>1, <1>2 DEF RegionsAre
<1>4. /\ Cutoff(forest, B, Under(forest, n)) /\ Cutoff(forest, C, Under(forest, n) \ {n})
      /\ B \subseteq Under(forest, n) /\ n \notin C
  BY <1>1, <1>2, CutoffBelow
<1>5. CASE Erase(g, n)
  <2>1. link' = Forgotten(Erased(link, n), B) /\ Returned(g, B)
    BY <1>5 DEF Erase
  <2>2. PICK G : /\ Becomes(forest, G, Forgotten(Erased(link, n), B), exists, Attached(forest) \ Under(forest, n))
                 /\ \A X : Gains(forest, G, X, X)
    BY <1>1, <1>2, EraseTurns
  <2>3. Becomes(forest, G, link', exists, Attached(forest) \ Under(forest, n)) /\ Gains(forest, G, P, P)
    BY <2>1, <2>2
  <2> HIDE DEF B
  <2>4. Turned(G)
    BY <1>3, <1>4, <2>1, <2>3, EraseActs
  <2> QED
    BY <2>4
<1>6. CASE EraseChildren(g, n)
  <2>1. link' = Forgotten(ChildrenCut(link, n), C) /\ Returned(g, C)
    BY <1>6 DEF EraseChildren
  <2>2. PICK G : /\ Becomes(forest, G, Forgotten(ChildrenCut(link, n), C), exists,
                            Attached(forest) \ (Under(forest, n) \ {n}))
                 /\ \A X : Gains(forest, G, X, X)
    BY <1>1, <1>2, CutTurns
  <2>3. /\ Becomes(forest, G, link', exists, Attached(forest) \ (Under(forest, n) \ {n}))
        /\ Gains(forest, G, P, P)
    BY <2>1, <2>2
  <2> DEFINE U == Under(forest, n) \ {n}
  <2>4. U \subseteq Region(forest, g) /\ C \subseteq U /\ Cutoff(forest, C, U)
    BY <1>3, <1>4
  <2>5. Becomes(forest, G, link', exists, Attached(forest) \ U)
    BY <2>3
  <2> HIDE DEF C, U
  <2>6. Turned(G)
    BY <2>1, <2>3, <2>4, <2>5, EraseActs
  <2> QED
    BY <2>6
<1> QED
  BY <1>5, <1>6

\* What clear() takes out is the graph.
LEMMA RegionUnder ==
  ASSUME GraphInv, NEW g \in exists
  PROVE  /\ Attached(forest) \ Under(forest, HeadOf(g)) = Attached(forest) \ Region(forest, g)
         /\ ClearedNodes(g) \subseteq Region(forest, g) /\ ClearedNodes(g) \subseteq Nodes
         /\ Cutoff(forest, ClearedNodes(g), Region(forest, g))
<1>1. Fits(link, forest, exists) /\ g \in Graphs /\ RegionsAre(forest)
  BY StateIs
<1>2. HeadOf(g) \notin Attached(forest) /\ Under(forest, HeadOf(g)) = Region(forest, g) \cup {HeadOf(g)}
  <2>1. HeadOf(g) \notin Nodes
    BY <1>1, ParentsAre
  <2> QED
    BY <1>1, <2>1 DEF RegionsAre
<1>3. ClearedNodes(g) \subseteq Region(forest, g) /\ Cutoff(forest, ClearedNodes(g), Region(forest, g))
  BY <1>1, CutoffCleared
<1> QED
  BY <1>2, <1>3 DEF Region

\* Clear is a turn.
LEMMA Clears ==
  ASSUME GraphInv, NEW g \in exists, merging' = merging, Clear(g)
  PROVE  \E G : Turned(G)
<1> DEFINE P == Under(forest, HeadOf(g))
<1> DEFINE B == ClearedNodes(g)
<1> DEFINE U == Region(forest, g)
<1>1. Fits(link, forest, exists) /\ g \in Graphs
  BY StateIs
<1>2. /\ Attached(forest) \ Under(forest, HeadOf(g)) = Attached(forest) \ U
      /\ B \subseteq U /\ B \subseteq Nodes /\ Cutoff(forest, B, U)
  BY RegionUnder
<1>3. link' = Forgotten(ClearedLinks(g), B) /\ Returned(g, B)
  BY DEF Clear
<1>4. B \cap (Attached(forest) \ Under(forest, HeadOf(g))) = {}
  BY <1>2
<1>5. PICK G : /\ Becomes(forest, G, Forgotten(ClearedLinks(g), B), exists,
                          Attached(forest) \ Under(forest, HeadOf(g)))
               /\ \A X : Gains(forest, G, X, X)
  <2> HIDE DEF B
  <2> QED
    BY <1>1, <1>2, <1>4, ClearTurns
<1>6. Becomes(forest, G, link', exists, Attached(forest) \ U)
  BY <1>2, <1>3, <1>5
<1>7. Gains(forest, G, P, P)
  BY <1>5
<1> HIDE DEF B
<1>8. Turned(G)
  BY <1>2, <1>3, <1>6, <1>7, EraseActs
<1> QED
  BY <1>8

\* Destroy is a turn.
LEMMA Destroys ==
  ASSUME GraphInv, NEW g \in exists, merging = NoNode, merging' = merging, Destroy(g)
  PROVE  \E G : Turned(G)
<1> DEFINE B == ClearedNodes(g)
<1> DEFINE U == Region(forest, g)
<1> DEFINE stay == {a \in registered : a \in Released(registered, g, a)}
<1> DEFINE gone == {n \in Nodes : owner[n] \notin stay}
<1>1. /\ Fits(link, forest, exists) /\ g \in Graphs /\ RegionsAre(forest) /\ Shape(forest, Attached(forest))
      /\ Attached(forest) \subseteq live
      /\ \A k \in Graphs \ exists : Region(forest, k) = {}
  BY StateIs
<1>2. /\ Attached(forest) \ Under(forest, HeadOf(g)) = Attached(forest) \ U
      /\ B \subseteq U /\ B \subseteq Nodes /\ Cutoff(forest, B, U)
  BY RegionUnder
<1>3. /\ Safe(forest, live, owner, dangles, exists, stolen, registered, NoNode)
      /\ registered = {a \in Graphs : \E h \in exists : h = a \/ a \in stolen[h]}
  BY DEF GraphInv, Safe
<1>4. /\ link' = Forgotten(ClearedLinks(g), B \cup gone)
      /\ live' = (live \ B) \ gone
      /\ owner' = [n \in Nodes |-> IF n \in gone THEN NoNode ELSE owner[n]]
      /\ dangles' = [dangles EXCEPT ![g] = {}]
      /\ exists' = exists \ {g} /\ stolen' = [stolen EXCEPT ![g] = {}] /\ registered' = stay
  BY DEF Destroy
<1>5. stay = {a \in Graphs : \E k \in exists \ {g} : k = a \/ a \in stolen[k]}
  <2>1. ASSUME NEW a \in Graphs
        PROVE  a \in stay <=> \E k \in exists \ {g} : k = a \/ a \in stolen[k]
    <3>1. a \in stay <=> a \in registered /\ Holders(a) # {g}
      BY DEF Released
    <3>2. a \in registered <=> Holders(a) # {}
      BY <1>3 DEF Holders
    <3>3. (\E k \in exists \ {g} : k = a \/ a \in stolen[k]) <=> Holders(a) \ {g} # {}
      BY DEF Holders
    <3> QED
      BY <3>1, <3>2, <3>3
  <2>2. stay \subseteq Graphs
    BY <1>3
  <2> HIDE DEF stay
  <2> QED
    BY <2>1, <2>2
<1>6. gone \cap (Attached(forest) \ U) = {}
  <2> SUFFICES ASSUME NEW x \in Attached(forest) \ U PROVE x \notin gone
    OBVIOUS
  <2>1. PICK k \in Graphs : x \in Region(forest, k)
    BY <1>1 DEF RegionsAre
  <2>2. k \in exists /\ k # g
    BY <1>1, <2>1
  <2>3. Keeps(k, owner[x], stolen, NoNode) /\ stolen \in [Graphs -> SUBSET Graphs]
    BY <1>3, <2>1, <2>2 DEF Safe
  <2>4. owner[x] \in stay
    <3>1. owner[x] = k \/ owner[x] \in stolen[k]
      BY <2>3 DEF Keeps
    <3>2. owner[x] \in Graphs
      BY <3>1, <2>3
    <3> QED
      BY <1>5, <2>2, <3>1, <3>2
  <2> QED
    BY <2>4
<1>7. (B \cup gone) \cap (Attached(forest) \ Under(forest, HeadOf(g))) = {}
  BY <1>2, <1>6
<1>8. B \cup gone \subseteq Nodes
  BY <1>2
<1> DEFINE back == B \cup gone
<1>9. PICK G : /\ Becomes(forest, G, Forgotten(ClearedLinks(g), back), exists \ {g},
                          Attached(forest) \ Under(forest, HeadOf(g)))
               /\ \A X : Gains(forest, G, X, X)
  <2> HIDE DEF back, B, gone
  <2>1. back \subseteq Nodes /\ back \cap (Attached(forest) \ Under(forest, HeadOf(g))) = {}
    BY <1>7, <1>8 DEF back
  <2> QED
    BY <1>1, <2>1, ClearTurns
<1>10. Becomes(forest, G, link', exists', Attached(forest) \ U)
  BY <1>2, <1>4, <1>9
<1>11. Attached(G) = Attached(forest) \ U /\ Shape(G, Attached(G))
  BY <1>10 DEF Becomes, Fits, Linked
<1>12. RegionsStay(forest, G, g, g, {})
  <2>1. Gains(forest, G, {}, {})
    BY <1>9
  <2>2. {} \cap Attached(forest) \subseteq Region(forest, g)
    OBVIOUS
  <2> QED
    BY <1>1, <1>11, <2>1, <2>2, RegionsTurn
<1>13. Safe(G, live', owner', dangles', exists', stolen', registered', NoNode)
  <2>1. gone = {n \in Nodes : owner[n] \notin stay}
    OBVIOUS
  <2> HIDE DEF gone, stay, B
  <2>2. Razed(forest, G, live, owner, dangles, exists, stolen, live', owner', dangles', stolen', registered',
              g, B, gone)
    BY <1>1, <1>2, <1>4, <1>5, <1>11, <1>12, <2>1 DEF Razed
  <2>3. Safe(forest, live, owner, dangles, exists, stolen, registered, NoNode)
    BY <1>3
  <2>4. Safe(G, live', owner', dangles', exists \ {g}, stolen', registered', NoNode)
    BY ONLY <2>2, <2>3, DestroySafe
  <2> QED
    BY <1>4, <2>4
<1>14. Loses(forest, G, live, live', owner')
  <2>1. \A m \in gone : owner'[m] = NoNode
    BY <1>4
  <2>2. Attached(G) = (Attached(forest) \ U) \cup {} /\ {} \cap live \subseteq B /\ {} \cap gone = {}
    BY <1>11
  <2>3. U \subseteq Attached(forest)
    BY <1>1 DEF RegionsAre
  <2> HIDE DEF gone, B, U
  <2>4. Loses(forest, G, live, ((live \ B) \cup {}) \ gone, owner')
    BY <1>1, <1>2, <2>1, <2>2, <2>3, LosesOnly
  <2>5. ((live \ B) \cup {}) \ gone = live'
    BY <1>4
  <2> QED
    BY <2>4, <2>5
<1>15. Turned(G)
  BY <1>10, <1>11, <1>13, <1>14 DEF Turned
<1> QED
  BY <1>15

\* Every operation that prunes is a turn.
LEMMA Prunes ==
  ASSUME GraphInv, NEW g \in exists, merging = NoNode, merging' = merging, Prune(g)
  PROVE  \E G : Turned(G)
BY Erases, Clears, Destroys DEF Prune

\* The memory side of an operation of g that moves nodes.
LEMMA StillActs ==
  ASSUME GraphInv, NEW g \in exists, NEW h \in exists, Takes(g, h), UNCHANGED memoryVars,
         NEW X, X \subseteq Under(forest, HeadOf(g)) \cup Under(forest, HeadOf(h)),
         \E G : /\ Becomes(forest, G, link', exists, Attached(forest))
                /\ Gains(forest, G, Under(forest, HeadOf(g)), X)
  PROVE  \E G : Turned(G)
<1>1. PICK G : /\ Becomes(forest, G, link', exists, Attached(forest))
               /\ Gains(forest, G, Under(forest, HeadOf(g)), X)
  OBVIOUS
<1> DEFINE P == Under(forest, HeadOf(g))
<1> DEFINE Y == Under(forest, HeadOf(g)) \cup Under(forest, HeadOf(h))
<1>2. P \subseteq P /\ X \subseteq Y /\ Gains(forest, G, P, X)
  BY <1>1
<1> HIDE DEF P, Y
<1>3. Gains(forest, G, P, Y)
  BY <1>2, GainsMore
<1>4. Gains(forest, G, Under(forest, HeadOf(g)), Under(forest, HeadOf(g)) \cup Under(forest, HeadOf(h)))
  BY <1>3 DEF P, Y
<1>5. Turned(G)
  BY <1>1, <1>4, MovesAct
<1> QED
  BY <1>5

\* Links that stay say the same forest.
LEMMA StayTurns ==
  ASSUME NEW L, NEW F, NEW E, Fits(L, F, E)
  PROVE  \E G : Becomes(F, G, L, E, Attached(F)) /\ \A P, X : Gains(F, G, P, X)
<1>1. Becomes(F, F, L, E, Attached(F)) /\ \A P, X : Gains(F, F, P, X)
  BY DEF Becomes, Gains
<1> QED
  BY <1>1

\* MoveAfter and MoveBefore are turns.
LEMMA MovesBeside ==
  ASSUME GraphInv, NEW g \in exists, merging' = merging, NEW n \in Reached(g), NEW m \in Reached(g),
         n \notin UnderOf(m), MoveAfter(n, m) \/ MoveBefore(n, m)
  PROVE  \E G : Turned(G)
<1> DEFINE P == Under(forest, HeadOf(g))
<1> DEFINE T == TakenOut(link, m)
<1>1. Fits(link, forest, exists) /\ g \in Graphs /\ Takes(g, g)
  BY StateIs DEF Takes
<1>2. /\ n \in Attached(forest) /\ n \in P /\ m \in Attached(forest) /\ m \in P /\ Whole(forest, P)
      /\ n \notin Under(forest, m)
  BY <1>1, ReachedIs
<1>3. T = TakenOut(link, m)
  OBVIOUS
<1>4. UNCHANGED memoryVars
  BY DEF MoveAfter, MoveBefore, Moves
<1>5. CASE link' = link
  <2>1. \E G : /\ Becomes(forest, G, link', exists, Attached(forest)) /\ Gains(forest, G, P, P)
    BY <1>1, <1>5, StayTurns
  <2>2. P \subseteq Under(forest, HeadOf(g)) \cup Under(forest, HeadOf(g))
    OBVIOUS
  <2> QED
    BY <1>1, <1>4, <2>1, <2>2, StillActs
<1>6. CASE link' = PutIn(T, m, T[n].up, n, T[n].next) \/ link' = PutIn(T, m, T[n].up, T[n].prev, n)
  <2>1. \E G : /\ Becomes(forest, G, link', exists, Attached(forest)) /\ Gains(forest, G, P, P)
    <3> HIDE DEF P, T
    <3> QED
      BY <1>1, <1>2, <1>3, <1>6, MoveBeside
  <2>2. P \subseteq Under(forest, HeadOf(g)) \cup Under(forest, HeadOf(g))
    OBVIOUS
  <2> QED
    BY <1>1, <1>4, <2>1, <2>2, StillActs
<1> QED
  BY <1>5, <1>6 DEF MoveAfter, MoveBefore, Moves

\* Flatten and Reparent are turns.
LEMMA MovesRun ==
  ASSUME GraphInv, NEW g \in exists, merging' = merging,
         \/ \E n \in Reached(g) : Flatten(n)
         \/ \E n, m \in Reached(g) : (n = m \/ n \notin UnderOf(m)) /\ Reparent(n, m)
  PROVE  \E G : Turned(G)
<1> DEFINE P == Under(forest, HeadOf(g))
<1>1. /\ Fits(link, forest, exists) /\ g \in Graphs /\ Takes(g, g)
      /\ Linked(link, forest, Attached(forest), exists)
  BY StateIs DEF Takes
<1>2. \A n \in Reached(g) : /\ n \in Attached(forest) /\ n \in P
                            /\ Children(link, n) = forest[n] /\ UnderOf(n) = Under(forest, n)
  BY <1>1, ReachedIs, ChildrenAre
<1>3. Whole(forest, P)
  BY <1>1, ReachedIs
<1>4. P \subseteq Under(forest, HeadOf(g)) \cup Under(forest, HeadOf(g))
  OBVIOUS
<1>5. ASSUME NEW n \in Reached(g), Flatten(n)
      PROVE  \E G : Turned(G)
  <2> DEFINE M == [link EXCEPT ![n].first = NoNode, ![n].last = NoNode]
  <2>1. /\ forest[n] # <<>> /\ link' = RunIn(M, forest[n], link[n].up, n, link[n].next)
        /\ UNCHANGED memoryVars
    BY <1>2, <1>5 DEF Flatten, Moves
  <2>2. M = [link EXCEPT ![n].first = NoNode, ![n].last = NoNode] /\ n \in Attached(forest) /\ n \in P
    BY <1>2
  <2>3. \E G : Becomes(forest, G, link', exists, Attached(forest)) /\ Gains(forest, G, P, P)
    <3> HIDE DEF P, M
    <3> QED
      BY <1>1, <1>3, <2>1, <2>2, FlattenTurns
  <2> QED
    BY <1>1, <1>4, <2>1, <2>3, StillActs
<1>6. ASSUME NEW n \in Reached(g), NEW m \in Reached(g), n = m \/ n \notin UnderOf(m), Reparent(n, m)
      PROVE  \E G : Turned(G)
  <2> DEFINE M == [link EXCEPT ![m].first = NoNode, ![m].last = NoNode]
  <2>1. /\ forest[m] # <<>> /\ link' = RunIn(M, forest[m], n, M[n].last, NoNode)
        /\ UNCHANGED memoryVars
    BY <1>2, <1>6 DEF Reparent, Moves
  <2>2. /\ M = [link EXCEPT ![m].first = NoNode, ![m].last = NoNode] /\ n \in Attached(forest) /\ n \in P
        /\ m \in Attached(forest) /\ m \in P /\ (n = m \/ n \notin Under(forest, m))
    BY <1>2, <1>6
  <2>3. \E G : Becomes(forest, G, link', exists, Attached(forest)) /\ Gains(forest, G, P, P)
    <3> HIDE DEF P, M
    <3> QED
      BY <1>1, <1>3, <2>1, <2>2, ReparentTurns
  <2> QED
    BY <1>1, <1>4, <2>1, <2>3, StillActs
<1> QED
  BY <1>5, <1>6

\* MoveOntop is a turn.
LEMMA MovesOntop ==
  ASSUME GraphInv, NEW g \in exists, merging' = merging, NEW n \in Reached(g), NEW m \in Reached(g),
         Apart(n, m), ~Neighbours(n, m), MoveOntop(g, n, m)
  PROVE  \E G : Turned(G)
<1> DEFINE P == Under(forest, HeadOf(g))
<1> DEFINE B == {n} \cup ErasedBelow(link, n)
<1> DEFINE U == Under(forest, n)
<1>1. Fits(link, forest, exists) /\ g \in Graphs /\ RegionsAre(forest)
  BY StateIs
<1>2. /\ n \in Attached(forest) /\ n \in P /\ m \in Attached(forest) /\ m \in P /\ Whole(forest, P)
      /\ n \notin Under(forest, m) /\ m \notin Under(forest, n) /\ n \in Region(forest, g)
  BY <1>1, ReachedIs DEF Apart
<1>3. link[n].next # m /\ link[m].next # n
  BY DEF Neighbours
<1>4. Cutoff(forest, B, U) /\ B \subseteq U /\ U \subseteq Region(forest, g)
  <2>1. U \subseteq Region(forest, g)
    BY <1>1, <1>2 DEF RegionsAre
  <2>2. Cutoff(forest, B, U) /\ B \subseteq U
    BY <1>1, <1>2, CutoffBelow
  <2> QED
    BY <2>1, <2>2
<1>5. link' = Forgotten(OnTop(link, n, m), B) /\ Returned(g, B)
  BY DEF MoveOntop
<1>6. PICK G : Becomes(forest, G, link', exists, Attached(forest) \ U) /\ Gains(forest, G, P, P)
  <2>1. B \subseteq Under(forest, n)
    BY <1>4
  <2> HIDE DEF P, B
  <2>2. PICK G : /\ Becomes(forest, G, Forgotten(OnTop(link, n, m), B), exists,
                            Attached(forest) \ Under(forest, n))
                 /\ Gains(forest, G, P, P)
    BY <1>1, <1>2, <1>3, <2>1, OntopTurns
  <2> QED
    BY <1>5, <2>2
<1> HIDE DEF B, U
<1>7. Turned(G)
  BY <1>4, <1>5, <1>6, EraseActs
<1> QED
  BY <1>7

\* Swap is a turn, whether the nodes are neighbours or not.
LEMMA Swaps ==
  ASSUME GraphInv, NEW g \in exists, merging' = merging, NEW n \in Reached(g), NEW m \in Reached(g),
         Apart(n, m), Swap(n, m)
  PROVE  \E G : Turned(G)
<1> DEFINE P == Under(forest, HeadOf(g))
<1>1. Fits(link, forest, exists) /\ g \in Graphs /\ Takes(g, g)
  BY StateIs DEF Takes
<1>2. /\ n \in Attached(forest) /\ n \in P /\ m \in Attached(forest) /\ m \in P /\ Whole(forest, P)
      /\ n \notin Under(forest, m) /\ m \notin Under(forest, n)
  BY <1>1, ReachedIs DEF Apart
<1>3. P \subseteq Under(forest, HeadOf(g)) \cup Under(forest, HeadOf(g))
  OBVIOUS
<1>4. ASSUME NEW x \in {n, m}, NEW y \in {n, m}, x # y, link[x].next = y, SwapNext(x)
      PROVE  \E G : Turned(G)
  <2>1. /\ link' = Join(Join(Join(link, link[x].up, link[x].prev, y), link[x].up, y, x),
                        link[x].up, x, link[y].next)
        /\ UNCHANGED memoryVars
    BY <1>4 DEF SwapNext, Moves
  <2>2. x \in Attached(forest) /\ y \in Attached(forest) /\ y \notin Under(forest, x) /\ x \in P /\ y \in P
    BY <1>2, <1>4
  <2>3. \E G : Becomes(forest, G, link', exists, Attached(forest)) /\ Gains(forest, G, P, P)
    <3> HIDE DEF P
    <3> QED
      BY <1>1, <1>2, <1>4, <2>1, <2>2, SwapNextTurns
  <2> QED
    BY <1>1, <1>3, <2>1, <2>3, StillActs
<1>5. n # m
  <2>1. Shape(forest, Attached(forest)) /\ n \in Parents
    BY <1>1, ReachedIs, StateIs
  <2>2. \A p \in Parents : ToSet(forest[p]) \subseteq Parents
    BY <2>1, ShapeIs
  <2>3. n \in Under(forest, n)
    BY <2>1, <2>2, UnderIs
  <2> QED
    BY <1>2, <2>3
<1>6. CASE SwapNext(n) /\ link[n].next = m
  BY <1>4, <1>5, <1>6
<1>7. CASE SwapNext(m) /\ link[m].next = n
  BY <1>4, <1>5, <1>7
<1>8. CASE link[n].next # m /\ link[m].next # n
  <2>1. /\ link' = PutIn(PutIn(link, n, link[m].up, link[m].prev, link[m].next),
                         m, link[n].up, link[n].prev, link[n].next)
        /\ UNCHANGED memoryVars
    BY <1>8 DEF Swap, Moves
  <2>2. \E G : Becomes(forest, G, link', exists, Attached(forest)) /\ Gains(forest, G, P, P)
    <3> HIDE DEF P
    <3> QED
      BY <1>1, <1>2, <1>8, <2>1, SwapFarTurns
  <2> QED
    BY <1>1, <1>3, <2>1, <2>2, StillActs
<1> QED
  BY <1>6, <1>7, <1>8 DEF Swap

\* AppendOther and PrependOther are turns, from the same graph or another.
LEMMA Adopts ==
  ASSUME GraphInv, NEW g \in exists, NEW h \in exists, Takes(g, h), NEW n \in Reached(g), NEW m \in Reached(h),
         n \notin UnderOf(m),
         \/ AppendOther(g, n, m) /\ link[n].last # m
         \/ PrependOther(g, n, m) /\ link[n].first # m
  PROVE  \E G : Turned(G)
<1> DEFINE P == Under(forest, HeadOf(g))
<1> DEFINE X == Under(forest, HeadOf(h))
<1>1. /\ Fits(link, forest, exists) /\ g \in Graphs /\ h \in Graphs /\ dangles[g] \in SUBSET Nodes
  BY StateIs
<1>2. /\ n \in Attached(forest) /\ n \in P /\ m \in Attached(forest) /\ m \in X
      /\ n \notin Under(forest, m)
      /\ P = Region(forest, g) \cup {HeadOf(g)} /\ X = Region(forest, h) \cup {HeadOf(h)}
  BY <1>1, ReachedIs
<1>3. PICK got \in Supplies(dangles[g], Slots, 1) : Supplied(g, got, dangles[g] \cup got)
  BY DEF AppendOther, PrependOther, Adopt
<1>4. live' = live /\ stolen' = stolen
  BY DEF AppendOther, PrependOther, Adopt
<1>5. got \subseteq Nodes /\ \A v \in got : v \in dangles[g] \/ owner[v] = NoNode
  <2>1. got \subseteq Nodes /\ \A v \in got : v \in dangles[g] \/ v \notin Slots
    BY <1>1, SuppliesAre
  <2> QED
    BY <2>1 DEF Slots
<1> DEFINE free == dangles[g] \cup got
<1>6. Taken(owner, dangles, g, {}, {}, got, free)
  BY <1>1, <1>5 DEF Taken
<1>7. Cutoff(forest, {}, {})
  BY NothingCut
<1>8. Did(g, h, {}, {}, got, free, {})
  BY <1>3, <1>4, <1>6, <1>7 DEF Did, Takes
<1>9. PICK G : Becomes(forest, G, link', exists, Attached(forest)) /\ Gains(forest, G, P, X)
  <2>1. CASE AppendOther(g, n, m) /\ link[n].last # m
    <3>1. link' = Adopted(n, m, link[n].last, NoNode)
      BY <2>1 DEF AppendOther, Adopt
    <3> HIDE DEF P, X
    <3> QED
      BY <1>1, <1>2, <2>1, <3>1, AdoptTurns
  <2>2. CASE PrependOther(g, n, m) /\ link[n].first # m
    <3>1. link' = Adopted(n, m, NoNode, link[n].first)
      BY <2>2 DEF PrependOther, Adopt
    <3> HIDE DEF P, X
    <3> QED
      BY <1>1, <1>2, <2>2, <3>1, AdoptTurns
  <2> QED
    BY <2>1, <2>2
<1>10. Becomes(forest, G, link', exists, (Attached(forest) \ {}) \cup {})
  <2>1. (Attached(forest) \ {}) \cup {} = Attached(forest)
    OBVIOUS
  <2> QED
    BY <1>9, <2>1
<1>11. /\ P \subseteq Region(forest, g) \cup {HeadOf(g)} \cup {}
       /\ X \subseteq Region(forest, g) \cup Region(forest, h) \cup {HeadOf(g), HeadOf(h)} \cup {}
  BY <1>2
<1>12. Gains(forest, G, P, X)
  BY <1>9
<1> HIDE DEF P, X, free
<1>13. Turned(G)
  BY <1>8, <1>10, <1>11, <1>12, Acts
<1> QED
  BY <1>13

\* ReplaceBy is a turn.
LEMMA Replaces ==
  ASSUME GraphInv, NEW g \in exists, merging' = merging, NEW n \in Reached(g), NEW m \in Reached(g),
         Apart(n, m), ReplaceBy(g, n, m)
  PROVE  \E G : Turned(G)
<1> DEFINE P == Under(forest, HeadOf(g))
<1> DEFINE C == ErasedBelow(link, n)
<1> DEFINE B == {n} \cup C
<1> DEFINE U == Under(forest, n)
<1> DEFINE D == Under(forest, m)
<1> DEFINE dd == dangles[g] \cup C
<1>1. /\ Fits(link, forest, exists) /\ g \in Graphs /\ RegionsAre(forest) /\ dangles[g] \subseteq Nodes
      /\ dangles[g] \cap live = {} /\ Attached(forest) \subseteq live /\ live \subseteq Nodes
      /\ \A v \in live : owner[v] # NoNode
  BY StateIs
<1>2. /\ n \in Attached(forest) /\ n \in P /\ m \in Attached(forest) /\ Whole(forest, P)
      /\ n \notin Under(forest, m) /\ m \notin Under(forest, n)
      /\ n \in Region(forest, g) /\ m \in Region(forest, g) /\ UnderOf(m) = D /\ n \in Nodes /\ m \in Nodes
      /\ P = Region(forest, g) \cup {HeadOf(g)}
  BY <1>1, ReachedIs DEF Apart
<1>3. U \subseteq Region(forest, g) /\ D \subseteq Region(forest, g)
  BY <1>1, <1>2 DEF RegionsAre
<1>4. Cutoff(forest, B, U) /\ B \subseteq U /\ n \notin C
  BY <1>1, <1>2, CutoffBelow
<1>5. U \subseteq Attached(forest) /\ D \subseteq Nodes /\ C \subseteq Nodes /\ dd \subseteq Nodes
  <2>1. Region(forest, g) \subseteq Attached(forest) /\ Region(forest, g) \subseteq Nodes
    BY <1>1 DEF RegionsAre
  <2> QED
    BY <2>1, <1>1, <1>3, <1>4
<1>6. PICK top \in Nodes :
        /\ {top} \in Supplies(dd, Slots, 1)
        /\ \E got \in Supplies((dd \ {top}) \cup {n}, Slots \cup {top}, Cardinality(UnderOf(m)) - 1) :
             /\ link' = Forgotten(Copied(ChildrenCut(link, n), m, n, Images(m, top, got)), B \ (got \cup {top}))
             /\ live' = (live \ B) \cup got \cup {top}
             /\ Supplied(g, got \cup {top}, ((dd \ {top}) \cup {n}) \ got)
  BY DEF ReplaceBy
<1>7. PICK got \in Supplies((dd \ {top}) \cup {n}, Slots \cup {top}, Cardinality(D) - 1) :
             /\ link' = Forgotten(Copied(ChildrenCut(link, n), m, n, Images(m, top, got)), B \ (got \cup {top}))
             /\ live' = (live \ B) \cup got \cup {top}
             /\ Supplied(g, got \cup {top}, ((dd \ {top}) \cup {n}) \ got)
  BY <1>2, <1>6
<1>8. stolen' = stolen
  BY DEF ReplaceBy
<1> DEFINE R == got \cup {top}
<1> DEFINE image == Images(m, top, got)
<1> DEFINE free == ((dd \ {top}) \cup {n}) \ got
<1>9. top \in dd \/ top \notin Slots
  BY <1>5, <1>6, SupplyOne
<1>10. n \in Slots /\ n \in live
  BY <1>1, <1>2 DEF Slots
<1>11. top # n
  BY <1>1, <1>4, <1>9, <1>10
<1>12. m \in D /\ Cardinality(D) - 1 \in Nat
  <2>1. m \in D
    <3>1. m \in Parents /\ Shape(forest, Attached(forest))
      BY ReachedIs, StateIs, <1>1
    <3>2. \A p \in Parents : ToSet(forest[p]) \subseteq Parents
      BY <3>1, ShapeIs
    <3> QED
      BY <3>1, <3>2, UnderIs
  <2>2. IsFiniteSet(D) /\ Cardinality(D) \in Nat
    BY <1>5, NodesFinite
  <2>3. Cardinality(D) # 0
    BY <2>1, <2>2, FS_EmptySet
  <2> HIDE DEF D
  <2> QED
    BY <2>1, <2>2, <2>3
<1>13. /\ got \subseteq Nodes /\ Cardinality(got) = Cardinality(D) - 1
       /\ \A v \in got : v \in (dd \ {top}) \cup {n} \/ v \notin Slots \cup {top}
  <2>1. (dd \ {top}) \cup {n} \in SUBSET Nodes
    BY <1>2, <1>5
  <2> DEFINE from == (dd \ {top}) \cup {n}
  <2> DEFINE k == Cardinality(D) - 1
  <2> DEFINE cut == Slots \cup {top}
  <2>2. from \in SUBSET Nodes /\ k \in Nat /\ got \in Supplies(from, cut, k)
    BY <2>1, <1>12
  <2> HIDE DEF from, k, cut
  <2>3. got \subseteq Nodes /\ Cardinality(got) = k /\ \A v \in got : v \in from \/ v \notin cut
    BY <2>2, SuppliesAre
  <2> QED
    BY <2>3 DEF from, k, cut
<1>14. top \notin got
  BY <1>11, <1>13
<1>15. OneToOne(image, D) /\ {image[z] : z \in D} = R /\ image[m] = top
  <2> HIDE DEF D
  <2>1. D \in SUBSET Nodes /\ D = UnderOf(m) /\ m \in D /\ got \in SUBSET Nodes
    BY <1>2, <1>5, <1>12, <1>13
  <2> QED
    BY <2>1, <1>13, <1>14, ImagesAre
<1>16. \A v \in R : v \in Nodes /\ (v \in dangles[g] \cup B \/ owner[v] = NoNode)
  <2>1. \A v \in Nodes : v \notin Slots => owner[v] = NoNode
    BY DEF Slots
  <2>2. dd \subseteq dangles[g] \cup B
    OBVIOUS
  <2> HIDE DEF dd, B
  <2>3. n \in dangles[g] \cup B
    BY DEF B
  <2> QED
    BY <1>9, <1>13, <2>1, <2>2, <2>3
<1>17. R \cap (Attached(forest) \ U) = {}
  <2>1. \A v \in R : v \in live => v \in B
    BY <1>1, <1>16
  <2> QED
    BY <1>1, <1>4, <2>1
<1> DEFINE back == B \ R
<1>18. back \subseteq U \ R
  BY <1>4
<1>19. PICK G : /\ Becomes(forest, G, link', exists, (Attached(forest) \ U) \cup R)
                /\ Gains(forest, G, P \cup R, P \cup R)
  <2>1. link' = Forgotten(Copied(ChildrenCut(link, n), m, n, image), back)
    BY <1>7
  <2>2. R = {image[z] : z \in Under(forest, m)} /\ OneToOne(image, Under(forest, m))
    BY <1>15
  <2>3. R \cap (Attached(forest) \ Under(forest, n)) = {} /\ back \subseteq Under(forest, n) \ R
    BY <1>17, <1>18
  <2> HIDE DEF P, R, image, back, free, B, C, dd, D
  <2>4. PICK G : /\ Becomes(forest, G, Forgotten(Copied(ChildrenCut(link, n), m, n, image), back), exists,
                            (Attached(forest) \ Under(forest, n)) \cup R)
                 /\ Gains(forest, G, P \cup R, P \cup R)
    BY <1>1, <1>2, <2>2, <2>3, OverwriteTurns
  <2> QED
    BY <2>1, <2>4
<1>20. Taken(owner, dangles, g, B, R, R, free)
  <2>1. R \subseteq Nodes /\ free \subseteq Nodes
    BY <1>2, <1>5, <1>16
  <2>2. R \cup free \subseteq dangles[g] \cup B \cup R
    OBVIOUS
  <2>3. R \cap free = {}
    BY <1>11
  <2>4. \A v \in R : v \in dangles[g] \cup B \/ owner[v] = NoNode
    BY <1>16
  <2> HIDE DEF R, free, B
  <2> QED
    BY <2>1, <2>2, <2>3, <2>4 DEF Taken
<1>21. Did(g, g, B, R, R, free, U)
  <2>1. live' = (live \ B) \cup R /\ Supplied(g, R, free)
    BY <1>7
  <2> HIDE DEF R, free, B, U
  <2> QED
    BY <2>1, <1>3, <1>4, <1>8, <1>20 DEF Did
<1>22. /\ P \cup R \subseteq Region(forest, g) \cup {HeadOf(g)} \cup R
       /\ P \cup R \subseteq Region(forest, g) \cup Region(forest, g) \cup {HeadOf(g), HeadOf(g)} \cup R
  BY <1>2
<1> DEFINE X == P \cup R
<1>23. Gains(forest, G, X, X)
  BY <1>19
<1>24. /\ X \subseteq Region(forest, g) \cup {HeadOf(g)} \cup R
       /\ X \subseteq Region(forest, g) \cup Region(forest, g) \cup {HeadOf(g), HeadOf(g)} \cup R
  BY <1>22
<1> HIDE DEF X, R, U, B, free
<1>25. Turned(G)
  BY <1>19, <1>21, <1>23, <1>24, Acts
<1> QED
  BY <1>25

\* Every operation that rearranges is a turn.
LEMMA Rearranges ==
  ASSUME GraphInv, NEW g \in exists, merging' = merging, Rearrange(g)
  PROVE  \E G : Turned(G)
<1>1. Takes(g, g)
  BY DEF Takes
<1> QED
  BY <1>1, MovesBeside, MovesRun, MovesOntop, Swaps, Replaces, Adopts DEF Rearrange

\* Taking nodes of the graph that is merged is a turn.
LEMMA TakesFrom ==
  ASSUME GraphInv, Main \in exists, NEW h \in exists \ {Main}, merging \in {NoNode, h}, merging' = h,
         TakeFrom(Main, h)
  PROVE  \E G : Turned(G)
<1> DEFINE P == Under(forest, HeadOf(Main))
<1> DEFINE X == Under(forest, HeadOf(h))
<1> DEFINE M == [link EXCEPT ![HeadOf(h)].next = FeetOf(h), ![FeetOf(h)].prev = HeadOf(h)]
<1>1. /\ Fits(link, forest, exists) /\ Main \in Graphs /\ h \in Graphs /\ h # Main /\ RegionsAre(forest)
      /\ Linked(link, forest, Attached(forest), exists) /\ Shape(forest, Attached(forest))
  BY StateIs
<1>2. Takes(Main, h)
  BY <1>1 DEF Takes
<1>3. /\ \A n \in Reached(Main) : /\ n \in Attached(forest) /\ n \in P /\ n \in Region(forest, Main)
                                  /\ Children(link, n) = forest[n] /\ n \in Nodes
      /\ \A m \in Reached(h) : /\ m \in Attached(forest) /\ m \in X /\ m \in Region(forest, h)
                               /\ UnderOf(m) = Under(forest, m) /\ m \in Nodes
      /\ Whole(forest, P) /\ Tops(link, h) = forest[HeadOf(h)]
      /\ X = Region(forest, h) \cup {HeadOf(h)} /\ P = Region(forest, Main) \cup {HeadOf(Main)}
  BY <1>1, ReachedIs, ChildrenAre
<1>4. Region(forest, Main) \cap Region(forest, h) = {} /\ HeadOf(h) \in Parents /\ HeadOf(h) \notin Nodes
      /\ HeadOf(Main) \notin Nodes
  BY <1>1, ParentsAre DEF RegionsAre
<1>5. \A n \in Reached(Main) : n \notin X
  BY <1>3, <1>4
<1>6. ToSet(forest[HeadOf(h)]) \subseteq X
  <2>1. \A p \in Parents : ToSet(forest[p]) \subseteq Parents
    BY <1>1, ShapeIs
  <2> QED
    BY <2>1, <1>4, UnderIs
<1>7. X \subseteq Under(forest, HeadOf(Main)) \cup Under(forest, HeadOf(h))
  OBVIOUS
<1>8. ASSUME NEW n \in Reached(Main), NEW m \in Reached(h), AppendOther(Main, n, m)
      PROVE  \E G : Turned(G)
  <2>1. n \notin UnderOf(m)
    <3>1. Under(forest, m) \subseteq Region(forest, h)
      BY <1>1, <1>3 DEF RegionsAre
    <3> QED
      BY <3>1, <1>3, <1>4
  <2>2. link[n].last # m
    <3>1. n \in Held(Attached(forest), exists) /\ n \in Attached(forest)
      BY <1>1, <1>3, HeldIs
    <3>2. /\ Rightmost(link, n) = At(forest[n], n, Len(forest[n])) /\ Rightmost(link, n) = link[n].last
          /\ forest[n] \in Seq(Nodes) /\ LeftEnd(n) = NoNode
      BY <1>1, <3>1, Ends
    <3>3. n \in Parents /\ Len(forest[n]) \in Nat
      BY <1>3, <3>2, ParentsAre, SetOf
    <3>4. CASE Len(forest[n]) = 0
      <4>1. link[n].last = NoNode
        BY <3>2, <3>4 DEF At
      <4>2. NoNode \notin Nodes
        BY DEF Nodes, NoNode
      <4> QED
        BY <4>1, <4>2, <1>3
    <3>5. CASE Len(forest[n]) # 0
      <4>1. link[n].last = forest[n][Len(forest[n])] /\ Len(forest[n]) \in 1 .. Len(forest[n])
        BY <3>2, <3>3, <3>5 DEF At
      <4>2. link[n].last \in ToSet(forest[n])
        BY <4>1, <3>2, SetOf
      <4>3. link[n].last \in P
        <5>1. Closed(forest, P) /\ n \in P
          BY <1>3 DEF Whole
        <5> HIDE DEF P
        <5> QED
          BY <4>2, <5>1 DEF Closed
      <4> QED
        BY <4>3, <1>3, <1>4
    <3> QED
      BY <3>4, <3>5
  <2> QED
    BY <1>1, <1>2, <1>8, <2>1, <2>2, Adopts
<1>9. M = [link EXCEPT ![HeadOf(h)].next = FeetOf(h), ![FeetOf(h)].prev = HeadOf(h)]
  OBVIOUS
<1>10. ASSUME NEW n \in Reached(Main), MoveInBefore(h, n)
       PROVE  \E G : Turned(G)
  <2>1. /\ forest[HeadOf(h)] # <<>> /\ UNCHANGED memoryVars
        /\ link' = RunIn(M, forest[HeadOf(h)], link[n].up, link[n].prev, n)
    BY <1>3, <1>10 DEF MoveInBefore, MoveIn, Moves
  <2>2. n \in Attached(forest) /\ n \in P /\ n \notin Under(forest, HeadOf(h))
    BY <1>3, <1>5
  <2>3. \E G : Becomes(forest, G, link', exists, Attached(forest)) /\ Gains(forest, G, P, X)
    <3>1. h \in exists
      OBVIOUS
    <3> HIDE DEF P, X, M
    <3> QED
      BY <1>1, <1>3, <1>6, <1>9, <2>1, <2>2, <3>1, MoveInBeside
  <2> HIDE DEF X
  <2> QED
    BY <1>2, <1>7, <2>1, <2>3, StillActs
<1>11. ASSUME NEW n \in Reached(Main), NEW k \in 0 .. Len(Children(link, n)), MoveInAsNthChild(h, n, k)
       PROVE  \E G : Turned(G)
  <2> DEFINE a == IF k = 0 THEN NoNode ELSE forest[n][k]
  <2> DEFINE b == IF k = Len(forest[n]) THEN NoNode ELSE forest[n][k + 1]
  <2>1. /\ forest[HeadOf(h)] # <<>> /\ UNCHANGED memoryVars
        /\ link' = RunIn(M, forest[HeadOf(h)], n, a, b)
    BY <1>3, <1>11 DEF MoveInAsNthChild, MoveIn, Moves
  <2>2. /\ n \in Attached(forest) /\ n \in P /\ n \notin Under(forest, HeadOf(h)) /\ k \in 0 .. Len(forest[n])
        /\ a = IF k = 0 THEN NoNode ELSE forest[n][k]
        /\ b = IF k = Len(forest[n]) THEN NoNode ELSE forest[n][k + 1]
    BY <1>3, <1>5
  <2>3. \E G : Becomes(forest, G, link', exists, Attached(forest)) /\ Gains(forest, G, P, X)
    <3>1. h \in exists
      OBVIOUS
    <3> HIDE DEF P, X, M, a, b
    <3> QED
      BY <1>1, <1>3, <1>6, <1>9, <2>1, <2>2, <3>1, MoveInNth, ZenonT(30)
  <2> HIDE DEF X
  <2> QED
    BY <1>2, <1>7, <2>1, <2>3, StillActs
<1> QED
  BY <1>8, <1>10, <1>11 DEF TakeFrom

\* EndMerge is a turn.
LEMMA EndsMerge ==
  ASSUME GraphInv, Main \in exists, NEW h \in exists \ {Main}, merging \in {NoNode, h}, merging' = NoNode,
         EndMerge(Main, h)
  PROVE  \E G : Turned(G)
<1> DEFINE B == ClearedNodes(h)
<1> DEFINE U == Region(forest, h)
<1> DEFINE free == dangles[h] \cup B
<1>1. /\ Fits(link, forest, exists) /\ h \in Graphs /\ h # Main /\ RegionsAre(forest)
      /\ Shape(forest, Attached(forest)) /\ Attached(forest) \subseteq live
      /\ dangles \in [Graphs -> SUBSET Nodes] /\ owner \in [Nodes -> Graphs \cup {NoNode}]
      /\ Safe(forest, live, owner, dangles, exists, stolen, registered, merging)
  BY StateIs DEF GraphInv
<1>2. /\ Attached(forest) \ Under(forest, HeadOf(h)) = Attached(forest) \ U
      /\ B \subseteq U /\ B \subseteq Nodes /\ Cutoff(forest, B, U)
  BY RegionUnder
<1>3. /\ link' = Forgotten(ClearedLinks(h), B) /\ live' = live \ B
      /\ owner' = [n \in Nodes |-> IF n \in {} /\ owner[n] = NoNode THEN h ELSE owner[n]]
      /\ dangles' = [dangles EXCEPT ![h] = free] /\ exists' = exists /\ registered' = registered
      /\ stolen' = [stolen EXCEPT ![Main] = stolen[Main] \cup {h}]
  BY DEF EndMerge, Supplied, Steal
<1>4. B \cap (Attached(forest) \ Under(forest, HeadOf(h))) = {}
  BY <1>2
<1>5. PICK G : /\ Becomes(forest, G, Forgotten(ClearedLinks(h), B), exists,
                          Attached(forest) \ Under(forest, HeadOf(h)))
               /\ \A X : Gains(forest, G, X, X)
  <2>1. h \in exists
    OBVIOUS
  <2> HIDE DEF B
  <2> QED
    BY <1>1, <1>2, <1>4, <2>1, ClearTurns
<1>6. Becomes(forest, G, link', exists', Attached(forest) \ U)
  BY <1>2, <1>3, <1>5
<1>7. Attached(G) = Attached(forest) \ U /\ Shape(G, Attached(G))
  BY <1>6 DEF Becomes, Fits, Linked
<1>8. RegionsStay(forest, G, h, h, {})
  <2>1. Gains(forest, G, {}, {})
    BY <1>5
  <2>2. {} \cap Attached(forest) \subseteq Region(forest, h)
    OBVIOUS
  <2> QED
    BY <1>1, <1>7, <2>1, <2>2, RegionsTurn
<1>9. Taken(owner, dangles, h, B, {}, {}, free)
  BY <1>1, <1>2 DEF Taken
<1>10. U \subseteq Attached(forest)
  BY <1>1 DEF RegionsAre
<1>11. Safe(G, live', owner', dangles', exists, stolen, registered, merging)
  <2>1. Stirred(forest, G, live, owner, dangles, exists, merging, live', owner', dangles', merging,
                h, h, B, {}, {}, free)
    <3>1. h \in exists /\ (live \ B) \cup {} = live \ B
      OBVIOUS
    <3> HIDE DEF B, free
    <3>2. B \subseteq live /\ Attached(G) \subseteq (live \ B) \cup {}
      BY <1>1, <1>2, <1>7, <1>10
    <3> QED
      BY <1>2, <1>3, <1>8, <1>9, <3>1, <3>2 DEF Stirred
  <2>2. Safe(forest, live, owner, dangles, exists, stolen, registered, merging)
    BY <1>1
  <2> QED
    BY ONLY <2>1, <2>2, MemoryMoves
<1>12. Safe(G, live', owner', dangles', exists', stolen', registered', merging')
  <2>1. Safe(G, live', owner', dangles', exists, [stolen EXCEPT ![Main] = stolen[Main] \cup {h}],
             registered, NoNode)
    BY <1>11, StealSafe
  <2> QED
    BY <1>3, <2>1
<1>13. Loses(forest, G, live, live', owner')
  <2>1. Attached(G) = (Attached(forest) \ U) \cup {} /\ {} \cap live \subseteq B /\ {} \cap {} = {}
        /\ \A m \in {} : owner'[m] = NoNode
    BY <1>7
  <2> HIDE DEF B, U
  <2>2. Loses(forest, G, live, ((live \ B) \cup {}) \ {}, owner')
    BY <1>1, <1>2, <1>10, <2>1, LosesOnly
  <2>3. ((live \ B) \cup {}) \ {} = live'
    BY <1>3
  <2> QED
    BY <2>2, <2>3
<1>14. Turned(G)
  BY <1>6, <1>7, <1>12, <1>13 DEF Turned
<1> QED
  BY <1>14

\* m_head_initialize writes the links of the two sentinels.
LEMMA InitializedIs ==
  ASSUME NEW L \in Table, NEW g \in Graphs
  PROVE  /\ Initialized(L, g) \in Table
         /\ Initialized(L, g)[HeadOf(g)].next = FeetOf(g) /\ Initialized(L, g)[FeetOf(g)].prev = HeadOf(g)
         /\ \A x \in Linkable : x # HeadOf(g) /\ x # FeetOf(g) => Initialized(L, g)[x] = L[x]
<1>1. HeadOf(g) \in Linkable /\ FeetOf(g) \in Linkable /\ HeadOf(g) # FeetOf(g)
      /\ HeadOf(g) \in Int /\ FeetOf(g) \in Int
  BY GraphAssumption DEF Linkable, Sentinels, HeadOf, FeetOf
<1>2. NoLinks = [up |-> 0, first |-> 0, last |-> 0, prev |-> 0, next |-> 0]
  BY DEF NoLinks, NoNode
<1> DEFINE h == [NoLinks EXCEPT !.next = FeetOf(g)]
<1> DEFINE f == [NoLinks EXCEPT !.prev = HeadOf(g)]
<1>3. h \in Links /\ f \in Links /\ h.next = FeetOf(g) /\ f.prev = HeadOf(g)
  BY <1>1, <1>2 DEF Links
<1> HIDE DEF h, f
<1>4. Initialized(L, g) = [L EXCEPT ![HeadOf(g)] = h, ![FeetOf(g)] = f]
  BY DEF Initialized, h, f
<1>5. L \in [Linkable -> Links]
  BY DEF Table, Links
<1>6. /\ Initialized(L, g) \in [Linkable -> Links]
      /\ Initialized(L, g)[HeadOf(g)] = h /\ Initialized(L, g)[FeetOf(g)] = f
      /\ \A x \in Linkable : x # HeadOf(g) /\ x # FeetOf(g) => Initialized(L, g)[x] = L[x]
  BY <1>1, <1>3, <1>4, <1>5
<1> QED
  BY <1>3, <1>6 DEF Table, Links

\* A new graph is empty.
LEMMA InitTurns ==
  ASSUME NEW L, NEW F, NEW E, Fits(L, F, E), NEW g \in Graphs \ E
  PROVE  Fits(Initialized(L, g), F, E \cup {g})
<1> DEFINE M == Initialized(L, g)
<1> DEFINE K == Attached(F)
<1>1. Linked(L, F, K, E) /\ Shape(F, K) /\ L \in Table /\ E \subseteq Graphs /\ K \subseteq Nodes
  BY DEF Fits, Linked, Shape
<1>2. /\ M \in Table /\ M[HeadOf(g)].next = FeetOf(g) /\ M[FeetOf(g)].prev = HeadOf(g)
      /\ \A x \in Linkable : x # HeadOf(g) /\ x # FeetOf(g) => M[x] = L[x]
  BY <1>1, InitializedIs
<1>3. \A y \in K : M[y] = L[y]
  <2>1. \A y \in K : y \in Linkable /\ y # HeadOf(g) /\ y # FeetOf(g)
    <3>1. HeadOf(g) < 0 /\ FeetOf(g) < 0
      BY GraphAssumption DEF HeadOf, FeetOf
    <3>2. \A y \in Nodes : y \in Linkable /\ y > 0
      BY ParentsAre
    <3> QED
      BY <1>1, <3>1, <3>2, GraphAssumption DEF Nodes, HeadOf, FeetOf
  <2> QED
    BY <1>2, <2>1
<1>4. \A h \in E : M[HeadOf(h)] = L[HeadOf(h)] /\ M[FeetOf(h)] = L[FeetOf(h)]
  <2> SUFFICES ASSUME NEW h \in E PROVE M[HeadOf(h)] = L[HeadOf(h)] /\ M[FeetOf(h)] = L[FeetOf(h)]
    OBVIOUS
  <2>1. h \in Nat /\ g \in Nat /\ h # g /\ h \in Graphs
    BY <1>1, GraphAssumption
  <2>2. /\ HeadOf(h) \in Linkable /\ FeetOf(h) \in Linkable
        /\ HeadOf(h) # HeadOf(g) /\ HeadOf(h) # FeetOf(g) /\ FeetOf(h) # HeadOf(g) /\ FeetOf(h) # FeetOf(g)
    BY <2>1 DEF Linkable, Sentinels, HeadOf, FeetOf
  <2> QED
    BY <1>2, <2>2
<1> HIDE DEF M, K
<1>5. Linked(M, F, K, E)
  BY <1>1, <1>2, <1>3, <1>4, SameLinks
<1>6. F[HeadOf(g)] = <<>> /\ HeadOf(g) \in Parents /\ HeadOf(g) < 0 /\ FeetOf(g) = HeadOf(g) - 1
  BY <1>1, ParentsAre DEF Linked
<1>7. Sibs(M, HeadOf(g), F[HeadOf(g)])
  <2>1. Leftmost(M, HeadOf(g)) = FeetOf(g) /\ Rightmost(M, HeadOf(g)) = HeadOf(g)
    BY <1>2, <1>6 DEF Leftmost, Rightmost
  <2>2. /\ At(<<>>, HeadOf(g), 1) = FeetOf(g) /\ At(<<>>, HeadOf(g), Len(<<>>)) = HeadOf(g)
    BY <1>6 DEF At, LeftEnd, RightEnd
  <2> QED
    BY <1>6, <2>1, <2>2 DEF Sibs
<1>8. \A p \in Held(K, E \cup {g}) : Sibs(M, p, F[p])
  BY <1>5, <1>7 DEF Held, Linked
<1>9. Linked(M, F, K, E \cup {g})
  BY <1>5, <1>8 DEF Linked
<1> QED
  BY <1>9 DEF Fits, M, K

\* Construct is a turn.
LEMMA Constructs ==
  ASSUME GraphInv, NEW g \in Graphs, Construct(g), merging = NoNode, merging' = merging
  PROVE  \E G : Turned(G)
<1>1. /\ g \notin exists /\ link' = Initialized(link, g) /\ exists' = exists \cup {g}
      /\ registered' = registered \cup {g} /\ dangles' = [dangles EXCEPT ![g] = {}]
      /\ live' = live /\ owner' = owner /\ stolen' = stolen
  BY DEF Construct
<1>2. Fits(link, forest, exists) /\ Region(forest, g) = {}
  BY <1>1, StateIs
<1>3. Fits(link', forest, exists')
  BY <1>1, <1>2, InitTurns
<1>4. Safe(forest, live, owner, dangles, exists, stolen, registered, NoNode)
  BY DEF GraphInv
<1>5. Safe(forest, live', owner', dangles', exists', stolen', registered', merging')
  <2>1. Safe(forest, live, owner, [dangles EXCEPT ![g] = {}], exists \cup {g}, stolen, registered \cup {g}, NoNode)
    BY <1>1, <1>2, <1>4, ConstructSafe
  <2> QED
    BY <1>1, <2>1
<1>6. Loses(forest, forest, live, live', owner')
  BY <1>1 DEF Loses
<1>7. Turned(forest)
  BY <1>3, <1>5, <1>6 DEF Turned, Becomes
<1> QED
  BY <1>7

\* Every operation is a turn.
LEMMA UseTurns ==
  ASSUME GraphInv, Use
  PROVE  \E G : Turned(G)
<1>1. ASSUME merging = NoNode, merging' = merging, NEW g \in Graphs, Construct(g)
      PROVE  \E G : Turned(G)
  BY <1>1, Constructs
<1>2. ASSUME merging = NoNode, merging' = merging, NEW g \in exists, Build(g) \/ Prune(g) \/ Rearrange(g)
      PROVE  \E G : Turned(G)
  BY <1>2, Builds, Prunes, Rearranges
<1>3. ASSUME Main \in exists, NEW h \in exists \ {Main}, Merge(Main, h)
      PROVE  \E G : Turned(G)
  BY <1>3, TakesFrom, EndsMerge DEF Merge
<1> QED
  BY <1>1, <1>2, <1>3 DEF Use

\* Every step is a turn, and what is read after it is the forest it turned to.
LEMMA NextTurns ==
  ASSUME GraphInv, GraphNext
  PROVE  Turned(forest')
<1>1. PICK G : Turned(G)
  BY UseTurns DEF GraphNext
<1>2. Linked(link', G, Attached(G), exists')
  BY <1>1 DEF Turned, Becomes, Fits
<1>3. Read(link', exists') = G
  BY <1>2, ReadIs
<1>4. forest' = G
  BY <1>3 DEF GraphNext
<1> QED
  BY <1>1, <1>4

-----------------------------------------------------------------------------
(* The theorems.                                                           *)

\* No graph exists at first: the links say the empty forest.
LEMMA GraphInvInit == GraphInit => GraphInv
<1> SUFFICES ASSUME GraphInit PROVE GraphInv
  OBVIOUS
<1>1. /\ link = [n \in Nodes \cup Sentinels |-> NoLinks] /\ live = {} /\ owner = [n \in Nodes |-> NoNode]
      /\ dangles = [g \in Graphs |-> {}] /\ exists = {} /\ registered = {} /\ merging = NoNode
      /\ stolen = [g \in Graphs |-> {}] /\ forest = [x \in Parents |-> <<>>]
  BY DEF GraphInit, Parents
<1>2. \A p \in Parents : forest[p] = <<>> /\ ToSet(forest[p]) = {}
  BY <1>1 DEF ToSet
<1>3. Attached(forest) = {}
  BY <1>2 DEF Attached
<1>4. Shape(forest, {})
  <2>1. \A p \in Nodes : p \in Parents
    BY ParentsAre
  <2>2. forest \in [Parents -> Seq({})] /\ \A p \in Parents : IsInjective(forest[p])
    BY <1>1, <1>2 DEF IsInjective
  <2>3. \A p \in Nodes \ {} : forest[p] = <<>>
    BY <1>2, <2>1
  <2>4. Grounded(forest, {})
    BY DEF Grounded
  <2> QED
    BY <1>2, <2>2, <2>3, <2>4 DEF Shape
<1>5. link \in Table
  BY <1>1 DEF Table, Linkable, NoLinks, NoNode
<1>6. Linked(link, forest, {}, {})
  <2>1. Held({}, {}) = {}
    BY DEF Held
  <2>2. \A g \in Graphs : forest[HeadOf(g)] = <<>>
    BY <1>2, ParentsAre
  <2> QED
    BY <1>4, <1>5, <2>1, <2>2 DEF Linked
<1>7. Safe(forest, live, owner, dangles, exists, stolen, registered, merging)
  BY <1>1, <1>3, GraphAssumption DEF Safe
<1> QED
  BY <1>1, <1>3, <1>6, <1>7 DEF GraphInv, Fits

\* Every operation keeps the invariant.
LEMMA GraphInvStep == GraphInv /\ [GraphNext]_graphVars => GraphInv'
<1> SUFFICES ASSUME GraphInv, [GraphNext]_graphVars PROVE GraphInv'
  OBVIOUS
<1>1. CASE GraphNext
  <2>1. Turned(forest')
    BY <1>1, NextTurns
  <2>2. /\ Fits(link', forest', exists')
        /\ Safe(forest', live', owner', dangles', exists', stolen', registered', merging')
    BY <2>1 DEF Turned, Becomes
  <2> QED
    BY <2>2 DEF GraphInv
<1>2. CASE UNCHANGED graphVars
  BY <1>2 DEF graphVars, memoryVars, GraphInv
<1> QED
  BY <1>1, <1>2

\* In every state, for any graphs and any number of slots, the links of tim::graph
\* say the forest that is read from them and the memory of its nodes is kept.
THEOREM GraphInvariant == GraphSpec => []GraphInv
BY GraphInvInit, GraphInvStep, PTL DEF GraphSpec

\* The links of p to its last child, and of its children xs to p and to the left.
Backwards(p, xs) ==
  /\ Rightmost(link, p) = IF xs = <<>> THEN LeftEnd(p) ELSE xs[Len(xs)]
  /\ \A i \in DOMAIN xs : /\ link[xs[i]].up = UpFrom(p)
                          /\ link[xs[i]].prev = IF i = 1 THEN LeftEnd(p) ELSE xs[i - 1]

\* Read backwards the graphs are the trees they are forwards, after any sequence of
\* the operations of storage/graph.hpp.
THEOREM GraphLinksAgree == GraphSpec => []LinksAgree
<1>1. ASSUME GraphInv PROVE LinksAgree
  <2>1. /\ Linked(link, forest, Attached(forest), exists) /\ AllReached = Attached(forest)
        /\ Shape(forest, Attached(forest))
    BY <1>1, StateIs, ReachedIs
  <2>2. ASSUME NEW p \in Held(Attached(forest), exists)
        PROVE  Backwards(p, forest[p])
    <3> DEFINE xs == forest[p]
    <3>1. /\ p \in Parents /\ xs \in Seq(Nodes) /\ DOMAIN xs = 1 .. Len(xs) /\ Len(xs) \in Nat
          /\ (xs = <<>> <=> Len(xs) = 0) /\ Rightmost(link, p) = At(xs, p, Len(xs))
      BY <2>1, <2>2, Ends, HeldIs
    <3>2. \A i \in DOMAIN xs : link[xs[i]].up = UpFrom(p) /\ link[xs[i]].prev = At(xs, p, i - 1)
      BY <2>1, <2>2 DEF Linked, Sibs
    <3> HIDE DEF xs
    <3>3. \A i \in 0 .. Len(xs) : At(xs, p, i) = IF i = 0 THEN LeftEnd(p) ELSE xs[i]
      <4>1. \A i \in 0 .. Len(xs) + 1 : i \in 1 .. Len(xs) => At(xs, p, i) = xs[i]
        BY <3>1, AtIs
      <4>2. At(xs, p, 0) = LeftEnd(p)
        BY <3>1, AtIs
      <4> QED
        BY <3>1, <4>1, <4>2
    <3>4. Rightmost(link, p) = IF xs = <<>> THEN LeftEnd(p) ELSE xs[Len(xs)]
      BY <3>1, <3>3
    <3>5. \A i \in DOMAIN xs : /\ link[xs[i]].up = UpFrom(p)
                              /\ link[xs[i]].prev = IF i = 1 THEN LeftEnd(p) ELSE xs[i - 1]
      <4> SUFFICES ASSUME NEW i \in 1 .. Len(xs)
                   PROVE  /\ link[xs[i]].up = UpFrom(p)
                          /\ link[xs[i]].prev = IF i = 1 THEN LeftEnd(p) ELSE xs[i - 1]
        BY <3>1
      <4>1. i - 1 \in 0 .. Len(xs) /\ (i - 1 = 0 <=> i = 1)
        BY <3>1
      <4> QED
        BY <3>1, <3>2, <3>3, <4>1
    <3> QED
      BY <3>4, <3>5 DEF Backwards, xs
  <2>3. ASSUME NEW n \in AllReached, NEW xs, xs = Children(link, n)
        PROVE  /\ link[n].last = IF xs = <<>> THEN NoNode ELSE xs[Len(xs)]
               /\ \A i \in DOMAIN xs : /\ link[xs[i]].up = n
                                       /\ link[xs[i]].prev = IF i = 1 THEN NoNode ELSE xs[i - 1]
    <3>1. n \in Attached(forest) /\ n \in Held(Attached(forest), exists) /\ xs = forest[n]
      BY <2>1, <2>3, ChildrenAre, HeldIs
    <3>2. UpFrom(n) = n /\ LeftEnd(n) = NoNode /\ Rightmost(link, n) = link[n].last
      BY <2>1, <3>1, Ends
    <3>3. Backwards(n, xs)
      BY <2>2, <3>1
    <3> QED
      BY <3>2, <3>3 DEF Backwards
  <2>4. ASSUME NEW g \in exists, NEW xs, xs = Tops(link, g)
        PROVE  /\ link[FeetOf(g)].prev = IF xs = <<>> THEN HeadOf(g) ELSE xs[Len(xs)]
               /\ \A i \in DOMAIN xs : /\ link[xs[i]].up = NoNode
                                       /\ link[xs[i]].prev = IF i = 1 THEN HeadOf(g) ELSE xs[i - 1]
    <3>1. HeadOf(g) \in Held(Attached(forest), exists) /\ xs = forest[HeadOf(g)] /\ g \in Graphs
      BY <2>1, <2>4, ChildrenAre, HeldIs
    <3>2. /\ UpFrom(HeadOf(g)) = NoNode /\ LeftEnd(HeadOf(g)) = HeadOf(g)
          /\ Rightmost(link, HeadOf(g)) = link[FeetOf(g)].prev
      BY <3>1, ParentsAre DEF UpFrom, LeftEnd, Rightmost
    <3>3. Backwards(HeadOf(g), xs)
      BY <2>2, <3>1
    <3> QED
      BY <3>2, <3>3 DEF Backwards
  <2> QED
    BY <2>3, <2>4 DEF LinksAgree
<1> QED
  BY <1>1, GraphInvariant, PTL

\* However graphs are merged, cleared and destroyed, the nodes of a graph and the slots
\* it may hand out lie in memory that an allocator in the registry still holds, and
\* the registry holds no other.
THEOREM GraphNodesHaveMemory == GraphSpec => []NodesHaveMemory
<1>1. ASSUME GraphInv PROVE NodesHaveMemory
  <2>1. /\ AllReached \subseteq live /\ \A n \in live : owner[n] # NoNode /\ exists \subseteq Graphs
    BY <1>1, StateIs, ReachedIs
  <2>2. Safe(forest, live, owner, dangles, exists, stolen, registered, merging)
    BY <1>1 DEF GraphInv
  <2>3. ASSUME NEW g \in exists, NEW n \in dangles[g] PROVE owner[n] # NoNode
    <3>1. Keeps(g, owner[n], stolen, merging) /\ stolen \in [Graphs -> SUBSET Graphs] /\ g \in Graphs
      BY <2>1, <2>2 DEF Safe
    <3>2. NoNode \notin Graphs
      BY GraphAssumption DEF NoNode
    <3> QED
      BY <3>1, <3>2 DEF Keeps
  <2>4. registered = {g \in Graphs : Holders(g) # {}}
    BY <2>2 DEF Safe, Holders
  <2> QED
    BY <2>1, <2>3, <2>4 DEF NodesHaveMemory
<1> QED
  BY <1>1, GraphInvariant, PTL

\* The nodes read from the heads are those that have a place.
AttachedAll == AllReached = Attached(forest)

\* Only erase_children loses nodes: a first child with all within it, of which nothing
\* but memory that is given back is not constructed then.
THEOREM GraphLosesFirstChildren == GraphSpec => LosesFirstChildren
<1>1. GraphInv => AttachedAll
  BY ReachedIs DEF AttachedAll
<1> DEFINE Losing ==
      \A n \in Lost' \ Lost : \E p \in AllReached :
        /\ forest[p] # <<>> /\ n \in Within(forest[p][1])
        /\ \A m \in Within(forest[p][1]) : m \in Lost' \/ owner'[m] = NoNode
<1>2. ASSUME GraphInv, AttachedAll, AttachedAll', GraphNext PROVE Losing
  <2>1. Loses(forest, forest', live, live', owner')
    BY <1>2, NextTurns DEF Turned
  <2>2. Lost = live \ Attached(forest) /\ Lost' = live' \ Attached(forest')
    BY <1>2 DEF Lost, AttachedAll
  <2> SUFFICES ASSUME NEW n \in Lost' \ Lost
               PROVE  \E p \in AllReached :
                        /\ forest[p] # <<>> /\ n \in Within(forest[p][1])
                        /\ \A m \in Within(forest[p][1]) : m \in Lost' \/ owner'[m] = NoNode
    OBVIOUS
  <2>3. PICK p \in Attached(forest) :
          /\ forest[p] # <<>> /\ n \in Under(forest, forest[p][1])
          /\ \A m \in Under(forest, forest[p][1]) : m \in live' \ Attached(forest') \/ owner'[m] = NoNode
    BY <2>1, <2>2 DEF Loses
  <2>4. forest[p][1] \in Nodes
    <3>1. Shape(forest, Attached(forest)) /\ p \in Parents
      BY <1>2, StateIs, ParentsAre, ShapeIs
    <3>2. forest[p] \in Seq(Nodes)
      BY <3>1, ShapeIs
    <3>3. 1 \in 1 .. Len(forest[p])
      BY <2>3, <3>2, SetOf
    <3> QED
      BY <3>2, <3>3, SetOf
  <2>5. Within(forest[p][1]) = Under(forest, forest[p][1])
    BY <1>2, <2>4, ReachedIs
  <2> QED
    BY <1>2, <2>2, <2>3, <2>5 DEF AttachedAll
<1>3. GraphInv /\ AttachedAll /\ AttachedAll' /\ [GraphNext]_graphVars => [Losing]_graphVars
  BY <1>2
<1>4. LosesFirstChildren <=> [][Losing]_graphVars
  BY DEF LosesFirstChildren
<1> HIDE DEF Losing
<1> QED
  BY <1>1, <1>3, <1>4, GraphInvariant, PTL DEF GraphSpec

\* The graphs are ordered trees and every operation does to them what the class documents:
\* insert, erase, move, exchange, replace, wrap or overwrite.
THEOREM GraphImplementsForest == GraphSpec => ImplementsForest
<1>1. GraphInit => Forest!Init
  BY DEF GraphInit, Forest!Init, Forest!Holders
<1>2. GraphInv /\ [GraphNext]_graphVars => [Forest!Step(forest, forest')]_forest
  <2> SUFFICES ASSUME GraphInv, [GraphNext]_graphVars
               PROVE  Forest!Step(forest, forest') \/ forest' = forest
    OBVIOUS
  <2>1. CASE GraphNext
    BY <2>1, NextTurns DEF Turned, Becomes
  <2>2. CASE UNCHANGED graphVars
    BY <2>2 DEF graphVars
  <2> QED
    BY <2>1, <2>2
<1> QED
  BY <1>1, <1>2, GraphInvariant, PTL DEF GraphSpec, ImplementsForest, Forest!Spec

-----------------------------------------------------------------------------
(* The memory of nodes: ring_buffer_allocator.                             *)

\* The allocators that lists and current buffers are drawn from, and the slots of
\* a list and of the blocks in use.
Roots == {a \in Allocators : data[a] = a}
Free(r) == ToSet(this[r].dangles)
InUse == UNION {SlotsOf(p) : p \in BagToSet(held)}

BufferData == [current : Nat \cup {Null}, buffers : SUBSET Nat, dangles : Seq(Nat \X Nat)]
Runs == [buffer : Nat, first : Nat, n : Nat \ {0}]

PoolShape ==
  /\ capacity \in Seq(Nat) /\ used \in Seq(Nat) /\ Len(used) = Len(capacity)
  /\ this \in [Allocators -> BufferData]
  /\ \A a \in Allocators : this[a].current \in DOMAIN capacity \cup {Null}
  /\ data \in [Allocators -> Allocators]
  /\ BagToSet(held) \subseteq Runs
  /\ held = SetToBag(BagToSet(held))

\* Resources were stolen by an allocator that draws from its own.
RootsDrawn == \A a \in Allocators : data[a] \in Roots

\* No slot is in use or dangling that was not cut off its buffer.
WithinCut ==
  /\ \A i \in DOMAIN capacity : used[i] <= capacity[i]
  /\ InUse \subseteq Cut
  /\ \A r \in Roots : Free(r) \subseteq Cut

\* Blocks, lists and current buffers are apart.
ListsApart ==
  /\ \A p, q \in BagToSet(held) : p # q => SlotsOf(p) \cap SlotsOf(q) = {}
  /\ \A r \in Roots : IsInjective(this[r].dangles) /\ Free(r) \cap InUse = {}
  /\ \A r, s \in Roots : r # s =>
       /\ Free(r) \cap Free(s) = {}
       /\ this[r].current = this[s].current => this[r].current = Null

\* The slots of buffer i in use or dangling are the first b of it, which are those
\* cut off if it is current somewhere.
Served == InUse \cup UNION {Free(r) : r \in Roots}
IsCurrent(i) == \E r \in Roots : this[r].current = i

Border(i, b) ==
  /\ \A k \in 0..(capacity[i] - 1) : k < b <=> <<i, k>> \in Served
  /\ IsCurrent(i) => b = used[i]

Borders == \A i \in DOMAIN capacity : \E b \in 0..capacity[i] : Border(i, b)

PoolInv == PoolShape /\ RootsDrawn /\ WithinCut /\ ListsApart /\ Borders

-----------------------------------------------------------------------------
(* Bags without copies, lists without repetitions, sizes of buffers.       *)

\* A block that is not in use enters the bag, ...
LEMMA BagWith ==
  ASSUME NEW S, NEW e, e \notin S
  PROVE  SetToBag(S) (+) SetToBag({e}) = SetToBag(S \cup {e})
BY DEF SetToBag, (+)

\* ... and one that is leaves it.
LEMMA BagWithout ==
  ASSUME NEW S, NEW e \in S
  PROVE  SetToBag(S) (-) SetToBag({e}) = SetToBag(S \ {e})
BY DEF SetToBag, (-)

\* What is left of a list whose last slot is taken.
LEMMA FrontOfList ==
  ASSUME NEW X, NEW s \in Seq(X), s # <<>>, IsInjective(s)
  PROVE  /\ Front(s) \in Seq(X) /\ IsInjective(Front(s))
         /\ Last(s) \in X /\ Last(s) \in ToSet(s)
         /\ ToSet(Front(s)) = ToSet(s) \ {Last(s)}
<1> DEFINE n == Len(s)
<1>1. n \in Nat \ {0} /\ DOMAIN s = 1..n /\ \A i \in 1..n : s[i] \in X
  BY EmptySeq, LenProperties, ElementOfSeq
<1>2. /\ Front(s) \in Seq(X) /\ Len(Front(s)) = n - 1
      /\ \A i \in 1..(n - 1) : Front(s)[i] = s[i]
  BY <1>1, SubSeqProperties DEF Front
<1>3. DOMAIN Front(s) = 1..(n - 1)
  BY <1>2, LenProperties
<1>4. Last(s) = s[n]
  BY DEF Last
<1>5. ToSet(s) = {s[i] : i \in 1..n} /\ ToSet(Front(s)) = {s[i] : i \in 1..(n - 1)}
  BY <1>1, <1>2, <1>3 DEF ToSet
<1>6. IsInjective(Front(s))
  BY <1>1, <1>2, <1>3 DEF IsInjective
<1> HIDE DEF n
<1>7. \A i \in 1..n : s[i] = s[n] => i = n
  <2>1. n \in DOMAIN s /\ \A i \in 1..n : i \in DOMAIN s
    BY <1>1
  <2> QED
    BY <2>1 DEF IsInjective
<1>8. ToSet(Front(s)) = ToSet(s) \ {Last(s)}
  BY <1>1, <1>4, <1>5, <1>7
<1>9. Last(s) \in X /\ Last(s) \in ToSet(s)
  <2>1. n \in 1..n
    BY <1>1
  <2> QED
    BY <1>1, <1>4, <1>5, <2>1
<1> QED
  BY <1>2, <1>6, <1>8, <1>9

\* Two lists joined.
LEMMA ListsJoined ==
  ASSUME NEW X, NEW s \in Seq(X), NEW t \in Seq(X)
  PROVE  /\ s \o t \in Seq(X) /\ ToSet(s \o t) = ToSet(s) \cup ToSet(t)
         /\ IsInjective(s) /\ IsInjective(t) /\ ToSet(s) \cap ToSet(t) = {} => IsInjective(s \o t)
<1> DEFINE n == Len(s)
           m == Len(t)
<1>1. n \in Nat /\ m \in Nat /\ DOMAIN s = 1..n /\ DOMAIN t = 1..m
  BY LenProperties
<1>2. /\ s \o t \in Seq(X) /\ Len(s \o t) = n + m
      /\ \A i \in 1..(n + m) : (s \o t)[i] = IF i <= n THEN s[i] ELSE t[i - n]
  BY ConcatProperties
<1>3. DOMAIN (s \o t) = 1..(n + m)
  BY <1>2, LenProperties
<1>4. ToSet(s) = {s[i] : i \in 1..n} /\ ToSet(t) = {t[i] : i \in 1..m}
  BY <1>1 DEF ToSet
<1>5. ToSet(s \o t) = {(s \o t)[i] : i \in 1..(n + m)}
  BY <1>3 DEF ToSet
<1>6. ToSet(s \o t) = ToSet(s) \cup ToSet(t)
  <2> HIDE DEF n, m
  <2>1. ASSUME NEW x \in ToSet(s) PROVE x \in ToSet(s \o t)
    <3>1. PICK i \in 1..n : x = s[i]
      BY <1>4
    <3>2. i \in 1..(n + m) /\ (s \o t)[i] = x
      BY <1>1, <1>2, <3>1
    <3> QED
      BY <1>5, <3>2
  <2>2. ASSUME NEW x \in ToSet(t) PROVE x \in ToSet(s \o t)
    <3>1. PICK i \in 1..m : x = t[i]
      BY <1>4
    <3>2. n + i \in 1..(n + m) /\ (s \o t)[n + i] = x
      BY <1>1, <1>2, <3>1
    <3> QED
      BY <1>5, <3>2
  <2>3. ASSUME NEW x \in ToSet(s \o t) PROVE x \in ToSet(s) \cup ToSet(t)
    <3>1. PICK i \in 1..(n + m) : x = (s \o t)[i]
      BY <1>5
    <3>2. CASE i <= n
      BY <1>1, <1>2, <1>4, <3>1, <3>2
    <3>3. CASE ~(i <= n)
      <4>1. i - n \in 1..m /\ x = t[i - n]
        BY <1>1, <1>2, <3>1, <3>3
      <4> QED
        BY <1>4, <4>1
    <3> QED
      BY <3>2, <3>3
  <2> QED
    BY <2>1, <2>2, <2>3
<1>7. ASSUME IsInjective(s), IsInjective(t), ToSet(s) \cap ToSet(t) = {},
             NEW i \in 1..(n + m), NEW j \in 1..(n + m), (s \o t)[i] = (s \o t)[j]
      PROVE  i = j
  <2> HIDE DEF n, m
  <2>1. \A k \in 1..(n + m) : k <= n => k \in 1..n /\ s[k] \in ToSet(s)
    BY <1>1, <1>4
  <2>2. \A k \in 1..(n + m) : ~(k <= n) => k - n \in 1..m /\ t[k - n] \in ToSet(t)
    BY <1>1, <1>4
  <2>3. CASE i <= n /\ j <= n
    BY <1>1, <1>2, <1>7, <2>1, <2>3 DEF IsInjective
  <2>4. CASE ~(i <= n) /\ ~(j <= n)
    <3>1. i - n = j - n
      BY <1>1, <1>2, <1>7, <2>2, <2>4 DEF IsInjective
    <3> QED
      BY <1>1, <3>1
  <2>5. CASE (i <= n) # (j <= n)
    BY <1>2, <1>7, <2>1, <2>2, <2>5
  <2> QED
    BY <2>3, <2>4, <2>5
<1> QED
  BY <1>2, <1>3, <1>6, <1>7 DEF IsInjective

\* A buffer made for n objects holds n, and at least one.
LEMMA CapacityFits ==
  ASSUME NEW n \in Nat
  PROVE  CapacityFor(n) \in Nat /\ CapacityFor(n) >= n /\ CapacityFor(n) >= 1
<1> DEFINE most == Max({n, BufferCount})
           bytes == most * RecordLength
           pages == (bytes + Page - 1) \div Page
<1>1. /\ BufferCount \in Nat /\ BufferCount >= 1 /\ Page \in Nat /\ Page >= 1
      /\ RecordLength \in Nat /\ RecordLength >= 1
  BY AllocatorAssumption
<1>2. most \in Nat /\ most >= n /\ most >= 1
  <2>1. \E x \in {n, BufferCount} : \A y \in {n, BufferCount} : x >= y
    BY <1>1
  <2> QED
    BY <1>1, <2>1 DEF Max
<1>3. CapacityFor(n) = (pages * Page) \div RecordLength
  BY DEF CapacityFor
<1> HIDE DEF most
<1>4. bytes \in Nat /\ bytes >= 0
  BY <1>1, <1>2, SMT
<1> HIDE DEF bytes
<1>5. pages \in Nat /\ pages * Page \in Nat /\ pages * Page >= bytes
  <2>1. pages \in Nat /\ ((bytes + Page - 1) % Page) < Page
        /\ bytes + Page - 1 = Page * pages + ((bytes + Page - 1) % Page)
    BY <1>1, <1>4, SMT
  <2> HIDE DEF pages
  <2>2. pages * Page = Page * pages /\ pages * Page \in Nat
    BY <1>1, <2>1, SMT
  <2>3. ((bytes + Page - 1) % Page) \in Int
    BY <1>1, <1>4, SMT
  <2> QED
    BY <1>1, <1>4, <2>1, <2>2, <2>3
<1> DEFINE room == pages * Page
<1> HIDE DEF pages
<1>6. (room \div RecordLength) \in Nat /\ (room \div RecordLength) >= most
  <2> DEFINE q == room \div RecordLength
             r == room % RecordLength
  <2>1. q \in Nat /\ r \in Nat /\ r < RecordLength /\ room = RecordLength * q + r
    BY <1>1, <1>5, SMT
  <2>2. room >= most * RecordLength
    BY <1>5 DEF bytes
  <2> HIDE DEF q, r, room
  <2>3. ASSUME q < most PROVE FALSE
    <3>1. RecordLength * (q + 1) <= RecordLength * most
      <4>1. RecordLength * (most - (q + 1)) >= 0
        BY <1>1, <1>2, <2>1, <2>3, SMT
      <4>2. RecordLength * (most - (q + 1)) = RecordLength * most - RecordLength * (q + 1)
        BY <1>1, <1>2, <2>1, SMT
      <4>3. RecordLength * most \in Int /\ RecordLength * (q + 1) \in Int
        BY <1>1, <1>2, <2>1, SMT
      <4> QED
        BY <4>1, <4>2, <4>3
    <3>2. RecordLength * (q + 1) = RecordLength * q + RecordLength
      BY <1>1, <2>1, SMT
    <3>3. most * RecordLength = RecordLength * most /\ RecordLength * most \in Int
      BY <1>1, <1>2, SMT
    <3>4. RecordLength * q \in Int
      BY <1>1, <2>1, SMT
    <3> QED
      BY <1>1, <2>1, <2>2, <3>1, <3>2, <3>3, <3>4
  <2> QED
    BY <1>2, <2>1, <2>3 DEF q
<1> QED
  BY <1>2, <1>3, <1>6 DEF room

-----------------------------------------------------------------------------
(* The steps.                                                              *)

\* What the invariant says of slots and allocators.
LEMMA Facts ==
  ASSUME PoolInv
  PROVE  /\ Served \subseteq Cut /\ InUse \subseteq Cut
         /\ \A x : x \in Cut <=> \E i \in DOMAIN capacity : \E k \in 0..(used[i] - 1) : x = <<i, k>>
         /\ DOMAIN capacity = 1..Len(capacity) /\ DOMAIN used = 1..Len(capacity)
         /\ Len(capacity) \in Nat /\ Len(capacity) + 1 \notin DOMAIN capacity
         /\ \A i \in DOMAIN capacity : capacity[i] \in Nat /\ used[i] \in Nat
         /\ Null \notin DOMAIN capacity
         /\ \A a \in Allocators : this[a] \in BufferData
<1>1. /\ DOMAIN capacity = 1..Len(capacity) /\ DOMAIN used = 1..Len(capacity)
      /\ Len(capacity) \in Nat /\ \A i \in DOMAIN capacity : capacity[i] \in Nat /\ used[i] \in Nat
  BY LenProperties, ElementOfSeq DEF PoolInv, PoolShape
<1>2. Served \subseteq Cut /\ InUse \subseteq Cut
  BY DEF PoolInv, WithinCut, Served
<1>3. \A x : x \in Cut <=> \E i \in DOMAIN capacity : \E k \in 0..(used[i] - 1) : x = <<i, k>>
  BY DEF Cut
<1>4. Null \notin DOMAIN capacity /\ Len(capacity) + 1 \notin DOMAIN capacity
  BY <1>1, AllocatorAssumption
<1>5. \A a \in Allocators : this[a] \in BufferData
  BY DEF PoolInv, PoolShape
<1> QED
  BY <1>1, <1>2, <1>3, <1>4, <1>5

\* A block is in use with all its slots.
LEMMA SlotsOfBlock ==
  ASSUME NEW i, NEW f, NEW n
  PROVE  /\ SlotsOf(Block(i, f, n)) = {<<i, k>> : k \in f..(f + n - 1)}
         /\ Block(i, f, n).buffer = i /\ Block(i, f, n).first = f /\ Block(i, f, n).n = n
BY DEF SlotsOf, Block

\* The border of a buffer stays where nothing is taken or given back.
LEMMA BorderKept ==
  ASSUME NEW i, NEW b, Border(i, b), capacity'[i] = capacity[i],
         \A k : <<i, k>> \in Served' <=> <<i, k>> \in Served,
         IsCurrent(i)' => IsCurrent(i) /\ used'[i] = used[i]
  PROVE  Border(i, b)'
BY DEF Border

\* A slot not taken is used by no block in use.
LEMMA HeldWith ==
  ASSUME PoolInv, NEW p \in Runs, NEW k \in 0..(p.n - 1),
         <<p.buffer, p.first + k>> \notin InUse,
         held' = held (+) SetToBag({p})
  PROVE  /\ p \notin BagToSet(held) /\ BagToSet(held') = BagToSet(held) \cup {p}
         /\ held' = SetToBag(BagToSet(held')) /\ BagToSet(held') \subseteq Runs
         /\ InUse' = InUse \cup SlotsOf(p)
<1>1. <<p.buffer, p.first + k>> \in SlotsOf(p)
  <2>1. p.first + k \in p.first..(p.first + p.n - 1)
    BY DEF Runs
  <2> QED
    BY <2>1 DEF SlotsOf
<1>2. p \notin BagToSet(held)
  BY <1>1 DEF InUse
<1>3. held' = SetToBag(BagToSet(held) \cup {p})
  BY <1>2, BagWith DEF PoolInv, PoolShape
<1>4. BagToSet(held') = BagToSet(held) \cup {p}
  BY <1>3 DEF BagToSet, SetToBag
<1>5. InUse' = InUse \cup SlotsOf(p)
  BY <1>4 DEF InUse
<1> QED
  BY <1>2, <1>3, <1>4, <1>5 DEF PoolInv, PoolShape

\* Returning a block.
LEMMA HeldWithout ==
  ASSUME PoolInv, NEW p \in BagToSet(held), held' = held (-) SetToBag({p})
  PROVE  /\ BagToSet(held') = BagToSet(held) \ {p}
         /\ held' = SetToBag(BagToSet(held')) /\ BagToSet(held') \subseteq Runs
         /\ InUse' = InUse \ SlotsOf(p) /\ SlotsOf(p) \subseteq InUse
<1>1. held' = SetToBag(BagToSet(held) \ {p})
  BY BagWithout DEF PoolInv, PoolShape
<1>2. BagToSet(held') = BagToSet(held) \ {p}
  BY <1>1 DEF BagToSet, SetToBag
<1>3. SlotsOf(p) \subseteq InUse
  BY DEF InUse
<1>4. \A q \in BagToSet(held) \ {p} : SlotsOf(q) \cap SlotsOf(p) = {}
  BY DEF PoolInv, ListsApart
<1>5. InUse' = InUse \ SlotsOf(p)
  BY <1>2, <1>4 DEF InUse
<1> QED
  BY <1>1, <1>2, <1>3, <1>5 DEF PoolInv, PoolShape

\* The last dangling slot is handed out.
LEMMA ReuseStep ==
  ASSUME PoolInv, NEW a \in Allocators, Reuse(a), NEW r, r = data[a]
  PROVE  PoolInv'
<1> DEFINE s == this[r].dangles
           x == Last(s)
           p == Block(x[1], x[2], 1)
<1>1. r \in Roots /\ r \in Allocators /\ this[r] \in BufferData /\ s \in Seq(Nat \X Nat)
  BY Facts DEF PoolInv, PoolShape, RootsDrawn, Roots, BufferData
<1>2. /\ s # <<>> /\ this' = [this EXCEPT ![r].dangles = Front(s)]
      /\ held' = held (+) SetToBag({p}) /\ UNCHANGED <<capacity, used, data>>
  BY DEF Reuse
<1>3. /\ Front(s) \in Seq(Nat \X Nat) /\ IsInjective(Front(s))
      /\ x \in Nat \X Nat /\ x \in Free(r) /\ ToSet(Front(s)) = Free(r) \ {x}
  BY <1>1, <1>2, FrontOfList DEF PoolInv, ListsApart, Free
<1>4. p \in Runs /\ SlotsOf(p) = {x} /\ p.n = 1 /\ p.buffer = x[1] /\ p.first = x[2]
  <2>1. x = <<x[1], x[2]>> /\ x[1] \in Nat /\ x[2] \in Nat /\ x[2]..(x[2] + 1 - 1) = {x[2]}
    BY <1>3
  <2> HIDE DEF x
  <2>2. SlotsOf(p) = {x}
    BY <2>1, SlotsOfBlock
  <2> QED
    BY <2>1, <2>2 DEF Runs, Block
<1> HIDE DEF p
<1>5. /\ BagToSet(held') = BagToSet(held) \cup {p} /\ held' = SetToBag(BagToSet(held'))
      /\ BagToSet(held') \subseteq Runs /\ InUse' = InUse \cup {x}
  <2>1. x \notin InUse
    BY <1>1, <1>3 DEF PoolInv, ListsApart
  <2>2. <<p.buffer, p.first + 0>> = x /\ 0 \in 0..(p.n - 1)
    BY <1>3, <1>4
  <2>3. 0 \in 0..(p.n - 1) /\ <<p.buffer, p.first + 0>> \notin InUse
    BY <2>1, <2>2
  <2> HIDE DEF x
  <2> QED
    BY <1>2, <1>4, <2>3, HeldWith
<1>6. /\ this' \in [Allocators -> BufferData]
      /\ this'[r].dangles = Front(s) /\ this'[r].current = this[r].current
      /\ \A c \in Allocators \ {r} : this'[c] = this[c]
  BY <1>1, <1>2, <1>3 DEF PoolInv, PoolShape, BufferData
<1>7. Roots' = Roots
  BY <1>2 DEF Roots
<1>8. Free(r)' = Free(r) \ {x} /\ \A c \in Roots \ {r} : Free(c)' = Free(c)
  BY <1>2, <1>3, <1>6 DEF Free, Roots
<1>9. \A c \in Roots : this'[c].current = this[c].current
  BY <1>6 DEF Roots
<1> HIDE DEF x, s
<1>10. PoolShape' /\ RootsDrawn'
  BY <1>2, <1>5, <1>6, <1>7, <1>9, <1>1 DEF PoolInv, PoolShape, RootsDrawn
<1>11. WithinCut'
  <2>1. Cut' = Cut
    BY <1>2 DEF Cut
  <2>2. x \in Cut /\ InUse \subseteq Cut /\ \A c \in Roots : Free(c) \subseteq Cut
    BY <1>1, <1>3 DEF PoolInv, WithinCut
  <2>3. \A c \in Roots : Free(c)' \subseteq Free(c)
    BY <1>1, <1>8
  <2> QED
    BY <1>2, <1>5, <1>7, <2>1, <2>2, <2>3 DEF PoolInv, WithinCut
<1>12. ListsApart'
  <2>1. \A q \in BagToSet(held) : x \notin SlotsOf(q)
    BY <1>1, <1>3 DEF PoolInv, ListsApart, InUse
  <2>2. \A q1, q2 \in BagToSet(held') : q1 # q2 => SlotsOf(q1) \cap SlotsOf(q2) = {}
    BY <1>4, <1>5, <2>1 DEF PoolInv, ListsApart
  <2>3. \A c \in Roots : IsInjective(this'[c].dangles)
    BY <1>3, <1>6 DEF PoolInv, ListsApart, Roots
  <2>4. \A c \in Roots : Free(c)' \cap InUse' = {}
    <3>1. Free(r)' \cap InUse' = {}
      BY <1>1, <1>5, <1>8 DEF PoolInv, ListsApart
    <3>2. ASSUME NEW c \in Roots, c # r PROVE x \notin Free(c)
      BY <1>1, <1>3, <3>2 DEF PoolInv, ListsApart
    <3> QED
      BY <1>5, <1>8, <3>1, <3>2 DEF PoolInv, ListsApart
  <2>5. \A c, d \in Roots : c # d => Free(c)' \cap Free(d)' = {}
    BY <1>8 DEF PoolInv, ListsApart
  <2> QED
    BY <1>7, <1>9, <2>2, <2>3, <2>4, <2>5 DEF PoolInv, ListsApart
<1>13. Served' = Served
  BY ZenonT(30), <1>1, <1>3, <1>5, <1>7, <1>8 DEF Served
<1>14. \A i : IsCurrent(i)' => IsCurrent(i)
  BY <1>7, <1>9 DEF IsCurrent
<1>15. Borders'
  BY <1>2, <1>13, <1>14, BorderKept DEF PoolInv, Borders
<1> QED
  BY <1>10, <1>11, <1>12, <1>15 DEF PoolInv

\* A new buffer becomes current, and the first n slots of it are cut off.  The one
\* that was current before may have lost a slot: nothing draws from it any more.
LEMMA MakeStep ==
  ASSUME PoolInv, NEW r \in Roots, NEW size \in Nat, NEW n \in Nat, n <= CapacityFor(size),
         NEW cut \in Seq(Nat), Len(cut) = Len(capacity),
         \A i \in DOMAIN capacity :
           /\ used[i] <= cut[i] /\ cut[i] <= capacity[i]
           /\ cut[i] # used[i] => this[r].current = i,
         NEW new, new = Len(capacity) + 1,
         capacity' = Append(capacity, CapacityFor(size)), used' = Append(cut, n),
         this' = [this EXCEPT ![r].current = new, ![r].buffers = @ \union {new}],
         UNCHANGED data,
         \/ n = 0 /\ UNCHANGED held
         \/ n > 0 /\ held' = held (+) SetToBag({Block(new, 0, n)})
  PROVE  PoolInv'
<1> DEFINE fresh == {<<new, k>> : k \in 0..(n - 1)}
<1>1. /\ new \in Nat /\ new \notin DOMAIN capacity /\ new # Null /\ CapacityFor(size) \in Nat
      /\ r \in Allocators /\ this[r] \in BufferData
  BY Facts, CapacityFits, AllocatorAssumption DEF Roots
<1>2. /\ capacity' \in Seq(Nat) /\ DOMAIN capacity' = DOMAIN capacity \cup {new}
      /\ \A i \in DOMAIN capacity : capacity'[i] = capacity[i]
      /\ capacity'[new] = CapacityFor(size) /\ Len(capacity') = new
  <2>1. capacity \in Seq(Nat)
    BY DEF PoolInv, PoolShape
  <2>2. /\ capacity' \in Seq(Nat) /\ Len(capacity') = Len(capacity) + 1
        /\ \A i \in 1..Len(capacity) : capacity'[i] = capacity[i]
        /\ capacity'[Len(capacity) + 1] = CapacityFor(size)
    BY <1>1, <2>1, AppendProperties
  <2> QED
    BY <2>1, <2>2, Facts, LenProperties
<1>3. /\ used' \in Seq(Nat) /\ Len(used') = new /\ used'[new] = n
      /\ \A i \in DOMAIN capacity : used'[i] = cut[i] /\ cut[i] \in Nat
  <2>1. /\ used' \in Seq(Nat) /\ Len(used') = Len(cut) + 1
        /\ \A i \in 1..Len(cut) : used'[i] = cut[i]
        /\ used'[Len(cut) + 1] = n
    BY AppendProperties
  <2>2. \A i \in 1..Len(cut) : cut[i] \in Nat
    BY ElementOfSeq
  <2> QED
    BY <2>1, <2>2, Facts
<1>4. /\ this' \in [Allocators -> BufferData] /\ this'[r].current = new
      /\ \A c \in Allocators : this'[c].dangles = this[c].dangles
      /\ \A c \in Allocators \ {r} : this'[c] = this[c]
  <2>1. [[this[r] EXCEPT !.current = new] EXCEPT !.buffers = @ \cup {new}] \in BufferData
    BY <1>1 DEF BufferData
  <2>2. this' = [this EXCEPT ![r] = [[this[r] EXCEPT !.current = new]
                                       EXCEPT !.buffers = @ \cup {new}]]
    BY <1>1 DEF PoolInv, PoolShape, BufferData
  <2> QED
    BY <1>1, <2>1, <2>2 DEF PoolInv, PoolShape, BufferData
<1>5. Roots' = Roots /\ \A c \in Roots : Free(c)' = Free(c)
  BY <1>4 DEF Roots, Free
<1>6. \A x \in fresh : x \notin Served /\ x \notin Cut
  BY <1>1, Facts
<1>7. /\ held' = SetToBag(BagToSet(held')) /\ BagToSet(held') \subseteq Runs
      /\ InUse' = InUse \cup fresh
      /\ \A p, q \in BagToSet(held') : p # q => SlotsOf(p) \cap SlotsOf(q) = {}
  <2>1. CASE n = 0
    <3>1. held' = held /\ fresh = {}
      BY <2>1
    <3> QED
      BY <3>1 DEF PoolInv, PoolShape, ListsApart, InUse
  <2>2. CASE n # 0
    <3> DEFINE p == Block(new, 0, n)
    <3>1. /\ p.buffer = new /\ p.first = 0 /\ p.n = n /\ SlotsOf(p) = fresh /\ p \in Runs
          /\ held' = held (+) SetToBag({p})
      BY <1>1, <2>2, SlotsOfBlock DEF Runs, Block
    <3> HIDE DEF p
    <3>2. 0 \in 0..(p.n - 1) /\ <<p.buffer, p.first + 0>> \in fresh
      BY <2>2, <3>1
    <3> HIDE DEF fresh
    <3>3. <<p.buffer, p.first + 0>> \notin InUse
      BY <1>6, <3>2 DEF Served
    <3>4. /\ BagToSet(held') = BagToSet(held) \cup {p} /\ held' = SetToBag(BagToSet(held'))
          /\ BagToSet(held') \subseteq Runs /\ InUse' = InUse \cup fresh
      BY <3>1, <3>2, <3>3, HeldWith
    <3>5. \A q \in BagToSet(held) : SlotsOf(q) \cap SlotsOf(p) = {}
      BY <1>6, <3>1 DEF Served, InUse
    <3>6. \A q1, q2 \in BagToSet(held') : q1 # q2 => SlotsOf(q1) \cap SlotsOf(q2) = {}
      BY <3>4, <3>5 DEF PoolInv, ListsApart
    <3> QED
      BY <3>4, <3>6
  <2> QED
    BY <2>1, <2>2
<1>8. PoolShape' /\ RootsDrawn'
  <2>1. \A c \in Allocators : this'[c].current \in DOMAIN capacity' \cup {Null}
    BY <1>2, <1>4 DEF PoolInv, PoolShape
  <2> QED
    BY <1>2, <1>3, <1>4, <1>5, <1>7, <2>1 DEF PoolInv, PoolShape, RootsDrawn
<1>9. Cut \subseteq Cut' /\ fresh \subseteq Cut'
  <2>1. ASSUME NEW x \in Cut PROVE x \in Cut'
    <3>1. PICK i \in DOMAIN capacity : \E k \in 0..(used[i] - 1) : x = <<i, k>>
      BY Facts
    <3> PICK k \in 0..(used[i] - 1) : x = <<i, k>>
      BY <3>1
    <3>2. i \in DOMAIN capacity' /\ k \in 0..(used'[i] - 1)
      BY SMTT(30), <1>2, <1>3, Facts
    <3> QED
      BY <3>1, <3>2 DEF Cut
  <2>2. fresh \subseteq Cut'
    BY <1>2, <1>3 DEF Cut
  <2> QED
    BY <2>1, <2>2
<1>10. WithinCut'
  <2>1. \A i \in DOMAIN capacity' : used'[i] <= capacity'[i]
    BY <1>2, <1>3
  <2>2. InUse' \subseteq Cut'
    BY <1>7, <1>9, Facts
  <2>3. \A c \in Roots' : Free(c)' \subseteq Cut'
    BY <1>5, <1>9 DEF PoolInv, WithinCut
  <2> QED
    BY <2>1, <2>2, <2>3 DEF WithinCut
<1> HIDE DEF fresh
<1>11. ListsApart'
  <2>1. \A c \in Roots : IsInjective(this'[c].dangles) /\ Free(c)' \cap InUse' = {}
    BY <1>4, <1>5, <1>6, <1>7 DEF PoolInv, ListsApart, Roots, Served
  <2>2. ASSUME NEW c \in Roots, c # r PROVE this'[c].current # new /\ this'[c] = this[c]
    BY <1>1, <1>4, <2>2 DEF PoolInv, PoolShape, Roots
  <2>3. \A c, d \in Roots : c # d => Free(c)' \cap Free(d)' = {}
    BY <1>5 DEF PoolInv, ListsApart
  <2>4. ASSUME NEW c \in Roots, NEW d \in Roots, c # d, this'[c].current = this'[d].current
        PROVE  this'[c].current = Null
    <3>1. c # r /\ d # r
      BY <1>4, <2>2, <2>4
    <3> QED
      BY ZenonT(30), <2>2, <2>4, <3>1 DEF PoolInv, ListsApart
  <2> QED
    BY <1>5, <1>7, <2>1, <2>3, <2>4 DEF ListsApart
<1>12. Served' = Served \cup fresh
  BY <1>5, <1>7 DEF Served
<1>13. ASSUME NEW i \in DOMAIN capacity PROVE \E b \in 0..capacity'[i] : Border(i, b)'
  <2>1. PICK b \in 0..capacity[i] : Border(i, b)
    BY DEF PoolInv, Borders
  <2>2. i # new /\ \A k : <<i, k>> \in Served' <=> <<i, k>> \in Served
    BY <1>1, <1>12 DEF fresh
  <2>3. ASSUME IsCurrent(i)' PROVE IsCurrent(i) /\ used'[i] = used[i]
    <3>1. PICK c \in Roots : this'[c].current = i
      BY <1>5, <2>3 DEF IsCurrent
    <3>2. c # r /\ this[c].current = i
      BY <1>4, <2>2, <3>1 DEF Roots
    <3>3. this[r].current # i
      BY <3>2, Facts DEF PoolInv, ListsApart
    <3> QED
      BY <1>3, <3>2, <3>3 DEF IsCurrent
  <2>4. Border(i, b)'
    BY <1>2, <2>1, <2>2, <2>3, BorderKept
  <2> QED
    BY <1>2, <2>4
<1>14. n \in 0..capacity'[new] /\ Border(new, n)'
  <2>1. ASSUME NEW k \in 0..(capacity'[new] - 1) PROVE k < n <=> <<new, k>> \in Served'
    <3>1. <<new, k>> \notin Served
      BY <1>1, Facts
    <3>2. <<new, k>> \in fresh <=> k < n
      BY <1>1, <1>2 DEF fresh
    <3> QED
      BY <1>12, <3>1, <3>2
  <2> QED
    BY <1>1, <1>2, <1>3, <2>1 DEF Border
<1>15. Borders'
  BY <1>2, <1>13, <1>14 DEF Borders
<1> QED
  BY <1>8, <1>10, <1>11, <1>15 DEF PoolInv

\* A block is cut off the current buffer.
LEMMA CutStep ==
  ASSUME PoolInv, NEW r \in Roots, NEW i, i = this[r].current, i # Null,
         NEW n \in Nat \ {0}, n <= Room(i),
         used' = [used EXCEPT ![i] = @ + n],
         held' = held (+) SetToBag({Block(i, used[i], n)}),
         UNCHANGED <<capacity, this, data>>
  PROVE  PoolInv'
<1> DEFINE fresh == {<<i, k>> : k \in used[i]..(used[i] + n - 1)}
<1>1. /\ i \in DOMAIN capacity /\ capacity[i] \in Nat /\ used[i] \in Nat /\ i \in Nat
      /\ used[i] + n <= capacity[i] /\ r \in Allocators
  BY SMTT(30), Facts DEF PoolInv, PoolShape, Roots, Room
<1>2. /\ used' \in Seq(Nat) /\ Len(used') = Len(used) /\ used'[i] = used[i] + n
      /\ \A j \in DOMAIN capacity \ {i} : used'[j] = used[j]
  <2>1. used \in Seq(Nat) /\ i \in 1..Len(used) /\ used[i] + n \in Nat
    BY <1>1, Facts, SMTT(30) DEF PoolInv, PoolShape
  <2>2. used' = [used EXCEPT ![i] = used[i] + n]
    OBVIOUS
  <2>3. used' \in Seq(Nat) /\ Len(used') = Len(used)
    BY <2>1, <2>2, ExceptSeq
  <2>4. \A j \in DOMAIN capacity : j \in DOMAIN used
    BY Facts
  <2> QED
    BY <1>1, <2>2, <2>3, <2>4
<1>3. Roots' = Roots /\ \A c \in Roots : Free(c)' = Free(c)
  BY DEF Roots, Free
<1>4. \A x \in fresh : x \notin Served /\ x \notin Cut
  BY <1>1, Facts
<1>5. /\ held' = SetToBag(BagToSet(held')) /\ BagToSet(held') \subseteq Runs
      /\ InUse' = InUse \cup fresh
      /\ \A p, q \in BagToSet(held') : p # q => SlotsOf(p) \cap SlotsOf(q) = {}
  <2> DEFINE p == Block(i, used[i], n)
  <2>1. /\ p.buffer = i /\ p.first = used[i] /\ p.n = n /\ SlotsOf(p) = fresh /\ p \in Runs
        /\ held' = held (+) SetToBag({p})
    BY <1>1, SlotsOfBlock DEF Runs, Block
  <2> HIDE DEF p
  <2>2. 0 \in 0..(p.n - 1) /\ <<p.buffer, p.first + 0>> \in fresh
    BY <1>1, <2>1
  <2> HIDE DEF fresh
  <2>3. <<p.buffer, p.first + 0>> \notin InUse
    BY <1>4, <2>2 DEF Served
  <2>4. /\ BagToSet(held') = BagToSet(held) \cup {p} /\ held' = SetToBag(BagToSet(held'))
        /\ BagToSet(held') \subseteq Runs /\ InUse' = InUse \cup fresh
    BY <2>1, <2>2, <2>3, HeldWith
  <2>5. \A q \in BagToSet(held) : SlotsOf(q) \cap SlotsOf(p) = {}
    BY <1>4, <2>1 DEF Served, InUse
  <2>6. \A q1, q2 \in BagToSet(held') : q1 # q2 => SlotsOf(q1) \cap SlotsOf(q2) = {}
    BY <2>4, <2>5 DEF PoolInv, ListsApart
  <2> QED
    BY <2>4, <2>6
<1>6. PoolShape' /\ RootsDrawn'
  BY <1>2, <1>3, <1>5 DEF PoolInv, PoolShape, RootsDrawn
<1>7. Cut \subseteq Cut' /\ fresh \subseteq Cut'
  <2>1. ASSUME NEW x \in Cut PROVE x \in Cut'
    <3>1. PICK j \in DOMAIN capacity : \E k \in 0..(used[j] - 1) : x = <<j, k>>
      BY Facts
    <3> PICK k \in 0..(used[j] - 1) : x = <<j, k>>
      BY <3>1
    <3>2. j \in DOMAIN capacity' /\ k \in 0..(used'[j] - 1)
      BY SMTT(30), <1>1, <1>2, Facts
    <3> QED
      BY <3>1, <3>2 DEF Cut
  <2>2. ASSUME NEW x \in fresh PROVE x \in Cut'
    <3>1. PICK k \in used[i]..(used[i] + n - 1) : x = <<i, k>>
      OBVIOUS
    <3>2. i \in DOMAIN capacity' /\ k \in 0..(used'[i] - 1)
      <4>1. DOMAIN capacity' = DOMAIN capacity /\ used'[i] = used[i] + n
        BY <1>1, <1>2
      <4>2. k \in 0..(used[i] + n - 1)
        BY <1>1
      <4> QED BY <1>1, <4>1, <4>2
    <3> QED
      BY <3>1, <3>2 DEF Cut
  <2> QED
    BY <2>1, <2>2
<1>8. WithinCut'
  <2>1. \A j \in DOMAIN capacity' : used'[j] <= capacity'[j]
    BY <1>1, <1>2 DEF PoolInv, WithinCut
  <2>2. InUse' \subseteq Cut'
    BY <1>5, <1>7, Facts
  <2>3. \A c \in Roots' : Free(c)' \subseteq Cut'
    BY <1>3, <1>7 DEF PoolInv, WithinCut
  <2> QED
    BY <2>1, <2>2, <2>3 DEF WithinCut
<1> HIDE DEF fresh
<1>9. ListsApart'
  <2>1. \A c \in Roots : Free(c) \cap fresh = {}
    BY <1>4 DEF Served
  <2> QED
    BY ZenonT(30), <1>3, <1>5, <2>1 DEF PoolInv, ListsApart
<1>10. Served' = Served \cup fresh
  BY <1>3, <1>5 DEF Served
<1>11. ASSUME NEW j \in DOMAIN capacity, j # i PROVE \E b \in 0..capacity[j] : Border(j, b)'
  <2>1. PICK b \in 0..capacity[j] : Border(j, b)
    BY DEF PoolInv, Borders
  <2>2. \A k : <<j, k>> \in Served' <=> <<j, k>> \in Served
    BY <1>10, <1>11 DEF fresh
  <2>3. IsCurrent(j)' => IsCurrent(j) /\ used'[j] = used[j]
    BY <1>2, <1>3, <1>11 DEF IsCurrent
  <2>4. Border(j, b)'
    BY <2>1, <2>2, <2>3, BorderKept
  <2> QED
    BY <2>4
<1> PICK e \in Nat : e = used[i] + n
  BY <1>1
<1>12. e \in 0..capacity[i] /\ Border(i, e)'
  <2>1. PICK b \in 0..capacity[i] : Border(i, b)
    BY <1>1 DEF PoolInv, Borders
  <2>2. b = used[i]
    BY <2>1 DEF Border, IsCurrent
  <2>3. ASSUME NEW k \in 0..(capacity[i] - 1) PROVE k < e <=> <<i, k>> \in Served'
    <3>1. <<i, k>> \in fresh <=> used[i] <= k /\ k < used[i] + n
      BY <1>1 DEF fresh
    <3>2. <<i, k>> \in Served <=> k < used[i]
      BY <2>1, <2>2 DEF Border
    <3> QED
      BY <1>1, <1>10, <3>1, <3>2
  <2> QED
    BY <1>1, <1>2, <2>3 DEF Border
<1>13. Borders'
  BY <1>11, <1>12 DEF Borders
<1> QED
  BY <1>6, <1>8, <1>9, <1>13 DEF PoolInv

\* The slots of a block enter the list.
LEMMA DeallocateStep ==
  ASSUME PoolInv, NEW a \in Allocators, Deallocate(a), NEW r, r = data[a]
  PROVE  PoolInv'
<1> PICK p \in BagToSet(held) :
      /\ held' = held (-) SetToBag({p})
      /\ this' = [this EXCEPT ![r].dangles =
                    @ \o [i \in 1..p.n |-> <<p.buffer, p.first + i - 1>>]]
      /\ UNCHANGED <<capacity, used, data>>
  BY DEF Deallocate
<1> DEFINE s == this[r].dangles
           t == [i \in 1..p.n |-> <<p.buffer, p.first + i - 1>>]
<1>1. /\ r \in Roots /\ r \in Allocators /\ this[r] \in BufferData /\ s \in Seq(Nat \X Nat)
      /\ p \in Runs /\ IsInjective(s)
  BY Facts DEF PoolInv, PoolShape, RootsDrawn, Roots, BufferData, ListsApart
<1>2. p.n \in Nat /\ p.first \in Nat /\ p.buffer \in Nat
  BY <1>1 DEF Runs
<1>3. t \in Seq(Nat \X Nat) /\ ToSet(t) = SlotsOf(p) /\ IsInjective(t)
  <2>1. \A i \in 1..p.n : t[i] = <<p.buffer, p.first + i - 1>> /\ t[i] \in Nat \X Nat
    BY <1>2
  <2>2. t \in [1..p.n -> Nat \X Nat] /\ DOMAIN t = 1..p.n
    BY <2>1
  <2>3. t \in Seq(Nat \X Nat)
    BY SMTT(30), <1>2, <2>2, IsASeq
  <2>4. IsInjective(t)
    BY <1>2, <2>1, <2>2 DEF IsInjective
  <2>5. ToSet(t) = {<<p.buffer, p.first + i - 1>> : i \in 1..p.n}
    BY <2>1, <2>2 DEF ToSet
  <2>6. ASSUME NEW x \in SlotsOf(p) PROVE x \in ToSet(t)
    <3>1. PICK k \in p.first..(p.first + p.n - 1) : x = <<p.buffer, k>>
      BY DEF SlotsOf
    <3>2. k - p.first + 1 \in 1..p.n /\ p.first + (k - p.first + 1) - 1 = k
      BY <1>2
    <3> QED
      BY <2>5, <3>1, <3>2
  <2>7. ASSUME NEW x \in ToSet(t) PROVE x \in SlotsOf(p)
    <3>1. PICK i \in 1..p.n : x = <<p.buffer, p.first + i - 1>>
      BY <2>5
    <3>2. p.first + i - 1 \in p.first..(p.first + p.n - 1)
      BY <1>2
    <3> QED
      BY <3>1, <3>2 DEF SlotsOf
  <2> QED
    BY <2>3, <2>4, <2>6, <2>7
<1>4. /\ BagToSet(held') = BagToSet(held) \ {p} /\ held' = SetToBag(BagToSet(held'))
      /\ BagToSet(held') \subseteq Runs
      /\ InUse' = InUse \ SlotsOf(p) /\ SlotsOf(p) \subseteq InUse
  BY HeldWithout
<1>5. this' = [this EXCEPT ![r].dangles = s \o t]
  OBVIOUS
<1> HIDE DEF t
<1>6. /\ s \o t \in Seq(Nat \X Nat) /\ ToSet(s \o t) = Free(r) \cup SlotsOf(p)
      /\ IsInjective(s \o t)
  <2>1. ToSet(s) = Free(r) /\ Free(r) \cap SlotsOf(p) = {}
    BY <1>1, <1>4 DEF PoolInv, ListsApart, Free
  <2> QED
    BY <1>1, <1>3, <2>1, ListsJoined
<1>7. /\ this' \in [Allocators -> BufferData]
      /\ this'[r].dangles = s \o t /\ this'[r].current = this[r].current
      /\ \A c \in Allocators \ {r} : this'[c] = this[c]
  <2> DEFINE d == [this[r] EXCEPT !.dangles = s \o t]
  <2>1. d \in BufferData /\ d.dangles = s \o t /\ d.current = this[r].current
    BY <1>1, <1>6 DEF BufferData
  <2>2. this' = [this EXCEPT ![r] = d]
    BY <1>1, <1>5 DEF PoolInv, PoolShape
  <2> HIDE DEF d, s
  <2>3. this' \in [Allocators -> BufferData]
    BY <1>1, <2>1, <2>2 DEF PoolInv, PoolShape
  <2>4. DOMAIN this = Allocators /\ r \in Allocators
    BY <1>1 DEF PoolInv, PoolShape
  <2>5. this'[r] = d
    BY <2>2, <2>4, Zenon
  <2>6. \A c \in Allocators \ {r} : this'[c] = this[c]
    BY <2>2, <2>4, Zenon
  <2> QED
    BY <2>1, <2>3, <2>5, <2>6
<1> HIDE DEF s
<1>8. Roots' = Roots
  BY DEF Roots
<1>9. Free(r)' = Free(r) \cup SlotsOf(p) /\ \A c \in Roots \ {r} : Free(c)' = Free(c)
  BY <1>6, <1>7 DEF Free, Roots
<1>10. \A c \in Roots : this'[c].current = this[c].current
  BY <1>7 DEF Roots
<1>11. PoolShape' /\ RootsDrawn'
  <2>1. \A c \in Allocators : this'[c].current = this[c].current
    BY <1>7
  <2> QED
    BY <1>4, <1>7, <1>8, <2>1 DEF PoolInv, PoolShape, RootsDrawn
<1>12. WithinCut'
  <2>1. Cut' = Cut
    BY DEF Cut
  <2>2. SlotsOf(p) \subseteq Cut /\ InUse \subseteq Cut /\ \A c \in Roots : Free(c) \subseteq Cut
    BY <1>4, Facts DEF PoolInv, WithinCut
  <2>3. \A c \in Roots : Free(c)' \subseteq Cut
    BY <1>9, <2>2
  <2> QED
    BY <1>4, <1>8, <2>1, <2>2, <2>3 DEF PoolInv, WithinCut
<1>13. ListsApart'
  <2>1. \A c \in Roots : IsInjective(this'[c].dangles)
    BY <1>6, <1>7 DEF PoolInv, ListsApart, Roots
  <2>2. \A c \in Roots : Free(c) \cap SlotsOf(p) = {} /\ Free(c) \cap InUse = {}
    BY <1>4 DEF PoolInv, ListsApart
  <2>3. \A c \in Roots : Free(c)' \cap InUse' = {}
    BY <1>4, <1>9, <2>2
  <2>4. \A c, d \in Roots : c # d => Free(c)' \cap Free(d)' = {}
    BY <1>9, <2>2 DEF PoolInv, ListsApart
  <2>5. \A p1, p2 \in BagToSet(held') : p1 # p2 => SlotsOf(p1) \cap SlotsOf(p2) = {}
    BY <1>4 DEF PoolInv, ListsApart
  <2>6. \A c, d \in Roots : c # d /\ this'[c].current = this'[d].current => this'[c].current = Null
    BY <1>10 DEF PoolInv, ListsApart
  <2> QED
    BY <1>8, <2>1, <2>3, <2>4, <2>5, <2>6 DEF ListsApart
<1>14. Served' = Served
  BY ZenonT(30), <1>1, <1>4, <1>8, <1>9 DEF Served
<1>15. \A i : IsCurrent(i)' => IsCurrent(i)
  BY <1>8, <1>10 DEF IsCurrent
<1>16. Borders'
  BY <1>14, <1>15, BorderKept DEF PoolInv, Borders
<1> QED
  BY <1>11, <1>12, <1>13, <1>16 DEF PoolInv

\* One allocator takes over what another drew from.
LEMMA StealStep ==
  ASSUME PoolInv, NEW a \in Allocators, NEW b \in Allocators, data[b] = b,
         StealResources(a, b), \A c \in Allocators \ {b} : data[c] # b,
         NEW r, r = data[a]
  PROVE  PoolInv'
<1> DEFINE s == this[r].dangles
           t == this[b].dangles
           current == IF this[r].current = Null THEN this[b].current ELSE this[r].current
<1>1. /\ r \in Roots /\ b \in Roots /\ r \in Allocators /\ r # b
      /\ this[r] \in BufferData /\ this[b] \in BufferData
      /\ s \in Seq(Nat \X Nat) /\ t \in Seq(Nat \X Nat)
  BY Facts DEF PoolInv, PoolShape, RootsDrawn, Roots, BufferData, StealResources
<1>2. /\ this' = [this EXCEPT ![r].buffers = @ \union this[b].buffers,
                              ![r].dangles = @ \o this[b].dangles,
                              ![r].current = IF @ = Null THEN this[b].current ELSE @,
                              ![b].buffers = {}]
      /\ data' = [data EXCEPT ![b] = r] /\ UNCHANGED <<capacity, used, held>>
  BY DEF StealResources
<1>3. /\ s \o t \in Seq(Nat \X Nat) /\ ToSet(s \o t) = Free(r) \cup Free(b)
      /\ IsInjective(s \o t)
  <2>1. /\ ToSet(s) = Free(r) /\ ToSet(t) = Free(b) /\ Free(r) \cap Free(b) = {}
        /\ IsInjective(s) /\ IsInjective(t)
    BY <1>1 DEF PoolInv, ListsApart, Free
  <2> QED
    BY <1>1, <2>1, ListsJoined
<1>4. /\ this' \in [Allocators -> BufferData]
      /\ this'[r].dangles = s \o t /\ this'[r].current = current
      /\ this'[b].current = this[b].current
      /\ \A c \in Allocators \ {r, b} : this'[c] = this[c]
  <2> DEFINE d == [[[this[r] EXCEPT !.buffers = @ \union this[b].buffers]
                      EXCEPT !.dangles = s \o t] EXCEPT !.current = current]
             e == [this[b] EXCEPT !.buffers = {}]
  <2>1. d \in BufferData /\ d.dangles = s \o t /\ d.current = current
    BY <1>1, <1>3 DEF BufferData
  <2>2. e \in BufferData /\ e.current = this[b].current
    BY <1>1 DEF BufferData
  <2>3. this' = [[this EXCEPT ![r] = d] EXCEPT ![b] = e]
    BY <1>1, <1>2 DEF PoolInv, PoolShape, BufferData
  <2> HIDE DEF d, e, s, t, current
  <2>4. this' \in [Allocators -> BufferData]
    BY <1>1, <2>1, <2>2, <2>3 DEF PoolInv, PoolShape
  <2>5. this'[r] = d /\ this'[b] = e /\ \A c \in Allocators \ {r, b} : this'[c] = this[c]
    BY <1>1, <2>3 DEF PoolInv, PoolShape
  <2> QED
    BY <2>1, <2>2, <2>4, <2>5
<1>5. /\ data' \in [Allocators -> Allocators] /\ data'[b] = r
      /\ \A c \in Allocators \ {b} : data'[c] = data[c]
  BY <1>1, <1>2 DEF PoolInv, PoolShape
<1>6. Roots' = Roots \ {b}
  BY <1>1, <1>5 DEF Roots
<1> HIDE DEF s, t
<1>7. Free(r)' = Free(r) \cup Free(b) /\ \A c \in Roots \ {r, b} : Free(c)' = Free(c)
  BY <1>3, <1>4 DEF Free, Roots
<1>8. \A c \in Roots \ {r, b} : this'[c].current = this[c].current
  BY <1>4 DEF Roots
<1>9. current \in {this[r].current, this[b].current}
      /\ (this[r].current # Null => current = this[r].current)
  BY SMTT(30)
<1> HIDE DEF current
<1>10. PoolShape' /\ RootsDrawn'
  <2>1. \A c \in Allocators : this'[c].current \in DOMAIN capacity \cup {Null}
    BY <1>1, <1>4, <1>9 DEF PoolInv, PoolShape
  <2>2. \A c \in Allocators : data'[c] \in Roots'
    BY <1>1, <1>5, <1>6 DEF PoolInv, RootsDrawn
  <2> QED
    BY <1>2, <1>4, <1>5, <2>1, <2>2 DEF PoolInv, PoolShape, RootsDrawn
<1>11. InUse' = InUse /\ Cut' = Cut
  <2>1. capacity' = capacity /\ used' = used /\ BagToSet(held') = BagToSet(held)
    BY <1>2, SMTT(30)
  <2> QED BY <2>1, SMTT(30) DEF InUse, Cut
<1>12. WithinCut'
  <2>1. \A c \in Roots' : Free(c)' \subseteq Cut
    BY <1>1, <1>6, <1>7 DEF PoolInv, WithinCut
  <2> QED
    BY <1>2, <1>11, <2>1 DEF PoolInv, WithinCut
<1>13. ListsApart'
  <2>1. \A c \in Roots' : IsInjective(this'[c].dangles)
    BY <1>3, <1>4, <1>6 DEF PoolInv, ListsApart, Roots
  <2>2. \A c \in Roots' : Free(c)' \cap InUse' = {}
    BY <1>1, <1>6, <1>7, <1>11 DEF PoolInv, ListsApart
  <2>3. \A c, d \in Roots' : c # d => Free(c)' \cap Free(d)' = {}
    BY <1>1, <1>6, <1>7, SMTT(30) DEF PoolInv, ListsApart
  <2>4. \A p1, p2 \in BagToSet(held') : p1 # p2 => SlotsOf(p1) \cap SlotsOf(p2) = {}
    BY <1>2 DEF PoolInv, ListsApart
  <2>5. ASSUME NEW c \in Roots \ {b, r}, this'[c].current = current PROVE current = Null
    <3>1. this[c].current = current
      BY <1>8, <2>5
    <3> QED
      BY <1>1, <1>9, <3>1 DEF PoolInv, ListsApart
  <2>6. ASSUME NEW c \in Roots', NEW d \in Roots', c # d, this'[c].current = this'[d].current
        PROVE  this'[c].current = Null
    BY <1>4, <1>6, <1>8, <2>5, <2>6 DEF PoolInv, ListsApart
  <2> QED
    BY <2>1, <2>2, <2>3, <2>4, <2>6 DEF ListsApart
<1>14. Served' = Served
  <2>1. UNION {Free(c)' : c \in Roots'} = UNION {Free(c) : c \in Roots}
    BY <1>1, <1>6, <1>7
  <2> QED
    BY <1>11, <2>1 DEF Served
<1>15. \A i : IsCurrent(i)' => IsCurrent(i)
  BY <1>1, <1>4, <1>6, <1>8, <1>9, SMTT(30) DEF IsCurrent
<1>16. Borders'
  BY <1>2, <1>14, <1>15, BorderKept DEF PoolInv, Borders
<1> QED
  BY <1>10, <1>12, <1>13, <1>16 DEF PoolInv

-----------------------------------------------------------------------------
(* The theorems.                                                           *)

\* At first there is no buffer and no block.
LEMMA InitPool == Init => PoolInv
<1> SUFFICES ASSUME Init PROVE PoolInv
  OBVIOUS
<1>1. /\ capacity = <<>> /\ used = <<>> /\ BagToSet(held) = {} /\ held = SetToBag({})
      /\ DOMAIN capacity = {}
  BY DEF Init, EmptyBag, BagToSet, SetToBag
<1>2. Empty \in BufferData /\ Empty.dangles = <<>> /\ Empty.current = Null
  BY DEF Empty, BufferData
<1>3. \A a \in Allocators : this[a] = Empty /\ data[a] = a
  BY DEF Init
<1>4. PoolShape
  BY <1>1, <1>2, <1>3 DEF Init, PoolShape
<1>5. InUse = {} /\ \A a \in Allocators : Free(a) = {}
  BY <1>1, <1>2, <1>3 DEF InUse, Free, ToSet
<1>6. RootsDrawn /\ Roots \subseteq Allocators
  BY <1>3 DEF RootsDrawn, Roots
<1>7. WithinCut
  BY <1>1, <1>5, <1>6 DEF WithinCut
<1>8. ListsApart
  BY <1>1, <1>2, <1>3, <1>5, <1>6 DEF ListsApart, IsInjective
<1>9. Borders
  BY <1>1 DEF Borders
<1> QED
  BY <1>4, <1>6, <1>7, <1>8, <1>9 DEF PoolInv

\* Blocks are cut off the current buffer or off a new one.
LEMMA CutOffStep ==
  ASSUME PoolInv, NEW a \in Allocators, NEW n \in Requests, CutOff(a, n), NEW r, r = data[a]
  PROVE  PoolInv'
<1>1. /\ r \in Roots /\ r \in Allocators /\ n \in Nat \ {0}
      /\ used \in Seq(Nat) /\ Len(used) = Len(capacity)
  BY AllocatorAssumption DEF PoolInv, PoolShape, RootsDrawn, Roots
<1>2. CASE NeedsBuffer(this[r])
  <2>1. /\ capacity' = Append(capacity, CapacityFor(n)) /\ used' = Append(used, n)
        /\ this' = [this EXCEPT ![r].current = Len(capacity) + 1,
                                ![r].buffers = @ \union {Len(capacity) + 1}]
        /\ held' = held (+) SetToBag({Block(Len(capacity) + 1, 0, n)}) /\ UNCHANGED data
    BY <1>2 DEF CutOff, AddBuffer
  <2>2. n <= CapacityFor(n) /\ n > 0
    BY <1>1, CapacityFits
  <2>3. \A i \in DOMAIN capacity : used[i] <= used[i] /\ used[i] <= capacity[i]
    BY Facts DEF PoolInv, WithinCut
  <2> QED
    BY <1>1, <2>1, <2>2, <2>3, MakeStep
<1>3. CASE ~NeedsBuffer(this[r])
  <2> PICK i : i = this[r].current
    OBVIOUS
  <2>1. /\ i # Null /\ n <= Room(i) /\ used' = [used EXCEPT ![i] = @ + n]
        /\ held' = held (+) SetToBag({Block(i, used[i], n)})
        /\ UNCHANGED <<capacity, this, data>>
    BY <1>3 DEF CutOff, NeedsBuffer
  <2> QED
    BY <1>1, <2>1, CutStep
<1> QED
  BY <1>2, <1>3

\* A block that the current buffer is too small for.
LEMMA OutgrowStep ==
  ASSUME PoolInv, NEW a \in Allocators, NEW n \in Requests, Outgrow(a, n), NEW r, r = data[a]
  PROVE  PoolInv'
<1> PICK i : i = this[r].current
  OBVIOUS
<1> DEFINE cut == [used EXCEPT ![i] = @ + 1]
<1>1. /\ r \in Roots /\ r \in Allocators /\ n \in Nat \ {0}
      /\ used \in Seq(Nat) /\ Len(used) = Len(capacity)
  BY AllocatorAssumption DEF PoolInv, PoolShape, RootsDrawn, Roots
<1>2. /\ i # Null /\ ~(Room(i) < 1)
      /\ capacity' = Append(capacity, CapacityFor(n)) /\ used' = Append(cut, n)
      /\ this' = [this EXCEPT ![r].current = Len(capacity) + 1,
                              ![r].buffers = @ \union {Len(capacity) + 1}]
      /\ held' = held (+) SetToBag({Block(Len(capacity) + 1, 0, n)}) /\ UNCHANGED data
  BY DEF Outgrow, AddBuffer, NeedsBuffer
<1>3. i \in DOMAIN capacity /\ capacity[i] \in Nat /\ used[i] \in Nat /\ used[i] + 1 <= capacity[i]
  BY SMTT(30), <1>1, <1>2, Facts DEF PoolInv, PoolShape, Room
<1>4. cut \in Seq(Nat) /\ Len(cut) = Len(capacity)
  <2>1. i \in 1..Len(used) /\ used[i] + 1 \in Nat
    BY <1>1, <1>3, Facts, SMTT(30)
  <2> QED
    BY <1>1, <2>1, ExceptSeq
<1>5. \A j \in DOMAIN capacity : /\ used[j] <= cut[j] /\ cut[j] <= capacity[j]
                                 /\ cut[j] # used[j] => this[r].current = j
  <2>1. cut[i] = used[i] + 1 /\ \A j \in DOMAIN capacity \ {i} : cut[j] = used[j]
    BY <1>1, <1>3, Facts
  <2> HIDE DEF cut
  <2>2. \A j \in DOMAIN capacity : used[j] \in Nat /\ used[j] <= capacity[j]
    BY Facts DEF PoolInv, WithinCut
  <2> QED
    BY <1>3, <2>1, <2>2
<1>6. n <= CapacityFor(n) /\ n > 0
  BY <1>1, CapacityFits
<1> HIDE DEF cut
<1> QED
  BY <1>1, <1>2, <1>4, <1>5, <1>6, MakeStep

\* reserve prepares a buffer where one is needed.
LEMMA ReserveStep ==
  ASSUME PoolInv, NEW a \in Allocators, Reserve(a), NEW r, r = data[a]
  PROVE  PoolInv'
<1>1. /\ r \in Roots /\ r \in Allocators
      /\ used \in Seq(Nat) /\ Len(used) = Len(capacity)
  BY DEF PoolInv, PoolShape, RootsDrawn, Roots
<1> PICK n \in Reservations :
      /\ capacity' = Append(capacity, CapacityFor(n)) /\ used' = Append(used, 0)
      /\ this' = [this EXCEPT ![r].current = Len(capacity) + 1,
                              ![r].buffers = @ \union {Len(capacity) + 1}]
      /\ UNCHANGED <<data, held>>
  BY DEF Reserve
<1>2. n \in Nat /\ 0 \in Nat /\ 0 <= CapacityFor(n)
  BY AllocatorAssumption, CapacityFits
<1>3. \A i \in DOMAIN capacity : used[i] <= used[i] /\ used[i] <= capacity[i]
  BY Facts DEF PoolInv, WithinCut
<1> QED
  BY <1>1, <1>2, <1>3, MakeStep

\* Every step keeps the invariant.
LEMMA NextPool == PoolInv /\ [Next]_vars => PoolInv'
<1> SUFFICES ASSUME PoolInv, [Next]_vars PROVE PoolInv'
  OBVIOUS
<1>1. CASE UNCHANGED vars
  <2>1. UNCHANGED <<capacity, used, this, data, held>>
    BY <1>1 DEF vars
  <2>2. Roots' = Roots /\ InUse' = InUse /\ Cut' = Cut /\ \A a : Free(a)' = Free(a)
    BY <2>1 DEF Roots, InUse, Cut, Free
  <2>3. Served' = Served /\ \A i : IsCurrent(i)' => IsCurrent(i)
    BY <2>1, <2>2 DEF Served, IsCurrent
  <2>4. Borders'
    BY <2>1, <2>3, BorderKept DEF PoolInv, Borders
  <2>5. PoolShape' /\ RootsDrawn'
    BY <2>1, <2>2 DEF PoolInv, PoolShape, RootsDrawn
  <2>6. WithinCut' /\ ListsApart'
    BY <2>1, <2>2 DEF PoolInv, WithinCut, ListsApart
  <2> QED
    BY <2>4, <2>5, <2>6 DEF PoolInv
<1>2. CASE Operate
  <2>1. PICK a \in Allocators : Allocate(a) \/ Deallocate(a) \/ Reserve(a)
    BY <1>2 DEF Operate
  <2> QED
    BY <2>1, ReuseStep, CutOffStep, OutgrowStep, DeallocateStep, ReserveStep DEF Allocate
<1>3. CASE StealOnce
  BY <1>3, StealStep DEF StealOnce
<1> QED
  BY <1>1, <1>2, <1>3 DEF Next

\* So it holds in every reachable state.
LEMMA AlwaysPool == Spec => []PoolInv
BY InitPool, NextPool, PTL DEF Spec

\* Every block lies inside its buffer, for any page, size of an object, count of
\* objects and n: the requests of allocate(n) after the first, whose results are not
\* looked at, succeed.
THEOREM BlocksAlwaysInside == Spec => []BlocksInsideBuffer
<1>1. PoolInv => BlocksInsideBuffer
  <2> SUFFICES ASSUME PoolInv, NEW p \in BagToSet(held)
               PROVE  SlotsOf(p) \subseteq Cut /\ p.first + p.n <= capacity[p.buffer]
    BY DEF BlocksInsideBuffer
  <2>1. p.buffer \in Nat /\ p.first \in Nat /\ p.n \in Nat \ {0}
    BY DEF PoolInv, PoolShape, Runs
  <2>2. SlotsOf(p) \subseteq Cut
    BY DEF PoolInv, WithinCut, InUse
  <2>3. <<p.buffer, p.first + p.n - 1>> \in SlotsOf(p)
    <3>1. p.first + p.n - 1 \in p.first..(p.first + p.n - 1)
      BY <2>1
    <3> QED
      BY <3>1 DEF SlotsOf
  <2>4. PICK i \in DOMAIN capacity : \E k \in 0..(used[i] - 1) :
               <<p.buffer, p.first + p.n - 1>> = <<i, k>>
    BY <2>2, <2>3, Facts
  <2>5. p.buffer = i /\ p.first + p.n - 1 \in 0..(used[i] - 1)
    BY <2>4
  <2>6. used[i] <= capacity[i] /\ used[i] \in Nat /\ capacity[i] \in Nat
    BY Facts DEF PoolInv, WithinCut
  <2> QED
    BY <2>1, <2>2, <2>5, <2>6
<1> QED
  BY <1>1, AlwaysPool, PTL

\* No slot is handed out twice: blocks in use share none with one another or with a
\* list an allocator draws from, through any sequence of allocate, deallocate to
\* any allocator, reserve and first steal_resources.
THEOREM AlwaysHeldApart == Spec => []HeldApart
<1>1. PoolInv => HeldApart
  <2> SUFFICES ASSUME PoolInv PROVE HeldApart
    OBVIOUS
  <2>1. \A p \in BagToSet(held) : held[p] = 1
    BY DEF PoolInv, PoolShape, SetToBag
  <2>2. ASSUME NEW a \in Allocators
        PROVE  /\ IsInjective(this[data[a]].dangles)
               /\ \A p \in BagToSet(held) : SlotsOf(p) \cap ToSet(this[data[a]].dangles) = {}
    BY DEF PoolInv, RootsDrawn, ListsApart, Free, InUse
  <2> QED
    BY <2>1, <2>2 DEF PoolInv, ListsApart, HeldApart
<1> QED
  BY <1>1, AlwaysPool, PTL

\* A slot that was ever handed out is in use or comes back: only the tail of a buffer
\* that is current nowhere is lost.
THEOREM TailsOnlyLost == Spec => []OnlyTailsLost
<1>1. PoolInv => OnlyTailsLost
  <2> SUFFICES ASSUME PoolInv, NEW i \in DOMAIN capacity, NEW k \in 0..(capacity[i] - 1),
                      ~Kept(i, k)
               PROVE  /\ \A a \in Allocators : this[data[a]].current # i
                      /\ \A j \in k..(capacity[i] - 1) : ~Kept(i, j)
    BY DEF OnlyTailsLost
  <2>1. \A a \in Allocators : data[a] \in Roots
    BY DEF PoolInv, RootsDrawn
  <2>2. \A c \in Roots : c \in Allocators /\ data[c] = c
    BY DEF Roots
  <2>3. ASSUME NEW j
        PROVE  Kept(i, j) <=> <<i, j>> \in Served \/ (j >= used[i] /\ IsCurrent(i))
    <3>1. {this[data[a]] : a \in Allocators} = {this[c] : c \in Roots}
      BY <2>1, <2>2
    <3> QED
      BY <3>1 DEF Kept, Served, IsCurrent, InUse, Free
  <2>4. PICK b \in 0..capacity[i] : Border(i, b)
    BY DEF PoolInv, Borders
  <2>5. capacity[i] \in Nat /\ used[i] \in Nat
    BY Facts
  <2>6. ~(k < b)
    BY <2>3, <2>4 DEF Border
  <2>7. ~IsCurrent(i)
    <3>1. ~(k >= used[i] /\ IsCurrent(i))
      BY <2>3
    <3>2. IsCurrent(i) => b = used[i]
      BY <2>4 DEF Border
    <3> QED
      BY <2>5, <2>6, <3>1, <3>2
  <2>8. \A a \in Allocators : this[data[a]].current # i
    BY <2>1, <2>7 DEF IsCurrent
  <2>9. ASSUME NEW j \in k..(capacity[i] - 1) PROVE ~Kept(i, j)
    <3>1. j \in 0..(capacity[i] - 1) /\ ~(j < b)
      BY <2>4, <2>5, <2>6
    <3> QED
      BY <2>3, <2>4, <2>7, <3>1 DEF Border
  <2> QED
    BY <2>8, <2>9
<1> QED
  BY <1>1, AlwaysPool, PTL

\* Whatever enters the bag was no part of a block in it.
LEMMA PoolAllocates ==
  ASSUME PoolInv, PoolInv', NEW p, held' = held (+) SetToBag({p})
  PROVE  Pool!Allocate
<1>1. BagToSet(held') = BagToSet(held) \cup {p}
  BY DEF BagToSet, SetToBag, (+)
<1>2. held'[p] = 1 /\ (p \in BagToSet(held) => held[p] = 1)
  BY <1>1 DEF PoolInv, PoolShape, SetToBag
<1>3. p \notin BagToSet(held)
  BY <1>2 DEF BagToSet, SetToBag, (+)
<1>4. \A q \in BagToSet(held) : SlotsOf(p) \cap SlotsOf(q) = {}
  BY <1>1, <1>3 DEF PoolInv, ListsApart
<1> QED
  BY <1>1, <1>4 DEF Pool!Allocate, Pool!SlotsOf, SlotsOf, Pool!BagToSet, BagToSet,
                    Pool!SetToBag, SetToBag, Pool!(+), (+)

\* The allocator is a pool of slots.
THEOREM AllocatorIsPool == Spec => ImplementsPool
<1>1. Init => Pool!Init
  BY DEF Init, Pool!Init, Pool!EmptyBag, EmptyBag, Pool!SetToBag, SetToBag
<1>2. PoolInv /\ PoolInv' /\ [Next]_vars => [Pool!Allocate \/ Pool!Deallocate]_held
  <2> SUFFICES ASSUME PoolInv, PoolInv', Next
               PROVE  Pool!Allocate \/ Pool!Deallocate \/ UNCHANGED held
    BY SMTT(30) DEF vars
  <2>1. CASE StealOnce
    BY <2>1 DEF StealOnce, StealResources
  <2>2. CASE Operate
    <3>1. PICK a \in Allocators : Allocate(a) \/ Deallocate(a) \/ Reserve(a)
      BY <2>2 DEF Operate
    <3>2. CASE Allocate(a)
      <4>1. \E p : held' = held (+) SetToBag({p})
        BY <3>2 DEF Allocate, Reuse, CutOff, Outgrow
      <4> QED
        BY <4>1, PoolAllocates
    <3>3. CASE Deallocate(a)
      BY <3>3 DEF Deallocate, Pool!Deallocate, Pool!BagToSet, BagToSet, Pool!SetToBag, SetToBag,
                  Pool!(-), (-)
    <3>4. CASE Reserve(a)
      BY <3>4 DEF Reserve
    <3> QED
      BY <3>1, <3>2, <3>3, <3>4
  <2> QED
    BY <2>1, <2>2 DEF Next
<1> QED
  BY <1>1, <1>2, AlwaysPool, PTL DEF Spec, ImplementsPool, Pool!Spec
=============================================================================

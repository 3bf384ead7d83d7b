--------------------------- MODULE GraphLinkProofs ---------------------------
(***************************************************************************)
(* What the operations of Graph do to its links, for any set of graphs and *)
(* any number of slots.                                                    *)
(*                                                                         *)
(* The links represent a forest F (Fits): F gives each node and each head  *)
(* a sequence of children, no node has two places, there is no cycle, and  *)
(* all five links of every node are those that F implies. An operation     *)
(* that joins neighbours, puts a run in or takes one out then turns F into *)
(* the sequence with the run put in or taken out, whatever is below it,    *)
(* and what the model reads from the links (Children, Tops, Within, Read)  *)
(* is what F says. The lemmas named ...Turns state this of one operation   *)
(* each and show that the new forest is one step of OrderedForest away.    *)
(* This module has insertions, moves, erasure and wrapping; GraphProofs    *)
(* goes on with exchange, replacement and merging.                         *)
(***************************************************************************)
EXTENDS Graph, SequenceTheorems, FunctionTheorems, FiniteSetTheorems,
        WellFoundedInduction, TLAPS

-----------------------------------------------------------------------------
(* Links: what Join, PutIn and RunIn write.                                *)

\* What has links, and what has children or tops.
Linkable == Nodes \cup Sentinels
Parents == {HeadOf(g) : g \in Graphs} \cup Nodes
Table == [Linkable -> [up : Int, first : Int, last : Int, prev : Int, next : Int]]

\* What stands in the links of children of p for p itself and for the ends.
UpFrom(p) == IF p < 0 THEN NoNode ELSE p
LeftEnd(p) == IF p < 0 THEN p ELSE NoNode
RightEnd(p) == IF p < 0 THEN p - 1 ELSE NoNode

\* The i-th of the children s of p, with the two ends.
At(s, p, i) == IF i = 0 THEN LeftEnd(p) ELSE IF i = Len(s) + 1 THEN RightEnd(p) ELSE s[i]

\* What a parent or a head says of its first and of its last child or top.
Leftmost(L, p) == IF p < 0 THEN L[p].next ELSE L[p].first
Rightmost(L, p) == IF p < 0 THEN L[p - 1].prev ELSE L[p].last

\* M is L with the neighbours a and b below p.
Joined(L, M, p, a, b) ==
  /\ M \in Table
  /\ \A q \in Parents :
       /\ Leftmost(M, q) = IF q = p /\ a = LeftEnd(p) THEN b ELSE Leftmost(L, q)
       /\ Rightmost(M, q) = IF q = p /\ b = RightEnd(p) THEN a ELSE Rightmost(L, q)
  /\ \A y \in Nodes :
       /\ M[y].up = L[y].up
       /\ M[y].next = IF y = a THEN b ELSE L[y].next
       /\ M[y].prev = IF y = b THEN a ELSE L[y].prev

\* M is L with the run xs between a and b below p.
RunJoined(L, M, xs, p, a, b) ==
  /\ M \in Table
  /\ \A q \in Parents :
       /\ Leftmost(M, q) = IF q = p /\ a = LeftEnd(p) THEN xs[1] ELSE Leftmost(L, q)
       /\ Rightmost(M, q) = IF q = p /\ b = RightEnd(p) THEN xs[Len(xs)] ELSE Rightmost(L, q)
  /\ \A y \in Nodes :
       /\ M[y].up = IF y \in ToSet(xs) THEN UpFrom(p) ELSE L[y].up
       /\ M[y].next = IF y = a THEN xs[1] ELSE IF y = xs[Len(xs)] THEN b ELSE L[y].next
       /\ M[y].prev = IF y = xs[1] THEN a ELSE IF y = b THEN xs[Len(xs)] ELSE L[y].prev

\* Nodes, heads and feet are different pointers and none of them is null.
LEMMA ParentsAre ==
  /\ \A n \in Nodes : n \in Linkable /\ n \in Parents /\ n \in Nat /\ n > 0
  /\ \A p \in Parents : p \in Int /\ p \in Linkable /\ (p \in Nodes <=> p > 0) /\ p # 0
  /\ \A p \in Parents : p < 0 => p - 1 \in Linkable /\ p - 1 \notin Parents
  /\ \A g \in Graphs : HeadOf(g) \in Parents /\ HeadOf(g) < 0 /\ FeetOf(g) = HeadOf(g) - 1
  /\ \A x \in Linkable : x \in Int /\ x # 0
  /\ 0 \notin Linkable /\ NoNode = 0
<1>1. \A g \in Graphs : /\ g \in Nat /\ HeadOf(g) \in Int /\ HeadOf(g) < 0 /\ FeetOf(g) = HeadOf(g) - 1
                        /\ HeadOf(g) \in Sentinels /\ FeetOf(g) \in Sentinels
  BY GraphAssumption DEF HeadOf, FeetOf, Sentinels
<1>2. \A g, h \in Graphs : HeadOf(g) # FeetOf(h)
  BY GraphAssumption DEF HeadOf, FeetOf
<1>3. \A n \in Nodes : n \in Nat /\ n > 0
  BY GraphAssumption DEF Nodes
<1>4. \A x \in Sentinels : x \in Int /\ x < 0
  BY <1>1 DEF Sentinels
<1> QED BY <1>1, <1>2, <1>3, <1>4 DEF Linkable, Parents, NoNode

\* Join makes a and b neighbours below p and changes nothing else.
LEMMA JoinReads ==
  ASSUME NEW L \in Table, NEW p \in Parents,
         NEW a \in Nodes \cup {LeftEnd(p)}, NEW b \in Nodes \cup {RightEnd(p)}
  PROVE  Joined(L, Join(L, UpFrom(p), a, b), p, a, b)
<1> DEFINE u == UpFrom(p)
           D == Linkable
           M == IF a # NoNode THEN [L EXCEPT ![a].next = b] ELSE [L EXCEPT ![u].first = b]
           N == IF b # NoNode THEN [M EXCEPT ![b].prev = a] ELSE [M EXCEPT ![u].last = a]
<1>1. /\ a \in Int /\ b \in Int /\ u \in Int
      /\ a # NoNode => a \in D
      /\ b # NoNode => b \in D
      /\ a = NoNode \/ b = NoNode => u = p /\ p > 0 /\ u \in D
      /\ NoNode = 0 /\ 0 \notin D
      /\ a # LeftEnd(p) => a > 0
      /\ b # RightEnd(p) => b > 0
  BY ParentsAre DEF UpFrom, LeftEnd, RightEnd
<1>2. /\ M \in Table
      /\ \A y \in D : /\ M[y].up = L[y].up /\ M[y].last = L[y].last /\ M[y].prev = L[y].prev
                      /\ M[y].next = IF y = a THEN b ELSE L[y].next
                      /\ M[y].first = IF y = u /\ a = NoNode THEN b ELSE L[y].first
  BY <1>1 DEF Table
<1> HIDE DEF M
<1>3. /\ N \in Table
      /\ \A y \in D : /\ N[y].up = M[y].up /\ N[y].first = M[y].first /\ N[y].next = M[y].next
                      /\ N[y].prev = IF y = b THEN a ELSE M[y].prev
                      /\ N[y].last = IF y = u /\ b = NoNode THEN a ELSE M[y].last
  BY <1>1, <1>2 DEF Table
<1>4. Join(L, u, a, b) = N
  BY DEF Join, M
<1> HIDE DEF N
<1>5. \A y \in Nodes : /\ N[y].up = L[y].up
                       /\ N[y].next = IF y = a THEN b ELSE L[y].next
                       /\ N[y].prev = IF y = b THEN a ELSE L[y].prev
  BY <1>2, <1>3, ParentsAre
<1>6. ASSUME NEW q \in Parents
      PROVE  /\ Leftmost(N, q) = IF q = p /\ a = LeftEnd(p) THEN b ELSE Leftmost(L, q)
             /\ Rightmost(N, q) = IF q = p /\ b = RightEnd(p) THEN a ELSE Rightmost(L, q)
  <2>1. /\ q \in Int /\ q \in D /\ q # 0 /\ p \in Int /\ p # 0 /\ (q < 0 => q - 1 \in D)
        /\ (p < 0 => p - 1 \notin Parents) /\ (q < 0 => q - 1 \notin Parents)
    BY ParentsAre
  <2>2. CASE q < 0
    BY <1>1, <1>2, <1>3, <2>1, <2>2 DEF Leftmost, Rightmost, LeftEnd, RightEnd, UpFrom
  <2>3. CASE q > 0
    BY <1>1, <1>2, <1>3, <2>1, <2>3 DEF Leftmost, Rightmost, LeftEnd, RightEnd, UpFrom
  <2> QED BY <2>1, <2>2, <2>3
<1> QED BY <1>3, <1>4, <1>5, <1>6 DEF Joined

\* RunIn puts a run of siblings between a and b below p and changes nothing else.
LEMMA RunInReads ==
  ASSUME NEW L \in Table, NEW p \in Parents, NEW xs \in Seq(Nodes), xs # <<>>,
         NEW a \in Nodes \cup {LeftEnd(p)}, NEW b \in Nodes \cup {RightEnd(p)},
         a \notin ToSet(xs), b \notin ToSet(xs)
  PROVE  RunJoined(L, RunIn(L, xs, UpFrom(p), a, b), xs, p, a, b)
<1> DEFINE n == Len(xs)
           ups == [y \in DOMAIN L |-> IF y \in ToSet(xs) THEN [L[y] EXCEPT !.up = UpFrom(p)] ELSE L[y]]
           M == Join(ups, UpFrom(p), a, xs[1])
           N == Join(M, UpFrom(p), xs[n], b)
<1>1. /\ n \in Nat \ {0} /\ xs[1] \in Nodes /\ xs[n] \in Nodes
      /\ xs[1] \in ToSet(xs) /\ xs[n] \in ToSet(xs) /\ ToSet(xs) \subseteq Nodes
  BY EmptySeq, LenProperties, ElementOfSeq DEF ToSet
<1>2. UpFrom(p) \in Int /\ DOMAIN L = Linkable
  BY ParentsAre DEF UpFrom, Table
<1>3. /\ ups \in Table
      /\ \A y \in Linkable : /\ ups[y].first = L[y].first /\ ups[y].last = L[y].last
                             /\ ups[y].prev = L[y].prev /\ ups[y].next = L[y].next
                             /\ ups[y].up = IF y \in ToSet(xs) THEN UpFrom(p) ELSE L[y].up
  BY <1>2 DEF Table
<1> HIDE DEF ups
<1>4. \A q \in Parents : Leftmost(ups, q) = Leftmost(L, q) /\ Rightmost(ups, q) = Rightmost(L, q)
  BY <1>3, ParentsAre DEF Leftmost, Rightmost
<1>5. Joined(ups, M, p, a, xs[1])
  BY <1>1, <1>3, JoinReads
<1>6. M \in Table
  BY <1>5 DEF Joined
<1> HIDE DEF M
<1>7. Joined(M, N, p, xs[n], b)
  BY <1>1, <1>6, JoinReads
<1>8. RunIn(L, xs, UpFrom(p), a, b) = N
  BY DEF RunIn, ups, M
<1> HIDE DEF N
<1>9. /\ \A y \in Nodes : y # LeftEnd(p) /\ y # RightEnd(p) /\ y \in Linkable
      /\ a \notin {xs[1], xs[n]} /\ b \notin {xs[1], xs[n]}
  BY <1>1, ParentsAre DEF LeftEnd, RightEnd
<1>10. \A q \in Parents :
         /\ Leftmost(N, q) = IF q = p /\ a = LeftEnd(p) THEN xs[1] ELSE Leftmost(L, q)
         /\ Rightmost(N, q) = IF q = p /\ b = RightEnd(p) THEN xs[n] ELSE Rightmost(L, q)
  BY <1>1, <1>4, <1>5, <1>7, <1>9 DEF Joined
<1>11. \A y \in Nodes :
         /\ N[y].up = IF y \in ToSet(xs) THEN UpFrom(p) ELSE L[y].up
         /\ N[y].next = IF y = a THEN xs[1] ELSE IF y = xs[n] THEN b ELSE L[y].next
         /\ N[y].prev = IF y = xs[1] THEN a ELSE IF y = b THEN xs[n] ELSE L[y].prev
  BY <1>1, <1>3, <1>5, <1>7, <1>9 DEF Joined
<1>12. N \in Table
  BY <1>7 DEF Joined
<1> QED BY <1>8, <1>10, <1>11, <1>12 DEF RunJoined

\* PutIn puts one node between a and b below p and changes nothing else.
LEMMA PutInReads ==
  ASSUME NEW L \in Table, NEW p \in Parents, NEW n \in Nodes,
         NEW a \in Nodes \cup {LeftEnd(p)}, NEW b \in Nodes \cup {RightEnd(p)}, a # n, b # n
  PROVE  RunJoined(L, PutIn(L, n, UpFrom(p), a, b), <<n>>, p, a, b)
<1>1. <<n>> \in Seq(Nodes) /\ <<n>> # <<>> /\ ToSet(<<n>>) = {n} /\ Len(<<n>>) = 1
  BY DEF ToSet
<1>2. RunJoined(L, RunIn(L, <<n>>, UpFrom(p), a, b), <<n>>, p, a, b)
  BY <1>1, RunInReads
<1>3. [y \in DOMAIN L |-> IF y \in {n} THEN [L[y] EXCEPT !.up = UpFrom(p)] ELSE L[y]]
         = [L EXCEPT ![n].up = UpFrom(p)]
  BY ParentsAre DEF Table
<1>4. RunIn(L, <<n>>, UpFrom(p), a, b) = PutIn(L, n, UpFrom(p), a, b)
  BY <1>1, <1>3 DEF RunIn, PutIn
<1> QED BY <1>2, <1>4

-----------------------------------------------------------------------------
(* Siblings: sequences and the links that say them.                        *)

\* The links of the children s of p, and of p to them, are as s says.
Sibs(L, p, s) ==
  /\ Leftmost(L, p) = At(s, p, 1) /\ Rightmost(L, p) = At(s, p, Len(s))
  /\ \A i \in DOMAIN s : /\ L[s[i]].up = UpFrom(p)
                         /\ L[s[i]].prev = At(s, p, i - 1) /\ L[s[i]].next = At(s, p, i + 1)

\* The links inside a run of siblings.
Chained(L, xs) ==
  \A i \in 1 .. Len(xs) - 1 : L[xs[i]].next = xs[i + 1] /\ L[xs[i + 1]].prev = xs[i]

\* The run xs put at the place i of s, and the run lo..hi of s taken out.
Longer(s, xs, i) == SubSeq(s, 1, i - 1) \o xs \o SubSeq(s, i, Len(s))
Shorter(s, lo, hi) == SubSeq(s, 1, lo - 1) \o SubSeq(s, hi + 1, Len(s))

\* Sequences without repetition: their length, domain and members.
LEMMA SetOf ==
  ASSUME NEW S, NEW s \in Seq(S)
  PROVE  /\ Len(s) \in Nat /\ DOMAIN s = 1 .. Len(s) /\ ToSet(s) \subseteq S
         /\ \A i \in 1 .. Len(s) : s[i] \in S /\ s[i] \in ToSet(s)
         /\ \A x \in ToSet(s) : \E i \in 1 .. Len(s) : x = s[i]
         /\ s # <<>> <=> Len(s) # 0
         /\ IsInjective(s) <=> \A i, j \in 1 .. Len(s) : s[i] = s[j] => i = j
<1>1. Len(s) \in Nat /\ DOMAIN s = 1 .. Len(s) /\ \A i \in 1 .. Len(s) : s[i] \in S
  BY LenProperties, ElementOfSeq
<1>2. s # <<>> <=> Len(s) # 0
  BY EmptySeq
<1> QED BY <1>1, <1>2 DEF ToSet, IsInjective

\* The run xs may be put into s at the place i.
PutsIn(S, s, xs, i) == s \in Seq(S) /\ xs \in Seq(S) /\ i \in 1 .. Len(s) + 1

\* The members of a sequence into which a run was put, ...
LEMMA PutIs ==
  ASSUME NEW S, NEW s, NEW xs, NEW i, PutsIn(S, s, xs, i)
  PROVE  /\ Longer(s, xs, i) \in Seq(S) /\ Len(Longer(s, xs, i)) = Len(s) + Len(xs)
         /\ DOMAIN Longer(s, xs, i) = 1 .. Len(s) + Len(xs)
         /\ \A j \in 1 .. Len(s) + Len(xs) :
              Longer(s, xs, i)[j] = IF j < i THEN s[j]
                                    ELSE IF j < i + Len(xs) THEN xs[j - i + 1] ELSE s[j - Len(xs)]
         /\ ToSet(Longer(s, xs, i)) = ToSet(s) \cup ToSet(xs)
<1>0. s \in Seq(S) /\ xs \in Seq(S) /\ i \in 1 .. Len(s) + 1
  BY DEF PutsIn
<1> USE <1>0
<1> DEFINE t == SubSeq(s, 1, i - 1) \o xs \o SubSeq(s, i, Len(s))
           u == SubSeq(s, 1, i - 1)
           v == SubSeq(s, i, Len(s))
           m == Len(s)
           n == Len(xs)
<1>1. /\ m \in Nat /\ n \in Nat /\ i \in Int /\ 1 <= i /\ i <= m + 1
      /\ DOMAIN s = 1 .. m /\ DOMAIN xs = 1 .. n
      /\ \A j \in 1 .. m : s[j] \in S
      /\ \A j \in 1 .. n : xs[j] \in S
  BY LenProperties, ElementOfSeq
<1>2. u \in Seq(S) /\ Len(u) = i - 1 /\ \A j \in 1 .. i - 1 : u[j] = s[j]
  <2>1. \A j \in 1 .. i - 1 : s[j] \in S
    BY <1>1
  <2>2. /\ u \in Seq(S) /\ Len(u) = IF 1 <= i - 1 THEN (i - 1) - 1 + 1 ELSE 0
        /\ \A j \in 1 .. (i - 1) - 1 + 1 : u[j] = s[1 + j - 1]
    BY <1>1, <2>1, SubSeqProperties
  <2> QED BY <1>1, <2>2
<1>3. v \in Seq(S) /\ Len(v) = m - i + 1 /\ \A j \in 1 .. m - i + 1 : v[j] = s[i + j - 1]
  <2>1. \A j \in i .. m : s[j] \in S
    BY <1>1
  <2>2. /\ v \in Seq(S) /\ Len(v) = IF i <= m THEN m - i + 1 ELSE 0
        /\ \A j \in 1 .. m - i + 1 : v[j] = s[i + j - 1]
    BY <1>1, <2>1, SubSeqProperties
  <2> QED BY <1>1, <2>2
<1> HIDE DEF u, v
<1>a. n = Len(xs) /\ m = Len(s)
  OBVIOUS
<1> HIDE DEF m, n
<1>4. /\ u \o xs \in Seq(S) /\ Len(u \o xs) = i - 1 + n
      /\ \A j \in 1 .. i - 1 + n : (u \o xs)[j] = IF j <= i - 1 THEN u[j] ELSE xs[j - (i - 1)]
  <2>1. /\ u \o xs \in Seq(S) /\ Len(u \o xs) = Len(u) + Len(xs)
        /\ \A j \in 1 .. Len(u) + Len(xs) :
             (u \o xs)[j] = IF j <= Len(u) THEN u[j] ELSE xs[j - Len(u)]
    BY <1>2, ConcatProperties
  <2> QED BY <1>2, <1>a, <2>1
<1>5. /\ (u \o xs) \o v \in Seq(S) /\ Len((u \o xs) \o v) = (i - 1 + n) + (m - i + 1)
      /\ \A j \in 1 .. (i - 1 + n) + (m - i + 1) :
           ((u \o xs) \o v)[j] = IF j <= i - 1 + n THEN (u \o xs)[j] ELSE v[j - (i - 1 + n)]
  <2> DEFINE w == u \o xs
  <2>1. w \in Seq(S) /\ Len(w) = i - 1 + n
    BY <1>4
  <2> HIDE DEF w
  <2>2. /\ w \o v \in Seq(S) /\ Len(w \o v) = Len(w) + Len(v)
        /\ \A j \in 1 .. Len(w) + Len(v) :
             (w \o v)[j] = IF j <= Len(w) THEN w[j] ELSE v[j - Len(w)]
    BY <1>3, <2>1, ConcatProperties
  <2>3. /\ w \o v \in Seq(S) /\ Len(w \o v) = (i - 1 + n) + (m - i + 1)
        /\ \A j \in 1 .. (i - 1 + n) + (m - i + 1) :
             (w \o v)[j] = IF j <= i - 1 + n THEN w[j] ELSE v[j - (i - 1 + n)]
    BY <1>3, <2>1, <2>2
  <2> QED BY <2>3 DEF w
<1>6. t = (u \o xs) \o v
  BY DEF u, v
<1> HIDE DEF t
<1>7. t \in Seq(S) /\ Len(t) = m + n /\ DOMAIN t = 1 .. m + n
  <2>1. (i - 1 + n) + (m - i + 1) = m + n
    BY <1>1
  <2>2. t \in Seq(S) /\ Len(t) = m + n
    BY <1>5, <1>6, <2>1
  <2> QED BY <2>2, LenProperties
<1> DEFINE w == u \o xs
<1>b. /\ \A j \in 1 .. m + n : t[j] = IF j <= i - 1 + n THEN w[j] ELSE v[j - (i - 1 + n)]
      /\ \A j \in 1 .. i - 1 + n : w[j] = IF j <= i - 1 THEN u[j] ELSE xs[j - (i - 1)]
  <2>1. (i - 1 + n) + (m - i + 1) = m + n
    BY <1>1
  <2> QED BY <1>4, <1>5, <1>6, <2>1
<1> HIDE DEF w
<1>8. ASSUME NEW j \in 1 .. m + n
      PROVE  t[j] = IF j < i THEN s[j] ELSE IF j < i + n THEN xs[j - i + 1] ELSE s[j - n]
  <2>1. CASE j < i
    <3>1. j \in 1 .. i - 1 /\ j \in 1 .. i - 1 + n /\ j <= i - 1 /\ j <= i - 1 + n
      BY <1>1, <2>1
    <3>2. t[j] = w[j]
      BY <1>b, <3>1
    <3>3. w[j] = u[j]
      BY <1>b, <3>1
    <3> QED BY <1>2, <2>1, <3>1, <3>2, <3>3
  <2>2. CASE i <= j /\ j < i + n
    BY <1>1, <1>2, <1>b, <2>2
  <2>3. CASE i + n <= j
    <3>1. t[j] = v[j - (i - 1 + n)] /\ j - (i - 1 + n) \in 1 .. m - i + 1
      BY <1>1, <1>b, <2>3
    <3>2. i + (j - (i - 1 + n)) - 1 = j - n /\ ~(j < i) /\ ~(j < i + n)
      BY <1>1, <2>3
    <3> QED BY <1>3, <3>1, <3>2
  <2> QED BY <1>1, <2>1, <2>2, <2>3
<1>9. ToSet(t) = ToSet(s) \cup ToSet(xs)
  <2>1. ToSet(t) \subseteq ToSet(s) \cup ToSet(xs)
    <3> SUFFICES ASSUME NEW j \in 1 .. m + n PROVE t[j] \in ToSet(s) \cup ToSet(xs)
      BY <1>7 DEF ToSet
    <3>1. \A k \in 1 .. m : s[k] \in ToSet(s)
      BY <1>1 DEF ToSet
    <3>2. \A k \in 1 .. n : xs[k] \in ToSet(xs)
      BY <1>1 DEF ToSet
    <3> QED BY <1>1, <1>8, <3>1, <3>2
  <2>2. ASSUME NEW k \in 1 .. m PROVE s[k] \in ToSet(t)
    <3>1. \A j \in 1 .. m + n : t[j] \in ToSet(t)
      BY <1>7 DEF ToSet
    <3>2. CASE k < i
      <4>1. k \in 1 .. m + n /\ t[k] = s[k]
        BY <1>1, <1>8, <3>2
      <4> QED BY <3>1, <4>1
    <3>3. CASE k >= i
      <4>1. k + n \in 1 .. m + n /\ ~(k + n < i) /\ ~(k + n < i + n) /\ (k + n) - n = k
        BY <1>1, <3>3
      <4>2. t[k + n] = s[k]
        BY <1>8, <4>1
      <4> QED BY <3>1, <4>1, <4>2
    <3> QED BY <1>1, <3>2, <3>3
  <2>3. ASSUME NEW k \in 1 .. n PROVE xs[k] \in ToSet(t)
    <3>1. \A j \in 1 .. m + n : t[j] \in ToSet(t)
      BY <1>7 DEF ToSet
    <3>2. k + i - 1 \in 1 .. m + n /\ ~(k + i - 1 < i) /\ k + i - 1 < i + n /\ (k + i - 1) - i + 1 = k
      BY <1>1
    <3>3. t[k + i - 1] = xs[k]
      BY <1>8, <3>2
    <3> QED BY <3>1, <3>2, <3>3
  <2> QED BY <1>1, <2>1, <2>2, <2>3 DEF ToSet
<1> QED BY <1>7, <1>8, <1>9, <1>a DEF t, Longer

\* ... and the same of a run that is named.
LEMMA PutSeq ==
  ASSUME NEW S, NEW s \in Seq(S), NEW xs \in Seq(S), NEW i \in 1 .. Len(s) + 1
  PROVE  /\ Longer(s, xs, i) \in Seq(S) /\ Len(Longer(s, xs, i)) = Len(s) + Len(xs)
         /\ DOMAIN Longer(s, xs, i) = 1 .. Len(s) + Len(xs)
         /\ \A j \in 1 .. Len(s) + Len(xs) :
              Longer(s, xs, i)[j] = IF j < i THEN s[j]
                                    ELSE IF j < i + Len(xs) THEN xs[j - i + 1] ELSE s[j - Len(xs)]
         /\ ToSet(Longer(s, xs, i)) = ToSet(s) \cup ToSet(xs)
<1>1. PutsIn(S, s, xs, i)
  BY DEF PutsIn
<1> QED BY ONLY <1>1, PutIs

\* The run lo .. hi may be taken out of s.
TakesOut(S, s, lo, hi) ==
  s \in Seq(S) /\ IsInjective(s) /\ lo \in 1 .. Len(s) /\ hi \in lo .. Len(s)

\* The members of a run and of the sequence it was taken out of, ...
LEMMA TakeIs ==
  ASSUME NEW S, NEW s, NEW lo, NEW hi, TakesOut(S, s, lo, hi)
  PROVE  /\ Shorter(s, lo, hi) \in Seq(S) /\ Len(Shorter(s, lo, hi)) = Len(s) - (hi - lo + 1)
         /\ DOMAIN Shorter(s, lo, hi) = 1 .. Len(s) - (hi - lo + 1)
         /\ \A j \in 1 .. Len(s) - (hi - lo + 1) :
              Shorter(s, lo, hi)[j] = IF j < lo THEN s[j] ELSE s[j + (hi - lo + 1)]
         /\ SubSeq(s, lo, hi) \in Seq(S) /\ Len(SubSeq(s, lo, hi)) = hi - lo + 1
         /\ \A j \in 1 .. hi - lo + 1 : SubSeq(s, lo, hi)[j] = s[lo + j - 1]
         /\ \A x : x \in ToSet(SubSeq(s, lo, hi)) <=> \E j \in lo .. hi : x = s[j]
         /\ ToSet(Shorter(s, lo, hi)) = ToSet(s) \ ToSet(SubSeq(s, lo, hi))
         /\ IsInjective(Shorter(s, lo, hi)) /\ IsInjective(SubSeq(s, lo, hi))
<1>0. s \in Seq(S) /\ IsInjective(s) /\ lo \in 1 .. Len(s) /\ hi \in lo .. Len(s)
  BY DEF TakesOut
<1> USE <1>0
<1> DEFINE t == SubSeq(s, 1, lo - 1) \o SubSeq(s, hi + 1, Len(s))
           u == SubSeq(s, 1, lo - 1)
           v == SubSeq(s, hi + 1, Len(s))
           xs == SubSeq(s, lo, hi)
           m == Len(s)
           n == hi - lo + 1
<1>1. /\ m \in Nat /\ lo \in Int /\ hi \in Int /\ 1 <= lo /\ lo <= hi /\ hi <= m
      /\ DOMAIN s = 1 .. m /\ n \in Nat /\ n > 0
      /\ \A j \in 1 .. m : s[j] \in S
      /\ \A i, j \in 1 .. m : s[i] = s[j] => i = j
  BY LenProperties, ElementOfSeq DEF IsInjective
<1>2. u \in Seq(S) /\ Len(u) = lo - 1 /\ \A j \in 1 .. lo - 1 : u[j] = s[j]
  <2>1. \A j \in 1 .. lo - 1 : s[j] \in S
    BY <1>1
  <2>2. /\ u \in Seq(S) /\ Len(u) = IF 1 <= lo - 1 THEN (lo - 1) - 1 + 1 ELSE 0
        /\ \A j \in 1 .. (lo - 1) - 1 + 1 : u[j] = s[1 + j - 1]
    BY <1>1, <2>1, SubSeqProperties
  <2> QED BY <1>1, <2>2
<1>3. v \in Seq(S) /\ Len(v) = m - hi /\ \A j \in 1 .. m - hi : v[j] = s[hi + j]
  <2>1. \A j \in hi + 1 .. m : s[j] \in S
    BY <1>1
  <2>3. hi + 1 \in Int /\ m \in Int
    BY <1>1
  <2>2. /\ v \in Seq(S) /\ Len(v) = IF hi + 1 <= m THEN m - (hi + 1) + 1 ELSE 0
        /\ \A j \in 1 .. m - (hi + 1) + 1 : v[j] = s[(hi + 1) + j - 1]
    BY <2>3, <2>1, SubSeqProperties
  <2> HIDE DEF v, m
  <2>4. Len(v) = m - hi
    BY <1>1, <2>2
  <2>5. \A j \in 1 .. m - hi : j \in 1 .. m - (hi + 1) + 1 /\ (hi + 1) + j - 1 = hi + j
    BY <1>1
  <2> QED BY <2>2, <2>4, <2>5
<1>4. xs \in Seq(S) /\ Len(xs) = n /\ \A j \in 1 .. n : xs[j] = s[lo + j - 1]
  <2>1. \A j \in lo .. hi : s[j] \in S
    BY <1>1
  <2> QED BY <1>1, <2>1, SubSeqProperties
<1> HIDE DEF u, v, xs
<1>a. m = Len(s) /\ n = hi - lo + 1
  OBVIOUS
<1>b. m - n = (lo - 1) + (m - hi)
  BY <1>1
<1> HIDE DEF m, n
<1>5. /\ u \o v \in Seq(S) /\ Len(u \o v) = (lo - 1) + (m - hi)
      /\ \A j \in 1 .. (lo - 1) + (m - hi) :
           (u \o v)[j] = IF j <= lo - 1 THEN u[j] ELSE v[j - (lo - 1)]
  <2>1. /\ u \o v \in Seq(S) /\ Len(u \o v) = Len(u) + Len(v)
        /\ \A j \in 1 .. Len(u) + Len(v) :
             (u \o v)[j] = IF j <= Len(u) THEN u[j] ELSE v[j - Len(u)]
    BY <1>2, <1>3, ConcatProperties
  <2> QED BY <1>2, <1>3, <2>1
<1>6. t = u \o v
  BY DEF u, v
<1> HIDE DEF t
<1>7. t \in Seq(S) /\ Len(t) = m - n /\ DOMAIN t = 1 .. m - n
  BY <1>5, <1>6, <1>b, LenProperties
<1>8. ASSUME NEW j \in 1 .. m - n
      PROVE  t[j] = IF j < lo THEN s[j] ELSE s[j + n]
  <2>1. CASE j < lo
    BY <1>1, <1>2, <1>5, <1>6, <1>b, <2>1
  <2>2. CASE lo <= j
    <3>1. t[j] = v[j - (lo - 1)] /\ j - (lo - 1) \in 1 .. m - hi /\ hi + (j - (lo - 1)) = j + n
      BY <1>1, <1>5, <1>6, <1>a, <1>b, <2>2
    <3>2. v[j - (lo - 1)] = s[hi + (j - (lo - 1))]
      BY <1>3, <3>1
    <3>3. ~(j < lo)
      BY <1>1, <2>2
    <3> QED BY <3>1, <3>2, <3>3
  <2> QED BY <1>1, <2>1, <2>2
<1>9. xs # <<>> /\ DOMAIN xs = 1 .. n
  BY <1>1, <1>4, EmptySeq, LenProperties
<1>10. ToSet(xs) = {s[j] : j \in lo .. hi}
  <2>1. ASSUME NEW j \in lo .. hi PROVE s[j] \in ToSet(xs)
    <3>1. j - lo + 1 \in 1 .. n /\ lo + (j - lo + 1) - 1 = j
      BY <1>1, <1>a
    <3>2. xs[j - lo + 1] = s[j]
      BY <1>4, <3>1
    <3> QED BY <1>9, <3>1, <3>2 DEF ToSet
  <2>2. ASSUME NEW j \in 1 .. n PROVE xs[j] \in {s[k] : k \in lo .. hi}
    <3>1. lo + j - 1 \in lo .. hi
      BY <1>1, <1>a
    <3>2. xs[j] = s[lo + j - 1]
      BY <1>4
    <3> QED BY <3>1, <3>2
  <2> QED BY <1>9, <2>1, <2>2 DEF ToSet
<1>11. ToSet(t) = ToSet(s) \ ToSet(xs)
  <2>1. ASSUME NEW j \in 1 .. m - n PROVE t[j] \in ToSet(s) \ {s[k] : k \in lo .. hi}
    <3>1. CASE j < lo
      <4>1. j \in 1 .. m /\ t[j] = s[j] /\ j \notin lo .. hi /\ lo .. hi \subseteq 1 .. m
        BY <1>1, <1>8, <1>a, <3>1
      <4> QED BY <1>1, <4>1 DEF ToSet
    <3>2. CASE j >= lo
      <4>1. j + n \in 1 .. m /\ t[j] = s[j + n] /\ j + n \notin lo .. hi /\ lo .. hi \subseteq 1 .. m
        BY <1>1, <1>8, <1>a, <3>2
      <4> QED BY <1>1, <4>1 DEF ToSet
    <3> QED BY <1>1, <3>1, <3>2
  <2>2. ASSUME NEW k \in 1 .. m, k \notin lo .. hi PROVE s[k] \in ToSet(t)
    <3>1. \A j \in 1 .. m - n : t[j] \in ToSet(t)
      BY <1>7 DEF ToSet
    <3>2. CASE k < lo
      <4>1. k \in 1 .. m - n /\ t[k] = s[k]
        BY <1>1, <1>8, <1>a, <3>2
      <4> QED BY <3>1, <4>1
    <3>3. CASE k > hi
      <4>1. k - n \in 1 .. m - n /\ ~(k - n < lo) /\ (k - n) + n = k
        BY <1>1, <1>a, <3>3
      <4>2. t[k - n] = s[k]
        BY <1>8, <4>1
      <4> QED BY <3>1, <4>1, <4>2
    <3> QED BY <1>1, <1>a, <2>2, <3>2, <3>3
  <2>3. DOMAIN t = 1 .. m - n /\ DOMAIN s = 1 .. m
    BY <1>1, <1>7
  <2>4. ToSet(t) \subseteq ToSet(s) \ ToSet(xs)
    BY <1>10, <2>1, <2>3 DEF ToSet
  <2>5. ASSUME NEW x \in ToSet(s), x \notin ToSet(xs) PROVE x \in ToSet(t)
    <3>1. PICK k \in 1 .. m : x = s[k]
      BY <2>3 DEF ToSet
    <3> QED BY <1>10, <2>2, <2>5, <3>1
  <2> QED BY <2>4, <2>5
<1>12. IsInjective(t)
  <2> SUFFICES ASSUME NEW i \in 1 .. m - n, NEW j \in 1 .. m - n, t[i] = t[j] PROVE i = j
    BY <1>7 DEF IsInjective
  <2> DEFINE e(k) == IF k < lo THEN k ELSE k + n
  <2>1. e(i) \in 1 .. m /\ e(j) \in 1 .. m /\ t[i] = s[e(i)] /\ t[j] = s[e(j)]
    BY <1>1, <1>8, <1>a
  <2>2. e(i) = e(j)
    BY <1>1, <2>1
  <2> QED BY <1>1, <2>2
<1>13. IsInjective(xs)
  <2> SUFFICES ASSUME NEW i \in 1 .. n, NEW j \in 1 .. n, xs[i] = xs[j] PROVE i = j
    BY <1>9 DEF IsInjective
  <2>1. s[lo + i - 1] = s[lo + j - 1] /\ lo + i - 1 \in 1 .. m /\ lo + j - 1 \in 1 .. m
    BY <1>1, <1>4, <1>a
  <2> QED BY <1>1, <2>1
<1> QED BY <1>1, <1>4, <1>7, <1>8, <1>9, <1>10, <1>11, <1>12, <1>13, <1>a DEF t, xs, Shorter

\* ... and the same of a run whose ends are named.
LEMMA TakeSeq ==
  ASSUME NEW S, NEW s \in Seq(S), IsInjective(s), NEW lo \in 1 .. Len(s), NEW hi \in lo .. Len(s)
  PROVE  /\ Shorter(s, lo, hi) \in Seq(S) /\ Len(Shorter(s, lo, hi)) = Len(s) - (hi - lo + 1)
         /\ DOMAIN Shorter(s, lo, hi) = 1 .. Len(s) - (hi - lo + 1)
         /\ \A j \in 1 .. Len(s) - (hi - lo + 1) :
              Shorter(s, lo, hi)[j] = IF j < lo THEN s[j] ELSE s[j + (hi - lo + 1)]
         /\ SubSeq(s, lo, hi) \in Seq(S) /\ Len(SubSeq(s, lo, hi)) = hi - lo + 1
         /\ \A j \in 1 .. hi - lo + 1 : SubSeq(s, lo, hi)[j] = s[lo + j - 1]
         /\ \A x : x \in ToSet(SubSeq(s, lo, hi)) <=> \E j \in lo .. hi : x = s[j]
         /\ ToSet(Shorter(s, lo, hi)) = ToSet(s) \ ToSet(SubSeq(s, lo, hi))
         /\ IsInjective(Shorter(s, lo, hi)) /\ IsInjective(SubSeq(s, lo, hi))
<1>1. TakesOut(S, s, lo, hi)
  BY DEF TakesOut
<1> QED BY ONLY <1>1, TakeIs

\* The places next to children are children or ends.
LEMMA AtIs ==
  ASSUME NEW p \in Parents, NEW s \in Seq(Nodes), NEW i \in 0 .. Len(s) + 1
  PROVE  /\ i \in 1 .. Len(s) => At(s, p, i) = s[i] /\ At(s, p, i) \in Nodes
         /\ At(s, p, 0) = LeftEnd(p) /\ At(s, p, Len(s) + 1) = RightEnd(p)
         /\ At(s, p, i) \in Nodes <=> i \in 1 .. Len(s)
         /\ i # Len(s) + 1 => At(s, p, i) \in Nodes \cup {LeftEnd(p)}
         /\ i # 0 => At(s, p, i) \in Nodes \cup {RightEnd(p)}
         /\ LeftEnd(p) \notin Nodes /\ RightEnd(p) \notin Nodes
<1>1. Len(s) \in Nat /\ \A j \in 1 .. Len(s) : s[j] \in Nodes
  BY SetOf
<1>2. LeftEnd(p) \notin Nodes /\ RightEnd(p) \notin Nodes
  BY ParentsAre DEF LeftEnd, RightEnd
<1> QED BY <1>1, <1>2 DEF At

\* Links of the children of other parents stay.
LEMMA SibsKept ==
  ASSUME NEW L, NEW M, NEW q, NEW t \in Seq(Nodes), Sibs(L, q, t),
         Leftmost(M, q) = Leftmost(L, q), Rightmost(M, q) = Rightmost(L, q),
         \A y \in ToSet(t) : /\ M[y].up = L[y].up /\ M[y].prev = L[y].prev
                             /\ M[y].next = L[y].next
  PROVE  Sibs(M, q, t)
<1>1. DOMAIN t = 1 .. Len(t) /\ \A i \in 1 .. Len(t) : t[i] \in ToSet(t)
  BY SetOf
<1> QED BY <1>1 DEF Sibs

\* When a run is linked in between two neighbours, the links say the longer sequence.
LEMMA SibsPut ==
  ASSUME NEW p \in Parents, NEW L, NEW M, NEW s \in Seq(Nodes), IsInjective(s), Sibs(L, p, s),
         NEW xs \in Seq(Nodes), xs # <<>>, IsInjective(xs), Chained(L, xs),
         ToSet(xs) \cap ToSet(s) = {}, NEW i \in 1 .. Len(s) + 1,
         RunJoined(L, M, xs, p, At(s, p, i - 1), At(s, p, i))
  PROVE  Sibs(M, p, Longer(s, xs, i))
<1> DEFINE t == Longer(s, xs, i)
           m == Len(s)
           n == Len(xs)
           a == At(s, p, i - 1)
           b == At(s, p, i)
<1>1. /\ m \in Nat /\ n \in Nat /\ n > 0 /\ i \in Int /\ 1 <= i /\ i <= m + 1
      /\ \A j \in 1 .. m : s[j] \in Nodes /\ s[j] \in ToSet(s)
      /\ \A j \in 1 .. n : xs[j] \in Nodes /\ xs[j] \in ToSet(xs)
      /\ \A j, k \in 1 .. m : s[j] = s[k] => j = k
      /\ \A j, k \in 1 .. n : xs[j] = xs[k] => j = k
  BY SetOf
<1>2. /\ t \in Seq(Nodes) /\ Len(t) = m + n /\ DOMAIN t = 1 .. m + n
      /\ \A j \in 1 .. m + n :
           t[j] = IF j < i THEN s[j] ELSE IF j < i + n THEN xs[j - i + 1] ELSE s[j - n]
  BY PutSeq
<1>3. /\ \A j \in 1 .. m : /\ L[s[j]].up = UpFrom(p) /\ L[s[j]].prev = At(s, p, j - 1)
                           /\ L[s[j]].next = At(s, p, j + 1)
      /\ Leftmost(L, p) = At(s, p, 1) /\ Rightmost(L, p) = At(s, p, m)
  BY SetOf DEF Sibs
<1>4. \A j \in 1 .. n - 1 : L[xs[j]].next = xs[j + 1] /\ L[xs[j + 1]].prev = xs[j]
  BY DEF Chained
<1>5. /\ Leftmost(M, p) = IF a = LeftEnd(p) THEN xs[1] ELSE Leftmost(L, p)
      /\ Rightmost(M, p) = IF b = RightEnd(p) THEN xs[n] ELSE Rightmost(L, p)
      /\ \A y \in Nodes :
           /\ M[y].up = IF y \in ToSet(xs) THEN UpFrom(p) ELSE L[y].up
           /\ M[y].next = IF y = a THEN xs[1] ELSE IF y = xs[n] THEN b ELSE L[y].next
           /\ M[y].prev = IF y = xs[1] THEN a ELSE IF y = b THEN xs[n] ELSE L[y].prev
  BY DEF RunJoined
<1>6. LeftEnd(p) \notin Nodes /\ RightEnd(p) \notin Nodes
  BY AtIs, <1>1
<1>7. \A j \in 1 .. m : s[j] \notin ToSet(xs)
  BY <1>1
<1> HIDE DEF t, n
<1>a. m = Len(s)
  OBVIOUS
<1> HIDE DEF m
<1>8. /\ a = IF i = 1 THEN LeftEnd(p) ELSE s[i - 1]
      /\ b = IF i = m + 1 THEN RightEnd(p) ELSE s[i]
      /\ \A j \in 0 .. m + 1 : At(s, p, j) = IF j = 0 THEN LeftEnd(p)
                                ELSE IF j = m + 1 THEN RightEnd(p) ELSE s[j]
      /\ \A j \in 0 .. m + n + 1 : At(t, p, j) = IF j = 0 THEN LeftEnd(p)
                                ELSE IF j = m + n + 1 THEN RightEnd(p) ELSE t[j]
  BY <1>1, <1>2, <1>a DEF At
<1> HIDE DEF a, b
<1>9. Leftmost(M, p) = At(t, p, 1)
  <2>1. CASE i = 1
    BY <1>1, <1>2, <1>5, <1>8, <2>1
  <2>2. CASE i > 1
    <3>1. a = s[i - 1] /\ s[i - 1] \in Nodes /\ 1 \in 1 .. m /\ 1 \in 1 .. m + n
      BY <1>1, <1>8, <2>2
    <3>2. At(t, p, 1) = t[1] /\ t[1] = s[1] /\ At(s, p, 1) = s[1]
      BY <1>1, <1>2, <1>8, <2>2, <3>1
    <3> QED BY <1>3, <1>5, <1>6, <3>1, <3>2
  <2> QED BY <1>1, <2>1, <2>2
<1>10. Rightmost(M, p) = At(t, p, m + n)
  <2>1. CASE i = m + 1
    <3>1. b = RightEnd(p) /\ m + n \in 1 .. m + n /\ t[m + n] = xs[n]
      <4>1. ~(m + n < i) /\ m + n < i + n /\ (m + n) - i + 1 = n /\ m + n \in 1 .. m + n
        BY <1>1, <2>1
      <4> QED BY <1>1, <1>2, <1>8, <2>1, <4>1
    <3> QED BY <1>1, <1>5, <1>8, <3>1
  <2>2. CASE i <= m
    <3>1. /\ b = s[i] /\ s[i] \in Nodes /\ m \in 1 .. m /\ m + n \in 1 .. m + n
          /\ ~(m + n < i) /\ ~(m + n < i + n) /\ (m + n) - n = m
      BY <1>1, <1>8, <2>2
    <3>2. t[m + n] = s[m]
      BY <1>2, <3>1
    <3>3. At(t, p, m + n) = t[m + n] /\ At(s, p, m) = s[m]
      BY <1>1, <1>8, <3>1
    <3> QED BY <1>3, <1>5, <1>6, <3>1, <3>2, <3>3
  <2> QED BY <1>1, <2>1, <2>2
<1>11. ASSUME NEW j \in 1 .. m + n
       PROVE  /\ M[t[j]].up = UpFrom(p) /\ M[t[j]].prev = At(t, p, j - 1)
              /\ M[t[j]].next = At(t, p, j + 1)
  <2>1. CASE j < i
    <3>1. t[j] = s[j] /\ j \in 1 .. m /\ j + 1 \in 1 .. m + n /\ s[j] \in Nodes
      BY <1>1, <1>2, <2>1
    <3>2. \A k \in 1 .. n : xs[k] # s[j]
      BY <1>1, <1>7, <3>1
    <3>3. M[s[j]].up = UpFrom(p)
      BY <1>3, <1>5, <1>7, <3>1
    <3>4. M[s[j]].prev = At(t, p, j - 1)
      <4>1. s[j] # xs[1] /\ s[j] # b
        BY <1>1, <1>6, <1>8, <2>1, <3>1, <3>2
      <4>2. M[s[j]].prev = At(s, p, j - 1)
        BY <1>3, <1>5, <3>1, <4>1
      <4>3. CASE j = 1
        BY <1>1, <1>8, <4>2, <4>3
      <4>4. CASE j > 1
        <5>1. j - 1 \in 1 .. m + n /\ j - 1 < i /\ j - 1 \in 1 .. m
          BY <1>1, <2>1, <3>1, <4>4
        <5> QED BY <1>1, <1>2, <1>8, <4>2, <5>1
      <4> QED BY <1>1, <3>1, <4>3, <4>4
    <3>5. M[s[j]].next = At(t, p, j + 1)
      <4>1. CASE j = i - 1
        <5>1. s[j] = a /\ t[j + 1] = xs[1]
          BY <1>1, <1>2, <1>8, <3>1, <4>1
        <5> QED BY <1>1, <1>5, <1>8, <3>1, <5>1
      <4>2. CASE j < i - 1
        <5>1. s[j] # a /\ s[j] # xs[n]
          BY <1>1, <1>6, <1>8, <3>1, <3>2, <4>2
        <5>2. M[s[j]].next = At(s, p, j + 1)
          BY <1>3, <1>5, <3>1, <5>1
        <5> QED BY <1>1, <1>2, <1>8, <3>1, <4>2, <5>2
      <4> QED BY <1>1, <2>1, <4>1, <4>2
    <3> QED BY <3>1, <3>3, <3>4, <3>5
  <2>2. CASE i <= j /\ j < i + n
    <3> DEFINE k == j - i + 1
    <3>1. t[j] = xs[k] /\ k \in 1 .. n /\ xs[k] \in Nodes /\ xs[k] \in ToSet(xs) /\ j = k + i - 1
      BY <1>1, <1>2, <2>2
    <3> HIDE DEF k
    <3>2. \A l \in 1 .. m : s[l] # xs[k]
      BY <1>7, <3>1
    <3>3. M[xs[k]].up = UpFrom(p)
      BY <1>5, <3>1
    <3>4. xs[k] # a /\ xs[k] # b
      BY <1>1, <1>6, <1>8, <3>1, <3>2
    <3>5. M[xs[k]].prev = At(t, p, j - 1)
      <4>1. CASE k = 1
        <5>1. j = i /\ M[xs[k]].prev = a
          BY <1>5, <3>1, <4>1
        <5>2. CASE i = 1
          BY <1>1, <1>8, <5>1, <5>2
        <5>3. CASE i > 1
          <6>1. j - 1 \in 1 .. m + n /\ j - 1 < i /\ j - 1 = i - 1
            BY <1>1, <5>1, <5>3
          <6>2. t[j - 1] = s[i - 1] /\ a = s[i - 1]
            BY <1>1, <1>2, <1>8, <5>3, <6>1
          <6> QED BY <1>1, <1>8, <5>1, <6>1, <6>2
        <5> QED BY <1>1, <5>2, <5>3
      <4>2. CASE k > 1
        <5>1. /\ k - 1 \in 1 .. n - 1 /\ (k - 1) + 1 = k /\ j - 1 \in 1 .. m + n /\ ~(j - 1 < i)
              /\ j - 1 < i + n /\ (j - 1) - i + 1 = k - 1 /\ 1 \in 1 .. n
          BY <1>1, <3>1, <4>2
        <5>2. t[j - 1] = xs[k - 1] /\ xs[k] # xs[1]
          BY <1>1, <1>2, <3>1, <4>2, <5>1
        <5>3. M[xs[k]].prev = xs[k - 1]
          BY <1>4, <1>5, <3>1, <3>4, <5>1, <5>2
        <5> QED BY <1>1, <1>8, <5>1, <5>2, <5>3
      <4> QED BY <3>1, <4>1, <4>2
    <3>6. M[xs[k]].next = At(t, p, j + 1)
      <4>1. CASE k = n
        <5>1. j + 1 = i + n /\ M[xs[k]].next = b
          BY <1>1, <1>5, <3>1, <3>4, <4>1
        <5>2. CASE i = m + 1
          BY <1>1, <1>8, <5>1, <5>2
        <5>3. CASE i <= m
          <6>1. j + 1 \in 1 .. m + n /\ ~(j + 1 < i) /\ ~(j + 1 < i + n) /\ (j + 1) - n = i
            BY <1>1, <5>1, <5>3
          <6>2. t[j + 1] = s[i] /\ b = s[i]
            BY <1>1, <1>2, <1>8, <5>3, <6>1
          <6> QED BY <1>1, <1>8, <5>1, <6>1, <6>2
        <5> QED BY <1>1, <5>2, <5>3
      <4>2. CASE k < n
        <5>1. /\ k \in 1 .. n - 1 /\ j + 1 \in 1 .. m + n /\ ~(j + 1 < i)
              /\ j + 1 < i + n /\ (j + 1) - i + 1 = k + 1 /\ n \in 1 .. n
          BY <1>1, <3>1, <4>2
        <5>2. t[j + 1] = xs[k + 1] /\ xs[k] # xs[n]
          BY <1>1, <1>2, <3>1, <4>2, <5>1
        <5>3. M[xs[k]].next = xs[k + 1]
          BY <1>4, <1>5, <3>1, <3>4, <5>1, <5>2
        <5> QED BY <1>1, <1>8, <5>1, <5>2, <5>3
      <4> QED BY <1>1, <3>1, <4>1, <4>2
    <3> QED BY <3>1, <3>3, <3>5, <3>6
  <2>3. CASE i + n <= j
    <3> DEFINE k == j - n
    <3>1. t[j] = s[k] /\ k \in 1 .. m /\ i <= k /\ s[k] \in Nodes /\ j = k + n
      BY <1>1, <1>2, <2>3
    <3> HIDE DEF k
    <3>2. \A l \in 1 .. n : xs[l] # s[k]
      BY <1>1, <1>7, <3>1
    <3>3. M[s[k]].up = UpFrom(p)
      BY <1>3, <1>5, <1>7, <3>1
    <3>4. M[s[k]].next = At(t, p, j + 1)
      <4>1. s[k] # a /\ s[k] # xs[n]
        BY <1>1, <1>6, <1>8, <3>1, <3>2
      <4>2. M[s[k]].next = At(s, p, k + 1)
        BY <1>3, <1>5, <3>1, <4>1
      <4>3. CASE k = m
        BY <1>1, <1>8, <3>1, <4>2, <4>3
      <4>4. CASE k < m
        <5>1. j + 1 \in 1 .. m + n /\ ~(j + 1 < i) /\ ~(j + 1 < i + n) /\ (j + 1) - n = k + 1
          BY <1>1, <3>1, <4>4
        <5>2. t[j + 1] = s[k + 1]
          BY <1>2, <5>1
        <5> QED BY <1>1, <1>8, <3>1, <4>2, <4>4, <5>1, <5>2
      <4> QED BY <1>1, <3>1, <4>3, <4>4
    <3>5. M[s[k]].prev = At(t, p, j - 1)
      <4>1. CASE k = i
        <5>1. s[k] = b /\ s[k] # xs[1]
          BY <1>1, <1>8, <3>1, <3>2, <4>1
        <5>2. j - 1 \in 1 .. m + n /\ ~(j - 1 < i) /\ j - 1 < i + n /\ (j - 1) - i + 1 = n
          BY <1>1, <3>1, <4>1
        <5>3. t[j - 1] = xs[n] /\ M[s[k]].prev = xs[n]
          BY <1>2, <1>5, <3>1, <5>1, <5>2
        <5> QED BY <1>1, <1>8, <5>2, <5>3
      <4>2. CASE k > i
        <5>1. s[k] # b /\ s[k] # xs[1]
          BY <1>1, <1>6, <1>8, <3>1, <3>2, <4>2
        <5>2. M[s[k]].prev = At(s, p, k - 1)
          BY <1>3, <1>5, <3>1, <5>1
        <5>3. /\ j - 1 \in 1 .. m + n /\ ~(j - 1 < i) /\ ~(j - 1 < i + n) /\ (j - 1) - n = k - 1
              /\ k - 1 \in 1 .. m
          BY <1>1, <3>1, <4>2
        <5>4. t[j - 1] = s[k - 1]
          BY <1>2, <5>3
        <5> QED BY <1>1, <1>8, <3>1, <4>2, <5>2, <5>3, <5>4
      <4> QED BY <3>1, <4>1, <4>2
    <3> QED BY <3>1, <3>3, <3>4, <3>5
  <2> QED BY <1>1, <2>1, <2>2, <2>3
<1> QED BY <1>2, <1>9, <1>10, <1>11 DEF Sibs, t

\* When the neighbours of a run are joined, the links say the shorter sequence.
LEMMA SibsTake ==
  ASSUME NEW p \in Parents, NEW L, NEW M, NEW s \in Seq(Nodes), IsInjective(s), Sibs(L, p, s),
         NEW lo \in 1 .. Len(s), NEW hi \in lo .. Len(s),
         Joined(L, M, p, At(s, p, lo - 1), At(s, p, hi + 1))
  PROVE  Sibs(M, p, Shorter(s, lo, hi))
<1> DEFINE t == Shorter(s, lo, hi)
           m == Len(s)
           n == hi - lo + 1
           a == At(s, p, lo - 1)
           b == At(s, p, hi + 1)
<1>1. /\ m \in Nat /\ n \in Nat /\ n > 0 /\ lo \in Int /\ hi \in Int /\ 1 <= lo /\ lo <= hi /\ hi <= m
      /\ hi = lo + n - 1
      /\ \A j \in 1 .. m : s[j] \in Nodes
      /\ \A j, k \in 1 .. m : s[j] = s[k] => j = k
  BY SetOf
<1>2. /\ t \in Seq(Nodes) /\ Len(t) = m - n /\ DOMAIN t = 1 .. m - n
      /\ \A j \in 1 .. m - n : t[j] = IF j < lo THEN s[j] ELSE s[j + n]
  <2>1. /\ Shorter(s, lo, hi) \in Seq(Nodes)
        /\ Len(Shorter(s, lo, hi)) = Len(s) - (hi - lo + 1)
        /\ DOMAIN Shorter(s, lo, hi) = 1 .. Len(s) - (hi - lo + 1)
    BY TakeSeq
  <2>2. \A j \in 1 .. Len(s) - (hi - lo + 1) :
           Shorter(s, lo, hi)[j] = IF j < lo THEN s[j] ELSE s[j + (hi - lo + 1)]
    BY TakeSeq
  <2> QED BY <2>1, <2>2
<1>3. /\ \A j \in 1 .. m : /\ L[s[j]].up = UpFrom(p) /\ L[s[j]].prev = At(s, p, j - 1)
                           /\ L[s[j]].next = At(s, p, j + 1)
      /\ Leftmost(L, p) = At(s, p, 1) /\ Rightmost(L, p) = At(s, p, m)
  BY SetOf DEF Sibs
<1>5. /\ Leftmost(M, p) = IF a = LeftEnd(p) THEN b ELSE Leftmost(L, p)
      /\ Rightmost(M, p) = IF b = RightEnd(p) THEN a ELSE Rightmost(L, p)
      /\ \A y \in Nodes :
           /\ M[y].up = L[y].up
           /\ M[y].next = IF y = a THEN b ELSE L[y].next
           /\ M[y].prev = IF y = b THEN a ELSE L[y].prev
  BY DEF Joined
<1>6. LeftEnd(p) \notin Nodes /\ RightEnd(p) \notin Nodes
  BY AtIs, <1>1
<1> HIDE DEF t, n
<1>a. m = Len(s)
  OBVIOUS
<1> HIDE DEF m
<1>8. /\ a = IF lo = 1 THEN LeftEnd(p) ELSE s[lo - 1]
      /\ b = IF hi = m THEN RightEnd(p) ELSE s[hi + 1]
      /\ \A j \in 0 .. m + 1 : At(s, p, j) = IF j = 0 THEN LeftEnd(p)
                                ELSE IF j = m + 1 THEN RightEnd(p) ELSE s[j]
      /\ \A j \in 0 .. m - n + 1 : At(t, p, j) = IF j = 0 THEN LeftEnd(p)
                                ELSE IF j = m - n + 1 THEN RightEnd(p) ELSE t[j]
  BY <1>1, <1>2, <1>a DEF At
<1> HIDE DEF a, b
<1>9. Leftmost(M, p) = At(t, p, 1)
  <2>1. CASE lo = 1 /\ hi = m
    <3>1. m - n = 0 /\ a = LeftEnd(p) /\ b = RightEnd(p)
      BY <1>1, <1>8, <2>1
    <3> QED BY <1>1, <1>5, <1>8, <3>1
  <2>2. CASE lo = 1 /\ hi < m
    <3>1. 1 \in 1 .. m - n /\ 1 + n = hi + 1 /\ ~(1 < lo) /\ a = LeftEnd(p) /\ b = s[hi + 1]
      BY <1>1, <1>8, <2>2
    <3> QED BY <1>1, <1>2, <1>5, <1>8, <3>1
  <2>3. CASE lo > 1
    <3>1. a = s[lo - 1] /\ s[lo - 1] \in Nodes /\ 1 \in 1 .. m /\ 1 \in 1 .. m - n /\ 1 < lo
      BY <1>1, <1>8, <2>3
    <3>2. At(t, p, 1) = t[1] /\ t[1] = s[1] /\ At(s, p, 1) = s[1]
      BY <1>1, <1>2, <1>8, <2>3, <3>1
    <3> QED BY <1>3, <1>5, <1>6, <3>1, <3>2
  <2> QED BY <1>1, <2>1, <2>2, <2>3
<1>10. Rightmost(M, p) = At(t, p, m - n)
  <2>1. CASE lo = 1 /\ hi = m
    <3>1. m - n = 0 /\ a = LeftEnd(p) /\ b = RightEnd(p)
      BY <1>1, <1>8, <2>1
    <3> QED BY <1>1, <1>5, <1>8, <3>1
  <2>2. CASE lo > 1 /\ hi = m
    <3>1. m - n \in 1 .. m - n /\ m - n < lo /\ m - n = lo - 1 /\ b = RightEnd(p) /\ a = s[lo - 1]
      BY <1>1, <1>8, <2>2
    <3> QED BY <1>1, <1>2, <1>5, <1>8, <3>1
  <2>3. CASE hi < m
    <3>1. /\ b = s[hi + 1] /\ s[hi + 1] \in Nodes /\ m \in 1 .. m /\ m - n \in 1 .. m - n
          /\ ~(m - n < lo) /\ (m - n) + n = m
      BY <1>1, <1>8, <2>3
    <3>2. t[m - n] = s[m]
      BY <1>2, <3>1
    <3>3. At(t, p, m - n) = t[m - n] /\ At(s, p, m) = s[m]
      BY <1>1, <1>8, <3>1
    <3> QED BY <1>3, <1>5, <1>6, <3>1, <3>2, <3>3
  <2> QED BY <1>1, <2>1, <2>2, <2>3
<1>11. ASSUME NEW j \in 1 .. m - n
       PROVE  /\ M[t[j]].up = UpFrom(p) /\ M[t[j]].prev = At(t, p, j - 1)
              /\ M[t[j]].next = At(t, p, j + 1)
  <2>1. CASE j < lo
    <3>1. t[j] = s[j] /\ j \in 1 .. m /\ s[j] \in Nodes
      BY <1>1, <1>2, <2>1
    <3>3. M[s[j]].up = UpFrom(p)
      BY <1>3, <1>5, <3>1
    <3>4. M[s[j]].prev = At(t, p, j - 1)
      <4>1. s[j] # b
        BY <1>1, <1>6, <1>8, <2>1, <3>1
      <4>2. M[s[j]].prev = At(s, p, j - 1)
        BY <1>3, <1>5, <3>1, <4>1
      <4>3. CASE j = 1
        <5>1. j - 1 = 0 /\ 0 \in 0 .. m + 1 /\ 0 \in 0 .. m - n + 1
          BY <1>1, <2>1, <4>3
        <5>2. At(s, p, 0) = LeftEnd(p) /\ At(t, p, 0) = LeftEnd(p)
          BY <1>8, <5>1
        <5> QED BY <4>2, <5>1, <5>2
      <4>4. CASE j # 1
        <5>1. j - 1 \in 1 .. m - n /\ j - 1 < lo /\ j - 1 \in 1 .. m
          BY <1>1, <2>1, <4>4
        <5>2. t[j - 1] = s[j - 1]
          BY <1>2, <5>1
        <5>3. At(s, p, j - 1) = s[j - 1]
          BY <1>1, <1>8, <5>1
        <5>4. At(t, p, j - 1) = t[j - 1]
          BY <1>1, <1>8, <5>1
        <5> QED BY <4>2, <5>2, <5>3, <5>4
      <4> QED BY <4>3, <4>4
    <3>5. M[s[j]].next = At(t, p, j + 1)
      <4>1. CASE j = lo - 1
        <5>1. s[j] = a /\ M[s[j]].next = b
          BY <1>1, <1>5, <1>8, <3>1, <4>1
        <5>2. CASE hi = m
          <6>1. j + 1 = m - n + 1
            BY <1>1, <4>1, <5>2
          <6>2. b = RightEnd(p) /\ At(t, p, j + 1) = RightEnd(p)
            BY <1>1, <1>8, <4>1, <5>2, <6>1
          <6> QED BY <5>1, <6>2
        <5>3. CASE hi < m
          <6>1. j + 1 \in 1 .. m - n /\ ~(j + 1 < lo) /\ (j + 1) + n = hi + 1
            BY <1>1, <4>1, <5>3
          <6> QED BY <1>1, <1>2, <1>8, <5>1, <5>3, <6>1
        <5> QED BY <1>1, <5>2, <5>3
      <4>2. CASE j < lo - 1
        <5>1. s[j] # a
          BY <1>1, <1>6, <1>8, <3>1, <4>2
        <5>2. M[s[j]].next = At(s, p, j + 1)
          BY <1>3, <1>5, <3>1, <5>1
        <5>3. j + 1 \in 1 .. m - n /\ j + 1 < lo /\ j + 1 \in 1 .. m
          BY <1>1, <4>2
        <5> QED BY <1>1, <1>2, <1>8, <5>2, <5>3
      <4> QED BY <1>1, <2>1, <4>1, <4>2
    <3> QED BY <3>1, <3>3, <3>4, <3>5
  <2>2. CASE lo <= j
    <3> DEFINE k == j + n
    <3>1. t[j] = s[k] /\ k \in 1 .. m /\ hi < k /\ s[k] \in Nodes /\ j = k - n
      BY <1>1, <1>2, <2>2
    <3> HIDE DEF k
    <3>3. M[s[k]].up = UpFrom(p)
      BY <1>3, <1>5, <3>1
    <3>4. M[s[k]].next = At(t, p, j + 1)
      <4>1. s[k] # a
        BY <1>1, <1>6, <1>8, <3>1
      <4>2. M[s[k]].next = At(s, p, k + 1)
        BY <1>3, <1>5, <3>1, <4>1
      <4>3. CASE k = m
        BY <1>1, <1>8, <3>1, <4>2, <4>3
      <4>4. CASE k < m
        <5>1. j + 1 \in 1 .. m - n /\ ~(j + 1 < lo) /\ (j + 1) + n = k + 1
          BY <1>1, <2>2, <3>1, <4>4
        <5>2. t[j + 1] = s[k + 1]
          BY <1>2, <5>1
        <5> QED BY <1>1, <1>8, <3>1, <4>2, <4>4, <5>1, <5>2
      <4> QED BY <1>1, <3>1, <4>3, <4>4
    <3>5. M[s[k]].prev = At(t, p, j - 1)
      <4>1. CASE k = hi + 1
        <5>1. s[k] = b /\ M[s[k]].prev = a /\ j = lo
          BY <1>1, <1>5, <1>8, <3>1, <4>1
        <5>2. CASE lo = 1
          <6>1. a = LeftEnd(p) /\ j - 1 = 0 /\ At(t, p, 0) = LeftEnd(p)
            BY <1>1, <1>8, <5>1, <5>2
          <6> QED BY <5>1, <6>1
        <5>3. CASE lo > 1
          <6>1. j - 1 \in 1 .. m - n /\ j - 1 < lo /\ j - 1 = lo - 1
            BY <1>1, <5>1, <5>3
          <6> QED BY <1>1, <1>2, <1>8, <5>1, <5>3, <6>1
        <5> QED BY <1>1, <5>2, <5>3
      <4>2. CASE k > hi + 1
        <5>1. s[k] # b
          BY <1>1, <1>6, <1>8, <3>1, <4>2
        <5>2. M[s[k]].prev = At(s, p, k - 1)
          BY <1>3, <1>5, <3>1, <5>1
        <5>3. j - 1 \in 1 .. m - n /\ ~(j - 1 < lo) /\ (j - 1) + n = k - 1 /\ k - 1 \in 1 .. m
          <6>1. /\ m \in Nat /\ n \in Nat /\ n > 0 /\ lo \in Int /\ hi \in Int
                /\ 1 <= lo /\ lo <= hi /\ hi <= m /\ hi = lo + n - 1
            BY <1>1
          <6>2. k \in Int /\ k <= m /\ k > hi + 1 /\ j = k - n
            BY <3>1, <4>2, <6>1
          <6> QED BY <6>1, <6>2
        <5>4. t[j - 1] = s[k - 1]
          BY <1>2, <5>3
        <5> QED BY <1>1, <1>8, <3>1, <4>2, <5>2, <5>3, <5>4
      <4> QED BY <1>1, <3>1, <4>1, <4>2
    <3> QED BY <3>1, <3>3, <3>4, <3>5
  <2> QED BY <1>1, <2>1, <2>2
<1> QED BY <1>2, <1>9, <1>10, <1>11 DEF Sibs, t

\* A set of numbers has a least one.
LEMMA LeastNumber ==
  ASSUME NEW T, T \subseteq Nat, T # {}
  PROVE  \E x \in T : \A y \in T : x <= y
  <1> DEFINE R == {p \in Nat \X Nat : p[1] < p[2]}
  <1>1. IsWellFoundedOn(R, Nat)
    BY NatLessThanWellFounded DEF OpToRel
  <1> HIDE DEF R
  <1>2. PICK x \in T : \A y \in T : <<y, x>> \notin R
    BY <1>1, WFMin
  <1>3. ASSUME NEW y \in T PROVE x <= y
    <2>1. x \in Nat /\ y \in Nat /\ ~(y < x)
      BY <1>2 DEF R
    <2> QED BY <2>1
  <1> QED BY <1>3

\* There are at most MaxNodes different nodes.
LEMMA NodesFinite ==
  /\ MaxNodes \in Nat /\ IsFiniteSet(Nodes) /\ Cardinality(Nodes) = MaxNodes
  /\ \A S \in SUBSET Nodes : IsFiniteSet(S) /\ Cardinality(S) \in Nat /\ Cardinality(S) <= MaxNodes
<1>1. MaxNodes \in Nat
  BY GraphAssumption
<1>2. IsFiniteSet(1 .. MaxNodes) /\ Cardinality(1 .. MaxNodes) = IF 1 > MaxNodes THEN 0 ELSE MaxNodes - 1 + 1
  BY <1>1, FS_Interval
<1>3. IsFiniteSet(Nodes) /\ Cardinality(Nodes) = MaxNodes
  BY <1>1, <1>2 DEF Nodes
<1> QED BY <1>1, <1>3, FS_Subset, FS_CardinalityType

\* Siblings are no more than there are nodes.
LEMMA InjectiveLength ==
  ASSUME NEW s \in Seq(Nodes), IsInjective(s)
  PROVE  Len(s) <= MaxNodes
<1>1. /\ Len(s) \in Nat /\ DOMAIN s = 1 .. Len(s) /\ \A i \in 1 .. Len(s) : s[i] \in Nodes
      /\ s \in [1 .. Len(s) -> Nodes]
  BY SetOf, LenProperties
<1>2. s \in Injection(1 .. Len(s), Nodes)
  BY <1>1 DEF Injection
<1>3. Cardinality(1 .. Len(s)) <= Cardinality(Nodes)
  BY <1>2, NodesFinite, FS_Injection
<1> DEFINE n == Len(s)
<1>4. n \in Nat /\ n = Len(s)
  BY <1>1
<1> HIDE DEF n
<1>5. Cardinality(1 .. n) = IF 1 > n THEN 0 ELSE n - 1 + 1
  <2>1. n \in Int /\ 1 \in Int
    BY <1>4
  <2> QED BY ONLY <2>1, FS_Interval
<1>6. Cardinality(1 .. n) = n
  BY <1>4, <1>5
<1> QED BY <1>3, <1>4, <1>6, NodesFinite

\* What a walk along the siblings reads.
LEMMA ChainIs ==
  ASSUME NEW L, NEW x, NEW s \in Seq(Nodes), IsInjective(s), NEW r, r \notin Nodes,
         x = IF s = <<>> THEN r ELSE s[1],
         \A i \in 1 .. Len(s) : L[s[i]].next = IF i = Len(s) THEN r ELSE s[i + 1]
  PROVE  ChainFrom(L, x) = s
<1> DEFINE n == Len(s)
           y(k, q) == IF k = 1 THEN x ELSE IF q = <<>> THEN NoNode ELSE L[q[Len(q)]].next
           st(k, q) == IF Len(q) = k - 1 /\ y(k, q) \in Nodes THEN Append(q, y(k, q)) ELSE q
           pre(k) == IF k < n THEN SubSeq(s, 1, k) ELSE s
           f == [k \in 0 .. MaxNodes |-> pre(k)]
           Fits(c) == c = [k \in 0 .. MaxNodes |-> IF k = 0 THEN <<>> ELSE st(k, c[k - 1])]
           h == CHOOSE c : c = [k \in 0 .. MaxNodes |->
                  IF k = 0 THEN <<>>
                  ELSE IF Len(c[k - 1]) = k - 1
                          /\ (IF k = 1 THEN x ELSE IF c[k - 1] = <<>> THEN NoNode
                              ELSE L[c[k - 1][Len(c[k - 1])]].next) \in Nodes
                       THEN Append(c[k - 1], IF k = 1 THEN x ELSE IF c[k - 1] = <<>> THEN NoNode
                              ELSE L[c[k - 1][Len(c[k - 1])]].next)
                       ELSE c[k - 1]]
<1>1. /\ n \in Nat /\ MaxNodes \in Nat /\ n <= MaxNodes
      /\ \A i \in 1 .. n : s[i] \in Nodes
      /\ s = <<>> <=> n = 0
  BY SetOf, InjectiveLength, NodesFinite
<1>2. ASSUME NEW k \in Nat
      PROVE  /\ pre(k) \in Seq(Nodes) /\ Len(pre(k)) = IF k < n THEN k ELSE n
             /\ \A i \in 1 .. n : i <= k => pre(k)[i] = s[i]
  <2>1. CASE k < n
    <3>1. \A i \in 1 .. k : s[i] \in Nodes
      BY <1>1, <2>1
    <3>2. /\ SubSeq(s, 1, k) \in Seq(Nodes) /\ Len(SubSeq(s, 1, k)) = IF 1 <= k THEN k - 1 + 1 ELSE 0
          /\ \A i \in 1 .. k - 1 + 1 : SubSeq(s, 1, k)[i] = s[1 + i - 1]
      BY <3>1, SubSeqProperties
    <3>3. \A i \in 1 .. n : i <= k => i \in 1 .. k - 1 + 1 /\ 1 + i - 1 = i
      BY <1>1
    <3> QED BY <1>1, <2>1, <3>2, <3>3
  <2>2. CASE ~(k < n)
    BY <1>1, <2>2
  <2> QED BY <2>1, <2>2
<1>3. pre(0) = <<>>
  BY <1>1, <1>2, EmptySeq
<1> HIDE DEF pre
<1>4. ASSUME NEW k \in 1 .. MaxNodes PROVE st(k, pre(k - 1)) = pre(k)
  <2>0. k - 1 \in Nat /\ k \in Nat /\ k > 0
    BY <1>1
  <2>1. CASE k <= n
    <3>0. /\ pre(k) \in Seq(Nodes) /\ Len(pre(k)) = k /\ \A i \in 1 .. k : pre(k)[i] = s[i]
      <4>1. /\ pre(k) \in Seq(Nodes) /\ Len(pre(k)) = IF k < n THEN k ELSE n
            /\ \A i \in 1 .. n : i <= k => pre(k)[i] = s[i]
        BY <1>2, <2>0
      <4> QED BY <1>1, <2>0, <2>1, <4>1
    <3>1. /\ pre(k - 1) \in Seq(Nodes) /\ Len(pre(k - 1)) = k - 1
          /\ \A i \in 1 .. k - 1 : pre(k - 1)[i] = s[i]
          /\ pre(k) \in Seq(Nodes) /\ Len(pre(k)) = k /\ \A i \in 1 .. k : pre(k)[i] = s[i]
      <4>1. /\ pre(k - 1) \in Seq(Nodes) /\ Len(pre(k - 1)) = IF k - 1 < n THEN k - 1 ELSE n
            /\ \A i \in 1 .. n : i <= k - 1 => pre(k - 1)[i] = s[i]
        BY <1>2, <2>0
      <4> QED BY <1>1, <2>0, <2>1, <3>0, <4>1
    <3>2. y(k, pre(k - 1)) = s[k]
      <4>1. CASE k = 1
        BY <1>1, <2>1, <4>1
      <4>2. CASE k > 1
        <5>1. pre(k - 1) # <<>> /\ pre(k - 1)[Len(pre(k - 1))] = s[k - 1]
          BY <2>0, <3>1, <4>2, EmptySeq
        <5>2. k - 1 \in 1 .. n /\ k - 1 # n /\ (k - 1) + 1 = k
          BY <1>1, <2>1, <4>2
        <5>3. L[s[k - 1]].next = s[k]
          BY <5>2
        <5> QED BY <4>2, <5>1, <5>3
      <4> QED BY <2>0, <4>1, <4>2
    <3>3. s[k] \in Nodes
      BY <1>1, <2>0, <2>1
    <3>4. st(k, pre(k - 1)) = Append(pre(k - 1), s[k])
      BY <3>1, <3>2, <3>3
    <3>5. /\ Append(pre(k - 1), s[k]) \in Seq(Nodes) /\ Len(Append(pre(k - 1), s[k])) = (k - 1) + 1
          /\ \A i \in 1 .. k - 1 : Append(pre(k - 1), s[k])[i] = pre(k - 1)[i]
          /\ Append(pre(k - 1), s[k])[(k - 1) + 1] = s[k]
      BY <3>1, <3>3, AppendProperties
    <3>6. \A i \in 1 .. k : Append(pre(k - 1), s[k])[i] = pre(k)[i]
      <4> SUFFICES ASSUME NEW i \in 1 .. k PROVE Append(pre(k - 1), s[k])[i] = pre(k)[i]
        OBVIOUS
      <4>1. CASE i = k
        <5>1. (k - 1) + 1 = k /\ k \in 1 .. k
          BY <2>0
        <5> QED BY <3>1, <3>5, <4>1, <5>1
      <4>2. CASE i # k
        <5>1. i \in 1 .. k - 1
          BY <2>0, <4>2
        <5> QED BY <3>1, <3>5, <5>1
      <4> QED BY <4>1, <4>2
    <3>7. Append(pre(k - 1), s[k]) = pre(k)
      BY <2>0, <3>1, <3>5, <3>6, SeqEqual
    <3> QED BY <3>4, <3>7
  <2>2. CASE k > n
    <3>1. pre(k - 1) = s /\ pre(k) = s
      BY <1>1, <2>0, <2>2 DEF pre
    <3>2. CASE k = n + 1
      <4>1. y(k, s) = r
        BY <1>1, <3>2
      <4> QED BY <3>1, <4>1
    <3>3. CASE k # n + 1
      BY <1>1, <2>0, <3>1, <3>3
    <3> QED BY <3>2, <3>3
  <2> QED BY <1>1, <2>0, <2>1, <2>2
<1>5. Fits(f)
  <2> SUFFICES ASSUME NEW k \in 0 .. MaxNodes
               PROVE  pre(k) = IF k = 0 THEN <<>> ELSE st(k, f[k - 1])
    OBVIOUS
  <2>1. CASE k = 0
    BY <1>3, <2>1
  <2>2. CASE k # 0
    <3>1. k \in 1 .. MaxNodes /\ k - 1 \in 0 .. MaxNodes
      <4>1. MaxNodes \in Nat /\ k \in Int /\ 0 <= k /\ k <= MaxNodes
        BY ONLY GraphAssumption, k \in 0 .. MaxNodes
      <4> QED BY <2>2, <4>1
    <3> QED BY <1>4, <2>2, <3>1
  <2> QED BY <2>1, <2>2
<1>6. Fits(h)
  BY <1>5
<1>7. ChainFrom(L, x) = h[MaxNodes]
  BY DEF ChainFrom
<1> HIDE DEF h
<1> DEFINE Bad == {k \in 0 .. MaxNodes : h[k] # pre(k)}
<1>8. Bad = {}
  <2> SUFFICES ASSUME Bad # {} PROVE FALSE
    OBVIOUS
  <2>1. Bad \subseteq Nat
    OBVIOUS
  <2>2. PICK k \in Bad : \A l \in Bad : k <= l
    BY <2>1, LeastNumber
  <2>3. CASE k = 0
    BY <1>3, <1>6, <2>2, <2>3
  <2>4. CASE k # 0
    <3>1. k \in 1 .. MaxNodes /\ k - 1 \in 0 .. MaxNodes /\ ~(k <= k - 1)
      <4>1. k \in 0 .. MaxNodes
        BY <2>2
      <4>2. MaxNodes \in Nat
        BY <1>1
      <4> QED BY <2>4, <4>1, <4>2
    <3>2. h[k - 1] = pre(k - 1)
      <4>1. k - 1 \notin Bad
        <5> HIDE DEF Bad
        <5> QED BY ONLY <2>2, <3>1
      <4> QED BY <3>1, <4>1
    <3>3. h[k] = st(k, h[k - 1])
      BY <1>6, <2>4, <3>1
    <3> QED BY <1>4, <2>2, <3>1, <3>2, <3>3, ZenonT(30)
  <2> QED BY <2>3, <2>4
<1>9. h[MaxNodes] = pre(MaxNodes)
  BY <1>1, <1>8
<1> QED BY <1>1, <1>7, <1>9 DEF pre

-----------------------------------------------------------------------------
(* Forests: order without cycles.                                          *)

\* Every set of nodes has one without a parent in the set: there are no cycles.
Grounded(F, K) ==
  \A S \in SUBSET K : S # {} => \E x \in S : \A p \in S : x \notin ToSet(F[p])

\* F orders the nodes K as children of each other and as tops.
Shape(F, K) ==
  /\ K \subseteq Nodes /\ F \in [Parents -> Seq(K)]
  /\ \A p \in Nodes \ K : F[p] = <<>>
  /\ \A p \in Parents : IsInjective(F[p])
  /\ \A p, q \in Parents : p # q => ToSet(F[p]) \cap ToSet(F[q]) = {}
  /\ Grounded(F, K)

\* The children of members of T are members of T.
Closed(F, T) == \A y \in T : ToSet(F[y]) \subseteq T

\* x and all below it.
Under(F, x) == {z \in Parents : \A T \in SUBSET Parents : x \in T /\ Closed(F, T) => z \in T}

\* What a forest says of one parent and of two.
LEMMA ShapeIs ==
  ASSUME NEW F, NEW K, Shape(F, K)
  PROVE  /\ K \subseteq Nodes /\ Nodes \subseteq Parents /\ DOMAIN F = Parents
         /\ \A p \in Parents :
              /\ F[p] \in Seq(K) /\ F[p] \in Seq(Nodes) /\ ToSet(F[p]) \subseteq K
              /\ ToSet(F[p]) \subseteq Nodes
              /\ ToSet(F[p]) \subseteq Parents /\ IsInjective(F[p])
              /\ F[p] = <<>> => ToSet(F[p]) = {}
              /\ \A i \in 1 .. Len(F[p]) : F[p][i] \in K /\ F[p][i] \in ToSet(F[p])
         /\ \A p, q \in Parents, x \in K : x \in ToSet(F[p]) /\ x \in ToSet(F[q]) => p = q
<1>1. /\ K \subseteq Nodes /\ Nodes \subseteq Parents /\ F \in [Parents -> Seq(K)]
  BY DEF Shape, Parents
<1>2. ASSUME NEW p \in Parents
      PROVE  /\ F[p] \in Seq(K) /\ F[p] \in Seq(Nodes) /\ ToSet(F[p]) \subseteq K
             /\ ToSet(F[p]) \subseteq Nodes /\ ToSet(F[p]) \subseteq Parents /\ IsInjective(F[p])
             /\ F[p] = <<>> => ToSet(F[p]) = {}
             /\ \A i \in 1 .. Len(F[p]) : F[p][i] \in K /\ F[p][i] \in ToSet(F[p])
  <2>1. F[p] \in Seq(K)
    BY <1>1
  <2>2. /\ ToSet(F[p]) \subseteq K
        /\ \A i \in 1 .. Len(F[p]) : F[p][i] \in K /\ F[p][i] \in ToSet(F[p])
    BY <2>1, SetOf
  <2>3. F[p] \in Seq(Nodes)
    BY <1>1, <2>1
  <2>4. F[p] = <<>> => ToSet(F[p]) = {}
    BY DEF ToSet
  <2> QED BY <1>1, <2>1, <2>2, <2>3, <2>4 DEF Shape
<1>3. \A p, q \in Parents, x \in K : x \in ToSet(F[p]) /\ x \in ToSet(F[q]) => p = q
  BY DEF Shape
<1> QED BY <1>1, <1>2, <1>3

\* What is within a node: the least set with it and the children of its members.
LEMMA UnderIs ==
  ASSUME NEW F, \A p \in Parents : ToSet(F[p]) \subseteq Parents, NEW x \in Parents
  PROVE  /\ Under(F, x) \subseteq Parents /\ x \in Under(F, x) /\ Closed(F, Under(F, x))
         /\ \A T \in SUBSET Parents : x \in T /\ Closed(F, T) => Under(F, x) \subseteq T
         /\ \A y \in Under(F, x) : Under(F, y) \subseteq Under(F, x)
         /\ \A y \in ToSet(F[x]) : y \in Under(F, x)
         /\ Under(F, x) = {x} \cup UNION {Under(F, y) : y \in ToSet(F[x])}
         /\ \A z \in Under(F, x) : z # x => \E p \in Under(F, x) : z \in ToSet(F[p])
<1>1. Under(F, x) \subseteq Parents /\ x \in Under(F, x)
  BY DEF Under
<1>2. \A T \in SUBSET Parents : x \in T /\ Closed(F, T) => Under(F, x) \subseteq T
  BY DEF Under
<1>3. ASSUME NEW u \in Parents PROVE Closed(F, Under(F, u))
  <2> SUFFICES ASSUME NEW y \in Under(F, u), NEW z \in ToSet(F[y]) PROVE z \in Under(F, u)
    BY DEF Closed
  <2>1. y \in Parents /\ z \in Parents
    BY DEF Under
  <2>2. ASSUME NEW T \in SUBSET Parents, u \in T, Closed(F, T) PROVE z \in T
    <3>1. y \in T
      BY <2>2 DEF Under
    <3> QED BY <2>2, <3>1 DEF Closed
  <2> QED BY <2>1, <2>2 DEF Under
<1>4. ASSUME NEW y \in Under(F, x) PROVE Under(F, y) \subseteq Under(F, x)
  BY <1>1, <1>3 DEF Under
<1>5. \A y \in ToSet(F[x]) : y \in Under(F, x)
  BY <1>1, <1>3 DEF Closed
<1> DEFINE R == {x} \cup UNION {Under(F, y) : y \in ToSet(F[x])}
<1>6. Under(F, x) = R
  <2>1. R \subseteq Under(F, x)
    BY <1>1, <1>4, <1>5
  <2>2. Closed(F, R)
    <3> SUFFICES ASSUME NEW y \in R, NEW z \in ToSet(F[y]) PROVE z \in R
      BY DEF Closed
    <3>1. CASE y = x
      <4>1. z \in Parents /\ z \in Under(F, z)
        BY <3>1 DEF Under
      <4> QED BY <3>1, <4>1
    <3>2. CASE y # x
      <4>1. PICK u \in ToSet(F[x]) : y \in Under(F, u)
        BY <3>2
      <4>2. u \in Parents
        OBVIOUS
      <4>3. z \in Under(F, u)
        BY <1>3, <4>1, <4>2 DEF Closed
      <4> QED BY <4>3
    <3> QED BY <3>1, <3>2
  <2>3. R \in SUBSET Parents /\ x \in R
    BY <1>1, <2>1
  <2> HIDE DEF R
  <2> QED BY <1>2, <2>1, <2>2, <2>3
<1>7. ASSUME NEW z \in Under(F, x), z # x PROVE \E p \in Under(F, x) : z \in ToSet(F[p])
  <2> SUFFICES ASSUME \A p \in Under(F, x) : z \notin ToSet(F[p]) PROVE FALSE
    OBVIOUS
  <2> DEFINE T == Under(F, x) \ {z}
  <2>1. T \in SUBSET Parents /\ x \in T
    BY <1>1, <1>7
  <2>2. Closed(F, T)
    BY <1>3 DEF Closed
  <2> QED BY <1>2, <2>1, <2>2
<1> QED BY <1>1, <1>2, <1>3, <1>4, <1>5, <1>6, <1>7

\* With fewer children there is less below.
LEMMA UnderLess ==
  ASSUME NEW F, \A p \in Parents : ToSet(F[p]) \subseteq Parents,
         NEW G, \A p \in Parents : ToSet(G[p]) \subseteq ToSet(F[p]), NEW x \in Parents
  PROVE  Under(G, x) \subseteq Under(F, x)
<1>1. Closed(G, Under(F, x)) /\ Under(F, x) \in SUBSET Parents /\ x \in Under(F, x)
  BY UnderIs DEF Closed
<1>2. \A p \in Parents : ToSet(G[p]) \subseteq Parents
  OBVIOUS
<1> QED BY <1>1, <1>2, UnderIs

\* Every set has a node without a child in the set.
LEMMA Leaf ==
  ASSUME NEW F, NEW K, Shape(F, K), NEW S \in SUBSET Parents, S # {}
  PROVE  \E y \in S : ToSet(F[y]) \cap S = {}
<1> SUFFICES ASSUME \A y \in S : ToSet(F[y]) \cap S # {} PROVE FALSE
  OBVIOUS
<1> DEFINE T == S \cap K
           f == [y \in T |-> CHOOSE z \in T : z \in ToSet(F[y])]
<1>1. T \in SUBSET Nodes /\ T # {} /\ \A y \in T : \E z \in T : z \in ToSet(F[y])
  BY ShapeIs
<1>2. IsFiniteSet(T)
  BY <1>1, NodesFinite
<1>3. f \in [T -> T] /\ \A y \in T : f[y] \in ToSet(F[y])
  BY <1>1
<1>4. \A a, b \in T : f[a] = f[b] => a = b
  <2> SUFFICES ASSUME NEW a \in T, NEW b \in T, f[a] = f[b] PROVE a = b
    OBVIOUS
  <2>1. f[a] \in K /\ a \in Parents /\ b \in Parents
    BY <1>3
  <2>2. f[a] \in ToSet(F[a]) /\ f[a] \in ToSet(F[b])
    BY <1>3
  <2> HIDE DEF f, T
  <2> QED BY <2>1, <2>2, ShapeIs
<1> HIDE DEF f, T
<1>5. f \in Injection(T, T)
  BY <1>3, <1>4, Fun_IsInj
<1>6. f \in Surjection(T, T)
  BY <1>2, <1>5, FS_Injection
<1>7. \A t \in T : \E a \in T : f[a] = t
  BY <1>6, Fun_SurjectionProperties
<1>8. T \in SUBSET K /\ T # {}
  BY <1>1 DEF T
<1>9. PICK x \in T : \A p \in T : x \notin ToSet(F[p])
  BY <1>8 DEF Shape, Grounded
<1> QED BY <1>3, <1>7, <1>9

\* The recursion along children has one solution.
LEMMA Unfolds ==
  ASSUME NEW F, NEW K, Shape(F, K), NEW D \in SUBSET Parents, \A y \in D : ToSet(F[y]) \subseteq D,
         NEW w, w = [y \in D |-> {y} \cup UNION {w[z] : z \in ToSet(F[y])}]
  PROVE  \A y \in D : w[y] = Under(F, y)
<1> DEFINE Bad == {y \in D : w[y] # Under(F, y)}
<1> SUFFICES ASSUME Bad # {} PROVE FALSE
  OBVIOUS
<1>1. PICK y \in Bad : ToSet(F[y]) \cap Bad = {}
  <2>1. Bad \in SUBSET Parents
    OBVIOUS
  <2> QED BY <2>1, Leaf
<1>2. \A z \in ToSet(F[y]) : w[z] = Under(F, z)
  BY <1>1
<1>3. w[y] = {y} \cup UNION {w[z] : z \in ToSet(F[y])}
  BY <1>1
<1>4. w[y] = {y} \cup UNION {Under(F, z) : z \in ToSet(F[y])}
  BY <1>2, <1>3, ZenonT(30)
<1>5. Under(F, y) = {y} \cup UNION {Under(F, z) : z \in ToSet(F[y])}
  BY <1>1, ShapeIs, UnderIs
<1> QED BY <1>1, <1>4, <1>5

\* The model's own recursion along the children computes what is within a node.
LEMMA WithinIs ==
  ASSUME NEW K, Shape(forest, K), NEW x \in Parents
  PROVE  Within(x) = Under(forest, x)
<1> DEFINE w == CHOOSE w : w = [y \in DOMAIN forest |-> {y} \cup UNION {w[z] : z \in ToSet(forest[y])}]
           u == [y \in DOMAIN forest |-> Under(forest, y)]
<1>1. DOMAIN forest = Parents /\ \A y \in Parents : ToSet(forest[y]) \subseteq Parents
  BY ShapeIs
<1>2. u = [y \in DOMAIN forest |-> {y} \cup UNION {u[z] : z \in ToSet(forest[y])}]
  <2> SUFFICES ASSUME NEW y \in Parents
               PROVE  Under(forest, y) = {y} \cup UNION {u[z] : z \in ToSet(forest[y])}
    BY <1>1
  <2>1. \A z \in ToSet(forest[y]) : u[z] = Under(forest, z)
    BY <1>1
  <2>2. Under(forest, y) = {y} \cup UNION {Under(forest, z) : z \in ToSet(forest[y])}
    BY <1>1, UnderIs
  <2> QED BY <2>1, <2>2
<1> HIDE DEF u
<1>3. w = [y \in DOMAIN forest |-> {y} \cup UNION {w[z] : z \in ToSet(forest[y])}]
  BY <1>2
<1>4. Within(x) = w[x]
  BY DEF Within
<1> HIDE DEF w
<1>5. w = [y \in Parents |-> {y} \cup UNION {w[z] : z \in ToSet(forest[y])}]
  BY <1>1, <1>3
<1>6. \A y \in Parents : w[y] = Under(forest, y)
  BY <1>1, <1>5, Unfolds
<1> QED BY <1>4, <1>6

\* What the class documents to be within a node.
LEMMA ForestWithinIs ==
  ASSUME NEW k, NEW K, Shape(k, K), NEW x \in Nodes
  PROVE  Forest!Within(k, x) = Under(k, x)
<1> DEFINE w == CHOOSE w : w = [y \in Nodes |-> {y} \cup UNION {w[z] : z \in Forest!ToSet(k[y])}]
           u == [y \in Nodes |-> Under(k, y)]
<1>1. /\ \A y \in Parents : ToSet(k[y]) \subseteq Parents
      /\ \A y \in Nodes : ToSet(k[y]) \subseteq Nodes /\ y \in Parents
  BY ShapeIs
<1>2. u = [y \in Nodes |-> {y} \cup UNION {u[z] : z \in Forest!ToSet(k[y])}]
  <2> SUFFICES ASSUME NEW y \in Nodes
               PROVE  Under(k, y) = {y} \cup UNION {u[z] : z \in Forest!ToSet(k[y])}
    OBVIOUS
  <2>1. \A z \in ToSet(k[y]) : u[z] = Under(k, z)
    BY <1>1
  <2>2. Under(k, y) = {y} \cup UNION {Under(k, z) : z \in ToSet(k[y])}
    BY <1>1, UnderIs
  <2>3. ToSet(k[y]) = Forest!ToSet(k[y])
    BY DEF ToSet, Forest!ToSet
  <2> QED BY <2>1, <2>2, <2>3, ZenonT(30)
<1> HIDE DEF u
<1>3. w = [y \in Nodes |-> {y} \cup UNION {w[z] : z \in Forest!ToSet(k[y])}]
  BY <1>2
<1>4. Forest!Within(k, x) = w[x]
  BY DEF Forest!Within
<1> HIDE DEF w
<1>5. w = [y \in Nodes |-> {y} \cup UNION {w[z] : z \in ToSet(k[y])}]
  BY <1>3 DEF ToSet, Forest!ToSet
<1>6. \A y \in Nodes : w[y] = Under(k, y)
  <2>1. Nodes \in SUBSET Parents
    BY ShapeIs
  <2> QED BY <1>1, <1>5, <2>1, Unfolds
<1> QED BY <1>4, <1>6

\* A parent is not below its child.
LEMMA Acyclic ==
  ASSUME NEW F, NEW K, Shape(F, K), NEW q \in Parents, NEW x \in ToSet(F[q])
  PROVE  q \notin Under(F, x)
<1> SUFFICES ASSUME q \in Under(F, x) PROVE FALSE
  OBVIOUS
<1> DEFINE S == {z \in Under(F, x) : x \in Under(F, z)}
<1>1. x \in K /\ x \in Parents /\ \A p \in Parents : ToSet(F[p]) \subseteq Parents /\ ToSet(F[p]) \subseteq K
  BY ShapeIs
<1>2. /\ \A z \in Under(F, x) : z # x => \E p \in Under(F, x) : z \in ToSet(F[p])
      /\ Under(F, x) \subseteq Parents /\ x \in Under(F, x)
  BY <1>1, UnderIs
<1>3. S \subseteq K /\ S # {}
  BY <1>1, <1>2
<1>4. \A z \in S : \E p \in S : z \in ToSet(F[p])
  <2> SUFFICES ASSUME NEW z \in S PROVE \E p \in S : z \in ToSet(F[p])
    OBVIOUS
  <2>1. CASE z = x
    <3>1. x \in Under(F, q)
      BY <1>1, UnderIs
    <3> QED BY <2>1, <3>1
  <2>2. CASE z # x
    <3>1. PICK p \in Under(F, x) : z \in ToSet(F[p])
      BY <1>2, <2>2
    <3>2. p \in Parents /\ z \in Under(F, p)
      BY <1>1, <1>2, <3>1, UnderIs
    <3>3. Under(F, z) \subseteq Under(F, p)
      BY <1>1, <3>2, UnderIs
    <3> QED BY <3>1, <3>3
  <2> QED BY <2>1, <2>2
<1> HIDE DEF S
<1>5. PICK z \in S : \A p \in S : z \notin ToSet(F[p])
  BY <1>3 DEF Shape, Grounded
<1> QED BY <1>4, <1>5

\* What is below two parents of which neither is below the other is apart.
LEMMA UnderApart ==
  ASSUME NEW F, NEW K, Shape(F, K), NEW p \in Parents, NEW q \in Parents,
         p \notin Under(F, q), q \notin Under(F, p)
  PROVE  Under(F, p) \cap Under(F, q) = {}
<1> DEFINE S == Under(F, p) \cap Under(F, q)
<1> SUFFICES ASSUME S # {} PROVE FALSE
  OBVIOUS
<1>1. \A y \in Parents : ToSet(F[y]) \subseteq Parents /\ ToSet(F[y]) \subseteq K
  BY ShapeIs
<1>2. /\ \A z \in Under(F, p) : z # p => \E y \in Under(F, p) : z \in ToSet(F[y])
      /\ \A z \in Under(F, q) : z # q => \E y \in Under(F, q) : z \in ToSet(F[y])
      /\ Under(F, p) \subseteq Parents /\ Under(F, q) \subseteq Parents
  BY <1>1, UnderIs
<1>3. \A z \in S : \E y \in S : z \in ToSet(F[y])
  <2> SUFFICES ASSUME NEW z \in S PROVE \E y \in S : z \in ToSet(F[y])
    OBVIOUS
  <2>1. PICK y \in Under(F, p) : z \in ToSet(F[y])
    BY <1>2
  <2>2. PICK u \in Under(F, q) : z \in ToSet(F[u])
    BY <1>2
  <2>3. y = u
    BY <1>1, <1>2, <2>1, <2>2, ShapeIs
  <2> QED BY <2>1, <2>3
<1>4. S \subseteq K
  BY <1>1, <1>2
<1> HIDE DEF S
<1>5. PICK z \in S : \A y \in S : z \notin ToSet(F[y])
  BY <1>4 DEF Shape, Grounded
<1> QED BY <1>3, <1>5

\* Heads are below nothing else.
LEMMA HeadsOnTop ==
  ASSUME NEW F, NEW K, Shape(F, K), NEW p \in Parents, NEW g \in Graphs, HeadOf(g) \in Under(F, p)
  PROVE  p = HeadOf(g)
<1>1. \A y \in Parents : ToSet(F[y]) \subseteq Parents /\ ToSet(F[y]) \subseteq Nodes
  BY ShapeIs
<1>2. HeadOf(g) \notin Nodes
  BY ParentsAre
<1>3. HeadOf(g) # p => \E y \in Under(F, p) : HeadOf(g) \in ToSet(F[y])
  BY <1>1, UnderIs
<1>4. Under(F, p) \subseteq Parents
  BY <1>1, UnderIs
<1> QED BY <1>1, <1>2, <1>3, <1>4

-----------------------------------------------------------------------------
(* Links that say a forest.                                                *)

\* What has children or tops: the nodes K and the graphs E.
Held(K, E) == K \cup {HeadOf(g) : g \in E}

\* The links L say what F says of the nodes K and of the graphs E.
Linked(L, F, K, E) ==
  /\ Shape(F, K) /\ L \in Table /\ E \subseteq Graphs
  /\ \A g \in Graphs \ E : F[HeadOf(g)] = <<>>
  /\ \A p \in Held(K, E) : Sibs(L, p, F[p])

\* The nodes that have a place: children and tops.
Attached(F) == UNION {ToSet(F[p]) : p \in Parents}

\* Only nodes of the forest and heads of graphs that exist have children or tops.
LEMMA HeldIs ==
  ASSUME NEW L, NEW F, NEW K, NEW E, Linked(L, F, K, E)
  PROVE  /\ Held(K, E) \subseteq Parents /\ K \subseteq Held(K, E) /\ K \subseteq Nodes
         /\ L \in Table /\ DOMAIN L = Linkable
         /\ \A g \in E : g \in Graphs /\ HeadOf(g) \in Held(K, E)
         /\ \A p \in Parents : p \notin Held(K, E) => F[p] = <<>>
         /\ \A p \in Parents : \A x \in ToSet(F[p]) : p \in Held(K, E)
         /\ \A p \in Held(K, E) \ K : \E g \in E : p = HeadOf(g)
<1>1. /\ K \subseteq Nodes /\ E \subseteq Graphs /\ L \in Table
      /\ \A p \in Nodes \ K : F[p] = <<>>
      /\ \A g \in Graphs \ E : F[HeadOf(g)] = <<>>
  BY DEF Linked, Shape
<1>2. /\ Held(K, E) \subseteq Parents /\ K \subseteq Held(K, E)
      /\ \A g \in E : g \in Graphs /\ HeadOf(g) \in Held(K, E)
  BY <1>1 DEF Held, Parents
<1>3. \A p \in Parents : p \notin Held(K, E) => F[p] = <<>>
  BY <1>1 DEF Held, Parents
<1>4. \A p \in Parents : \A x \in ToSet(F[p]) : p \in Held(K, E)
  <2>1. ToSet(<<>>) = {}
    BY DEF ToSet
  <2> QED BY <1>3, <2>1
<1>5. \A p \in Held(K, E) \ K : \E g \in E : p = HeadOf(g)
  BY DEF Held
<1>6. DOMAIN L = Linkable
  BY <1>1 DEF Table
<1> QED BY <1>1, <1>2, <1>3, <1>4, <1>5, <1>6

\* The place of a node and what its links say.
LEMMA Place ==
  ASSUME NEW L, NEW F, NEW K, NEW E, Linked(L, F, K, E), NEW n \in Attached(F)
  PROVE  /\ n \in K /\ n \in Nodes
         /\ \E p \in Held(K, E) : \E i \in 1 .. Len(F[p]) :
              /\ p \in Parents /\ n = F[p][i] /\ n \in ToSet(F[p]) /\ L[n].up = UpFrom(p)
              /\ L[n].prev = At(F[p], p, i - 1) /\ L[n].next = At(F[p], p, i + 1)
<1>1. PICK p \in Parents : n \in ToSet(F[p])
  BY DEF Attached
<1>a. Shape(F, K) /\ \A q \in Held(K, E) : Sibs(L, q, F[q])
  BY DEF Linked
<1>b. p \in Held(K, E)
  BY <1>1, HeldIs
<1>2. p \in Held(K, E) /\ F[p] \in Seq(Nodes) /\ n \in K /\ n \in Nodes
  BY <1>1, <1>a, <1>b, ShapeIs
<1>3. PICK i \in 1 .. Len(F[p]) : n = F[p][i]
  BY <1>1, <1>2, SetOf
<1>4. Sibs(L, p, F[p]) /\ DOMAIN F[p] = 1 .. Len(F[p])
  BY <1>2, <1>a, SetOf
<1>5. /\ L[n].up = UpFrom(p)
      /\ L[n].prev = At(F[p], p, i - 1) /\ L[n].next = At(F[p], p, i + 1)
  BY <1>3, <1>4 DEF Sibs
<1>6. p \in Parents /\ p \in Held(K, E)
  BY <1>2
<1> HIDE DEF Held
<1> QED BY <1>1, <1>2, <1>3, <1>5, <1>6

\* The links of a parent to its first and last child.
LEMMA Ends ==
  ASSUME NEW L, NEW F, NEW K, NEW E, Linked(L, F, K, E), NEW p \in Held(K, E)
  PROVE  /\ Leftmost(L, p) = At(F[p], p, 1) /\ Rightmost(L, p) = At(F[p], p, Len(F[p]))
         /\ F[p] \in Seq(Nodes) /\ Len(F[p]) \in Nat /\ DOMAIN F[p] = 1 .. Len(F[p])
         /\ F[p] = <<>> <=> Len(F[p]) = 0
         /\ p \in K => /\ p \in Nodes /\ UpFrom(p) = p
                       /\ Leftmost(L, p) = L[p].first /\ Rightmost(L, p) = L[p].last
                       /\ LeftEnd(p) = NoNode /\ RightEnd(p) = NoNode
<1>a. Shape(F, K) /\ Sibs(L, p, F[p])
  BY DEF Linked
<1>b. p \in Parents /\ (p \in K => p \in Nodes)
  BY HeldIs
<1>1. p \in Parents /\ Sibs(L, p, F[p]) /\ F[p] \in Seq(Nodes) /\ (p \in K => p \in Nodes)
  BY <1>a, <1>b, ShapeIs
<1>2. Len(F[p]) \in Nat /\ DOMAIN F[p] = 1 .. Len(F[p]) /\ (F[p] = <<>> <=> Len(F[p]) = 0)
  BY <1>1, SetOf
<1>3. p \in Nodes => ~(p < 0)
  BY ParentsAre
<1>4. Leftmost(L, p) = At(F[p], p, 1) /\ Rightmost(L, p) = At(F[p], p, Len(F[p]))
  BY <1>1 DEF Sibs
<1>5. p \in Nodes => /\ UpFrom(p) = p /\ LeftEnd(p) = NoNode /\ RightEnd(p) = NoNode
                     /\ Leftmost(L, p) = L[p].first /\ Rightmost(L, p) = L[p].last
  BY <1>3 DEF UpFrom, LeftEnd, RightEnd, Leftmost, Rightmost
<1> QED BY <1>1, <1>2, <1>4, <1>5

\* Read along the links the children and the tops are those of the forest.
LEMMA ChildrenAre ==
  ASSUME NEW L, NEW F, NEW K, NEW E, Linked(L, F, K, E)
  PROVE  /\ \A n \in K : Children(L, n) = F[n]
         /\ \A g \in E : Tops(L, g) = F[HeadOf(g)]
<1>1. ASSUME NEW p \in Held(K, E) PROVE ChainFrom(L, Leftmost(L, p)) = F[p]
  <2> DEFINE s == F[p]
             r == RightEnd(p)
             x == Leftmost(L, p)
  <2>1. p \in Parents /\ s \in Seq(Nodes) /\ IsInjective(s)
    <3>1. Shape(F, K)
      BY DEF Linked
    <3>2. p \in Parents
      BY HeldIs
    <3> QED BY <3>1, <3>2, ShapeIs
  <2>2. Sibs(L, p, s)
    BY DEF Linked
  <2>3. Len(s) \in Nat /\ DOMAIN s = 1 .. Len(s) /\ (s # <<>> <=> Len(s) # 0)
    BY <2>1, SetOf
  <2>4. r \notin Nodes
    BY <2>1, ParentsAre DEF RightEnd
  <2> HIDE DEF s, r
  <2>5. x = IF s = <<>> THEN r ELSE s[1]
    <3>1. x = At(s, p, 1)
      BY <2>2 DEF Sibs
    <3>2. Len(s) = 0 => 1 = Len(s) + 1
      OBVIOUS
    <3>3. Len(s) # 0 => 1 # Len(s) + 1
      <4> DEFINE m == Len(s)
      <4>1. m \in Nat
        BY <2>3
      <4> HIDE DEF m
      <4>2. m # 0 => 1 # m + 1
        BY <4>1
      <4> QED BY <4>2 DEF m
    <3> HIDE DEF x
    <3> QED BY <2>3, <3>1, <3>2, <3>3 DEF At, r
  <2>6. \A i \in 1 .. Len(s) : L[s[i]].next = IF i = Len(s) THEN r ELSE s[i + 1]
    <3> SUFFICES ASSUME NEW i \in 1 .. Len(s)
                 PROVE  At(s, p, i + 1) = IF i = Len(s) THEN r ELSE s[i + 1]
      <4>1. \A i \in DOMAIN s : L[s[i]].next = At(s, p, i + 1)
        BY <2>2 DEF Sibs
      <4> QED BY <2>3, <4>1
    <3> DEFINE m == Len(s)
    <3>1. m \in Nat /\ i \in 1 .. m
      BY <2>3
    <3> HIDE DEF m
    <3>2. i + 1 # 0 /\ (i + 1 = m + 1 <=> i = m)
      BY <3>1
    <3>3. i + 1 # 0 /\ (i + 1 = Len(s) + 1 <=> i = Len(s))
      BY <3>2 DEF m
    <3>4. At(s, p, i + 1) = IF i + 1 = 0 THEN LeftEnd(p)
                            ELSE IF i + 1 = Len(s) + 1 THEN r ELSE s[i + 1]
      BY DEF At, r
    <3> HIDE DEF r
    <3> QED BY <3>3, <3>4, ZenonT(30)
  <2> HIDE DEF x
  <2> QED BY <2>1, <2>4, <2>5, <2>6, ChainIs DEF s, x
<1>2. ASSUME NEW n \in K PROVE Children(L, n) = F[n]
  <2>1. n \in Held(K, E) /\ Leftmost(L, n) = L[n].first
    BY HeldIs, Ends
  <2> QED BY <1>1, <2>1 DEF Children
<1>3. ASSUME NEW g \in E PROVE Tops(L, g) = F[HeadOf(g)]
  <2>1. HeadOf(g) \in Held(K, E) /\ HeadOf(g) < 0
    BY HeldIs, ParentsAre
  <2>2. Leftmost(L, HeadOf(g)) = L[HeadOf(g)].next
    BY <2>1 DEF Leftmost
  <2>3. ChainFrom(L, Leftmost(L, HeadOf(g))) = F[HeadOf(g)]
    BY <1>1, <2>1
  <2> QED BY <2>2, <2>3 DEF Tops
<1> QED BY <1>2, <1>3

-----------------------------------------------------------------------------
(* What is read from a forest: recursion along children ends.              *)

\* A growing set: it starts with R and `more' says what a set adds.
Growth(X, R, more) == X \subseteq Nodes /\ R \subseteq X /\ more \in [SUBSET X -> SUBSET X]

\* b is such a set after each step, and D is what it grows to.
Grows(X, R, more, b) ==
  /\ b[0] = R
  /\ \A k \in 1 .. MaxNodes : b[k - 1] \in SUBSET X => b[k] = b[k - 1] \cup more[b[k - 1]]
Grown(X, R, more, D) ==
  /\ D \in SUBSET X /\ R \subseteq D /\ more[D] \subseteq D
  /\ \A T \in SUBSET X : R \subseteq T /\ (\A S \in SUBSET T : more[S] \subseteq T) => D \subseteq T

\* A set of nodes that grows in every step to its end is closed at the end.
LEMMA GrowthCloses ==
  ASSUME NEW X, NEW R, NEW more, Growth(X, R, more), NEW b, Grows(X, R, more, b)
  PROVE  Grown(X, R, more, b[MaxNodes])
<1> DEFINE Fine(k) == /\ b[k] \in SUBSET X /\ R \subseteq b[k]
                      /\ more[b[k]] \subseteq b[k] \/ k <= Cardinality(b[k])
                      /\ \A T \in SUBSET X : R \subseteq T /\ (\A S \in SUBSET T : more[S] \subseteq T)
                                               => b[k] \subseteq T
           Bad == {k \in 0 .. MaxNodes : ~Fine(k)}
<1>0. /\ X \subseteq Nodes /\ R \subseteq X /\ more \in [SUBSET X -> SUBSET X]
      /\ b[0] = R
      /\ \A k \in 1 .. MaxNodes : b[k - 1] \in SUBSET X => b[k] = b[k - 1] \cup more[b[k - 1]]
  BY DEF Growth, Grows
<1>1. MaxNodes \in Nat
  BY NodesFinite
<1>2. ASSUME NEW S \in SUBSET X
      PROVE  IsFiniteSet(S) /\ Cardinality(S) \in Nat /\ Cardinality(S) <= MaxNodes
  BY <1>0, NodesFinite
<1>3. Bad = {}
  <2> SUFFICES ASSUME Bad # {} PROVE FALSE
    OBVIOUS
  <2>1. Bad \subseteq Nat
    OBVIOUS
  <2>2. PICK k \in Bad : \A l \in Bad : k <= l
    BY <2>1, LeastNumber
  <2>3. CASE k = 0
    BY <1>0, <1>2, <2>2, <2>3
  <2>4. CASE k # 0
    <3>1. k \in 1 .. MaxNodes /\ k - 1 \in 0 .. MaxNodes /\ ~(k <= k - 1)
      BY <1>1, <2>2, <2>4
    <3>2. Fine(k - 1)
      BY <2>2, <3>1
    <3> DEFINE a == b[k - 1]
               c == b[k]
    <3>3. a \in SUBSET X /\ c = a \cup more[a]
      BY <1>0, <3>1, <3>2
    <3>4. c \in SUBSET X /\ R \subseteq c
      BY <1>0, <3>2, <3>3
    <3>5. more[c] \subseteq c \/ k <= Cardinality(c)
      <4>1. CASE more[a] \subseteq a
        BY <3>3, <4>1
      <4>2. CASE ~(more[a] \subseteq a)
        <5>1. k - 1 <= Cardinality(a)
          BY <3>2, <4>2
        <5>2. a \in SUBSET c /\ a # c
          BY <3>3, <4>2
        <5> HIDE DEF a, c
        <5>3. IsFiniteSet(c) /\ Cardinality(a) \in Nat /\ Cardinality(c) \in Nat
          BY <1>2, <3>3, <3>4
        <5>4. Cardinality(a) <= Cardinality(c) /\ Cardinality(a) # Cardinality(c)
          BY <5>2, <5>3, FS_Subset
        <5> QED BY <3>1, <5>1, <5>3, <5>4
      <4> QED BY <4>1, <4>2
    <3>6. ASSUME NEW T \in SUBSET X, R \subseteq T, \A S \in SUBSET T : more[S] \subseteq T
          PROVE  c \subseteq T
      <4>1. a \subseteq T
        BY <3>2, <3>6
      <4> QED BY <3>3, <3>6, <4>1
    <3> QED BY <2>2, <3>4, <3>5, <3>6
  <2> QED BY <2>3, <2>4
<1>4. Fine(MaxNodes)
  BY <1>1, <1>3
<1>5. more[b[MaxNodes]] \subseteq b[MaxNodes]
  <2> SUFFICES ASSUME MaxNodes <= Cardinality(b[MaxNodes]) PROVE more[b[MaxNodes]] \subseteq b[MaxNodes]
    BY <1>4
  <2>1. b[MaxNodes] \in SUBSET Nodes
    BY <1>0, <1>4
  <2>2. Cardinality(b[MaxNodes]) = Cardinality(Nodes)
    BY <1>1, <2>1, NodesFinite
  <2>3. b[MaxNodes] = Nodes
    BY <2>1, <2>2, NodesFinite, FS_Subset
  <2>4. X = Nodes
    BY <1>0, <1>4, <2>3
  <2>5. more[b[MaxNodes]] \in SUBSET X
    BY <1>0, <1>4
  <2> QED BY <2>3, <2>4, <2>5
<1> QED BY <1>4, <1>5 DEF Grown

\* There is a function that takes the steps of a growing set.
LEMMA GrowthExists ==
  ASSUME NEW X, NEW R, NEW more, Growth(X, R, more)
  PROVE  \E b \in [0 .. MaxNodes -> SUBSET X] : Grows(X, R, more, b)
<1> DEFINE Good(m, f) == /\ f \in [0 .. m -> SUBSET X] /\ f[0] = R
                         /\ \A k \in 1 .. m : f[k] = f[k - 1] \cup more[f[k - 1]]
           Bad == {m \in 0 .. MaxNodes : ~\E f : Good(m, f)}
<1>0. R \in SUBSET X /\ more \in [SUBSET X -> SUBSET X] /\ MaxNodes \in Nat
  BY NodesFinite DEF Growth
<1>1. SUFFICES ASSUME Bad # {} PROVE FALSE
  <2>1. MaxNodes \in 0 .. MaxNodes
    BY <1>0
  <2>2. Bad = {} => \E f : Good(MaxNodes, f)
    BY <2>1
  <2>3. \A f : Good(MaxNodes, f) => Grows(X, R, more, f)
    BY DEF Grows
  <2> QED BY <2>2, <2>3
<1>2. PICK m \in Bad : \A k \in Bad : m <= k
  <2>1. Bad \subseteq Nat
    OBVIOUS
  <2> QED BY <1>1, <2>1, LeastNumber
<1>3. CASE m = 0
  <2>1. Good(0, [k \in 0 .. 0 |-> R])
    BY <1>0
  <2> QED BY <1>2, <1>3, <2>1
<1>4. CASE m # 0
  <2>1. m - 1 \in 0 .. MaxNodes /\ ~(m <= m - 1) /\ m \in 1 .. MaxNodes
    BY <1>0, <1>2, <1>4
  <2>2. PICK f : Good(m - 1, f)
    BY <1>2, <2>1
  <2> DEFINE top == f[m - 1] \cup more[f[m - 1]]
             h == [k \in 0 .. m |-> IF k = m THEN top ELSE f[k]]
  <2>3. top \in SUBSET X
    <3>1. f[m - 1] \in SUBSET X
      BY <2>1, <2>2
    <3> QED BY <1>0, <3>1
  <2>4. h \in [0 .. m -> SUBSET X]
    <3> HIDE DEF top
    <3>1. \A k \in 0 .. m : k # m => k \in 0 .. m - 1
      BY <2>1
    <3> QED BY <2>2, <2>3, <3>1
  <2>5. h[0] = R
    BY <2>1, <2>2
  <2>6. ASSUME NEW k \in 1 .. m PROVE h[k] = h[k - 1] \cup more[h[k - 1]]
    <3>1. k - 1 \in 0 .. m - 1 /\ k - 1 # m /\ k \in 0 .. m /\ k - 1 \in 0 .. m
      BY <2>1
    <3>2. CASE k = m
      BY <3>1, <3>2
    <3>3. CASE k # m
      <4>1. k \in 1 .. m - 1
        BY <2>1, <3>3
      <4> QED BY <2>2, <3>1, <3>3, <4>1
    <3> QED BY <3>2, <3>3
  <2>7. Good(m, h)
    BY <2>4, <2>5, <2>6
  <2> QED BY <1>2, <2>7
<1> QED BY <1>3, <1>4

\* What is read from the roots on is closed.
LEMMA BelowIs ==
  ASSUME NEW L, NEW F, NEW K, NEW E, Linked(L, F, K, E), NEW roots, roots \subseteq K
  PROVE  /\ Below(L, roots) \in SUBSET K /\ roots \subseteq Below(L, roots)
         /\ \A n \in Below(L, roots) : ToSet(F[n]) \subseteq Below(L, roots)
<1> DEFINE more == [S \in SUBSET K |-> UNION {ToSet(F[n]) : n \in S}]
           h == CHOOSE b : b = [k \in 0 .. MaxNodes |->
                  IF k = 0 THEN roots
                  ELSE b[k - 1] \cup UNION {ToSet(Children(L, n)) : n \in b[k - 1]}]
<1>1. K \in SUBSET Nodes /\ \A n \in K : Children(L, n) = F[n] /\ ToSet(F[n]) \subseteq K
  <2>1. Shape(F, K)
    BY DEF Linked
  <2>2. \A n \in K : n \in Parents
    BY <2>1, ShapeIs
  <2> QED BY <2>1, <2>2, ChildrenAre, ShapeIs
<1>2. more \in [SUBSET K -> SUBSET K]
  BY <1>1
<1>a. Growth(K, roots, more)
  BY <1>1, <1>2 DEF Growth
<1>b. PICK b \in [0 .. MaxNodes -> SUBSET K] : Grows(K, roots, more, b)
  <2> HIDE DEF more
  <2> QED BY <1>a, GrowthExists
<1>3. b[0] = roots /\ \A k \in 1 .. MaxNodes : b[k] = b[k - 1] \cup more[b[k - 1]]
  <2> HIDE DEF more
  <2>1. \A k \in 1 .. MaxNodes : k - 1 \in 0 .. MaxNodes
    BY NodesFinite
  <2> QED BY <1>b, <2>1 DEF Grows
<1>4. \A k \in 1 .. MaxNodes : k - 1 \in 0 .. MaxNodes /\ k \in 0 .. MaxNodes /\ k # 0
  BY NodesFinite
<1>5. \A S \in SUBSET K : UNION {ToSet(Children(L, n)) : n \in S} = more[S]
  BY <1>1
<1>6. b = [k \in 0 .. MaxNodes |->
             IF k = 0 THEN roots ELSE b[k - 1] \cup UNION {ToSet(Children(L, n)) : n \in b[k - 1]}]
  <2> SUFFICES ASSUME NEW k \in 0 .. MaxNodes
               PROVE  b[k] = IF k = 0 THEN roots
                             ELSE b[k - 1] \cup UNION {ToSet(Children(L, n)) : n \in b[k - 1]}
    BY <1>3
  <2>1. CASE k = 0
    BY <1>3, <2>1
  <2>2. CASE k # 0
    <3>1. k \in 1 .. MaxNodes
      BY <2>2, NodesFinite
    <3>2. b[k - 1] \in SUBSET K
      BY <1>3, <1>4, <3>1
    <3>3. UNION {ToSet(Children(L, n)) : n \in b[k - 1]} = more[b[k - 1]]
      BY <1>5, <3>2
    <3> HIDE DEF more
    <3> QED BY <1>3, <2>2, <3>1, <3>3
  <2> QED BY <2>1, <2>2
<1>7. h = [k \in 0 .. MaxNodes |->
             IF k = 0 THEN roots ELSE h[k - 1] \cup UNION {ToSet(Children(L, n)) : n \in h[k - 1]}]
  BY <1>6
<1>8. Below(L, roots) = h[MaxNodes]
  BY DEF Below
<1> HIDE DEF h
<1>9. h[0] = roots
  <2>1. 0 \in 0 .. MaxNodes
    BY NodesFinite
  <2> QED BY <1>7, <2>1
<1>10. \A k \in 1 .. MaxNodes : h[k - 1] \in SUBSET K => h[k] = h[k - 1] \cup more[h[k - 1]]
  <2> SUFFICES ASSUME NEW k \in 1 .. MaxNodes, h[k - 1] \in SUBSET K
               PROVE  h[k] = h[k - 1] \cup more[h[k - 1]]
    OBVIOUS
  <2>1. h[k] = h[k - 1] \cup UNION {ToSet(Children(L, n)) : n \in h[k - 1]}
    BY <1>4, <1>7
  <2>2. UNION {ToSet(Children(L, n)) : n \in h[k - 1]} = more[h[k - 1]]
    BY <1>5
  <2> HIDE DEF more
  <2> QED BY <2>1, <2>2
<1>11. /\ h[MaxNodes] \in SUBSET K /\ roots \subseteq h[MaxNodes]
       /\ more[h[MaxNodes]] \subseteq h[MaxNodes]
  <2> HIDE DEF more
  <2>1. Grows(K, roots, more, h)
    BY <1>9, <1>10 DEF Grows
  <2>2. Grown(K, roots, more, h[MaxNodes])
    BY <1>a, <2>1, GrowthCloses
  <2> QED BY <2>2 DEF Grown
<1> QED BY <1>8, <1>11

\* The members of a sequence but the first.
LEMMA TailIs ==
  ASSUME NEW S, NEW s \in Seq(S), s # <<>>, IsInjective(s)
  PROVE  ToSet(Tail(s)) = ToSet(s) \ {s[1]} /\ s[1] \in ToSet(s)
<1> DEFINE n == Len(s)
<1>1. /\ n \in Nat /\ n # 0 /\ DOMAIN s = 1 .. n
      /\ \A i, j \in 1 .. n : s[i] = s[j] => i = j
  BY SetOf
<1>2. /\ Tail(s) \in Seq(S) /\ Len(Tail(s)) = n - 1 /\ \A i \in 1 .. n - 1 : Tail(s)[i] = s[i + 1]
  BY HeadTailProperties
<1>3. DOMAIN Tail(s) = 1 .. n - 1
  BY <1>2, LenProperties
<1> HIDE DEF n
<1>4. ASSUME NEW i \in 1 .. n - 1 PROVE Tail(s)[i] \in ToSet(s) \ {s[1]}
  <2>1. i + 1 \in 1 .. n /\ 1 \in 1 .. n /\ i + 1 # 1
    BY <1>1
  <2> QED BY <1>1, <1>2, <2>1 DEF ToSet
<1>5. ASSUME NEW i \in 1 .. n, i # 1 PROVE s[i] \in ToSet(Tail(s))
  <2>1. i - 1 \in 1 .. n - 1 /\ (i - 1) + 1 = i
    BY <1>1, <1>5
  <2>2. Tail(s)[i - 1] = s[i]
    BY <1>2, <2>1
  <2> QED BY <1>3, <2>1, <2>2 DEF ToSet
<1>6. s[1] \in ToSet(s)
  BY <1>1 DEF ToSet
<1> QED BY <1>1, <1>3, <1>4, <1>5, <1>6 DEF ToSet

\* The children of y but the first.
Rest(F, y) == IF F[y] = <<>> THEN {} ELSE ToSet(F[y]) \ {F[y][1]}

\* What erase_children(n) erases, n included.
LEMMA ErasedBelowIs ==
  ASSUME NEW L, NEW F, NEW K, NEW E, Linked(L, F, K, E), NEW n \in K
  PROVE  /\ {n} \cup ErasedBelow(L, n) \subseteq Under(F, n) /\ Under(F, n) \subseteq K
         /\ n \notin ErasedBelow(L, n)
         /\ \A y \in {n} \cup ErasedBelow(L, n) : Rest(F, y) \subseteq {n} \cup ErasedBelow(L, n)
         /\ \A z \in ErasedBelow(L, n) : \E y \in {n} \cup ErasedBelow(L, n) : z \in Rest(F, y)
<1> DEFINE more == [S \in SUBSET K |-> UNION {Rest(F, y) : y \in S}]
           old(S) == UNION {ToSet(Tail(Children(L, x))) : x \in {y \in S : Children(L, y) # <<>>}}
           h == CHOOSE e : e = [k \in 0 .. MaxNodes |->
                  IF k = 0 THEN {n}
                  ELSE e[k - 1] \cup UNION {ToSet(Tail(Children(L, x))) :
                                              x \in {y \in e[k - 1] : Children(L, y) # <<>>}}]
<1>0. Shape(F, K)
  BY DEF Linked
<1>1. /\ K \in SUBSET Nodes
      /\ \A y \in K : y \in Parents /\ Children(L, y) = F[y] /\ ToSet(F[y]) \subseteq K
  BY <1>0, ChildrenAre, ShapeIs
<1>2. ASSUME NEW y \in K, F[y] # <<>> PROVE ToSet(Tail(F[y])) = Rest(F, y)
  <2>1. F[y] \in Seq(K) /\ IsInjective(F[y])
    BY <1>0, <1>1, ShapeIs
  <2> QED BY <1>2, <2>1, TailIs DEF Rest
<1>3. more \in [SUBSET K -> SUBSET K]
  BY <1>1 DEF Rest
<1>a. Growth(K, {n}, more)
  BY <1>1, <1>3 DEF Growth
<1>b. PICK b \in [0 .. MaxNodes -> SUBSET K] : Grows(K, {n}, more, b)
  <2> HIDE DEF more
  <2> QED BY <1>a, GrowthExists
<1>4. b[0] = {n} /\ \A k \in 1 .. MaxNodes : b[k] = b[k - 1] \cup more[b[k - 1]]
  <2> HIDE DEF more
  <2>1. \A k \in 1 .. MaxNodes : k - 1 \in 0 .. MaxNodes
    BY NodesFinite
  <2> QED BY <1>b, <2>1 DEF Grows
<1>5. \A k \in 1 .. MaxNodes : k - 1 \in 0 .. MaxNodes /\ k \in 0 .. MaxNodes /\ k # 0
  BY NodesFinite
<1>6. ASSUME NEW S \in SUBSET K PROVE old(S) = more[S]
  <2>1. \A x \in {y \in S : Children(L, y) # <<>>} : ToSet(Tail(Children(L, x))) = Rest(F, x)
    BY <1>1, <1>2
  <2>2. \A x \in S : Children(L, x) = <<>> => Rest(F, x) = {}
    BY <1>1 DEF Rest
  <2>3. more[S] = UNION {Rest(F, y) : y \in S}
    OBVIOUS
  <2>4. old(S) = UNION {Rest(F, x) : x \in {y \in S : Children(L, y) # <<>>}}
    BY <2>1
  <2> QED BY <2>2, <2>3, <2>4
<1> HIDE DEF more
<1>7. b = [k \in 0 .. MaxNodes |-> IF k = 0 THEN {n} ELSE b[k - 1] \cup old(b[k - 1])]
  <2> SUFFICES ASSUME NEW k \in 0 .. MaxNodes
               PROVE  b[k] = IF k = 0 THEN {n} ELSE b[k - 1] \cup old(b[k - 1])
    BY <1>4
  <2>1. CASE k = 0
    BY <1>4, <2>1
  <2>2. CASE k # 0
    <3>1. k \in 1 .. MaxNodes
      BY <2>2, NodesFinite
    <3>2. b[k - 1] \in SUBSET K
      BY <1>4, <1>5, <3>1
    <3>3. old(b[k - 1]) = more[b[k - 1]]
      BY <1>6, <3>2
    <3> HIDE DEF old
    <3> QED BY <1>4, <2>2, <3>1, <3>3
  <2> QED BY <2>1, <2>2
<1>8. h = [k \in 0 .. MaxNodes |-> IF k = 0 THEN {n} ELSE h[k - 1] \cup old(h[k - 1])]
  BY <1>7
<1>9. ErasedBelow(L, n) = h[MaxNodes] \ {n}
  BY DEF ErasedBelow
<1> HIDE DEF h, old
<1>10. h[0] = {n}
  <2>1. 0 \in 0 .. MaxNodes
    BY NodesFinite
  <2> QED BY <1>8, <2>1
<1>11. \A k \in 1 .. MaxNodes : h[k - 1] \in SUBSET K => h[k] = h[k - 1] \cup more[h[k - 1]]
  <2> SUFFICES ASSUME NEW k \in 1 .. MaxNodes, h[k - 1] \in SUBSET K
               PROVE  h[k] = h[k - 1] \cup more[h[k - 1]]
    OBVIOUS
  <2>1. h[k] = h[k - 1] \cup old(h[k - 1])
    BY <1>5, <1>8
  <2> QED BY <1>6, <2>1
<1> DEFINE D == h[MaxNodes]
<1>12. /\ D \in SUBSET K /\ {n} \subseteq D /\ more[D] \subseteq D
       /\ \A T \in SUBSET K : {n} \subseteq T /\ (\A S \in SUBSET T : more[S] \subseteq T) => D \subseteq T
  <2>1. Grows(K, {n}, more, h)
    BY <1>10, <1>11 DEF Grows
  <2>2. Grown(K, {n}, more, h[MaxNodes])
    BY <1>a, <2>1, GrowthCloses
  <2> QED BY <2>2 DEF Grown
<1> HIDE DEF D
<1>13. {n} \cup ErasedBelow(L, n) = D
  BY <1>9, <1>12 DEF D
<1>14. Under(F, n) \subseteq K /\ D \subseteq Under(F, n)
  <2>1. /\ \A p \in Parents : ToSet(F[p]) \subseteq Parents /\ ToSet(F[p]) \subseteq K
        /\ n \in Parents /\ K \subseteq Parents
    BY <1>0, ShapeIs
  <2>2. /\ Closed(F, Under(F, n)) /\ n \in Under(F, n)
        /\ \A z \in Under(F, n) : z # n => \E p \in Under(F, n) : z \in ToSet(F[p])
        /\ Under(F, n) \subseteq Parents
    BY <2>1, UnderIs
  <2>3. Under(F, n) \in SUBSET K
    BY <2>1, <2>2
  <2>4. \A S \in SUBSET Under(F, n) : more[S] \subseteq Under(F, n)
    BY <2>2, <2>3 DEF more, Rest, Closed
  <2> QED BY <1>12, <2>2, <2>3, <2>4
<1>15. \A y \in D : Rest(F, y) \subseteq D
  BY <1>12 DEF more
<1>16. ASSUME NEW z \in D, z # n PROVE \E y \in D : z \in Rest(F, y)
  <2> SUFFICES ASSUME \A y \in D : z \notin Rest(F, y) PROVE FALSE
    OBVIOUS
  <2> DEFINE T == D \ {z}
  <2>1. T \in SUBSET K /\ {n} \subseteq T
    BY <1>12, <1>16
  <2>2. \A S \in SUBSET T : more[S] \subseteq T
    BY <1>12, <1>15 DEF more
  <2> QED BY <1>12, <2>1, <2>2
<1>17. n \notin ErasedBelow(L, n)
  BY <1>9
<1> QED BY <1>13, <1>14, <1>15, <1>16, <1>17

\* Different graphs have different heads.
LEMMA HeadsDiffer ==
  \A g, h \in Graphs : HeadOf(g) = HeadOf(h) => g = h
BY GraphAssumption DEF HeadOf

\* What is read of links that say F is F.
LEMMA ReadIs ==
  ASSUME NEW L, NEW F, NEW K, NEW E, Linked(L, F, K, E), K = Attached(F)
  PROVE  Read(L, E) = F
<1> DEFINE roots == UNION {ToSet(Tops(L, g)) : g \in E}
           reached == Below(L, roots)
<1>0. Shape(F, K)
  BY DEF Linked
<1>1. /\ \A g \in E : Tops(L, g) = F[HeadOf(g)] /\ g \in Graphs /\ HeadOf(g) \in Parents
      /\ \A n \in K : Children(L, n) = F[n] /\ n \in Parents
      /\ \A p \in Parents : ToSet(F[p]) \subseteq K
  <2>1. \A g \in E : g \in Graphs /\ HeadOf(g) \in Parents
    BY HeldIs, ParentsAre
  <2>2. /\ \A g \in E : Tops(L, g) = F[HeadOf(g)]
        /\ \A n \in K : Children(L, n) = F[n]
    BY ChildrenAre
  <2>3. /\ \A n \in K : n \in Parents
        /\ \A p \in Parents : ToSet(F[p]) \subseteq K
    BY <1>0, ShapeIs
  <2> QED BY <2>1, <2>2, <2>3
<1>2. roots \in SUBSET K
  BY <1>1
<1>3. /\ reached \in SUBSET K /\ roots \subseteq reached
      /\ \A n \in reached : ToSet(F[n]) \subseteq reached
  <2>1. roots \subseteq K
    BY <1>2
  <2> HIDE DEF roots
  <2> QED BY <2>1, BelowIs
<1> HIDE DEF reached
<1>4. K \subseteq reached
  <2> SUFFICES ASSUME K \ reached # {} PROVE FALSE
    OBVIOUS
  <2>1. K \ reached \in SUBSET K
    OBVIOUS
  <2>2. PICK x \in K \ reached : \A p \in K \ reached : x \notin ToSet(F[p])
    BY <1>0, <2>1 DEF Shape, Grounded
  <2>3. PICK p \in Held(K, E) : x \in ToSet(F[p])
    BY Place
  <2>4. CASE p \in K
    BY <1>3, <2>2, <2>3, <2>4
  <2>5. CASE p \notin K
    <3>1. PICK g \in E : p = HeadOf(g)
      BY <2>5, HeldIs
    <3>2. x \in roots
      BY <1>1, <2>3, <3>1
    <3> QED BY <1>3, <2>2, <3>2
  <2> QED BY <2>4, <2>5
<1>5. ASSUME NEW x \in Parents
      PROVE  F[x] = CASE \E g \in E : x = HeadOf(g) -> ChainFrom(L, L[x].next)
                      [] x \in reached -> Children(L, x)
                      [] OTHER -> <<>>
  <2>1. CASE \E g \in E : x = HeadOf(g)
    <3>1. x \notin Nodes
      BY <1>1, <2>1, ParentsAre
    <3>2. x \notin reached
      BY <1>0, <1>3, <3>1, ShapeIs
    <3>3. ChainFrom(L, L[x].next) = F[x]
      BY <1>1, <2>1 DEF Tops
    <3> QED BY <2>1, <3>2, <3>3
  <2>2. CASE x \in K
    <3>1. ~\E g \in E : x = HeadOf(g)
      <4>1. x \in Nodes
        BY <1>0, <2>2, ShapeIs
      <4> QED BY <1>1, <4>1, ParentsAre
    <3> QED BY <1>1, <1>4, <2>2, <3>1
  <2>3. CASE x \notin K /\ ~\E g \in E : x = HeadOf(g)
    <3>1. x \notin Held(K, E)
      BY <2>3 DEF Held
    <3>2. F[x] = <<>>
      BY <3>1, HeldIs
    <3> QED BY <1>3, <2>3, <3>2
  <2> QED BY <2>1, <2>2, <2>3
<1>6. F = [x \in Parents |-> F[x]]
  BY <1>0 DEF Shape
<1>7. Read(L, E) = [x \in Parents |->
        CASE \E g \in E : x = HeadOf(g) -> ChainFrom(L, L[x].next)
          [] x \in reached -> Children(L, x)
          [] OTHER -> <<>>]
  BY DEF Read, reached, Parents
<1> QED BY <1>5, <1>6, <1>7

-----------------------------------------------------------------------------
(* Runs of siblings taken out and put in.                                  *)

\* F without the run lo..hi of q, and with the run xs at the place i of p.
Short(F, q, lo, hi) == [F EXCEPT ![q] = Shorter(F[q], lo, hi)]
Long(F, xs, p, i) == [F EXCEPT ![p] = Longer(F[p], xs, i)]

Run(F, q, lo, hi) == SubSeq(F[q], lo, hi)

\* The links from a to b below p are those from one neighbour to the next.
Gap(s, p, a, b, i) == i \in 1 .. Len(s) + 1 /\ a = At(s, p, i - 1) /\ b = At(s, p, i)

\* Without a run of siblings the forest is a forest still.
LEMMA ShapeShort ==
  ASSUME NEW F, NEW K, Shape(F, K), NEW q \in Parents,
         NEW lo \in 1 .. Len(F[q]), NEW hi \in lo .. Len(F[q])
  PROVE  /\ Shape(Short(F, q, lo, hi), K)
         /\ Attached(Short(F, q, lo, hi)) = Attached(F) \ ToSet(Run(F, q, lo, hi))
         /\ \A p \in Parents : ToSet(Short(F, q, lo, hi)[p]) \subseteq ToSet(F[p])
         /\ \A p \in Parents : p # q => Short(F, q, lo, hi)[p] = F[p]
         /\ Short(F, q, lo, hi)[q] = Shorter(F[q], lo, hi)
         /\ Run(F, q, lo, hi) \in Seq(K) /\ Run(F, q, lo, hi) # <<>>
         /\ IsInjective(Run(F, q, lo, hi)) /\ ToSet(Run(F, q, lo, hi)) \subseteq ToSet(F[q])
<1> DEFINE G == Short(F, q, lo, hi)
           xs == SubSeq(F[q], lo, hi)
<1>1. /\ F \in [Parents -> Seq(K)] /\ F[q] \in Seq(K) /\ IsInjective(F[q]) /\ Grounded(F, K)
      /\ K \subseteq Nodes /\ K \subseteq Parents
      /\ \A p \in Parents : IsInjective(F[p]) /\ F[p] \in Seq(K)
      /\ \A p, r \in Parents : p # r => ToSet(F[p]) \cap ToSet(F[r]) = {}
      /\ \A p \in Nodes \ K : F[p] = <<>>
  BY ShapeIs DEF Shape
<1>2. /\ Shorter(F[q], lo, hi) \in Seq(K) /\ IsInjective(Shorter(F[q], lo, hi))
      /\ ToSet(Shorter(F[q], lo, hi)) = ToSet(F[q]) \ ToSet(xs)
      /\ xs \in Seq(K) /\ xs # <<>> /\ IsInjective(xs)
      /\ \A x : x \in ToSet(xs) <=> \E j \in lo .. hi : x = F[q][j]
  <2> DEFINE s == F[q]
  <2>1. s \in Seq(K) /\ IsInjective(s) /\ lo \in 1 .. Len(s) /\ hi \in lo .. Len(s)
    BY <1>1
  <2> HIDE DEF s
  <2>2. TakesOut(K, s, lo, hi)
    BY <2>1 DEF TakesOut
  <2>3. /\ Shorter(s, lo, hi) \in Seq(K) /\ IsInjective(Shorter(s, lo, hi))
        /\ ToSet(Shorter(s, lo, hi)) = ToSet(s) \ ToSet(SubSeq(s, lo, hi))
    BY ONLY <2>2, TakeIs
  <2>4. SubSeq(s, lo, hi) \in Seq(K) /\ IsInjective(SubSeq(s, lo, hi))
    BY ONLY <2>2, TakeIs
  <2>5. \A x : x \in ToSet(SubSeq(s, lo, hi)) <=> \E j \in lo .. hi : x = s[j]
    BY ONLY <2>2, TakeIs
  <2>6. SubSeq(s, lo, hi) # <<>>
    <3>1. lo \in lo .. hi
      BY <2>1, SetOf
    <3>2. s[lo] \in ToSet(SubSeq(s, lo, hi))
      BY <2>5, <3>1
    <3>3. ToSet(<<>>) = {}
      BY DEF ToSet
    <3> QED BY ONLY <3>2, <3>3
  <2> QED BY <2>3, <2>4, <2>5, <2>6 DEF s
<1>3. \A j \in lo .. hi : F[q][j] \in ToSet(F[q])
  <2>1. Len(F[q]) \in Nat /\ \A j \in 1 .. Len(F[q]) : F[q][j] \in ToSet(F[q])
    BY <1>1, SetOf
  <2>2. \A j \in lo .. hi : j \in 1 .. Len(F[q])
    BY <2>1
  <2> QED BY <2>1, <2>2
<1>4. ToSet(xs) \subseteq ToSet(F[q])
  <2> SUFFICES ASSUME NEW x \in ToSet(xs) PROVE x \in ToSet(F[q])
    OBVIOUS
  <2> HIDE DEF xs
  <2>1. PICK j \in lo .. hi : x = F[q][j]
    BY <1>2
  <2> QED BY <1>3, <2>1
<1> HIDE DEF xs
<1>5. /\ G \in [Parents -> Seq(K)] /\ G[q] = Shorter(F[q], lo, hi)
      /\ \A p \in Parents : p # q => G[p] = F[p]
  BY <1>1, <1>2 DEF Short
<1> HIDE DEF G
<1>6. \A p \in Parents : ToSet(G[p]) \subseteq ToSet(F[p]) /\ IsInjective(G[p])
  BY <1>1, <1>2, <1>5
<1>7. Attached(G) = Attached(F) \ ToSet(xs)
  <2>1. \A p \in Parents : ToSet(G[p]) = ToSet(F[p]) \ ToSet(xs)
    BY <1>1, <1>2, <1>4, <1>5
  <2> QED BY <2>1 DEF Attached
<1>8. Grounded(G, K)
  <2> SUFFICES ASSUME NEW S \in SUBSET K, S # {}
               PROVE  \E x \in S : \A p \in S : x \notin ToSet(G[p])
    BY DEF Grounded
  <2>1. PICK x \in S : \A p \in S : x \notin ToSet(F[p])
    BY <1>1 DEF Grounded
  <2>2. \A p \in S : p \in Parents
    BY <1>1
  <2> QED BY <1>6, <2>1, <2>2
<1>9. \A p \in Nodes \ K : G[p] = <<>>
  <2> SUFFICES ASSUME NEW p \in Nodes \ K PROVE G[p] = <<>>
    OBVIOUS
  <2>1. F[p] = <<>> /\ p \in Parents
    BY <1>1 DEF Parents
  <2>2. p # q
    <3> SUFFICES ASSUME p = q PROVE FALSE
      OBVIOUS
    <3>1. Len(F[q]) = 0
      BY <2>1
    <3> QED BY <3>1
  <2> QED BY <1>5, <2>1, <2>2
<1>10. \A p, r \in Parents : p # r => ToSet(G[p]) \cap ToSet(G[r]) = {}
  BY <1>1, <1>6
<1>11. Shape(G, K)
  BY <1>1, <1>5, <1>6, <1>8, <1>9, <1>10 DEF Shape
<1> QED BY <1>2, <1>4, <1>5, <1>6, <1>7, <1>11 DEF G, xs, Run

\* With a run of siblings put below a node that is not within it, the forest is a forest.
LEMMA ShapeLong ==
  ASSUME NEW F, NEW K, Shape(F, K), NEW p \in Parents, p \in Nodes => p \in K,
         NEW xs \in Seq(K), IsInjective(xs), ToSet(xs) \cap Attached(F) = {},
         NEW i \in 1 .. Len(F[p]) + 1,
         NEW W, Closed(F, W), ToSet(xs) \subseteq W, p \notin W
  PROVE  /\ Shape(Long(F, xs, p, i), K)
         /\ Attached(Long(F, xs, p, i)) = Attached(F) \cup ToSet(xs)
         /\ \A q \in Parents : q # p => Long(F, xs, p, i)[q] = F[q]
         /\ Long(F, xs, p, i)[p] = Longer(F[p], xs, i)
         /\ ToSet(Longer(F[p], xs, i)) = ToSet(F[p]) \cup ToSet(xs)
<1> DEFINE G == Long(F, xs, p, i)
           s == F[p]
           t == Longer(F[p], xs, i)
<1>1. /\ F \in [Parents -> Seq(K)] /\ F[p] \in Seq(K) /\ IsInjective(F[p]) /\ Grounded(F, K)
      /\ K \subseteq Nodes /\ K \subseteq Parents
      /\ \A q \in Parents : IsInjective(F[q]) /\ F[q] \in Seq(K)
      /\ \A q, r \in Parents : q # r => ToSet(F[q]) \cap ToSet(F[r]) = {}
      /\ \A q \in Nodes \ K : F[q] = <<>>
      /\ ToSet(F[p]) \subseteq Attached(F)
  BY ShapeIs DEF Shape, Attached
<1>2. t \in Seq(K) /\ ToSet(t) = ToSet(F[p]) \cup ToSet(xs)
  BY <1>1, PutSeq
<1>3. IsInjective(t)
  <2> DEFINE m == Len(s)
             n == Len(xs)
  <2>1. /\ m \in Nat /\ n \in Nat /\ DOMAIN t = 1 .. m + n /\ i \in Int /\ 1 <= i /\ i <= m + 1
        /\ \A j \in 1 .. m + n : t[j] = IF j < i THEN s[j]
                                        ELSE IF j < i + n THEN xs[j - i + 1] ELSE s[j - n]
    <3>1. m \in Nat /\ n \in Nat
      BY <1>1, SetOf
    <3>2. /\ DOMAIN t = 1 .. m + n
          /\ \A j \in 1 .. m + n : t[j] = IF j < i THEN s[j]
                                          ELSE IF j < i + n THEN xs[j - i + 1] ELSE s[j - n]
      BY <1>1, PutSeq
    <3> QED BY <3>1, <3>2
  <2>2. /\ \A j, k \in 1 .. m : s[j] = s[k] => j = k
        /\ \A j, k \in 1 .. n : xs[j] = xs[k] => j = k
        /\ \A j \in 1 .. m : \A k \in 1 .. n : s[j] # xs[k]
    <3>1. /\ \A j, k \in 1 .. m : s[j] = s[k] => j = k
          /\ \A j \in 1 .. m : s[j] \in ToSet(s)
      BY <1>1, SetOf
    <3>2. /\ \A j, k \in 1 .. n : xs[j] = xs[k] => j = k
          /\ \A j \in 1 .. n : xs[j] \in ToSet(xs)
      BY <1>1, SetOf
    <3> QED BY <1>1, <3>1, <3>2
  <2> HIDE DEF m, n, s, t
  <2> SUFFICES ASSUME NEW j \in 1 .. m + n, NEW k \in 1 .. m + n, t[j] = t[k] PROVE j = k
    BY <2>1 DEF IsInjective
  <2> DEFINE e(l) == IF l < i THEN l ELSE l - n
  <2>3. \A l \in 1 .. m + n : ~(i <= l /\ l < i + n) => e(l) \in 1 .. m /\ t[l] = s[e(l)]
    BY <2>1
  <2>4. \A l \in 1 .. m + n : i <= l /\ l < i + n => l - i + 1 \in 1 .. n /\ t[l] = xs[l - i + 1]
    BY <2>1
  <2>5. CASE (i <= j /\ j < i + n) /\ (i <= k /\ k < i + n)
    <3>1. j - i + 1 = k - i + 1
      BY <2>2, <2>4, <2>5
    <3> QED BY <2>1, <3>1
  <2>6. CASE ~(i <= j /\ j < i + n) /\ ~(i <= k /\ k < i + n)
    <3>1. e(j) = e(k)
      BY <2>2, <2>3, <2>6
    <3> QED BY <2>1, <2>6, <3>1
  <2>7. CASE (i <= j /\ j < i + n) /\ ~(i <= k /\ k < i + n)
    BY <2>2, <2>3, <2>4, <2>7
  <2>8. CASE ~(i <= j /\ j < i + n) /\ (i <= k /\ k < i + n)
    BY <2>2, <2>3, <2>4, <2>8
  <2> QED BY <2>5, <2>6, <2>7, <2>8
<1> HIDE DEF t, s
<1>5. /\ G \in [Parents -> Seq(K)] /\ G[p] = t
      /\ \A q \in Parents : q # p => G[q] = F[q]
  BY <1>1, <1>2 DEF Long, t
<1> HIDE DEF G
<1>6. \A q \in Parents : IsInjective(G[q])
  BY <1>1, <1>3, <1>5
<1>7. Attached(G) = Attached(F) \cup ToSet(xs)
  <2>1. ToSet(G[p]) = ToSet(F[p]) \cup ToSet(xs) /\ \A q \in Parents : q # p => ToSet(G[q]) = ToSet(F[q])
    BY <1>2, <1>5
  <2> QED BY <2>1 DEF Attached
<1>8. Grounded(G, K)
  <2> SUFFICES ASSUME NEW S \in SUBSET K, S # {}
               PROVE  \E x \in S : \A q \in S : x \notin ToSet(G[q])
    BY DEF Grounded
  <2>1. CASE S \subseteq W
    <3>1. \A q \in S : G[q] = F[q]
      BY <1>1, <1>5, <2>1
    <3> QED BY <1>1, <3>1 DEF Grounded
  <2>2. CASE ~(S \subseteq W)
    <3>1. PICK x \in S \ W : \A q \in S \ W : x \notin ToSet(F[q])
      <4>1. S \ W \in SUBSET K /\ S \ W # {}
        BY <2>2
      <4> QED BY <1>1, <4>1 DEF Grounded
    <3>2. \A q \in S : x \notin ToSet(F[q])
      BY <3>1 DEF Closed
    <3>3. \A q \in S : ToSet(G[q]) \subseteq ToSet(F[q]) \cup W
      BY <1>1, <1>2, <1>5
    <3> QED BY <3>1, <3>2, <3>3
  <2> QED BY <2>1, <2>2
<1>9. \A q \in Nodes \ K : G[q] = <<>>
  BY <1>1, <1>5 DEF Parents
<1>10. \A q, r \in Parents : q # r => ToSet(G[q]) \cap ToSet(G[r]) = {}
  <2>1. \A q \in Parents : ToSet(F[q]) \subseteq Attached(F)
    BY DEF Attached
  <2> QED BY <1>1, <1>2, <1>5, <2>1
<1>11. Shape(G, K)
  BY <1>1, <1>5, <1>6, <1>8, <1>9, <1>10 DEF Shape
<1> QED BY <1>2, <1>5, <1>7, <1>11 DEF G, t

\* A run is taken out: its neighbours are joined.
LEMMA TakeRun ==
  ASSUME NEW L, NEW F, NEW K, NEW E, Linked(L, F, K, E), NEW q \in Held(K, E),
         NEW lo \in 1 .. Len(F[q]), NEW hi \in lo .. Len(F[q]),
         NEW M, Joined(L, M, q, At(F[q], q, lo - 1), At(F[q], q, hi + 1))
  PROVE  /\ Linked(M, Short(F, q, lo, hi), K, E)
         /\ Chained(M, Run(F, q, lo, hi))
         /\ \A x \in ToSet(Run(F, q, lo, hi)) : M[x].up = UpFrom(q)
<1> DEFINE G == Short(F, q, lo, hi)
           s == F[q]
           xs == SubSeq(F[q], lo, hi)
           a == At(s, q, lo - 1)
           b == At(s, q, hi + 1)
<1>1. /\ Shape(F, K) /\ L \in Table /\ E \subseteq Graphs
      /\ \A g \in Graphs \ E : F[HeadOf(g)] = <<>>
      /\ \A p \in Held(K, E) : Sibs(L, p, F[p])
  BY DEF Linked
<1>2. q \in Parents /\ Held(K, E) \subseteq Parents
  BY HeldIs
<1>3. /\ Shape(G, K) /\ G[q] = Shorter(s, lo, hi)
      /\ \A p \in Parents : p # q => G[p] = F[p]
  BY <1>1, <1>2, ShapeShort
<1>4. M \in Table
  BY DEF Joined
<1>5. s \in Seq(Nodes) /\ IsInjective(s) /\ Sibs(L, q, s)
  BY <1>1, <1>2, ShapeIs
<1>6. Sibs(M, q, G[q])
  BY <1>2, <1>3, <1>5, SibsTake
<1> DEFINE m == Len(s)
<1>7. /\ m \in Nat /\ lo \in Int /\ hi \in Int /\ 1 <= lo /\ lo <= hi /\ hi <= m
      /\ \A j \in 1 .. m : s[j] \in Nodes /\ s[j] \in ToSet(s)
      /\ \A j, k \in 1 .. m : s[j] = s[k] => j = k
  BY <1>5, SetOf
<1>8. /\ a \in Nodes => a \in ToSet(s) /\ lo - 1 \in 1 .. m /\ a = s[lo - 1]
      /\ b \in Nodes => b \in ToSet(s) /\ hi + 1 \in 1 .. m /\ b = s[hi + 1]
  <2>1. lo - 1 \in 0 .. m + 1 /\ hi + 1 \in 0 .. m + 1
    BY <1>7
  <2>2. /\ lo - 1 \in 1 .. m => At(s, q, lo - 1) = s[lo - 1]
        /\ At(s, q, lo - 1) \in Nodes <=> lo - 1 \in 1 .. m
    BY <1>2, <1>5, <2>1, AtIs
  <2>3. /\ hi + 1 \in 1 .. m => At(s, q, hi + 1) = s[hi + 1]
        /\ At(s, q, hi + 1) \in Nodes <=> hi + 1 \in 1 .. m
    BY <1>2, <1>5, <2>1, AtIs
  <2> QED BY <1>7, <2>2, <2>3
<1> HIDE DEF a, b, m
<1>9. /\ \A p \in Parents : p # q => Leftmost(M, p) = Leftmost(L, p) /\ Rightmost(M, p) = Rightmost(L, p)
      /\ \A y \in Nodes : /\ M[y].up = L[y].up
                          /\ M[y].next = IF y = a THEN b ELSE L[y].next
                          /\ M[y].prev = IF y = b THEN a ELSE L[y].prev
  BY DEF Joined, a, b
<1>10. ASSUME NEW p \in Held(K, E), p # q PROVE Sibs(M, p, G[p])
  <2>1. /\ p \in Parents /\ F[p] \in Seq(Nodes) /\ ToSet(F[p]) \subseteq Nodes
        /\ ToSet(F[p]) \cap ToSet(s) = {}
    BY <1>1, <1>2, <1>10, ShapeIs DEF Shape
  <2>2. \A y \in ToSet(F[p]) : y # a /\ y # b
    BY <1>8, <2>1
  <2>3. \A y \in ToSet(F[p]) : M[y].up = L[y].up /\ M[y].prev = L[y].prev /\ M[y].next = L[y].next
    BY <1>9, <2>1, <2>2
  <2>4. Sibs(M, p, F[p])
    BY <1>1, <1>9, <1>10, <2>1, <2>3, SibsKept
  <2> QED BY <1>3, <1>10, <2>1, <2>4
<1>11. \A g \in Graphs \ E : G[HeadOf(g)] = <<>>
  <2> SUFFICES ASSUME NEW g \in Graphs \ E PROVE G[HeadOf(g)] = <<>>
    OBVIOUS
  <2>1. HeadOf(g) \in Parents /\ F[HeadOf(g)] = <<>>
    BY <1>1, ParentsAre
  <2>2. HeadOf(g) # q
    <3> SUFFICES ASSUME HeadOf(g) = q PROVE FALSE
      OBVIOUS
    <3>1. m = 0
      BY <2>1 DEF m
    <3> QED BY <1>7, <3>1
  <2> QED BY <1>3, <2>1, <2>2
<1>12. Linked(M, G, K, E)
  BY <1>1, <1>3, <1>4, <1>6, <1>10, <1>11 DEF Linked
<1>13. /\ Len(xs) = hi - lo + 1 /\ \A j \in 1 .. hi - lo + 1 : xs[j] = s[lo + j - 1]
       /\ xs \in Seq(Nodes)
  BY <1>5, TakeSeq, SMTT(30)
<1> HIDE DEF s, xs
<1>14. \A j \in 1 .. m : /\ L[s[j]].up = UpFrom(q) /\ L[s[j]].prev = At(s, q, j - 1)
                         /\ L[s[j]].next = At(s, q, j + 1)
  <2>1. DOMAIN s = 1 .. m
    BY <1>5, SetOf DEF m
  <2> QED BY <1>5, <2>1 DEF Sibs
<1>15. Chained(M, xs)
  <2> SUFFICES ASSUME NEW j \in 1 .. hi - lo
               PROVE  M[xs[j]].next = xs[j + 1] /\ M[xs[j + 1]].prev = xs[j]
    <3>1. 1 .. Len(xs) - 1 = 1 .. hi - lo
      BY <1>7, <1>13
    <3> QED BY <3>1 DEF Chained
  <2> DEFINE k == lo + j - 1
  <2>1. /\ j \in 1 .. hi - lo + 1 /\ j + 1 \in 1 .. hi - lo + 1 /\ lo + (j + 1) - 1 = k + 1
        /\ k \in 1 .. m /\ k + 1 \in 1 .. m /\ k + 1 # 0 /\ k + 1 # m + 1 /\ (k + 1) - 1 = k
        /\ k # 0 /\ k # m + 1 /\ k # lo - 1 /\ k + 1 # hi + 1
    <3>1. m \in Nat /\ lo \in Int /\ hi \in Int /\ 1 <= lo /\ lo <= hi /\ hi <= m
      BY <1>7
    <3>2. j \in Int /\ 1 <= j /\ j <= hi - lo
      BY <3>1
    <3> QED BY <3>1, <3>2
  <2>2. xs[j] = s[k] /\ xs[j + 1] = s[k + 1]
    <3>1. \A l \in 1 .. hi - lo + 1 : xs[l] = s[lo + l - 1]
      BY <1>13
    <3>2. xs[j] = s[lo + j - 1]
      BY <2>1, <3>1
    <3>3. xs[j + 1] = s[lo + (j + 1) - 1]
      BY <2>1, <3>1
    <3>4. lo + (j + 1) - 1 = k + 1
      BY <2>1
    <3> QED BY <3>2, <3>3, <3>4
  <2> HIDE DEF k
  <2>3. At(s, q, k) = s[k] /\ At(s, q, k + 1) = s[k + 1]
    BY <2>1 DEF At, m
  <2>4. L[s[k]].next = s[k + 1] /\ L[s[k + 1]].prev = s[k]
    BY <1>14, <2>1, <2>3
  <2>5. s[k] # a /\ s[k + 1] # b
    BY <1>7, <1>8, <2>1
  <2> QED BY <1>7, <1>9, <2>1, <2>2, <2>4, <2>5
<1>16. \A x \in ToSet(xs) : M[x].up = UpFrom(q)
  <2> SUFFICES ASSUME NEW j \in 1 .. hi - lo + 1 PROVE M[xs[j]].up = UpFrom(q)
    BY <1>13, SetOf
  <2>1. lo + j - 1 \in 1 .. m
    BY <1>7
  <2>2. xs[j] = s[lo + j - 1] /\ s[lo + j - 1] \in Nodes
    BY <1>7, <1>13, <2>1
  <2>3. L[s[lo + j - 1]].up = UpFrom(q)
    BY <1>14, <2>1
  <2> QED BY <1>9, <2>2, <2>3
<1> QED BY <1>12, <1>15, <1>16 DEF xs, s, Run

\* A run is put below p.
LEMMA PutRun ==
  ASSUME NEW L, NEW F, NEW K, NEW E, Linked(L, F, K, E), NEW p \in Held(K, E),
         NEW xs \in Seq(K), xs # <<>>, IsInjective(xs), ToSet(xs) \cap Attached(F) = {},
         Chained(L, xs), NEW a, NEW b, NEW i, Gap(F[p], p, a, b, i),
         NEW W, Closed(F, W), ToSet(xs) \subseteq W, p \notin W,
         NEW M, RunJoined(L, M, xs, p, a, b)
  PROVE  Linked(M, Long(F, xs, p, i), K, E)
<1> DEFINE G == Long(F, xs, p, i)
           s == F[p]
<1>1. /\ Shape(F, K) /\ L \in Table /\ E \subseteq Graphs
      /\ \A g \in Graphs \ E : F[HeadOf(g)] = <<>>
      /\ \A q \in Held(K, E) : Sibs(L, q, F[q])
  BY DEF Linked
<1>2. p \in Parents /\ Held(K, E) \subseteq Parents
  BY HeldIs
<1>3. i \in 1 .. Len(s) + 1 /\ a = At(s, p, i - 1) /\ b = At(s, p, i)
  BY DEF Gap
<1>a. p \in Nodes => p \in K
  BY HeldIs, ParentsAre
<1>4. /\ Shape(G, K) /\ G[p] = Longer(s, xs, i)
      /\ \A q \in Parents : q # p => G[q] = F[q]
  BY <1>1, <1>2, <1>3, <1>a, ShapeLong
<1>5. M \in Table
  BY DEF RunJoined
<1>6. s \in Seq(Nodes) /\ IsInjective(s) /\ Sibs(L, p, s) /\ ToSet(xs) \cap ToSet(s) = {}
  BY <1>1, <1>2, ShapeIs DEF Attached
<1>7. xs \in Seq(Nodes)
  BY <1>1 DEF Shape
<1>8. Sibs(M, p, G[p])
  BY <1>2, <1>3, <1>4, <1>6, <1>7, SibsPut
<1>9. /\ \A q \in Parents : q # p => Leftmost(M, q) = Leftmost(L, q) /\ Rightmost(M, q) = Rightmost(L, q)
      /\ \A y \in Nodes : y \notin ToSet(xs) /\ y # a /\ y # b =>
           M[y].up = L[y].up /\ M[y].next = L[y].next /\ M[y].prev = L[y].prev
  <2>1. xs[1] \in ToSet(xs) /\ xs[Len(xs)] \in ToSet(xs)
    <3>1. Len(xs) \in Nat /\ Len(xs) # 0 /\ \A j \in 1 .. Len(xs) : xs[j] \in ToSet(xs)
      BY <1>7, SetOf
    <3> QED BY <3>1
  <2> QED BY <2>1 DEF RunJoined
<1>10. (a \in Nodes => a \in ToSet(s)) /\ (b \in Nodes => b \in ToSet(s))
  <2> DEFINE m == Len(s)
  <2>1. m \in Nat /\ \A j \in 1 .. m : s[j] \in ToSet(s)
    BY <1>6, SetOf
  <2>2. i - 1 \in 0 .. m + 1 /\ i \in 0 .. m + 1
    BY <1>3, <2>1
  <2>3. /\ i - 1 \in 1 .. m => a = s[i - 1]
        /\ a \in Nodes <=> i - 1 \in 1 .. m
    BY <1>2, <1>3, <1>6, <2>2, AtIs
  <2>4. /\ i \in 1 .. m => b = s[i]
        /\ b \in Nodes <=> i \in 1 .. m
    BY <1>2, <1>3, <1>6, <2>2, AtIs
  <2> QED BY <2>1, <2>3, <2>4
<1>11. ASSUME NEW q \in Held(K, E), q # p PROVE Sibs(M, q, G[q])
  <2>1. /\ q \in Parents /\ F[q] \in Seq(Nodes) /\ ToSet(F[q]) \subseteq Nodes
        /\ ToSet(F[q]) \cap ToSet(s) = {} /\ ToSet(F[q]) \cap ToSet(xs) = {}
    BY <1>1, <1>2, <1>11, ShapeIs DEF Shape, Attached
  <2>2. \A y \in ToSet(F[q]) : y # a /\ y # b /\ y \notin ToSet(xs)
    BY <1>10, <2>1
  <2>3. \A y \in ToSet(F[q]) : M[y].up = L[y].up /\ M[y].prev = L[y].prev /\ M[y].next = L[y].next
    BY <1>9, <2>1, <2>2
  <2>4. Sibs(M, q, F[q])
    BY <1>1, <1>9, <1>11, <2>1, <2>3, SibsKept
  <2> QED BY <1>4, <1>11, <2>1, <2>4
<1>12. \A g \in Graphs \ E : G[HeadOf(g)] = <<>>
  <2> SUFFICES ASSUME NEW g \in Graphs \ E PROVE G[HeadOf(g)] = <<>>
    OBVIOUS
  <2>1. HeadOf(g) \in Parents /\ F[HeadOf(g)] = <<>> /\ HeadOf(g) \notin Nodes /\ g \in Graphs
    BY <1>1, ParentsAre
  <2>2. HeadOf(g) # p
    <3> SUFFICES ASSUME HeadOf(g) = p PROVE FALSE
      OBVIOUS
    <3>1. PICK h \in E : p = HeadOf(h)
      BY <2>1, HeldIs
    <3> QED BY <1>1, <3>1, HeadsDiffer
  <2> QED BY <1>4, <2>1, <2>2
<1> QED BY <1>1, <1>4, <1>5, <1>8, <1>11, <1>12 DEF Linked

\* F without the children of the nodes in `gone'.
Bare(F, gone) == [p \in Parents |-> IF p \in gone THEN <<>> ELSE F[p]]

\* Links of other nodes may change.
LEMMA SameLinks ==
  ASSUME NEW L, NEW F, NEW K, NEW E, Linked(L, F, K, E), NEW M \in Table,
         \A y \in K : M[y] = L[y],
         \A g \in E : M[HeadOf(g)] = L[HeadOf(g)] /\ M[FeetOf(g)] = L[FeetOf(g)]
  PROVE  Linked(M, F, K, E)
<1>1. /\ Shape(F, K) /\ E \subseteq Graphs /\ \A g \in Graphs \ E : F[HeadOf(g)] = <<>>
      /\ \A p \in Held(K, E) : Sibs(L, p, F[p])
  BY DEF Linked
<1>2. ASSUME NEW p \in Held(K, E) PROVE Sibs(M, p, F[p])
  <2>1. p \in Parents /\ F[p] \in Seq(Nodes) /\ ToSet(F[p]) \subseteq K
    <3>1. p \in Parents
      BY HeldIs
    <3> QED BY <1>1, <3>1, ShapeIs
  <2>2. Leftmost(M, p) = Leftmost(L, p) /\ Rightmost(M, p) = Rightmost(L, p)
    <3>1. CASE p \in K
      <4>1. ~(p < 0)
        BY <1>1, <3>1, ParentsAre, ShapeIs
      <4> QED BY <3>1, <4>1 DEF Leftmost, Rightmost
    <3>2. CASE p \notin K
      <4>1. PICK g \in E : p = HeadOf(g)
        BY <3>2, HeldIs
      <4>2. p - 1 = FeetOf(g) /\ p < 0
        BY <1>1, <4>1, ParentsAre
      <4> QED BY <4>1, <4>2 DEF Leftmost, Rightmost
    <3> QED BY <3>1, <3>2
  <2>3. \A y \in ToSet(F[p]) : M[y].up = L[y].up /\ M[y].prev = L[y].prev /\ M[y].next = L[y].next
    BY <2>1
  <2> QED BY <1>1, <2>1, <2>2, <2>3, SibsKept
<1> QED BY <1>1, <1>2 DEF Linked

\* Only links of destroyed nodes are forgotten.
LEMMA ForgottenIs ==
  ASSUME NEW L \in Table, NEW back, back \subseteq Nodes
  PROVE  /\ Forgotten(L, back) \in Table
         /\ \A y \in Linkable : y \notin back => Forgotten(L, back)[y] = L[y]
<1>1. NoLinks \in [up : Int, first : Int, last : Int, prev : Int, next : Int]
  BY DEF NoLinks, NoNode
<1> QED BY <1>1 DEF Forgotten, Table

\* Forgetting the links of nodes that are not in the forest changes nothing for it.
LEMMA ForgetLinked ==
  ASSUME NEW L, NEW F, NEW K, NEW E, Linked(L, F, K, E), NEW back, back \subseteq Nodes, back \cap K = {}
  PROVE  Linked(Forgotten(L, back), F, K, E)
<1>1. L \in Table /\ K \subseteq Linkable /\ E \subseteq Graphs
  <2>1. L \in Table /\ K \subseteq Nodes /\ E \subseteq Graphs
    BY HeldIs
  <2> QED BY <2>1 DEF Linkable
<1>2. /\ Forgotten(L, back) \in Table
      /\ \A y \in Linkable : y \notin back => Forgotten(L, back)[y] = L[y]
  BY <1>1, ForgottenIs
<1>3. \A y \in K : Forgotten(L, back)[y] = L[y]
  BY <1>1, <1>2
<1>4. \A g \in E : /\ HeadOf(g) \in Linkable /\ FeetOf(g) \in Linkable
                   /\ HeadOf(g) \notin Nodes /\ FeetOf(g) \notin Nodes
  <2> SUFFICES ASSUME NEW g \in E
               PROVE  /\ HeadOf(g) \in Linkable /\ FeetOf(g) \in Linkable
                      /\ HeadOf(g) \notin Nodes /\ FeetOf(g) \notin Nodes
    OBVIOUS
  <2>1. HeadOf(g) \in Parents /\ HeadOf(g) < 0 /\ FeetOf(g) = HeadOf(g) - 1 /\ HeadOf(g) \in Int
    BY <1>1, ParentsAre
  <2> QED BY <2>1, ParentsAre
<1>5. \A g \in E : /\ Forgotten(L, back)[HeadOf(g)] = L[HeadOf(g)]
                   /\ Forgotten(L, back)[FeetOf(g)] = L[FeetOf(g)]
  BY <1>2, <1>4
<1> QED BY <1>2, <1>3, <1>5, SameLinks

\* A node that is nowhere yet, without children.
LEMMA Grow ==
  ASSUME NEW L, NEW F, NEW K, NEW E, Linked(L, F, K, E), NEW n \in Nodes, n \notin K
  PROVE  Linked([L EXCEPT ![n] = NoLinks], F, K \cup {n}, E) /\ F[n] = <<>>
<1> DEFINE M == [L EXCEPT ![n] = NoLinks]
           J == K \cup {n}
<1>1. /\ Shape(F, K) /\ E \subseteq Graphs /\ L \in Table /\ \A g \in Graphs \ E : F[HeadOf(g)] = <<>>
      /\ \A p \in Held(K, E) : Sibs(L, p, F[p])
      /\ n \in Parents /\ n \in Linkable /\ n > 0 /\ n \in Int
  BY ParentsAre DEF Linked
<1>2. F[n] = <<>>
  BY <1>1 DEF Shape
<1>3. Shape(F, J)
  <2>1. F \in [Parents -> Seq(J)]
    <3>1. \A p \in Parents : F[p] \in Seq(J)
      <4> SUFFICES ASSUME NEW p \in Parents PROVE F[p] \in Seq(J)
        OBVIOUS
      <4>1. F[p] \in Seq(K) /\ K \subseteq J
        BY <1>1, ShapeIs
      <4> QED BY <4>1
    <3> QED BY <1>1, <3>1 DEF Shape
  <2>2. Grounded(F, J)
    <3> SUFFICES ASSUME NEW S \in SUBSET J, S # {}
                 PROVE  \E x \in S : \A p \in S : x \notin ToSet(F[p])
      BY DEF Grounded
    <3>1. ToSet(F[n]) = {}
      BY <1>2 DEF ToSet
    <3>2. CASE S \subseteq {n}
      <4>1. S = {n}
        BY <3>2
      <4> QED BY <3>1, <4>1
    <3>3. CASE ~(S \subseteq {n})
      <4>1. S \ {n} \in SUBSET K /\ S \ {n} # {}
        BY <3>3
      <4>2. PICK x \in S \ {n} : \A p \in S \ {n} : x \notin ToSet(F[p])
        BY <1>1, <4>1 DEF Shape, Grounded
      <4> QED BY <3>1, <4>2
    <3> QED BY <3>2, <3>3
  <2> QED BY <1>1, <2>1, <2>2 DEF Shape
<1>4. M \in Table /\ \A y \in Linkable : y # n => M[y] = L[y]
  <2>1. NoLinks \in [up : Int, first : Int, last : Int, prev : Int, next : Int]
    BY DEF NoLinks, NoNode
  <2> QED BY <1>1, <2>1 DEF Table
<1>5. M[n] = NoLinks
  BY <1>1 DEF Table
<1>6. K \subseteq Nodes /\ K \subseteq Linkable
  BY <1>1 DEF Shape, Linkable
<1>7. \A g \in E : /\ HeadOf(g) \in Linkable /\ FeetOf(g) \in Linkable
                   /\ HeadOf(g) \notin Nodes /\ FeetOf(g) \notin Nodes
  <2> SUFFICES ASSUME NEW g \in E
               PROVE  /\ HeadOf(g) \in Linkable /\ FeetOf(g) \in Linkable
                      /\ HeadOf(g) \notin Nodes /\ FeetOf(g) \notin Nodes
    OBVIOUS
  <2>1. HeadOf(g) \in Parents /\ HeadOf(g) < 0 /\ FeetOf(g) = HeadOf(g) - 1 /\ HeadOf(g) \in Int
    BY <1>1, ParentsAre
  <2> QED BY <2>1, ParentsAre
<1>8. Linked(M, F, K, E)
  <2>1. \A y \in K : M[y] = L[y]
    BY <1>4, <1>6
  <2>2. \A g \in E : M[HeadOf(g)] = L[HeadOf(g)] /\ M[FeetOf(g)] = L[FeetOf(g)]
    BY <1>4, <1>7
  <2> HIDE DEF M
  <2> QED BY <1>4, <2>1, <2>2, SameLinks
<1>9. Sibs(M, n, F[n])
  <2>1. Leftmost(M, n) = NoNode /\ Rightmost(M, n) = NoNode
    BY <1>1, <1>5 DEF Leftmost, Rightmost, NoLinks
  <2>2. LeftEnd(n) = NoNode /\ RightEnd(n) = NoNode
    BY <1>1 DEF LeftEnd, RightEnd
  <2>3. Len(F[n]) = 0 /\ DOMAIN F[n] = {}
    BY <1>2
  <2> HIDE DEF M
  <2> QED BY <2>1, <2>2, <2>3 DEF Sibs, At
<1> HIDE DEF M
<1>10. \A p \in Held(J, E) : Sibs(M, p, F[p])
  BY <1>8, <1>9 DEF Linked, Held
<1> QED BY <1>1, <1>2, <1>3, <1>4, <1>10 DEF Linked, M

\* Nodes that no other has as a child are forgotten.
LEMMA Shrink ==
  ASSUME NEW L, NEW F, NEW K, NEW E, Linked(L, F, K, E), NEW gone, gone \subseteq K,
         \A p \in Parents : p \notin gone => ToSet(F[p]) \cap gone = {}
  PROVE  Linked(L, Bare(F, gone), K \ gone, E)
<1> DEFINE G == Bare(F, gone)
           J == K \ gone
<1>1. /\ Shape(F, K) /\ E \subseteq Graphs /\ L \in Table /\ \A g \in Graphs \ E : F[HeadOf(g)] = <<>>
      /\ \A p \in Held(K, E) : Sibs(L, p, F[p])
  BY DEF Linked
<1>2. \A p \in Parents : G[p] = IF p \in gone THEN <<>> ELSE F[p]
  BY DEF Bare
<1>3. \A p \in Parents : ToSet(G[p]) \subseteq ToSet(F[p])
  <2>1. ToSet(<<>>) = {}
    BY DEF ToSet
  <2> QED BY <1>2, <2>1
<1>4. ASSUME NEW p \in Parents PROVE G[p] \in Seq(J) /\ IsInjective(G[p])
  <2>1. CASE p \in gone
    <3>1. G[p] = <<>>
      BY <1>2, <2>1
    <3>2. <<>> \in Seq(J) /\ IsInjective(<<>>)
      BY DEF IsInjective
    <3> QED BY <3>1, <3>2
  <2>2. CASE p \notin gone
    <3>1. F[p] \in Seq(K) /\ IsInjective(F[p])
      BY <1>1, ShapeIs
    <3>2. Len(F[p]) \in Nat /\ \A i \in 1 .. Len(F[p]) : F[p][i] \in J
      BY <2>2, <3>1, SetOf
    <3>3. F[p] \in Seq(J)
      <4> DEFINE s == F[p]
      <4>1. Len(s) \in Nat /\ (\A i \in 1 .. Len(s) : s[i] \in J) /\ s = [i \in 1 .. Len(s) |-> s[i]]
        BY <3>1, <3>2
      <4> HIDE DEF s
      <4>2. [i \in 1 .. Len(s) |-> s[i]] \in Seq(J)
        BY <4>1, IsASeq
      <4> QED BY <4>1, <4>2 DEF s
    <3> QED BY <1>2, <2>2, <3>1, <3>3
  <2> QED BY <2>1, <2>2
<1>5. Shape(G, J)
  <2>1. G \in [Parents -> Seq(J)]
    BY <1>4 DEF Bare
  <2>2. \A p \in Nodes \ J : G[p] = <<>>
    BY <1>1, <1>2 DEF Shape, Parents
  <2>3. Grounded(G, J)
    <3> SUFFICES ASSUME NEW S \in SUBSET J, S # {}
                 PROVE  \E x \in S : \A p \in S : x \notin ToSet(G[p])
      BY DEF Grounded
    <3>1. PICK x \in S : \A p \in S : x \notin ToSet(F[p])
      BY <1>1 DEF Shape, Grounded
    <3>2. \A p \in S : p \in Parents
      BY <1>1 DEF Shape, Parents
    <3> QED BY <1>3, <3>1, <3>2
  <2>4. \A p, q \in Parents : p # q => ToSet(G[p]) \cap ToSet(G[q]) = {}
    BY <1>1, <1>3 DEF Shape
  <2>5. J \subseteq Nodes
    BY <1>1 DEF Shape
  <2> QED BY <1>4, <2>1, <2>2, <2>3, <2>4, <2>5 DEF Shape
<1>6. \A p \in Held(J, E) : p \in Held(K, E) /\ p \in Parents /\ p \notin gone
  <2>1. \A g \in E : HeadOf(g) \notin gone
    <3> SUFFICES ASSUME NEW g \in E PROVE HeadOf(g) \notin gone
      OBVIOUS
    <3>1. HeadOf(g) \in Parents /\ HeadOf(g) < 0
      BY <1>1, ParentsAre
    <3> QED BY <1>1, <3>1, ParentsAre, ShapeIs
  <2>2. Held(K, E) \subseteq Parents
    BY HeldIs
  <2> QED BY <2>1, <2>2 DEF Held
<1>7. \A p \in Held(J, E) : Sibs(L, p, G[p])
  BY <1>1, <1>2, <1>6
<1>8. \A g \in Graphs \ E : G[HeadOf(g)] = <<>>
  BY <1>1, <1>2, ParentsAre
<1> QED BY <1>1, <1>5, <1>7, <1>8 DEF Linked

\* Neighbours are siblings or the ends.
LEMMA GapIs ==
  ASSUME NEW p \in Parents, NEW s \in Seq(Nodes), NEW a, NEW b, NEW i, Gap(s, p, a, b, i)
  PROVE  /\ a \in Nodes \cup {LeftEnd(p)} /\ b \in Nodes \cup {RightEnd(p)}
         /\ a \in Nodes => a \in ToSet(s)
         /\ b \in Nodes => b \in ToSet(s)
         /\ LeftEnd(p) \notin Nodes /\ RightEnd(p) \notin Nodes
<1> DEFINE m == Len(s)
<1>1. m \in Nat /\ \A j \in 1 .. m : s[j] \in ToSet(s)
  BY SetOf
<1>2. i \in 1 .. m + 1 /\ a = At(s, p, i - 1) /\ b = At(s, p, i)
  BY DEF Gap
<1>3. i - 1 \in 0 .. m + 1 /\ i \in 0 .. m + 1 /\ i - 1 # m + 1 /\ i # 0
  BY <1>1, <1>2
<1>4. /\ i - 1 \in 1 .. m => At(s, p, i - 1) = s[i - 1]
      /\ At(s, p, i - 1) \in Nodes <=> i - 1 \in 1 .. m
      /\ At(s, p, i - 1) \in Nodes \cup {LeftEnd(p)}
      /\ LeftEnd(p) \notin Nodes /\ RightEnd(p) \notin Nodes
  BY <1>3, AtIs
<1>5. /\ i \in 1 .. m => At(s, p, i) = s[i]
      /\ At(s, p, i) \in Nodes <=> i \in 1 .. m
      /\ At(s, p, i) \in Nodes \cup {RightEnd(p)}
  BY <1>3, AtIs
<1> QED BY <1>1, <1>2, <1>4, <1>5

\* Neighbours stay neighbours when another sibling is taken out.
LEMMA GapTaken ==
  ASSUME NEW p \in Parents, NEW s \in Seq(Nodes), IsInjective(s), NEW a, NEW b, NEW i, Gap(s, p, a, b, i),
         NEW k \in 1 .. Len(s), s[k] # a, s[k] # b
  PROVE  \E j : Gap(Shorter(s, k, k), p, a, b, j)
<1> DEFINE m == Len(s)
           t == Shorter(s, k, k)
<1>1. m \in Nat /\ k \in 1 .. m
  BY SetOf
<1>2. i \in 1 .. m + 1 /\ a = At(s, p, i - 1) /\ b = At(s, p, i)
  BY DEF Gap
<1>3. /\ Len(t) = m - (k - k + 1)
      /\ \A j \in 1 .. m - (k - k + 1) : t[j] = IF j < k THEN s[j] ELSE s[j + (k - k + 1)]
  <2>1. k \in k .. m
    BY <1>1
  <2> QED BY <1>1, <2>1, TakeSeq
<1>4. k # i - 1 /\ k # i
  <2>1. k = i - 1 => a = s[k]
    BY <1>1, <1>2 DEF At
  <2>2. k = i => b = s[k]
    BY <1>1, <1>2 DEF At
  <2> QED BY <2>1, <2>2
<1> HIDE DEF t, m
<1>5. Len(t) = m - 1 /\ \A j \in 1 .. m - 1 : t[j] = IF j < k THEN s[j] ELSE s[j + 1]
  <2>1. m - (k - k + 1) = m - 1 /\ k - k + 1 = 1
    BY <1>1
  <2> QED BY <1>3, <2>1
<1>6. \A j \in 0 .. m + 1 : At(s, p, j) = IF j = 0 THEN LeftEnd(p) ELSE IF j = m + 1 THEN RightEnd(p) ELSE s[j]
  BY DEF At, m
<1>7. \A j \in 0 .. m : At(t, p, j) = IF j = 0 THEN LeftEnd(p) ELSE IF j = m THEN RightEnd(p) ELSE t[j]
  <2>1. (m - 1) + 1 = m
    BY <1>1
  <2> QED BY <1>5, <2>1 DEF At
<1>8. CASE k < i - 1
  <2>1. At(t, p, i - 2) = At(s, p, i - 1)
    <3>1. i - 2 \in 0 .. m /\ i - 2 # 0 /\ i - 2 # m /\ i - 2 \in 1 .. m - 1 /\ ~(i - 2 < k) /\ (i - 2) + 1 = i - 1
          /\ i - 1 \in 0 .. m + 1 /\ i - 1 # 0 /\ i - 1 # m + 1
      BY <1>1, <1>2, <1>8
    <3> QED BY <1>5, <1>6, <1>7, <3>1
  <2>2. At(t, p, i - 1) = At(s, p, i)
    <3>1. i - 1 \in 0 .. m /\ i - 1 # 0 /\ i \in 0 .. m + 1 /\ i # 0 /\ (i - 1 = m <=> i = m + 1) /\ (i - 1) + 1 = i
      BY <1>1, <1>2, <1>8
    <3>2. i # m + 1 => i - 1 \in 1 .. m - 1 /\ ~(i - 1 < k)
      BY <1>1, <1>2, <1>8
    <3> QED BY <1>5, <1>6, <1>7, <3>1, <3>2
  <2>3. i - 1 \in 1 .. (m - 1) + 1 /\ (i - 1) - 1 = i - 2
    BY <1>1, <1>2, <1>8
  <2> QED BY <1>2, <1>5, <2>1, <2>2, <2>3 DEF Gap, t
<1>9. CASE k > i
  <2>1. At(t, p, i - 1) = At(s, p, i - 1)
    <3>1. i - 1 \in 0 .. m /\ i - 1 \in 0 .. m + 1 /\ i - 1 # m /\ i - 1 # m + 1
          /\ (i - 1 # 0 => i - 1 \in 1 .. m - 1 /\ i - 1 < k)
      BY <1>1, <1>2, <1>9
    <3> QED BY <1>5, <1>6, <1>7, <3>1
  <2>2. At(t, p, i) = At(s, p, i)
    <3>1. i \in 0 .. m /\ i \in 0 .. m + 1 /\ i # 0 /\ i # m /\ i # m + 1 /\ i \in 1 .. m - 1 /\ i < k
      BY <1>1, <1>2, <1>9
    <3> QED BY <1>5, <1>6, <1>7, <3>1
  <2>3. i \in 1 .. (m - 1) + 1
    BY <1>1, <1>2, <1>9
  <2> QED BY <1>2, <1>5, <2>1, <2>2, <2>3 DEF Gap, t
<1> QED BY <1>1, <1>2, <1>4, <1>8, <1>9

-----------------------------------------------------------------------------
(* Additions and moves.                                                    *)

\* The links L say what F says, of all nodes that have a place in F.
Fits(L, F, E) == Linked(L, F, Attached(F), E)

\* There is a gap before the first and after the last child.
LEMMA GapEnds ==
  ASSUME NEW L, NEW F, NEW K, NEW E, Linked(L, F, K, E), NEW p \in Held(K, E)
  PROVE  /\ Gap(F[p], p, Rightmost(L, p), RightEnd(p), Len(F[p]) + 1)
         /\ Gap(F[p], p, LeftEnd(p), Leftmost(L, p), 1)
<1> DEFINE m == Len(F[p])
<1>1. m \in Nat /\ Leftmost(L, p) = At(F[p], p, 1) /\ Rightmost(L, p) = At(F[p], p, m)
  BY Ends
<1>2. At(F[p], p, 0) = LeftEnd(p) /\ At(F[p], p, m + 1) = RightEnd(p)
  <2>1. m + 1 # 0
    BY <1>1
  <2> QED BY <2>1 DEF At
<1> HIDE DEF m
<1>3. m + 1 \in 1 .. m + 1 /\ (m + 1) - 1 = m /\ 1 \in 1 .. m + 1 /\ 1 - 1 = 0
  BY <1>1
<1> QED BY <1>1, <1>2, <1>3 DEF Gap, m

\* There is a gap before and after every child.
LEMMA GapAround ==
  ASSUME NEW L, NEW F, NEW K, NEW E, Linked(L, F, K, E), NEW p \in Held(K, E), NEW i \in 1 .. Len(F[p])
  PROVE  /\ Gap(F[p], p, L[F[p][i]].prev, F[p][i], i)
         /\ Gap(F[p], p, F[p][i], L[F[p][i]].next, i + 1)
<1> DEFINE m == Len(F[p])
           s == F[p]
<1>1. m \in Nat /\ i \in 1 .. m /\ DOMAIN s = 1 .. m
  BY Ends
<1>2. L[s[i]].prev = At(s, p, i - 1) /\ L[s[i]].next = At(s, p, i + 1)
  <2>1. Sibs(L, p, s)
    BY DEF Linked
  <2> QED BY <1>1, <2>1 DEF Sibs
<1> HIDE DEF m
<1>3. i # 0 /\ i # m + 1 /\ i \in 1 .. m + 1 /\ i + 1 \in 1 .. m + 1 /\ (i + 1) - 1 = i
  BY <1>1
<1> HIDE DEF s
<1>4. At(s, p, i) = s[i]
  <2>1. m = Len(s)
    BY DEF m, s
  <2> QED BY <1>3, <2>1 DEF At
<1>5. m = Len(s)
  BY DEF m, s
<1>6. Gap(s, p, L[s[i]].prev, s[i], i) /\ Gap(s, p, s[i], L[s[i]].next, i + 1)
  BY <1>2, <1>3, <1>4, <1>5 DEF Gap
<1> QED BY <1>6 DEF s

\* A run of one node.
LEMMA One ==
  ASSUME NEW S, NEW x \in S
  PROVE  /\ <<x>> \in Seq(S) /\ <<x>> # <<>> /\ ToSet(<<x>>) = {x} /\ IsInjective(<<x>>)
         /\ \A L : Chained(L, <<x>>)
<1>1. <<x>> \in Seq(S) /\ <<x>> # <<>> /\ ToSet(<<x>>) = {x} /\ Len(<<x>>) = 1
  BY DEF ToSet
<1>2. IsInjective(<<x>>)
  BY DEF IsInjective
<1>3. \A L : Chained(L, <<x>>)
  BY DEF Chained
<1> QED BY <1>1, <1>2, <1>3

\* The run of one of the siblings.
LEMMA OneOf ==
  ASSUME NEW S, NEW s \in Seq(S), IsInjective(s), NEW i \in 1 .. Len(s)
  PROVE  SubSeq(s, i, i) = <<s[i]>>
<1>1. Len(s) \in Nat /\ i \in i .. Len(s) /\ s[i] \in S
  BY SetOf
<1>2. /\ SubSeq(s, i, i) \in Seq(S) /\ Len(SubSeq(s, i, i)) = i - i + 1
      /\ \A j \in 1 .. i - i + 1 : SubSeq(s, i, i)[j] = s[i + j - 1]
  BY <1>1, TakeSeq
<1> DEFINE t == SubSeq(s, i, i)
<1>3. Len(t) = 1 /\ t[1] = s[i] /\ t \in Seq(S)
  <2>1. i - i + 1 = 1 /\ i + 1 - 1 = i /\ 1 \in 1 .. i - i + 1
    BY <1>1
  <2> QED BY <1>2, <2>1
<1>4. <<s[i]>> \in Seq(S) /\ Len(<<s[i]>>) = 1 /\ <<s[i]>>[1] = s[i]
  BY <1>1
<1> HIDE DEF t
<1>5. t = <<s[i]>>
  BY <1>3, <1>4, SeqEqual
<1> QED BY <1>5 DEF t

\* Below a node are only nodes with a place.
LEMMA UnderAttached ==
  ASSUME NEW F, NEW K, Shape(F, K), NEW x \in Parents
  PROVE  \A z \in Under(F, x) : z = x \/ z \in Attached(F)
<1>1. \A p \in Parents : ToSet(F[p]) \subseteq Parents
  BY ShapeIs
<1>2. /\ \A z \in Under(F, x) : z # x => \E p \in Under(F, x) : z \in ToSet(F[p])
      /\ Under(F, x) \subseteq Parents
  BY <1>1, UnderIs
<1> QED BY <1>2 DEF Attached

\* A new node comes to a place.
LEMMA AddFits ==
  ASSUME NEW L, NEW F, NEW E, Fits(L, F, E), NEW n \in Nodes, n \notin Attached(F),
         NEW p \in Held(Attached(F), E), NEW a, NEW b, NEW i, Gap(F[p], p, a, b, i)
  PROVE  /\ Fits(PutIn([L EXCEPT ![n] = NoLinks], n, UpFrom(p), a, b), Long(F, <<n>>, p, i), E)
         /\ Attached(Long(F, <<n>>, p, i)) = Attached(F) \cup {n}
         /\ Shape(Long(F, <<n>>, p, i), Attached(F) \cup {n})
         /\ Long(F, <<n>>, p, i)[p] = Longer(F[p], <<n>>, i)
         /\ \A q \in Parents : q # p => Long(F, <<n>>, p, i)[q] = F[q]
<1> DEFINE K == Attached(F)
           J == K \cup {n}
           M == [L EXCEPT ![n] = NoLinks]
           N == PutIn(M, n, UpFrom(p), a, b)
           G == Long(F, <<n>>, p, i)
<1>1. Linked(L, F, K, E)
  BY DEF Fits
<1> HIDE DEF K
<1>2. Linked(M, F, J, E) /\ F[n] = <<>> /\ n \notin K
  <2>1. n \notin K
    BY DEF K
  <2> QED BY <1>1, <2>1, Grow
<1>3. p \in Held(J, E) /\ p \in Parents /\ p # n
  <2>1. p \in Held(K, E)
    BY DEF K
  <2>2. p \in Parents
    BY <1>1, <2>1, HeldIs
  <2>3. p # n
    <3> SUFFICES ASSUME p = n PROVE FALSE
      OBVIOUS
    <3>1. PICK g \in E : n = HeadOf(g)
      BY <1>1, <1>2, <2>1, HeldIs
    <3>2. g \in Graphs
      BY <1>1, HeldIs
    <3> QED BY <3>1, <3>2, ParentsAre
  <2> QED BY <2>1, <2>2, <2>3 DEF Held
<1>4. Shape(F, J) /\ M \in Table /\ F[p] \in Seq(Nodes) /\ ToSet(F[p]) \subseteq K
  <2>1. Shape(F, J) /\ M \in Table /\ Shape(F, K)
    BY <1>1, <1>2 DEF Linked
  <2> QED BY <1>3, <2>1, ShapeIs
<1> HIDE DEF M
<1>5. a \in Nodes \cup {LeftEnd(p)} /\ b \in Nodes \cup {RightEnd(p)} /\ a # n /\ b # n
  <2>1. /\ a \in Nodes \cup {LeftEnd(p)} /\ b \in Nodes \cup {RightEnd(p)}
        /\ a \in Nodes => a \in ToSet(F[p])
        /\ b \in Nodes => b \in ToSet(F[p])
        /\ LeftEnd(p) \notin Nodes /\ RightEnd(p) \notin Nodes
    BY <1>3, <1>4, GapIs
  <2> QED BY <1>2, <1>4, <2>1
<1>6. RunJoined(M, N, <<n>>, p, a, b)
  BY <1>3, <1>4, <1>5, PutInReads
<1>7. /\ <<n>> \in Seq(J) /\ <<n>> # <<>> /\ ToSet(<<n>>) = {n} /\ IsInjective(<<n>>)
      /\ Chained(M, <<n>>)
  BY One
<1>8. Closed(F, {n})
  BY <1>2 DEF Closed, ToSet
<1>9. ToSet(<<n>>) \cap Attached(F) = {}
  BY <1>2, <1>7 DEF K
<1>10. Linked(N, G, J, E)
  <2>1. ToSet(<<n>>) \subseteq {n} /\ p \notin {n}
    BY <1>3, <1>7
  <2> HIDE DEF N, G, J
  <2>2. Linked(N, Long(F, <<n>>, p, i), J, E)
    BY <1>2, <1>3, <1>6, <1>7, <1>8, <1>9, <2>1, PutRun
  <2> QED BY <2>2 DEF G
<1>11. /\ Shape(G, J) /\ Attached(G) = Attached(F) \cup ToSet(<<n>>)
       /\ \A q \in Parents : q # p => G[q] = F[q]
       /\ G[p] = Longer(F[p], <<n>>, i)
  <2>1. p \in Nodes => p \in J
    BY <1>2, <1>3, HeldIs, ParentsAre
  <2>2. ToSet(<<n>>) \subseteq {n} /\ p \notin {n} /\ i \in 1 .. Len(F[p]) + 1
    BY <1>3, <1>7 DEF Gap
  <2> DEFINE xs == <<n>>
             V == {n}
  <2>3. /\ xs \in Seq(J) /\ IsInjective(xs) /\ ToSet(xs) \cap Attached(F) = {}
        /\ Closed(F, V) /\ ToSet(xs) \subseteq V /\ p \notin V
    BY <1>7, <1>8, <1>9, <2>2
  <2>4. xs = <<n>>
    OBVIOUS
  <2> HIDE DEF J, xs, V
  <2>5. /\ Shape(Long(F, xs, p, i), J) /\ Attached(Long(F, xs, p, i)) = Attached(F) \cup ToSet(xs)
        /\ \A q \in Parents : q # p => Long(F, xs, p, i)[q] = F[q]
        /\ Long(F, xs, p, i)[p] = Longer(F[p], xs, i)
    BY <1>3, <1>4, <2>1, <2>2, <2>3, ShapeLong
  <2> QED BY <2>4, <2>5
<1>12. Attached(G) = J
  BY <1>7, <1>11 DEF K
<1> QED BY <1>10, <1>11, <1>12 DEF Fits, N, M, K

\* The run lo..hi of q at the place i of p, counted without the run.
Moved(F, q, lo, hi, p, i) == Long(Short(F, q, lo, hi), Run(F, q, lo, hi), p, i)

\* The links L say the forest F, M is L without the run lo .. hi of q, and N is M with the
\* run at the place i of p, which is not below it.
RunMoves(L, F, E, q, lo, hi, M, p, a, b, i, N) ==
  /\ Fits(L, F, E) /\ q \in Held(Attached(F), E) /\ p \in Held(Attached(F), E)
  /\ lo \in 1 .. Len(F[q]) /\ hi \in lo .. Len(F[q])
  /\ Joined(L, M, q, At(F[q], q, lo - 1), At(F[q], q, hi + 1))
  /\ \A x \in ToSet(Run(F, q, lo, hi)) : p \notin Under(F, x)
  /\ Gap(Short(F, q, lo, hi)[p], p, a, b, i)
  /\ RunJoined(M, N, Run(F, q, lo, hi), p, a, b)

\* A run moves to another place.
LEMMA RunFits ==
  ASSUME NEW L, NEW F, NEW E, NEW q, NEW lo, NEW hi, NEW M, NEW p, NEW a, NEW b, NEW i, NEW N,
         RunMoves(L, F, E, q, lo, hi, M, p, a, b, i, N)
  PROVE  /\ Fits(N, Moved(F, q, lo, hi, p, i), E)
         /\ Attached(Moved(F, q, lo, hi, p, i)) = Attached(F)
         /\ Shape(Moved(F, q, lo, hi, p, i), Attached(F))
         /\ Moved(F, q, lo, hi, p, i)[p] = Longer(Short(F, q, lo, hi)[p], Run(F, q, lo, hi), i)
<1> DEFINE K == Attached(F)
           xs == Run(F, q, lo, hi)
           H == Short(F, q, lo, hi)
           G == Long(H, xs, p, i)
           W == UNION {Under(F, x) : x \in ToSet(xs)}
<1>0. /\ Fits(L, F, E) /\ q \in Held(Attached(F), E) /\ p \in Held(Attached(F), E)
      /\ lo \in 1 .. Len(F[q]) /\ hi \in lo .. Len(F[q])
      /\ Joined(L, M, q, At(F[q], q, lo - 1), At(F[q], q, hi + 1))
      /\ \A x \in ToSet(Run(F, q, lo, hi)) : p \notin Under(F, x)
      /\ Gap(Short(F, q, lo, hi)[p], p, a, b, i)
      /\ RunJoined(M, N, Run(F, q, lo, hi), p, a, b)
  BY DEF RunMoves
<1> USE <1>0
<1>1. Linked(L, F, K, E) /\ Shape(F, K)
  BY DEF Fits, Linked
<1> HIDE DEF K
<1>2. q \in Held(K, E) /\ p \in Held(K, E) /\ q \in Parents /\ p \in Parents
      /\ (p \in Nodes => p \in K)
  <2>1. q \in Held(K, E) /\ p \in Held(K, E)
    BY DEF K
  <2> QED BY <1>1, <2>1, HeldIs, ParentsAre
<1>3. Linked(M, H, K, E) /\ Chained(M, xs)
  BY <1>1, <1>2, TakeRun
<1>4. /\ Shape(H, K) /\ Attached(H) = Attached(F) \ ToSet(xs)
      /\ \A r \in Parents : ToSet(H[r]) \subseteq ToSet(F[r])
      /\ xs \in Seq(K) /\ xs # <<>> /\ IsInjective(xs) /\ ToSet(xs) \subseteq ToSet(F[q])
  BY <1>1, <1>2, ShapeShort
<1> HIDE DEF xs, H
<1>5. Closed(H, W) /\ ToSet(xs) \subseteq W /\ p \notin W
  <2>1. \A r \in Parents : ToSet(F[r]) \subseteq Parents
    BY <1>1, ShapeIs
  <2>2. \A x \in ToSet(xs) : x \in Parents
    BY <1>2, <1>4, <2>1
  <2>3. \A x \in ToSet(xs) : /\ Closed(F, Under(F, x)) /\ x \in Under(F, x)
                             /\ Under(F, x) \subseteq Parents
    BY <2>1, <2>2, UnderIs
  <2>4. ToSet(xs) \subseteq W
    BY <2>3
  <2>5. p \notin W
    BY DEF xs
  <2>6. Closed(H, W)
    <3> SUFFICES ASSUME NEW x \in ToSet(xs), NEW y \in Under(F, x), NEW z \in ToSet(H[y])
                 PROVE  z \in Under(F, x)
      BY DEF Closed
    <3> QED BY <1>4, <2>3 DEF Closed
  <2> QED BY <2>4, <2>5, <2>6
<1> HIDE DEF W
<1>6. ToSet(xs) \cap Attached(H) = {}
  BY <1>4
<1>7. Linked(N, G, K, E)
  <2>1. Gap(H[p], p, a, b, i) /\ RunJoined(M, N, xs, p, a, b)
    BY DEF H, xs
  <2> HIDE DEF G
  <2>2. Linked(N, Long(H, xs, p, i), K, E)
    BY <1>2, <1>3, <1>4, <1>5, <1>6, <2>1, PutRun
  <2> QED BY <2>2 DEF G
<1>8. /\ Shape(G, K) /\ Attached(G) = Attached(H) \cup ToSet(xs)
      /\ G[p] = Longer(H[p], xs, i)
  <2>1. i \in 1 .. Len(H[p]) + 1
    BY DEF Gap, H
  <2> QED BY <1>2, <1>4, <1>5, <1>6, <2>1, ShapeLong
<1>9. Attached(G) = K
  <2>1. ToSet(xs) \subseteq Attached(F)
    BY <1>2, <1>4 DEF Attached
  <2> QED BY <1>4, <1>8, <2>1 DEF K
<1> QED BY <1>7, <1>8, <1>9 DEF Fits, K, H, xs, Moved

\* The links L say the forest F, and the j-th child of q may move to the place i of p.
NodeMoves(L, F, E, q, j, p, a, b, i) ==
  /\ Fits(L, F, E) /\ q \in Held(Attached(F), E) /\ j \in 1 .. Len(F[q])
  /\ p \in Held(Attached(F), E) /\ p \notin Under(F, F[q][j])
  /\ Gap(Short(F, q, j, j)[p], p, a, b, i)

\* One node moves to another place.
LEMMA MoveFits ==
  ASSUME NEW L, NEW F, NEW E, NEW q, NEW j, NEW p, NEW a, NEW b, NEW i,
         NodeMoves(L, F, E, q, j, p, a, b, i)
  PROVE  /\ Fits(PutIn(TakenOut(L, F[q][j]), F[q][j], UpFrom(p), a, b), Moved(F, q, j, j, p, i), E)
         /\ Attached(Moved(F, q, j, j, p, i)) = Attached(F)
         /\ Shape(Moved(F, q, j, j, p, i), Attached(F))
         /\ Moved(F, q, j, j, p, i)[p] = Longer(Short(F, q, j, j)[p], Run(F, q, j, j), i)
<1> DEFINE K == Attached(F)
           n == F[q][j]
           M == TakenOut(L, n)
           N == PutIn(M, n, UpFrom(p), a, b)
<1>0. /\ Fits(L, F, E) /\ q \in Held(Attached(F), E) /\ j \in 1 .. Len(F[q])
      /\ p \in Held(Attached(F), E) /\ p \notin Under(F, F[q][j])
      /\ Gap(Short(F, q, j, j)[p], p, a, b, i)
  BY DEF NodeMoves
<1> USE <1>0
<1>1. Linked(L, F, K, E) /\ Shape(F, K) /\ L \in Table
  BY DEF Fits, Linked
<1>2. q \in Parents /\ p \in Parents
  BY <1>1, HeldIs
<1>3. /\ F[q] \in Seq(Nodes) /\ IsInjective(F[q]) /\ j \in j .. Len(F[q]) /\ n \in ToSet(F[q])
      /\ n \in Nodes /\ Len(F[q]) \in Nat
  <2>1. /\ F[q] \in Seq(Nodes) /\ IsInjective(F[q]) /\ n \in ToSet(F[q]) /\ ToSet(F[q]) \subseteq Nodes
    BY <1>1, <1>2, ShapeIs
  <2>2. Len(F[q]) \in Nat
    BY <2>1, SetOf
  <2> QED BY <2>1, <2>2
<1>4. Run(F, q, j, j) = <<n>>
  BY <1>3, OneOf DEF Run
<1>5. Joined(L, M, q, At(F[q], q, j - 1), At(F[q], q, j + 1))
  <2>1. Sibs(L, q, F[q])
    BY <1>1 DEF Linked
  <2>2. /\ L[n].up = UpFrom(q) /\ L[n].prev = At(F[q], q, j - 1) /\ L[n].next = At(F[q], q, j + 1)
    BY <1>3, <2>1 DEF Sibs
  <2>3. At(F[q], q, j - 1) \in Nodes \cup {LeftEnd(q)} /\ At(F[q], q, j + 1) \in Nodes \cup {RightEnd(q)}
    <3>1. /\ Gap(F[q], q, L[n].prev, n, j) /\ Gap(F[q], q, n, L[n].next, j + 1)
      BY <1>1, GapAround
    <3>2. L[n].prev \in Nodes \cup {LeftEnd(q)}
      BY <1>2, <1>3, <3>1, GapIs
    <3>3. L[n].next \in Nodes \cup {RightEnd(q)}
      BY <1>2, <1>3, <3>1, GapIs
    <3> QED BY <2>2, <3>2, <3>3
  <2> QED BY <1>1, <1>2, <2>2, <2>3, JoinReads DEF TakenOut
<1> DEFINE H == Short(F, q, j, j)
<1>6. /\ Shape(H, K) /\ Attached(H) = K \ {n}
      /\ \A r \in Parents : ToSet(H[r]) \subseteq ToSet(F[r])
  <2>1. ToSet(<<n>>) = {n}
    BY <1>3, One
  <2>2. /\ Shape(H, K) /\ Attached(H) = Attached(F) \ ToSet(Run(F, q, j, j))
        /\ \A r \in Parents : ToSet(H[r]) \subseteq ToSet(F[r])
    <3> HIDE DEF K
    <3> QED BY <1>1, <1>2, <1>3, ShapeShort
  <2> HIDE DEF H, n
  <2> QED BY <1>4, <2>1, <2>2
<1>7. RunJoined(M, N, <<n>>, p, a, b)
  <2>1. H[p] \in Seq(Nodes) /\ n \notin ToSet(H[p])
    <3>1. ToSet(H[p]) \subseteq Attached(H)
      BY <1>2 DEF Attached
    <3> HIDE DEF H, K, n
    <3> QED BY <1>2, <1>6, <3>1, ShapeIs
  <2>2. Gap(H[p], p, a, b, i)
    OBVIOUS
  <2> HIDE DEF H
  <2>3. a \in Nodes \cup {LeftEnd(p)} /\ b \in Nodes \cup {RightEnd(p)} /\ a # n /\ b # n
    BY <1>2, <1>3, <2>1, <2>2, GapIs
  <2>4. M \in Table
    BY <1>5 DEF Joined
  <2> HIDE DEF M, n
  <2> QED BY <1>2, <1>3, <2>3, <2>4, PutInReads
<1> HIDE DEF M, N
<1>8. \A x \in ToSet(Run(F, q, j, j)) : p \notin Under(F, x)
  BY <1>3, <1>4, One
<1>9. RunJoined(M, N, Run(F, q, j, j), p, a, b)
  BY <1>4, <1>7
<1>10. /\ Fits(N, Moved(F, q, j, j, p, i), E)
       /\ Attached(Moved(F, q, j, j, p, i)) = Attached(F)
       /\ Shape(Moved(F, q, j, j, p, i), Attached(F))
       /\ Moved(F, q, j, j, p, i)[p] = Longer(Short(F, q, j, j)[p], Run(F, q, j, j), i)
  <2>1. RunMoves(L, F, E, q, j, j, M, p, a, b, i, N)
    BY <1>0, <1>3, <1>5, <1>8, <1>9 DEF RunMoves
  <2> QED BY ONLY <2>1, RunFits
<1> QED BY <1>10 DEF N, M

-----------------------------------------------------------------------------
(* Operations that add or move, as steps of OrderedForest.                 *)

\* The forest G is what the links M say, and one step of OrderedForest from F.
Becomes(F, G, M, E, K) ==
  Fits(M, G, E) /\ Attached(G) = K /\ (F = G \/ Forest!Step(F, G))

\* Only those in P have new children, and these are from X.
Gains(F, G, P, X) ==
  \A y \in Parents : ToSet(G[y]) \subseteq ToSet(F[y]) \cup (IF y \in P THEN X ELSE {})

\* With a node are its parent and its children.
Whole(F, D) == Closed(F, D) /\ \A q \in Parents : \A x \in ToSet(F[q]) : x \in D => q \in D

\* The operators of OrderedForest are those of these proofs.
LEMMA ForestNames ==
  ASSUME NEW F, NEW K, Shape(F, K)
  PROVE  /\ Forest!Holders = Parents /\ Forest!Members(F) = Attached(F)
         /\ \A q \in Parents : \A lo, hi : Forest!Shortened(F, q, lo, hi) = Short(F, q, lo, hi)
         /\ \A p \in Parents : \A xs, i : Forest!With(F, xs, p, i) = Long(F, xs, p, i)
         /\ \A gone : Forest!Emptied(F, gone) = Bare(F, gone)
         /\ DOMAIN F = Parents
<1>1. Forest!Holders = Parents
  BY DEF Forest!Holders, Parents
<1>2. Forest!Members(F) = Attached(F)
  BY <1>1 DEF Forest!Members, Attached, Forest!ToSet, ToSet
<1>3. \A q \in Parents : \A lo, hi : Forest!Shortened(F, q, lo, hi) = Short(F, q, lo, hi)
  BY DEF Forest!Shortened, Short, Shorter
<1>4. \A p \in Parents : \A xs, i : Forest!With(F, xs, p, i) = Long(F, xs, p, i)
  BY DEF Forest!With, Long, Longer
<1>5. \A gone : Forest!Emptied(F, gone) = Bare(F, gone)
  BY <1>1 DEF Forest!Emptied, Bare
<1>6. DOMAIN F = Parents
  BY ShapeIs
<1> QED BY <1>1, <1>2, <1>3, <1>4, <1>5, <1>6

\* What each kind of change makes a step of OrderedForest, unless nothing changes.
LEMMA StepIs ==
  ASSUME NEW F, NEW G,
         \/ Forest!Insert(F, G) \/ Forest!Wrap(F, G) \/ Forest!Erase(F, G) \/ Forest!Replace(F, G)
         \/ Forest!Move(F, G) \/ Forest!Exchange(F, G) \/ Forest!Overwrite(F, G)
  PROVE  F = G \/ Forest!Step(F, G)
BY DEF Forest!Step

\* A new node at a place is an Insert.
LEMMA InsertStep ==
  ASSUME NEW F, NEW K, Shape(F, K), NEW J, NEW n, NEW p \in Parents, NEW i \in 1 .. Len(F[p]) + 1,
         n \notin Attached(F), Shape(Long(F, <<n>>, p, i), J), n \in Attached(Long(F, <<n>>, p, i))
  PROVE  F = Long(F, <<n>>, p, i) \/ Forest!Step(F, Long(F, <<n>>, p, i))
<1> DEFINE G == Long(F, <<n>>, p, i)
<1>1. /\ Forest!Holders = Parents /\ Forest!Members(F) = Attached(F)
      /\ Forest!With(F, <<n>>, p, i) = G
  BY ForestNames
<1>2. Forest!Members(G) = Attached(G)
  BY ForestNames
<1> HIDE DEF G
<1>3. n \in Forest!Members(G) \ Forest!Members(F)
  BY <1>1, <1>2 DEF G
<1>4. Forest!Insert(F, G)
  BY <1>1, <1>3 DEF Forest!Insert
<1> QED BY <1>4, StepIs DEF G

\* A new node comes to a place, as a step of OrderedForest.
LEMMA AddTurns ==
  ASSUME NEW L, NEW F, NEW E, Fits(L, F, E), NEW n \in Nodes, n \notin Attached(F),
         NEW p \in Held(Attached(F), E), NEW a, NEW b, NEW i, Gap(F[p], p, a, b, i),
         NEW P, p \in P
  PROVE  \E G : /\ Becomes(F, G, PutIn([L EXCEPT ![n] = NoLinks], n, UpFrom(p), a, b), E,
                           Attached(F) \cup {n})
                /\ Gains(F, G, P, {n})
<1> DEFINE G == Long(F, <<n>>, p, i)
           M == PutIn([L EXCEPT ![n] = NoLinks], n, UpFrom(p), a, b)
<1>1. /\ Fits(M, G, E) /\ Attached(G) = Attached(F) \cup {n}
      /\ Shape(G, Attached(F) \cup {n}) /\ G[p] = Longer(F[p], <<n>>, i)
      /\ \A q \in Parents : q # p => G[q] = F[q]
  BY AddFits
<1>2. Linked(L, F, Attached(F), E) /\ Shape(F, Attached(F)) /\ p \in Parents
  <2>1. Linked(L, F, Attached(F), E)
    BY DEF Fits
  <2>2. Shape(F, Attached(F))
    BY <2>1 DEF Linked
  <2>3. p \in Parents
    BY <2>1, HeldIs
  <2> QED BY <2>1, <2>2, <2>3
<1>3. i \in 1 .. Len(F[p]) + 1
  BY DEF Gap
<1>4. F = G \/ Forest!Step(F, G)
  <2>1. n \in Attached(G)
    BY <1>1
  <2> QED BY <1>1, <1>2, <1>3, <2>1, InsertStep
<1>5. Gains(F, G, P, {n})
  <2>1. F[p] \in Seq(Nodes) /\ <<n>> \in Seq(Nodes) /\ ToSet(<<n>>) = {n}
    BY <1>2, ShapeIs, One
  <2>2. ToSet(Longer(F[p], <<n>>, i)) = ToSet(F[p]) \cup {n}
    <3> DEFINE s == F[p]
               xs == <<n>>
    <3>1. s \in Seq(Nodes) /\ xs \in Seq(Nodes) /\ i \in 1 .. Len(s) + 1
      BY <1>3, <2>1
    <3> HIDE DEF s, xs
    <3>2. ToSet(Longer(s, xs, i)) = ToSet(s) \cup ToSet(xs)
      BY <3>1, PutSeq
    <3> QED BY <2>1, <3>2 DEF s, xs
  <2> HIDE DEF G
  <2> QED BY <1>1, <2>2 DEF Gains
<1> HIDE DEF G, M
<1>6. Becomes(F, G, M, E, Attached(F) \cup {n})
  BY <1>1, <1>4 DEF Becomes
<1> QED BY <1>5, <1>6 DEF M

\* set_head: the new node is the only top.
LEMMA AddTop ==
  ASSUME NEW L, NEW F, NEW E, Fits(L, F, E), NEW n \in Nodes, n \notin Attached(F),
         NEW g \in E, L[HeadOf(g)].next = FeetOf(g), NEW P, HeadOf(g) \in P
  PROVE  \E G : /\ Becomes(F, G, PutIn([L EXCEPT ![n] = NoLinks], n, NoNode, HeadOf(g), FeetOf(g)), E,
                           Attached(F) \cup {n})
                /\ Gains(F, G, P, {n})
<1> DEFINE p == HeadOf(g)
<1>1. Linked(L, F, Attached(F), E)
  BY DEF Fits
<1>2. p \in Held(Attached(F), E) /\ g \in Graphs
  BY <1>1, HeldIs
<1>3. p < 0 /\ FeetOf(g) = p - 1 /\ UpFrom(p) = NoNode /\ LeftEnd(p) = p /\ RightEnd(p) = p - 1
  <2>1. p < 0 /\ FeetOf(g) = p - 1
    BY <1>2, ParentsAre
  <2> QED BY <2>1 DEF UpFrom, LeftEnd, RightEnd
<1> HIDE DEF p
<1>4. Gap(F[p], p, LeftEnd(p), Leftmost(L, p), 1)
  BY <1>1, <1>2, GapEnds
<1>5. Leftmost(L, p) = RightEnd(p)
  BY <1>3 DEF Leftmost, p
<1>6. Gap(F[p], p, p, p - 1, 1)
  BY <1>3, <1>4, <1>5
<1>7. \E G : /\ Becomes(F, G, PutIn([L EXCEPT ![n] = NoLinks], n, UpFrom(p), p, p - 1), E,
                        Attached(F) \cup {n})
             /\ Gains(F, G, P, {n})
  BY <1>2, <1>6, AddTurns DEF p
<1> QED BY <1>3, <1>7 DEF p

\* append_child and prepend_child of a new node.
LEMMA AddChild ==
  ASSUME NEW L, NEW F, NEW E, Fits(L, F, E), NEW n \in Nodes, n \notin Attached(F),
         NEW p \in Attached(F), NEW P, p \in P
  PROVE  /\ \E G : /\ Becomes(F, G, PutIn([L EXCEPT ![n] = NoLinks], n, p, L[p].last, NoNode), E,
                              Attached(F) \cup {n})
                   /\ Gains(F, G, P, {n})
         /\ \E G : /\ Becomes(F, G, PutIn([L EXCEPT ![n] = NoLinks], n, p, NoNode, L[p].first), E,
                              Attached(F) \cup {n})
                   /\ Gains(F, G, P, {n})
<1> DEFINE K == Attached(F)
<1>1. Linked(L, F, K, E)
  BY DEF Fits
<1>2. p \in Held(K, E)
  BY DEF Held
<1> HIDE DEF K
<1>3. /\ UpFrom(p) = p /\ Rightmost(L, p) = L[p].last /\ Leftmost(L, p) = L[p].first
      /\ LeftEnd(p) = NoNode /\ RightEnd(p) = NoNode
  <2>1. p \in K
    BY DEF K
  <2> QED BY <1>1, <1>2, <2>1, Ends
<1>4. /\ Gap(F[p], p, L[p].last, NoNode, Len(F[p]) + 1)
      /\ Gap(F[p], p, NoNode, L[p].first, 1)
  BY <1>1, <1>2, <1>3, GapEnds
<1>5. p \in Held(Attached(F), E)
  BY <1>2 DEF K
<1>6. \E G : /\ Becomes(F, G, PutIn([L EXCEPT ![n] = NoLinks], n, UpFrom(p), L[p].last, NoNode), E,
                              Attached(F) \cup {n})
             /\ Gains(F, G, P, {n})
  BY <1>4, <1>5, AddTurns
<1>7. \E G : /\ Becomes(F, G, PutIn([L EXCEPT ![n] = NoLinks], n, UpFrom(p), NoNode, L[p].first), E,
                              Attached(F) \cup {n})
             /\ Gains(F, G, P, {n})
  BY <1>4, <1>5, AddTurns
<1> QED BY <1>3, <1>6, <1>7

\* insert and insert_after of a new node.
LEMMA AddBeside ==
  ASSUME NEW L, NEW F, NEW E, Fits(L, F, E), NEW n \in Nodes, n \notin Attached(F),
         NEW x \in Attached(F), NEW P, Whole(F, P), x \in P
  PROVE  /\ \E G : /\ Becomes(F, G, PutIn([L EXCEPT ![n] = NoLinks], n, L[x].up, L[x].prev, x), E,
                              Attached(F) \cup {n})
                   /\ Gains(F, G, P, {n})
         /\ \E G : /\ Becomes(F, G, PutIn([L EXCEPT ![n] = NoLinks], n, L[x].up, x, L[x].next), E,
                              Attached(F) \cup {n})
                   /\ Gains(F, G, P, {n})
<1>1. Linked(L, F, Attached(F), E)
  BY DEF Fits
<1>2. PICK p \in Held(Attached(F), E) : \E i \in 1 .. Len(F[p]) :
              p \in Parents /\ x = F[p][i] /\ x \in ToSet(F[p]) /\ L[x].up = UpFrom(p)
  BY <1>1, Place
<1>3. PICK i \in 1 .. Len(F[p]) :
              p \in Parents /\ x = F[p][i] /\ x \in ToSet(F[p]) /\ L[x].up = UpFrom(p)
  BY <1>2
<1>4. p \in P
  BY <1>3 DEF Whole
<1>5. Gap(F[p], p, L[x].prev, x, i) /\ Gap(F[p], p, x, L[x].next, i + 1)
  BY <1>1, <1>3, GapAround
<1>6. \E G : /\ Becomes(F, G, PutIn([L EXCEPT ![n] = NoLinks], n, UpFrom(p), L[x].prev, x), E,
                              Attached(F) \cup {n})
             /\ Gains(F, G, P, {n})
  BY <1>4, <1>5, AddTurns
<1>7. \E G : /\ Becomes(F, G, PutIn([L EXCEPT ![n] = NoLinks], n, UpFrom(p), x, L[x].next), E,
                              Attached(F) \cup {n})
             /\ Gains(F, G, P, {n})
  BY <1>4, <1>5, AddTurns
<1> QED BY <1>3, <1>6, <1>7

\* A run that changes its place is a Move.
LEMMA MoveStep ==
  ASSUME NEW F, NEW K, Shape(F, K), NEW q \in Parents, NEW p \in Parents,
         NEW lo \in 1 .. Len(F[q]), NEW hi \in lo .. Len(F[q]),
         \A x \in ToSet(Run(F, q, lo, hi)) : p \notin Under(F, x),
         NEW i \in 1 .. Len(Short(F, q, lo, hi)[p]) + 1,
         NEW J, Shape(Moved(F, q, lo, hi, p, i), J),
         Attached(Moved(F, q, lo, hi, p, i)) = Attached(F)
  PROVE  F = Moved(F, q, lo, hi, p, i) \/ Forest!Step(F, Moved(F, q, lo, hi, p, i))
<1> DEFINE H == Short(F, q, lo, hi)
           xs == Run(F, q, lo, hi)
           G == Long(H, xs, p, i)
<1>1. /\ Shape(H, K) /\ xs \in Seq(K) /\ xs # <<>> /\ H[q] = Shorter(F[q], lo, hi)
      /\ \A r \in Parents : r # q => H[r] = F[r]
  BY ShapeShort
<1>2. Shape(G, J) /\ Attached(G) = Attached(F)
  BY DEF Moved
<1>3. F[q] \in Seq(Nodes) /\ F[p] \in Seq(Nodes) /\ IsInjective(F[q]) /\ Len(F[q]) \in Nat
      /\ DOMAIN F[q] = 1 .. Len(F[q]) /\ DOMAIN F = Parents /\ Nodes \subseteq Parents /\ K \subseteq Nodes
  <2>1. F[q] \in Seq(Nodes) /\ F[p] \in Seq(Nodes) /\ IsInjective(F[q]) /\ DOMAIN F = Parents
        /\ Nodes \subseteq Parents /\ K \subseteq Nodes
    BY ShapeIs
  <2>2. Len(F[q]) \in Nat /\ DOMAIN F[q] = 1 .. Len(F[q])
    BY <2>1, SetOf
  <2> QED BY <2>1, <2>2
<1>4. /\ Forest!Holders = Parents /\ Forest!Members(F) = Attached(F)
      /\ Forest!Shortened(F, q, lo, hi) = H
  BY ForestNames
<1> HIDE DEF H, xs
<1>5. Forest!With(H, xs, p, i) = G
  BY <1>1, ForestNames
<1>6. Forest!Members(G) = Attached(G) /\ DOMAIN G = Parents
  <2> HIDE DEF G
  <2> QED BY <1>2, ForestNames
<1>7. \A j \in lo .. hi : p \notin Forest!Within(F, F[q][j])
  <2> TAKE j \in lo .. hi
  <2>1. j \in 1 .. Len(F[q])
    BY <1>3
  <2>2. F[q][j] \in ToSet(xs)
    BY <1>3, TakeSeq DEF xs, Run
  <2>3. F[q][j] \in Nodes
    BY <1>3, <2>1
  <2>4. Forest!Within(F, F[q][j]) = Under(F, F[q][j])
    BY <2>3, ForestWithinIs
  <2> QED BY <2>2, <2>4 DEF xs
<1>8. G[p] = F[p] => F = G
  <2> SUFFICES ASSUME G[p] = F[p] PROVE F = G
    OBVIOUS
  <2>1. H[p] \in Seq(Nodes) /\ xs \in Seq(Nodes) /\ i \in 1 .. Len(H[p]) + 1 /\ DOMAIN H = Parents
    <3>1. H[p] \in Seq(Nodes) /\ DOMAIN H = Parents
      BY <1>1, ShapeIs
    <3>2. xs \in Seq(Nodes)
      BY <1>1, <1>3
    <3> QED BY <3>1, <3>2 DEF H
  <2>2. G[p] = Longer(H[p], xs, i) /\ \A r \in Parents : r # p => G[r] = H[r]
    BY <2>1 DEF Long
  <2> HIDE DEF G
  <2>3. Len(G[p]) = Len(H[p]) + Len(xs)
    BY <2>1, <2>2, PutSeq
  <2>4. Len(xs) # 0 /\ Len(xs) \in Nat /\ Len(H[p]) \in Nat
    BY <1>1, <2>1, SetOf
  <2>5. p = q
    <3> SUFFICES ASSUME p # q PROVE FALSE
      OBVIOUS
    <3>1. H[p] = F[p]
      BY <1>1
    <3> QED BY <2>3, <2>4, <3>1
  <2>6. \A r \in Parents : G[r] = F[r]
    BY <1>1, <2>2, <2>5
  <2>7. G \in [Parents -> Seq(J)] /\ F \in [Parents -> Seq(K)]
    BY <1>2 DEF Shape
  <2> QED BY <2>6, <2>7
<1>9. G[p] # F[p] => Forest!Move(F, G)
  <2> SUFFICES ASSUME G[p] # F[p] PROVE Forest!Move(F, G)
    OBVIOUS
  <2>1. xs = SubSeq(F[q], lo, hi)
    BY DEF xs, Run
  <2>2. i \in 1 .. Len(H[p]) + 1
    BY DEF H
  <2> HIDE DEF G
  <2> QED BY <1>2, <1>3, <1>4, <1>5, <1>6, <1>7, <2>1, <2>2 DEF Forest!Move
<1>10. F = G \/ Forest!Step(F, G)
  <2> HIDE DEF G
  <2> QED BY <1>8, <1>9, StepIs
<1> QED BY <1>10 DEF H, xs, Moved

\* A run moves to another place.
LEMMA RunTurns ==
  ASSUME NEW L, NEW F, NEW E, Fits(L, F, E), NEW q \in Held(Attached(F), E),
         NEW lo \in 1 .. Len(F[q]), NEW hi \in lo .. Len(F[q]),
         NEW M, Joined(L, M, q, At(F[q], q, lo - 1), At(F[q], q, hi + 1)),
         NEW p \in Held(Attached(F), E),
         \A x \in ToSet(Run(F, q, lo, hi)) : p \notin Under(F, x),
         NEW a, NEW b, NEW i, Gap(Short(F, q, lo, hi)[p], p, a, b, i),
         NEW N, RunJoined(M, N, Run(F, q, lo, hi), p, a, b),
         NEW P, p \in P, NEW X, ToSet(Run(F, q, lo, hi)) \subseteq X
  PROVE  \E G : Becomes(F, G, N, E, Attached(F)) /\ Gains(F, G, P, X)
<1>0. /\ Fits(N, Moved(F, q, lo, hi, p, i), E)
      /\ Attached(Moved(F, q, lo, hi, p, i)) = Attached(F)
      /\ Shape(Moved(F, q, lo, hi, p, i), Attached(F))
      /\ Moved(F, q, lo, hi, p, i)[p] = Longer(Short(F, q, lo, hi)[p], Run(F, q, lo, hi), i)
  <2>1. RunMoves(L, F, E, q, lo, hi, M, p, a, b, i, N)
    BY DEF RunMoves
  <2> QED BY ONLY <2>1, RunFits
<1> DEFINE H == Short(F, q, lo, hi)
           xs == Run(F, q, lo, hi)
           G == Moved(F, q, lo, hi, p, i)
           K == Attached(F)
<1>1. Fits(N, G, E) /\ Attached(G) = K /\ Shape(G, K) /\ G[p] = Longer(H[p], xs, i)
  BY <1>0
<1>2. Linked(L, F, K, E) /\ Shape(F, K)
  BY DEF Fits, Linked
<1>3. p \in Parents /\ q \in Parents
  BY <1>2, HeldIs
<1>4. i \in 1 .. Len(H[p]) + 1
  BY DEF Gap
<1>5. F = G \/ Forest!Step(F, G)
  BY <1>1, <1>2, <1>3, <1>4, MoveStep
<1>6. /\ Shape(H, K) /\ xs \in Seq(K)
      /\ \A r \in Parents : ToSet(H[r]) \subseteq ToSet(F[r])
  <2> HIDE DEF K
  <2> QED BY <1>2, <1>3, ShapeShort
<1>7. \A r \in Parents : r # p => G[r] = H[r]
  <2>1. DOMAIN H = Parents
    BY <1>6, ShapeIs
  <2> QED BY <2>1 DEF Moved, Long
<1> HIDE DEF G
<1>8. Gains(F, G, P, X)
  <2> HIDE DEF H, xs
  <2>1. H[p] \in Seq(Nodes) /\ xs \in Seq(Nodes)
    <3>1. H[p] \in Seq(Nodes) /\ K \subseteq Nodes
      BY <1>3, <1>6, ShapeIs
    <3> QED BY <1>6, <3>1
  <2>2. ToSet(G[p]) = ToSet(H[p]) \cup ToSet(xs)
    <3> DEFINE s == H[p]
    <3>1. s \in Seq(Nodes) /\ i \in 1 .. Len(s) + 1
      BY <1>4, <2>1
    <3> HIDE DEF s
    <3>2. ToSet(Longer(s, xs, i)) = ToSet(s) \cup ToSet(xs)
      <4>1. PutsIn(Nodes, s, xs, i)
        BY <2>1, <3>1 DEF PutsIn
      <4> QED BY ONLY <4>1, PutIs
    <3> QED BY <1>1, <3>2 DEF s
  <2>3. ToSet(xs) \subseteq X
    BY DEF xs
  <2> QED BY <1>6, <1>7, <2>2, <2>3 DEF Gains
<1>9. Becomes(F, G, N, E, K)
  BY <1>1, <1>5 DEF Becomes
<1> QED BY <1>8, <1>9

\* One node moves to another place.
LEMMA MoveTurns ==
  ASSUME NEW L, NEW F, NEW E, Fits(L, F, E), NEW q \in Held(Attached(F), E),
         NEW j \in 1 .. Len(F[q]), NEW p \in Held(Attached(F), E), p \notin Under(F, F[q][j]),
         NEW a, NEW b, NEW i, Gap(Short(F, q, j, j)[p], p, a, b, i),
         NEW P, p \in P, NEW X, F[q][j] \in X
  PROVE  \E G : /\ Becomes(F, G, PutIn(TakenOut(L, F[q][j]), F[q][j], UpFrom(p), a, b), E, Attached(F))
                /\ Gains(F, G, P, X)
<1>0. /\ Fits(PutIn(TakenOut(L, F[q][j]), F[q][j], UpFrom(p), a, b), Moved(F, q, j, j, p, i), E)
      /\ Attached(Moved(F, q, j, j, p, i)) = Attached(F)
      /\ Shape(Moved(F, q, j, j, p, i), Attached(F))
      /\ Moved(F, q, j, j, p, i)[p] = Longer(Short(F, q, j, j)[p], Run(F, q, j, j), i)
  <2>1. NodeMoves(L, F, E, q, j, p, a, b, i)
    BY DEF NodeMoves
  <2> QED BY ONLY <2>1, MoveFits
<1> DEFINE H == Short(F, q, j, j)
           xs == Run(F, q, j, j)
           G == Moved(F, q, j, j, p, i)
           K == Attached(F)
           n == F[q][j]
           N == PutIn(TakenOut(L, n), n, UpFrom(p), a, b)
<1>1. Fits(N, G, E) /\ Attached(G) = K /\ Shape(G, K) /\ G[p] = Longer(H[p], xs, i)
  BY <1>0
<1>2. Linked(L, F, K, E) /\ Shape(F, K)
  BY DEF Fits, Linked
<1>3. p \in Parents /\ q \in Parents
  BY <1>2, HeldIs
<1>4. i \in 1 .. Len(H[p]) + 1 /\ j \in j .. Len(F[q])
  <2>1. Len(F[q]) \in Nat
    BY <1>2, Ends
  <2> QED BY <2>1 DEF Gap
<1>5. xs = <<n>> /\ ToSet(xs) = {n} /\ n \in Nodes
  <2>1. F[q] \in Seq(Nodes) /\ IsInjective(F[q]) /\ n \in Nodes
    <3>1. F[q] \in Seq(Nodes) /\ IsInjective(F[q])
      BY <1>2, <1>3, ShapeIs
    <3>2. n \in Nodes
      BY <3>1, SetOf
    <3> QED BY <3>1, <3>2
  <2>2. xs = <<n>>
    BY <2>1, OneOf DEF Run
  <2> HIDE DEF xs, n
  <2> QED BY <2>1, <2>2, One
<1>6. \A x \in ToSet(xs) : p \notin Under(F, x)
  BY <1>5
<1>7. F = G \/ Forest!Step(F, G)
  BY <1>1, <1>2, <1>3, <1>4, <1>6, MoveStep
<1>8. /\ Shape(H, K) /\ xs \in Seq(K)
      /\ \A r \in Parents : ToSet(H[r]) \subseteq ToSet(F[r])
  <2> HIDE DEF K
  <2> QED BY <1>2, <1>3, <1>4, ShapeShort
<1>9. \A r \in Parents : r # p => G[r] = H[r]
  <2>1. DOMAIN H = Parents
    BY <1>8, ShapeIs
  <2> QED BY <2>1 DEF Moved, Long
<1> HIDE DEF G, N
<1>10. Gains(F, G, P, X)
  <2>3. ToSet(xs) \subseteq X
    BY <1>5
  <2> HIDE DEF H, xs
  <2>1. H[p] \in Seq(Nodes) /\ xs \in Seq(Nodes)
    <3>1. H[p] \in Seq(Nodes) /\ K \subseteq Nodes
      BY <1>3, <1>8, ShapeIs
    <3> QED BY <1>8, <3>1
  <2>2. ToSet(G[p]) = ToSet(H[p]) \cup ToSet(xs)
    <3> DEFINE s == H[p]
    <3>1. s \in Seq(Nodes) /\ i \in 1 .. Len(s) + 1
      BY <1>4, <2>1
    <3> HIDE DEF s
    <3>2. ToSet(Longer(s, xs, i)) = ToSet(s) \cup ToSet(xs)
      BY <2>1, <3>1, PutSeq
    <3> QED BY <1>1, <3>2 DEF s
  <2> QED BY <1>8, <1>9, <2>2, <2>3 DEF Gains
<1>11. Becomes(F, G, N, E, K)
  BY <1>1, <1>7 DEF Becomes
<1> QED BY <1>10, <1>11 DEF N

\* One node is taken out.
LEMMA TakeOne ==
  ASSUME NEW L, NEW F, NEW K, NEW E, Linked(L, F, K, E), NEW q \in Held(K, E), NEW j \in 1 .. Len(F[q])
  PROVE  /\ Linked(TakenOut(L, F[q][j]), Short(F, q, j, j), K, E)
         /\ Attached(Short(F, q, j, j)) = Attached(F) \ {F[q][j]}
         /\ F[q][j] \in K
         /\ Joined(L, TakenOut(L, F[q][j]), q, At(F[q], q, j - 1), At(F[q], q, j + 1))
         /\ \A r \in Parents : ToSet(Short(F, q, j, j)[r]) \subseteq ToSet(F[r])
         /\ \A r \in Parents : r # q => Short(F, q, j, j)[r] = F[r]
         /\ Short(F, q, j, j)[q] = Shorter(F[q], j, j)
         /\ TakenOut(L, F[q][j]) \in Table
<1> DEFINE n == F[q][j]
           M == TakenOut(L, n)
<1>1. Shape(F, K) /\ L \in Table
  BY DEF Linked
<1>2. q \in Parents
  BY HeldIs
<1>3. /\ F[q] \in Seq(Nodes) /\ IsInjective(F[q]) /\ j \in j .. Len(F[q]) /\ n \in ToSet(F[q])
      /\ n \in Nodes /\ n \in K /\ Len(F[q]) \in Nat
  <2>1. /\ F[q] \in Seq(Nodes) /\ IsInjective(F[q]) /\ n \in ToSet(F[q]) /\ ToSet(F[q]) \subseteq Nodes
        /\ ToSet(F[q]) \subseteq K
    BY <1>1, <1>2, ShapeIs
  <2>2. Len(F[q]) \in Nat
    BY <2>1, SetOf
  <2> QED BY <2>1, <2>2
<1>4. Run(F, q, j, j) = <<n>> /\ ToSet(<<n>>) = {n}
  <2>1. Run(F, q, j, j) = <<n>>
    BY <1>3, OneOf DEF Run
  <2>2. ToSet(<<n>>) = {n}
    BY <1>3, One
  <2> QED BY <2>1, <2>2
<1>5. Joined(L, M, q, At(F[q], q, j - 1), At(F[q], q, j + 1))
  <2>1. Sibs(L, q, F[q])
    BY DEF Linked
  <2>2. /\ L[n].up = UpFrom(q) /\ L[n].prev = At(F[q], q, j - 1) /\ L[n].next = At(F[q], q, j + 1)
    BY <1>3, <2>1 DEF Sibs
  <2>3. At(F[q], q, j - 1) \in Nodes \cup {LeftEnd(q)} /\ At(F[q], q, j + 1) \in Nodes \cup {RightEnd(q)}
    <3>1. /\ Gap(F[q], q, L[n].prev, n, j) /\ Gap(F[q], q, n, L[n].next, j + 1)
      BY GapAround
    <3>2. L[n].prev \in Nodes \cup {LeftEnd(q)}
      BY <1>2, <1>3, <3>1, GapIs
    <3>3. L[n].next \in Nodes \cup {RightEnd(q)}
      BY <1>2, <1>3, <3>1, GapIs
    <3> QED BY <2>2, <3>2, <3>3
  <2> QED BY <1>1, <1>2, <2>2, <2>3, JoinReads DEF TakenOut
<1> HIDE DEF M, n
<1>6. Linked(M, Short(F, q, j, j), K, E)
  BY <1>3, <1>5, TakeRun
<1>7. /\ Attached(Short(F, q, j, j)) = Attached(F) \ ToSet(Run(F, q, j, j))
      /\ \A r \in Parents : ToSet(Short(F, q, j, j)[r]) \subseteq ToSet(F[r])
      /\ \A r \in Parents : r # q => Short(F, q, j, j)[r] = F[r]
      /\ Short(F, q, j, j)[q] = Shorter(F[q], j, j)
  <2>1. Shape(F, K) /\ q \in Parents /\ j \in 1 .. Len(F[q]) /\ j \in j .. Len(F[q])
    BY <1>1, <1>2, <1>3
  <2>2. Attached(Short(F, q, j, j)) = Attached(F) \ ToSet(Run(F, q, j, j))
    BY ONLY <2>1, ShapeShort
  <2>3. \A r \in Parents : ToSet(Short(F, q, j, j)[r]) \subseteq ToSet(F[r])
    BY ONLY <2>1, ShapeShort
  <2>4. \A r \in Parents : r # q => Short(F, q, j, j)[r] = F[r]
    BY ONLY <2>1, ShapeShort
  <2>5. Short(F, q, j, j)[q] = Shorter(F[q], j, j)
    BY ONLY <2>1, ShapeShort
  <2> QED BY <2>2, <2>3, <2>4, <2>5
<1>8. M \in Table
  BY <1>5 DEF Joined
<1>9. Attached(Short(F, q, j, j)) = Attached(F) \ {n} /\ n \in K
  BY <1>3, <1>4, <1>7
<1>10. n = F[q][j] /\ M = TakenOut(L, n)
  BY DEF M, n
<1> QED BY <1>5, <1>6, <1>7, <1>8, <1>9, <1>10

\* move_before and move_after.
LEMMA MoveBeside ==
  ASSUME NEW L, NEW F, NEW E, Fits(L, F, E), NEW src \in Attached(F), NEW dst \in Attached(F),
         dst \notin Under(F, src), NEW P, Whole(F, P), dst \in P, NEW X, src \in X,
         NEW T, T = TakenOut(L, src)
  PROVE  /\ \E G : /\ Becomes(F, G, PutIn(T, src, T[dst].up, dst, T[dst].next), E, Attached(F))
                   /\ Gains(F, G, P, X)
         /\ \E G : /\ Becomes(F, G, PutIn(T, src, T[dst].up, T[dst].prev, dst), E, Attached(F))
                   /\ Gains(F, G, P, X)
<1>1. Linked(L, F, Attached(F), E) /\ Shape(F, Attached(F))
  BY DEF Fits, Linked
<1>2. PICK q \in Held(Attached(F), E) : \E j \in 1 .. Len(F[q]) : src = F[q][j]
  BY <1>1, Place
<1>3. PICK j \in 1 .. Len(F[q]) : src = F[q][j]
  BY <1>2
<1> DEFINE H == Short(F, q, j, j)
<1>4. /\ Linked(T, H, Attached(F), E) /\ Attached(H) = Attached(F) \ {src}
      /\ \A r \in Parents : ToSet(H[r]) \subseteq ToSet(F[r])
  <2>1. /\ Linked(TakenOut(L, F[q][j]), Short(F, q, j, j), Attached(F), E)
        /\ Attached(Short(F, q, j, j)) = Attached(F) \ {F[q][j]}
        /\ \A r \in Parents : ToSet(Short(F, q, j, j)[r]) \subseteq ToSet(F[r])
    <3> HIDE DEF H
    <3>1. Linked(L, F, Attached(F), E) /\ q \in Held(Attached(F), E) /\ j \in 1 .. Len(F[q])
      BY <1>1
    <3>2. Linked(TakenOut(L, F[q][j]), Short(F, q, j, j), Attached(F), E)
      BY ONLY <3>1, TakeOne
    <3>3. Attached(Short(F, q, j, j)) = Attached(F) \ {F[q][j]}
      BY ONLY <3>1, TakeOne
    <3>4. \A r \in Parents : ToSet(Short(F, q, j, j)[r]) \subseteq ToSet(F[r])
      BY ONLY <3>1, TakeOne
    <3> QED BY <3>2, <3>3, <3>4
  <2> QED BY <1>3, <2>1
<1>5. \A p \in Parents : ToSet(F[p]) \subseteq Parents
  BY <1>1, ShapeIs
<1>6. src \in Parents /\ src \in Under(F, src) /\ Closed(F, Under(F, src))
  <2>1. src \in Parents
    BY <1>1, ShapeIs
  <2> QED BY <1>5, <2>1, UnderIs
<1>7. dst \in Attached(H)
  BY <1>4, <1>6
<1> HIDE DEF H
<1>8. PICK p \in Held(Attached(F), E) : \E i \in 1 .. Len(H[p]) :
           p \in Parents /\ dst = H[p][i] /\ dst \in ToSet(H[p]) /\ T[dst].up = UpFrom(p)
  BY <1>4, <1>7, Place
<1>9. PICK i \in 1 .. Len(H[p]) :
           p \in Parents /\ dst = H[p][i] /\ dst \in ToSet(H[p]) /\ T[dst].up = UpFrom(p)
  BY <1>8
<1>10. p \in P /\ p \notin Under(F, src)
  <2>1. dst \in ToSet(F[p])
    BY <1>4, <1>9
  <2>2. p \in P
    BY <1>9, <2>1 DEF Whole
  <2>3. p \notin Under(F, src)
    BY <1>6, <1>9, <2>1 DEF Closed
  <2> QED BY <2>2, <2>3
<1>11. Gap(H[p], p, T[dst].prev, dst, i) /\ Gap(H[p], p, dst, T[dst].next, i + 1)
  BY <1>4, <1>9, GapAround
<1>12. \A a, b, k : Gap(H[p], p, a, b, k) =>
         \E G : Becomes(F, G, PutIn(T, src, UpFrom(p), a, b), E, Attached(F)) /\ Gains(F, G, P, X)
  <2> SUFFICES ASSUME NEW a, NEW b, NEW k, Gap(Short(F, q, j, j)[p], p, a, b, k)
               PROVE  \E G : /\ Becomes(F, G, PutIn(T, src, UpFrom(p), a, b), E, Attached(F))
                             /\ Gains(F, G, P, X)
    BY DEF H
  <2>1. p \notin Under(F, F[q][j]) /\ F[q][j] \in X
    BY <1>3, <1>10
  <2>2. \E G : /\ Becomes(F, G, PutIn(TakenOut(L, F[q][j]), F[q][j], UpFrom(p), a, b), E, Attached(F))
               /\ Gains(F, G, P, X)
    BY <1>10, <2>1, MoveTurns
  <2> QED BY <1>3, <2>2
<1> QED BY <1>9, <1>11, <1>12

\* A node becomes the first or the last child of p.
LEMMA MoveUnder ==
  ASSUME NEW L, NEW F, NEW E, Fits(L, F, E), NEW src \in Attached(F), NEW p \in Attached(F),
         p \notin Under(F, src), NEW P, p \in P, NEW X, src \in X,
         NEW T, T = TakenOut(L, src)
  PROVE  /\ L[p].last # src =>
              \E G : /\ Becomes(F, G, PutIn(T, src, p, L[p].last, NoNode), E, Attached(F))
                     /\ Gains(F, G, P, X)
         /\ L[p].first # src =>
              \E G : /\ Becomes(F, G, PutIn(T, src, p, NoNode, L[p].first), E, Attached(F))
                     /\ Gains(F, G, P, X)
<1>1. Linked(L, F, Attached(F), E) /\ Shape(F, Attached(F))
  BY DEF Fits, Linked
<1>2. PICK q \in Held(Attached(F), E) : \E j \in 1 .. Len(F[q]) : src = F[q][j]
  BY <1>1, Place
<1>3. PICK j \in 1 .. Len(F[q]) : src = F[q][j]
  BY <1>2
<1> DEFINE H == Short(F, q, j, j)
<1>4. /\ \A r \in Parents : r # q => H[r] = F[r]
      /\ H[q] = Shorter(F[q], j, j)
  BY <1>1, <1>3, TakeOne
<1>5. p \in Held(Attached(F), E) /\ p \in Parents /\ q \in Parents /\ src \in Nodes /\ 0 \notin Nodes
  BY <1>1, HeldIs, ShapeIs, ParentsAre DEF Held
<1>6. /\ UpFrom(p) = p /\ Rightmost(L, p) = L[p].last /\ Leftmost(L, p) = L[p].first
      /\ LeftEnd(p) = NoNode /\ RightEnd(p) = NoNode
  BY <1>1, <1>5, Ends
<1>7. /\ Gap(F[p], p, L[p].last, NoNode, Len(F[p]) + 1)
      /\ Gap(F[p], p, NoNode, L[p].first, 1)
  BY <1>1, <1>5, <1>6, GapEnds
<1>8. \A a, b, k : Gap(H[p], p, a, b, k) =>
         \E G : Becomes(F, G, PutIn(T, src, UpFrom(p), a, b), E, Attached(F)) /\ Gains(F, G, P, X)
  <2> SUFFICES ASSUME NEW a, NEW b, NEW k, Gap(Short(F, q, j, j)[p], p, a, b, k)
               PROVE  \E G : /\ Becomes(F, G, PutIn(T, src, UpFrom(p), a, b), E, Attached(F))
                             /\ Gains(F, G, P, X)
    OBVIOUS
  <2>1. p \notin Under(F, F[q][j]) /\ F[q][j] \in X
    BY <1>3
  <2>2. \E G : /\ Becomes(F, G, PutIn(TakenOut(L, F[q][j]), F[q][j], UpFrom(p), a, b), E, Attached(F))
               /\ Gains(F, G, P, X)
    BY <1>5, <2>1, MoveTurns
  <2> QED BY <1>3, <2>2
<1>9. \A a, b, i : Gap(F[p], p, a, b, i) /\ a # src /\ b # src => \E k : Gap(H[p], p, a, b, k)
  <2> SUFFICES ASSUME NEW a, NEW b, NEW i, Gap(F[p], p, a, b, i), a # src, b # src
               PROVE  \E k : Gap(H[p], p, a, b, k)
    OBVIOUS
  <2>1. CASE p # q
    BY <1>4, <1>5, <2>1
  <2>2. CASE p = q
    <3> HIDE DEF H
    <3>1. F[q] \in Seq(Nodes) /\ IsInjective(F[q])
      BY <1>1, <1>5, ShapeIs
    <3>2. Gap(F[q], q, a, b, i) /\ F[q][j] # a /\ F[q][j] # b
      BY <1>3, <2>2
    <3>3. \E k : Gap(Shorter(F[q], j, j), q, a, b, k)
      BY <1>5, <3>1, <3>2, GapTaken
    <3> QED BY <1>4, <2>2, <3>3
  <2> QED BY <2>1, <2>2
<1> HIDE DEF H
<1>10. NoNode # src
  BY <1>5, ParentsAre
<1>11. ASSUME L[p].last # src
       PROVE  \E G : /\ Becomes(F, G, PutIn(T, src, p, L[p].last, NoNode), E, Attached(F))
                     /\ Gains(F, G, P, X)
  <2>1. \E k : Gap(H[p], p, L[p].last, NoNode, k)
    BY <1>7, <1>9, <1>10, <1>11
  <2> QED BY <1>6, <1>8, <2>1
<1>12. ASSUME L[p].first # src
       PROVE  \E G : /\ Becomes(F, G, PutIn(T, src, p, NoNode, L[p].first), E, Attached(F))
                     /\ Gains(F, G, P, X)
  <2>1. \E k : Gap(H[p], p, NoNode, L[p].first, k)
    BY <1>7, <1>9, <1>10, <1>12
  <2> QED BY <1>6, <1>8, <2>1
<1> QED BY <1>11, <1>12

\* All siblings are a run.
LEMMA WholeRun ==
  ASSUME NEW s \in Seq(Nodes), s # <<>>
  PROVE  /\ SubSeq(s, 1, Len(s)) = s /\ 1 \in 1 .. Len(s) /\ Len(s) \in 1 .. Len(s)
         /\ \A p : At(s, p, 0) = LeftEnd(p) /\ At(s, p, Len(s) + 1) = RightEnd(p)
<1>1. Len(s) \in Nat /\ Len(s) # 0
  BY SetOf
<1>2. SubSeq(s, 1, Len(s)) = s
  BY <1>1
<1>3. \A p : At(s, p, 0) = LeftEnd(p) /\ At(s, p, Len(s) + 1) = RightEnd(p)
  <2>1. Len(s) + 1 # 0
    BY <1>1
  <2> QED BY <2>1 DEF At
<1> QED BY <1>1, <1>2, <1>3

\* All children of q are taken out.
LEMMA TakeAll ==
  ASSUME NEW L, NEW F, NEW K, NEW E, Linked(L, F, K, E), NEW q \in Held(K, E), F[q] # <<>>,
         NEW M, Joined(L, M, q, LeftEnd(q), RightEnd(q))
  PROVE  /\ Joined(L, M, q, At(F[q], q, 1 - 1), At(F[q], q, Len(F[q]) + 1))
         /\ 1 \in 1 .. Len(F[q]) /\ Len(F[q]) \in 1 .. Len(F[q])
         /\ Run(F, q, 1, Len(F[q])) = F[q]
         /\ Linked(M, Short(F, q, 1, Len(F[q])), K, E)
         /\ Attached(Short(F, q, 1, Len(F[q]))) = Attached(F) \ ToSet(F[q])
         /\ \A r \in Parents : r # q => Short(F, q, 1, Len(F[q]))[r] = F[r]
         /\ Short(F, q, 1, Len(F[q]))[q] = <<>>
         /\ Shape(Short(F, q, 1, Len(F[q])), K)
<1> DEFINE s == F[q]
           m == Len(F[q])
<1>1. Shape(F, K) /\ q \in Parents
  <2>1. Shape(F, K)
    BY DEF Linked
  <2>2. q \in Parents
    BY HeldIs
  <2> QED BY <2>1, <2>2
<1>2. s \in Seq(Nodes) /\ m \in Nat /\ m # 0
  <2>1. s \in Seq(Nodes)
    BY <1>1, ShapeIs
  <2>2. m \in Nat /\ m # 0
    BY <2>1, SetOf
  <2> QED BY <2>1, <2>2
<1>3. /\ SubSeq(s, 1, m) = s /\ 1 \in 1 .. m /\ m \in 1 .. m
      /\ At(s, q, 0) = LeftEnd(q) /\ At(s, q, m + 1) = RightEnd(q)
  BY <1>2, WholeRun
<1>4. Joined(L, M, q, At(s, q, 1 - 1), At(s, q, m + 1))
  <2>1. 1 - 1 = 0
    OBVIOUS
  <2> QED BY <1>3, <2>1
<1>5. Run(F, q, 1, m) = s
  BY <1>3 DEF Run
<1> HIDE DEF m
<1>6. Linked(M, Short(F, q, 1, m), K, E)
  <2>1. Linked(L, F, K, E) /\ q \in Held(K, E) /\ 1 \in 1 .. Len(F[q]) /\ m \in 1 .. Len(F[q])
        /\ Joined(L, M, q, At(F[q], q, 1 - 1), At(F[q], q, m + 1))
    BY <1>3, <1>4 DEF m
  <2> QED BY ONLY <2>1, TakeRun
<1>7. Shape(F, K) /\ q \in Parents /\ 1 \in 1 .. Len(F[q]) /\ m \in 1 .. Len(F[q])
  BY <1>1, <1>3 DEF m
<1>8. Attached(Short(F, q, 1, m)) = Attached(F) \ ToSet(Run(F, q, 1, m))
  BY ONLY <1>7, ShapeShort
<1>9. \A r \in Parents : r # q => Short(F, q, 1, m)[r] = F[r]
  BY ONLY <1>7, ShapeShort
<1>10. Short(F, q, 1, m)[q] = <<>>
  <2>1. Short(F, q, 1, m)[q] = Shorter(F[q], 1, m)
    BY ONLY <1>7, ShapeShort
  <2>2. IsInjective(s)
    BY <1>1, ShapeIs
  <2>3. Shorter(s, 1, m) \in Seq(Nodes) /\ Len(Shorter(s, 1, m)) = Len(s) - (m - 1 + 1)
    <3>1. s \in Seq(Nodes) /\ IsInjective(s) /\ 1 \in 1 .. Len(s) /\ m \in 1 .. Len(s)
      BY <1>2, <1>7, <2>2
    <3> HIDE DEF s
    <3>2. Shorter(s, 1, m) \in Seq(Nodes)
      BY ONLY <3>1, TakeSeq
    <3>3. Len(Shorter(s, 1, m)) = Len(s) - (m - 1 + 1)
      BY ONLY <3>1, TakeSeq
    <3> QED BY <3>2, <3>3
  <2>4. Len(s) - (m - 1 + 1) = 0
    BY <1>2 DEF m
  <2>5. Shorter(s, 1, m) = <<>>
    <3> HIDE DEF s
    <3> QED BY <2>3, <2>4, EmptySeq
  <2> QED BY <2>1, <2>5
<1>11. Shape(Short(F, q, 1, m), K)
  BY ONLY <1>7, ShapeShort
<1>12. Attached(Short(F, q, 1, m)) = Attached(F) \ ToSet(F[q])
  BY <1>5, <1>8
<1>13. m = Len(F[q])
  BY DEF m
<1> QED BY <1>3, <1>4, <1>5, <1>6, <1>9, <1>10, <1>11, <1>12, <1>13

\* All children of q move to another place.
LEMMA AllTurns ==
  ASSUME NEW L, NEW F, NEW E, Fits(L, F, E), NEW q \in Held(Attached(F), E), F[q] # <<>>,
         NEW M, Joined(L, M, q, LeftEnd(q), RightEnd(q)), NEW p \in Held(Attached(F), E),
         \A x \in ToSet(F[q]) : p \notin Under(F, x),
         NEW a, NEW b, NEW i, Gap(Short(F, q, 1, Len(F[q]))[p], p, a, b, i),
         NEW P, p \in P, NEW X, ToSet(F[q]) \subseteq X
  PROVE  \E G : Becomes(F, G, RunIn(M, F[q], UpFrom(p), a, b), E, Attached(F)) /\ Gains(F, G, P, X)
<1> DEFINE K == Attached(F)
           m == Len(F[q])
           xs == F[q]
           H == Short(F, q, 1, m)
           N == RunIn(M, xs, UpFrom(p), a, b)
<1>1. Linked(L, F, K, E) /\ Shape(F, K) /\ q \in Held(K, E)
  BY DEF Fits, Linked
<1>2. p \in Parents /\ q \in Parents
  <2>1. p \in Held(K, E)
    OBVIOUS
  <2> HIDE DEF K
  <2> QED BY <1>1, <2>1, HeldIs
<1> HIDE DEF K
<1>3. Joined(L, M, q, At(F[q], q, 1 - 1), At(F[q], q, m + 1))
  BY ONLY <1>1, F[q] # <<>>, Joined(L, M, q, LeftEnd(q), RightEnd(q)), TakeAll
<1>4. 1 \in 1 .. m /\ m \in 1 .. m /\ Run(F, q, 1, m) = F[q]
  BY ONLY <1>1, F[q] # <<>>, Joined(L, M, q, LeftEnd(q), RightEnd(q)), TakeAll
<1>5. Attached(H) = Attached(F) \ ToSet(F[q]) /\ Shape(H, K)
  BY ONLY <1>1, F[q] # <<>>, Joined(L, M, q, LeftEnd(q), RightEnd(q)), TakeAll
<1>6. xs \in Seq(Nodes) /\ xs # <<>> /\ M \in Table
  BY <1>1, <1>2, ShapeIs DEF Joined
<1>7. RunJoined(M, N, xs, p, a, b)
  <2>1. H[p] \in Seq(Nodes) /\ ToSet(H[p]) \subseteq Attached(H)
    <3> HIDE DEF H
    <3> QED BY <1>2, <1>5, ShapeIs DEF Attached
  <2>2. Gap(H[p], p, a, b, i)
    OBVIOUS
  <2> HIDE DEF H, xs
  <2>3. /\ a \in Nodes \cup {LeftEnd(p)} /\ b \in Nodes \cup {RightEnd(p)}
        /\ a \in Nodes => a \in ToSet(H[p])
        /\ b \in Nodes => b \in ToSet(H[p])
    BY <1>2, <2>1, <2>2, GapIs
  <2>4. ToSet(xs) \subseteq Nodes
    BY <1>6, SetOf
  <2>5. a \notin ToSet(xs) /\ b \notin ToSet(xs)
    BY <1>5, <2>1, <2>3, <2>4 DEF xs
  <2> QED BY <1>2, <1>6, <2>3, <2>5, RunInReads
<1> HIDE DEF N
<1>8. \E G : Becomes(F, G, N, E, Attached(F)) /\ Gains(F, G, P, X)
  <2>1. /\ Fits(L, F, E) /\ q \in Held(Attached(F), E) /\ p \in Held(Attached(F), E)
        /\ 1 \in 1 .. Len(F[q]) /\ m \in 1 .. Len(F[q])
        /\ Joined(L, M, q, At(F[q], q, 1 - 1), At(F[q], q, m + 1))
        /\ \A x \in ToSet(Run(F, q, 1, m)) : p \notin Under(F, x)
        /\ Gap(Short(F, q, 1, m)[p], p, a, b, i)
        /\ RunJoined(M, N, Run(F, q, 1, m), p, a, b)
        /\ p \in P /\ ToSet(Run(F, q, 1, m)) \subseteq X
    BY <1>3, <1>4, <1>7
  <2> HIDE DEF m
  <2> QED BY ONLY <2>1, RunTurns
<1> QED BY <1>8 DEF N

\* The children of q are forgotten by q.
LEMMA ChildrenForgotten ==
  ASSUME NEW L \in Table, NEW q \in Nodes
  PROVE  Joined(L, [L EXCEPT ![q].first = NoNode, ![q].last = NoNode], q, LeftEnd(q), RightEnd(q))
<1> DEFINE M == [L EXCEPT ![q].first = NoNode, ![q].last = NoNode]
<1>1. LeftEnd(q) = NoNode /\ RightEnd(q) = NoNode /\ NoNode = 0 /\ q \in Linkable /\ q \in Nat /\ q > 0
  BY ParentsAre DEF LeftEnd, RightEnd
<1>2. \A y \in Linkable : L[y] \in [up : Int, first : Int, last : Int, prev : Int, next : Int]
  BY DEF Table
<1>3. /\ M \in Table
      /\ M[q] = [L[q] EXCEPT !.first = 0, !.last = 0]
      /\ \A y \in Linkable : y # q => M[y] = L[y]
  <2> DEFINE N == [L EXCEPT ![q].first = NoNode]
             R == [up : Int, first : Int, last : Int, prev : Int, next : Int]
  <2>1. L \in [Linkable -> R] /\ L[q] \in R
    BY <1>1 DEF Table
  <2>2. /\ N \in [Linkable -> R] /\ N[q] = [L[q] EXCEPT !.first = 0]
        /\ \A y \in Linkable : y # q => N[y] = L[y]
    <3>1. [L[q] EXCEPT !.first = 0] \in R
      BY <2>1
    <3> HIDE DEF R
    <3> QED BY <1>1, <2>1, <3>1
  <2>3. M = [N EXCEPT ![q].last = NoNode]
    BY <1>1, <2>1
  <2>4. N[q] \in R
    BY <1>1, <2>2
  <2>5. [N[q] EXCEPT !.last = 0] \in R
    BY <2>4
  <2> HIDE DEF M, N, R
  <2>6. /\ M \in [Linkable -> R] /\ M[q] = [N[q] EXCEPT !.last = 0]
        /\ \A y \in Linkable : y # q => M[y] = N[y]
    BY <1>1, <2>2, <2>3, <2>5
  <2> QED BY <1>1, <2>1, <2>2, <2>6 DEF R, Table
<1>4. /\ M[q].first = 0 /\ M[q].last = 0 /\ M[q].up = L[q].up /\ M[q].next = L[q].next
      /\ M[q].prev = L[q].prev
  <2> HIDE DEF M
  <2> QED BY <1>1, <1>2, <1>3
<1> HIDE DEF M
<1>5. \A y \in Nodes : y \in Linkable /\ y # 0
  BY ParentsAre
<1>6. \A y \in Nodes : M[y].up = L[y].up /\ M[y].next = L[y].next /\ M[y].prev = L[y].prev
  BY <1>3, <1>4, <1>5
<1>7. ASSUME NEW r \in Parents
      PROVE  /\ Leftmost(M, r) = IF r = q THEN 0 ELSE Leftmost(L, r)
             /\ Rightmost(M, r) = IF r = q THEN 0 ELSE Rightmost(L, r)
  <2>1. CASE r = q
    BY <1>1, <1>4, <2>1 DEF Leftmost, Rightmost
  <2>2. CASE r # q
    <3>1. r \in Linkable /\ M[r] = L[r] /\ r \in Int
      BY <1>3, <2>2, ParentsAre
    <3>2. r < 0 => M[r - 1] = L[r - 1]
      <4> SUFFICES ASSUME r < 0 PROVE M[r - 1] = L[r - 1]
        OBVIOUS
      <4>1. r - 1 \in Linkable
        BY ParentsAre
      <4>2. r - 1 # q
        BY <1>1, <3>1
      <4> QED BY <1>3, <4>1, <4>2
    <3> QED BY <2>2, <3>1, <3>2 DEF Leftmost, Rightmost
  <2> QED BY <2>1, <2>2
<1>8. Joined(L, M, q, 0, 0)
  <2>1. LeftEnd(q) = 0 /\ RightEnd(q) = 0
    BY <1>1
  <2> QED BY <1>3, <1>5, <1>6, <1>7, <2>1 DEF Joined
<1> QED BY <1>1, <1>8 DEF M

\* flatten: the children of n come behind n.
LEMMA FlattenTurns ==
  ASSUME NEW L, NEW F, NEW E, Fits(L, F, E), NEW n \in Attached(F), F[n] # <<>>,
         NEW M, M = [L EXCEPT ![n].first = NoNode, ![n].last = NoNode],
         NEW P, Whole(F, P), n \in P
  PROVE  \E G : /\ Becomes(F, G, RunIn(M, F[n], L[n].up, n, L[n].next), E, Attached(F))
                /\ Gains(F, G, P, P)
<1> DEFINE K == Attached(F)
<1>1. Linked(L, F, K, E) /\ Shape(F, K) /\ L \in Table
  BY DEF Fits, Linked
<1>2. n \in Held(K, E) /\ n \in Parents /\ n \in Nodes
  BY <1>1, ShapeIs DEF Held
<1>3. Joined(L, M, n, LeftEnd(n), RightEnd(n))
  BY <1>1, <1>2, ChildrenForgotten
<1>4. PICK p \in Held(K, E) : \E i \in 1 .. Len(F[p]) :
           p \in Parents /\ n = F[p][i] /\ n \in ToSet(F[p]) /\ L[n].up = UpFrom(p)
  <2>1. n \in Attached(F)
    OBVIOUS
  <2> HIDE DEF K
  <2> QED BY <1>1, <2>1, Place
<1>5. PICK i \in 1 .. Len(F[p]) :
           p \in Parents /\ n = F[p][i] /\ n \in ToSet(F[p]) /\ L[n].up = UpFrom(p)
  BY <1>4
<1>6. \A q \in Parents : ToSet(F[q]) \subseteq Parents
  BY <1>1, ShapeIs
<1>7. p # n /\ \A x \in ToSet(F[n]) : p \notin Under(F, x)
  <2>1. n \notin Under(F, n) \/ p # n
    BY <1>1, <1>5, Acyclic
  <2>2. n \in Under(F, n)
    BY <1>2, <1>6, UnderIs
  <2>3. ASSUME NEW x \in ToSet(F[n]), p \in Under(F, x) PROVE FALSE
    <3>1. n \notin Under(F, x) /\ x \in Parents
      BY <1>1, <1>2, <1>6, Acyclic
    <3>2. Closed(F, Under(F, x))
      BY <1>6, <3>1, UnderIs
    <3> QED BY <1>5, <2>3, <3>1, <3>2 DEF Closed
  <2> QED BY <2>1, <2>2, <2>3
<1>8. Gap(F[p], p, n, L[n].next, i + 1)
  BY <1>1, <1>5, GapAround
<1>9. Short(F, n, 1, Len(F[n]))[p] = F[p]
  <2>1. \A r \in Parents : r # n => Short(F, n, 1, Len(F[n]))[r] = F[r]
    <3> HIDE DEF K
    <3> QED BY <1>1, <1>2, <1>3, TakeAll
  <2> QED BY <1>5, <1>7, <2>1
<1>10. p \in P /\ ToSet(F[n]) \subseteq P
  BY <1>5 DEF Whole, Closed
<1>11. \E G : /\ Becomes(F, G, RunIn(M, F[n], UpFrom(p), n, L[n].next), E, Attached(F))
              /\ Gains(F, G, P, P)
  <2>1. /\ Fits(L, F, E) /\ n \in Held(Attached(F), E) /\ F[n] # <<>>
        /\ Joined(L, M, n, LeftEnd(n), RightEnd(n)) /\ p \in Held(Attached(F), E)
        /\ \A x \in ToSet(F[n]) : p \notin Under(F, x)
        /\ Gap(Short(F, n, 1, Len(F[n]))[p], p, n, L[n].next, i + 1)
        /\ p \in P /\ ToSet(F[n]) \subseteq P
    BY <1>2, <1>3, <1>7, <1>8, <1>9, <1>10
  <2> QED BY ONLY <2>1, AllTurns
<1> QED BY <1>5, <1>11

\* reparent: the children of q become the last children of p.
LEMMA ReparentTurns ==
  ASSUME NEW L, NEW F, NEW E, Fits(L, F, E), NEW q \in Attached(F), F[q] # <<>>,
         NEW p \in Attached(F), p = q \/ p \notin Under(F, q),
         NEW M, M = [L EXCEPT ![q].first = NoNode, ![q].last = NoNode],
         NEW P, Whole(F, P), p \in P, q \in P
  PROVE  \E G : Becomes(F, G, RunIn(M, F[q], p, M[p].last, NoNode), E, Attached(F)) /\ Gains(F, G, P, P)
<1> DEFINE K == Attached(F)
           H == Short(F, q, 1, Len(F[q]))
<1>1. Linked(L, F, K, E) /\ Shape(F, K) /\ L \in Table
  BY DEF Fits, Linked
<1>2. /\ q \in Held(K, E) /\ q \in Parents /\ q \in Nodes
      /\ p \in Held(K, E) /\ p \in Parents /\ p \in K
  BY <1>1, ShapeIs DEF Held
<1>3. Joined(L, M, q, LeftEnd(q), RightEnd(q))
  BY <1>1, <1>2, ChildrenForgotten
<1>4. \A r \in Parents : ToSet(F[r]) \subseteq Parents
  BY <1>1, ShapeIs
<1>5. \A x \in ToSet(F[q]) : p \notin Under(F, x)
  <2> SUFFICES ASSUME NEW x \in ToSet(F[q]), p \in Under(F, x) PROVE FALSE
    OBVIOUS
  <2>1. q \notin Under(F, x)
    BY <1>1, <1>2, Acyclic
  <2>2. x \in Under(F, q)
    BY <1>2, <1>4, UnderIs
  <2>3. \A y \in Under(F, q) : Under(F, y) \subseteq Under(F, q)
    BY <1>2, <1>4, UnderIs
  <2> QED BY <2>1, <2>2, <2>3
<1> HIDE DEF K
<1>6. Linked(M, H, K, E)
  BY ONLY <1>1, <1>2, F[q] # <<>>, <1>3, TakeAll
<1>7. Gap(H[p], p, Rightmost(M, p), RightEnd(p), Len(H[p]) + 1)
  BY <1>2, <1>6, GapEnds
<1>8. Rightmost(M, p) = M[p].last /\ RightEnd(p) = NoNode /\ UpFrom(p) = p
  <2>1. Linked(M, H, K, E) /\ p \in Held(K, E) /\ p \in K
    BY <1>2, <1>6 DEF K
  <2> HIDE DEF H
  <2> QED BY ONLY <2>1, Ends
<1>9. \E G : /\ Becomes(F, G, RunIn(M, F[q], UpFrom(p), M[p].last, NoNode), E, Attached(F))
             /\ Gains(F, G, P, P)
  <2>1. ToSet(F[q]) \subseteq P
    BY DEF Whole, Closed
  <2>2. /\ Fits(L, F, E) /\ q \in Held(Attached(F), E) /\ F[q] # <<>>
        /\ Joined(L, M, q, LeftEnd(q), RightEnd(q)) /\ p \in Held(Attached(F), E)
        /\ \A x \in ToSet(F[q]) : p \notin Under(F, x)
        /\ Gap(Short(F, q, 1, Len(F[q]))[p], p, M[p].last, NoNode, Len(H[p]) + 1)
        /\ p \in P /\ ToSet(F[q]) \subseteq P
    BY <1>2, <1>3, <1>5, <1>7, <1>8, <2>1 DEF K
  <2> HIDE DEF H
  <2> QED BY ONLY <2>2, AllTurns
<1> QED BY <1>8, <1>9

\* The tops of a graph are forgotten by its head.
LEMMA TopsForgotten ==
  ASSUME NEW L \in Table, NEW h \in Graphs
  PROVE  Joined(L, [L EXCEPT ![HeadOf(h)].next = FeetOf(h), ![FeetOf(h)].prev = HeadOf(h)],
                HeadOf(h), LeftEnd(HeadOf(h)), RightEnd(HeadOf(h)))
<1> DEFINE q == HeadOf(h)
           R == [up : Int, first : Int, last : Int, prev : Int, next : Int]
           N == [L EXCEPT ![q].next = q - 1]
           M == [N EXCEPT ![q - 1].prev = q]
<1>1. /\ q \in Parents /\ q < 0 /\ q \in Int /\ q - 1 \in Linkable /\ q \in Linkable /\ FeetOf(h) = q - 1
      /\ q - 1 # q /\ q - 1 \notin Parents /\ LeftEnd(q) = q /\ RightEnd(q) = q - 1
  <2>1. /\ q \in Parents /\ q < 0 /\ q \in Int /\ q - 1 \in Linkable /\ q \in Linkable /\ FeetOf(h) = q - 1
        /\ q - 1 \notin Parents
    BY ParentsAre
  <2> HIDE DEF q
  <2> QED BY <2>1 DEF LeftEnd, RightEnd
<1>2. L \in [Linkable -> R]
  BY DEF Table
<1> HIDE DEF q
<1>3. /\ N \in [Linkable -> R] /\ N[q] = [L[q] EXCEPT !.next = q - 1]
      /\ \A y \in Linkable : y # q => N[y] = L[y]
  <2>1. [L[q] EXCEPT !.next = q - 1] \in R
    BY <1>1, <1>2
  <2> HIDE DEF R
  <2> QED BY <1>1, <1>2, <2>1
<1>4. N[q - 1] = L[q - 1] /\ L[q - 1] \in R /\ L[q] \in R
  BY <1>1, <1>2, <1>3
<1> HIDE DEF N
<1>5. /\ M \in [Linkable -> R] /\ M[q - 1] = [L[q - 1] EXCEPT !.prev = q]
      /\ \A y \in Linkable : y # q - 1 => M[y] = N[y]
  <2>1. [L[q - 1] EXCEPT !.prev = q] \in R
    BY <1>1, <1>4
  <2> HIDE DEF R
  <2> QED BY <1>1, <1>3, <1>4, <2>1
<1> HIDE DEF M
<1>6. M[q].next = q - 1 /\ M[q - 1].prev = q
  BY <1>1, <1>3, <1>4, <1>5
<1>7. \A y \in Linkable : y # q /\ y # q - 1 => M[y] = L[y]
  BY <1>3, <1>5
<1>8. \A y \in Nodes : y \in Linkable /\ y # q /\ y # q - 1
  <2> TAKE y \in Nodes
  <2>1. y \in Parents /\ y \in Linkable /\ y > 0 /\ y \in Nat
    BY ParentsAre
  <2> QED BY <1>1, <2>1
<1>9. ASSUME NEW r \in Parents
      PROVE  /\ Leftmost(M, r) = IF r = q THEN q - 1 ELSE Leftmost(L, r)
             /\ Rightmost(M, r) = IF r = q THEN q ELSE Rightmost(L, r)
  <2>1. CASE r = q
    BY <1>1, <1>6, <2>1 DEF Leftmost, Rightmost
  <2>2. CASE r # q
    <3>1. r \in Linkable /\ r \in Int /\ r # q - 1
      BY <1>1, ParentsAre
    <3>2. M[r] = L[r]
      BY <1>7, <2>2, <3>1
    <3>3. r < 0 => M[r - 1] = L[r - 1]
      <4> SUFFICES ASSUME r < 0 PROVE M[r - 1] = L[r - 1]
        OBVIOUS
      <4>1. r - 1 \in Linkable /\ r - 1 \notin Parents
        BY ParentsAre
      <4>2. r - 1 # q /\ r - 1 # q - 1
        BY <1>1, <2>2, <3>1, <4>1
      <4> QED BY <1>7, <4>1, <4>2
    <3> QED BY <2>2, <3>2, <3>3 DEF Leftmost, Rightmost
  <2> QED BY <2>1, <2>2
<1>10. \A y \in Nodes : M[y].up = L[y].up /\ M[y].next = L[y].next /\ M[y].prev = L[y].prev
  BY <1>7, <1>8
<1>11. Joined(L, M, q, q, q - 1)
  <2>1. M \in Table
    BY <1>5 DEF Table
  <2> QED BY <1>1, <1>8, <1>9, <1>10, <2>1 DEF Joined
<1>12. M = [L EXCEPT ![q].next = q - 1, ![q - 1].prev = q]
  BY <1>1, <1>2 DEF M, N
<1> QED BY <1>1, <1>11, <1>12 DEF q

\* All tops of another graph come between two neighbours.
LEMMA MoveInTurns ==
  ASSUME NEW L, NEW F, NEW E, Fits(L, F, E), NEW h \in E, F[HeadOf(h)] # <<>>,
         NEW M, M = [L EXCEPT ![HeadOf(h)].next = FeetOf(h), ![FeetOf(h)].prev = HeadOf(h)],
         NEW p \in Held(Attached(F), E), p \notin Under(F, HeadOf(h)),
         NEW a, NEW b, NEW i, Gap(F[p], p, a, b, i),
         NEW P, p \in P, NEW X, ToSet(F[HeadOf(h)]) \subseteq X
  PROVE  \E G : /\ Becomes(F, G, RunIn(M, F[HeadOf(h)], UpFrom(p), a, b), E, Attached(F))
                /\ Gains(F, G, P, X)
<1> DEFINE K == Attached(F)
           q == HeadOf(h)
<1>1. Linked(L, F, K, E) /\ Shape(F, K) /\ L \in Table
  BY DEF Fits, Linked
<1>2. q \in Held(K, E) /\ q \in Parents /\ p \in Parents /\ h \in Graphs
  <2>1. p \in Held(K, E)
    OBVIOUS
  <2> HIDE DEF K
  <2> QED BY <1>1, <2>1, HeldIs
<1>3. Joined(L, M, q, LeftEnd(q), RightEnd(q))
  BY <1>1, <1>2, TopsForgotten
<1> HIDE DEF q
<1>4. \A r \in Parents : ToSet(F[r]) \subseteq Parents
  BY <1>1, ShapeIs
<1>5. p # q /\ \A x \in ToSet(F[q]) : p \notin Under(F, x)
  <2>1. /\ q \in Under(F, q)
        /\ \A x \in ToSet(F[q]) : x \in Under(F, q)
        /\ \A y \in Under(F, q) : Under(F, y) \subseteq Under(F, q)
    BY <1>2, <1>4, UnderIs
  <2>2. p \notin Under(F, q)
    BY DEF q
  <2> QED BY <2>1, <2>2
<1>6. Short(F, q, 1, Len(F[q]))[p] = F[p]
  <2>0. F[q] # <<>>
    BY DEF q
  <2>1. \A r \in Parents : r # q => Short(F, q, 1, Len(F[q]))[r] = F[r]
    <3> HIDE DEF K
    <3> QED BY <1>1, <1>2, <1>3, <2>0, TakeAll
  <2> QED BY <1>2, <1>5, <2>1
<1>7. \E G : /\ Becomes(F, G, RunIn(M, F[q], UpFrom(p), a, b), E, Attached(F))
             /\ Gains(F, G, P, X)
  <2>1. /\ Fits(L, F, E) /\ q \in Held(Attached(F), E) /\ F[q] # <<>>
        /\ Joined(L, M, q, LeftEnd(q), RightEnd(q)) /\ p \in Held(Attached(F), E)
        /\ \A x \in ToSet(F[q]) : p \notin Under(F, x)
        /\ Gap(Short(F, q, 1, Len(F[q]))[p], p, a, b, i)
        /\ p \in P /\ ToSet(F[q]) \subseteq X
    BY <1>2, <1>3, <1>5, <1>6 DEF q
  <2> QED BY ONLY <2>1, AllTurns
<1> QED BY <1>7 DEF q

\* move_in: all tops of another graph come before x.
LEMMA MoveInBeside ==
  ASSUME NEW L, NEW F, NEW E, Fits(L, F, E), NEW h \in E, F[HeadOf(h)] # <<>>,
         NEW M, M = [L EXCEPT ![HeadOf(h)].next = FeetOf(h), ![FeetOf(h)].prev = HeadOf(h)],
         NEW x \in Attached(F), x \notin Under(F, HeadOf(h)),
         NEW P, Whole(F, P), x \in P, NEW X, ToSet(F[HeadOf(h)]) \subseteq X
  PROVE  \E G : /\ Becomes(F, G, RunIn(M, F[HeadOf(h)], L[x].up, L[x].prev, x), E, Attached(F))
                /\ Gains(F, G, P, X)
<1>1. Linked(L, F, Attached(F), E) /\ Shape(F, Attached(F))
  BY DEF Fits, Linked
<1>2. PICK p \in Held(Attached(F), E) : \E i \in 1 .. Len(F[p]) :
           p \in Parents /\ x = F[p][i] /\ x \in ToSet(F[p]) /\ L[x].up = UpFrom(p)
  BY <1>1, Place
<1>3. PICK i \in 1 .. Len(F[p]) :
           p \in Parents /\ x = F[p][i] /\ x \in ToSet(F[p]) /\ L[x].up = UpFrom(p)
  BY <1>2
<1>4. \A r \in Parents : ToSet(F[r]) \subseteq Parents
  BY <1>1, ShapeIs
<1>5. p \notin Under(F, HeadOf(h))
  <2>1. h \in Graphs
    BY <1>1, HeldIs
  <2>2. HeadOf(h) \in Parents
    BY <2>1, ParentsAre
  <2>3. Closed(F, Under(F, HeadOf(h)))
    BY <1>4, <2>2, UnderIs
  <2> QED BY <1>3, <2>3 DEF Closed
<1>6. Gap(F[p], p, L[x].prev, x, i) /\ p \in P
  BY <1>1, <1>3, GapAround DEF Whole
<1>7. \E G : /\ Becomes(F, G, RunIn(M, F[HeadOf(h)], UpFrom(p), L[x].prev, x), E, Attached(F))
             /\ Gains(F, G, P, X)
  BY <1>5, <1>6, MoveInTurns
<1> QED BY <1>3, <1>7

\* move_in_as_nth_child: all tops of another graph come behind the k-th child of p.
LEMMA MoveInNth ==
  ASSUME NEW L, NEW F, NEW E, Fits(L, F, E), NEW h \in E, F[HeadOf(h)] # <<>>,
         NEW M, M = [L EXCEPT ![HeadOf(h)].next = FeetOf(h), ![FeetOf(h)].prev = HeadOf(h)],
         NEW p \in Attached(F), p \notin Under(F, HeadOf(h)), NEW k \in 0 .. Len(F[p]),
         NEW a, a = IF k = 0 THEN NoNode ELSE F[p][k],
         NEW b, b = IF k = Len(F[p]) THEN NoNode ELSE F[p][k + 1],
         NEW P, p \in P, NEW X, ToSet(F[HeadOf(h)]) \subseteq X
  PROVE  \E G : /\ Becomes(F, G, RunIn(M, F[HeadOf(h)], p, a, b), E, Attached(F))
                /\ Gains(F, G, P, X)
<1> DEFINE K == Attached(F)
           s == F[p]
<1>1. Linked(L, F, K, E)
  BY DEF Fits
<1>2. p \in Held(K, E) /\ p \in K
  BY DEF Held
<1>3. p \in Held(Attached(F), E)
  BY <1>2
<1> HIDE DEF K
<1>4. /\ UpFrom(p) = p /\ LeftEnd(p) = NoNode /\ RightEnd(p) = NoNode /\ Len(s) \in Nat
  BY <1>1, <1>2, Ends
<1>5. Gap(s, p, a, b, k + 1)
  <2>1. k \in 0 .. Len(s) /\ a = (IF k = 0 THEN NoNode ELSE s[k])
        /\ b = (IF k = Len(s) THEN NoNode ELSE s[k + 1])
    OBVIOUS
  <2> HIDE DEF s
  <2>2. k + 1 \in 1 .. Len(s) + 1 /\ (k + 1) - 1 = k /\ k # Len(s) + 1 /\ k + 1 # 0
        /\ (k + 1 = Len(s) + 1 <=> k = Len(s))
    BY <1>4, <2>1
  <2>3. At(s, p, k) = a
    BY <1>4, <2>1, <2>2 DEF At
  <2>4. At(s, p, k + 1) = b
    BY <1>4, <2>1, <2>2 DEF At
  <2> QED BY <2>2, <2>3, <2>4 DEF Gap
<1>6. Gap(F[p], p, a, b, k + 1)
  BY <1>5
<1> HIDE DEF s
<1>7. \E G : /\ Becomes(F, G, RunIn(M, F[HeadOf(h)], UpFrom(p), a, b), E, Attached(F))
             /\ Gains(F, G, P, X)
  BY <1>3, <1>6, MoveInTurns
<1> QED BY <1>4, <1>7

\* Neighbours change places when the first goes behind the second.
LEMMA SwapNextTurns ==
  ASSUME NEW L, NEW F, NEW E, Fits(L, F, E), NEW n \in Attached(F), NEW m \in Attached(F),
         L[n].next = m, m \notin Under(F, n), NEW P, Whole(F, P), m \in P, n \in P
  PROVE  \E G : /\ Becomes(F, G, Join(Join(Join(L, L[n].up, L[n].prev, m), L[n].up, m, n),
                                      L[n].up, n, L[m].next), E, Attached(F))
                /\ Gains(F, G, P, P)
<1> DEFINE T == TakenOut(L, n)
           R == [up : Int, first : Int, last : Int, prev : Int, next : Int]
<1>1. Linked(L, F, Attached(F), E) /\ Shape(F, Attached(F)) /\ L \in Table
  BY DEF Fits, Linked
<1>2. PICK q \in Held(Attached(F), E) : \E j \in 1 .. Len(F[q]) :
           /\ q \in Parents /\ n = F[q][j] /\ n \in ToSet(F[q]) /\ L[n].up = UpFrom(q)
           /\ L[n].prev = At(F[q], q, j - 1) /\ L[n].next = At(F[q], q, j + 1)
  BY <1>1, Place
<1>3. PICK j \in 1 .. Len(F[q]) :
           /\ q \in Parents /\ n = F[q][j] /\ n \in ToSet(F[q]) /\ L[n].up = UpFrom(q)
           /\ L[n].prev = At(F[q], q, j - 1) /\ L[n].next = At(F[q], q, j + 1)
  BY <1>2
<1>4. F[q] \in Seq(Nodes) /\ IsInjective(F[q]) /\ ToSet(F[q]) \subseteq Nodes /\ m \in Nodes /\ n \in Nodes
  BY <1>1, <1>3, ShapeIs
<1>5. /\ Len(F[q]) \in Nat /\ DOMAIN F[q] = 1 .. Len(F[q])
      /\ \A i, k \in 1 .. Len(F[q]) : F[q][i] = F[q][k] => i = k
  <2> DEFINE s == F[q]
  <2>1. s \in Seq(Nodes) /\ IsInjective(s)
    BY <1>4
  <2> HIDE DEF s
  <2>2. Len(s) \in Nat /\ DOMAIN s = 1 .. Len(s)
    BY ONLY <2>1, SetOf
  <2>3. \A i, k \in 1 .. Len(s) : s[i] = s[k] => i = k
    BY ONLY <2>1, SetOf
  <2> QED BY <2>2, <2>3 DEF s
<1>6. j + 1 \in 1 .. Len(F[q]) /\ m = F[q][j + 1]
  <2>1. j + 1 \in 0 .. Len(F[q]) + 1
    BY <1>5
  <2>2. At(F[q], q, j + 1) \in Nodes
    BY <1>3, <1>4
  <2>3. j + 1 \in 1 .. Len(F[q])
    BY ONLY <2>1, <2>2, <1>3, <1>4, AtIs
  <2>4. At(F[q], q, j + 1) = F[q][j + 1]
    BY ONLY <2>1, <2>3, <1>3, <1>4, AtIs
  <2> QED BY <1>3, <2>3, <2>4
<1>7. L[n].prev # m /\ m # n /\ L[n].up = UpFrom(q)
  <2>1. m # n
    BY <1>3, <1>5, <1>6
  <2>2. j - 1 \in 0 .. Len(F[q]) + 1
    BY <1>5
  <2>3. At(F[q], q, j - 1) # m
    <3> SUFFICES ASSUME At(F[q], q, j - 1) = m PROVE FALSE
      OBVIOUS
    <3>1. At(F[q], q, j - 1) \in Nodes
      BY <1>4
    <3>2. j - 1 \in 1 .. Len(F[q])
      BY ONLY <2>2, <3>1, <1>3, <1>4, AtIs
    <3>3. At(F[q], q, j - 1) = F[q][j - 1]
      BY ONLY <2>2, <3>2, <1>3, <1>4, AtIs
    <3> QED BY <1>5, <1>6, <3>2, <3>3
  <2> QED BY <1>3, <2>1, <2>3
<1>8. L[m].up = UpFrom(q)
  <2>1. Sibs(L, q, F[q])
    BY <1>1 DEF Linked
  <2> QED BY <1>5, <1>6, <2>1 DEF Sibs
<1>9. Joined(L, T, q, L[n].prev, m)
  <2>1. Joined(L, TakenOut(L, F[q][j]), q, At(F[q], q, j - 1), At(F[q], q, j + 1))
    BY <1>1, TakeOne
  <2> QED BY <1>3, <2>1
<1> HIDE DEF T
<1>10. /\ T[m].next = L[m].next /\ T[m].up = L[m].up /\ T[n].up = L[n].up /\ T \in Table
  BY <1>4, <1>7, <1>9 DEF Joined
<1>11. [T EXCEPT ![n].up = L[n].up] = T
  <2>1. n \in Linkable /\ T \in [Linkable -> R]
    BY <1>4, <1>10, ParentsAre DEF Table
  <2>2. T[n] \in R
    BY <2>1
  <2>3. [T[n] EXCEPT !.up = L[n].up] = T[n]
    BY <1>10, <2>2
  <2> HIDE DEF R
  <2> QED BY <2>1, <2>3
<1>12. /\ T = Join(L, L[n].up, L[n].prev, m)
       /\ PutIn(T, n, T[m].up, m, T[m].next)
            = Join(Join(T, L[n].up, m, n), L[n].up, n, L[m].next)
  <2>1. T = Join(L, L[n].up, L[n].prev, m)
    BY DEF T, TakenOut
  <2>2. T[m].up = L[n].up /\ T[m].next = L[m].next
    BY <1>7, <1>8, <1>10
  <2> QED BY <1>11, <2>1, <2>2 DEF PutIn
<1>13. \E G : /\ Becomes(F, G, PutIn(T, n, T[m].up, m, T[m].next), E, Attached(F))
              /\ Gains(F, G, P, P)
  <2>1. T = TakenOut(L, n)
    BY DEF T
  <2> QED BY <2>1, MoveBeside
<1> QED BY <1>12, <1>13

-----------------------------------------------------------------------------
(* Erasure.                                                                *)

\* The links of one node.
Links == [up : Int, first : Int, last : Int, prev : Int, next : Int]

\* The links of a node after its children were cut off.
LEMMA DetachedIs ==
  ASSUME NEW L \in Table, NEW x \in Linkable
  PROVE  /\ Detached(L, x)[x] \in Links /\ L[x] \in Links /\ [L[x] EXCEPT !.next = NoNode] \in Links
         /\ [Detached(L, x)[x] EXCEPT !.next = NoNode] \in Links
         /\ L[x].first = NoNode => Detached(L, x)[x] = L[x]
         /\ L[x].first # NoNode /\ L[x].first # x =>
              Detached(L, x)[x] = [L[x] EXCEPT !.first = NoNode, !.last = NoNode]
<1> DEFINE f == L[x].first
           A == [L EXCEPT ![f].next = NoNode]
           B == [A EXCEPT ![x].first = NoNode]
           C == [B EXCEPT ![x].last = NoNode]
<1>1. L \in [Linkable -> Links] /\ L[x] \in Links /\ NoNode = 0
  BY DEF Table, Links, NoNode
<1>2. [L[x] EXCEPT !.next = NoNode] \in Links
  BY <1>1 DEF Links
<1>3. DOMAIN A = Linkable /\ A[x] \in Links /\ (f # x => A[x] = L[x])
  <2>1. CASE f = x
    <3>1. A[x] = [L[x] EXCEPT !.next = NoNode]
      BY <1>1, <2>1
    <3> QED BY <1>1, <1>2, <2>1, <3>1
  <2>2. CASE f # x
    BY <1>1, <2>2
  <2> QED BY <2>1, <2>2
<1> HIDE DEF A, f
<1>4. DOMAIN B = Linkable /\ B[x] = [A[x] EXCEPT !.first = NoNode] /\ B[x] \in Links
  <2>1. [A[x] EXCEPT !.first = NoNode] \in Links
    BY <1>1, <1>3 DEF Links
  <2> QED BY <1>3, <2>1
<1> HIDE DEF B
<1>5. C[x] = [B[x] EXCEPT !.last = NoNode] /\ C[x] \in Links
  <2>1. [B[x] EXCEPT !.last = NoNode] \in Links
    BY <1>1, <1>4 DEF Links
  <2> QED BY <1>4, <2>1
<1> HIDE DEF C
<1>6. Detached(L, x) = IF f = NoNode THEN L ELSE C
  BY DEF Detached, A, B, C, f
<1>7. Detached(L, x)[x] \in Links
  BY <1>1, <1>5, <1>6
<1>8. [Detached(L, x)[x] EXCEPT !.next = NoNode] \in Links
  <2> DEFINE D == Detached(L, x)[x]
  <2>1. D \in Links
    BY <1>7
  <2> HIDE DEF D
  <2>2. [D EXCEPT !.next = NoNode] \in Links
    BY <1>1, <2>1 DEF Links
  <2> QED BY <2>2 DEF D
<1>9. f = NoNode => Detached(L, x)[x] = L[x]
  BY <1>6
<1>10. f # NoNode /\ f # x => Detached(L, x)[x] = [L[x] EXCEPT !.first = NoNode, !.last = NoNode]
  <2> SUFFICES ASSUME f # NoNode, f # x
               PROVE  C[x] = [L[x] EXCEPT !.first = NoNode, !.last = NoNode]
    BY <1>6
  <2>1. C[x] = [[L[x] EXCEPT !.first = NoNode] EXCEPT !.last = NoNode]
    BY <1>3, <1>4, <1>5
  <2> QED BY <2>1
<1> QED BY <1>1, <1>2, <1>7, <1>8, <1>9, <1>10 DEF f

\* erase_children leaves links of the right type.
LEMMA CutTable ==
  ASSUME NEW L \in Table, NEW n, ErasedBelow(L, n) \subseteq Nodes, n \in Nodes
  PROVE  ChildrenCut(L, n) \in Table
<1> DEFINE cutters == {n} \cup ErasedBelow(L, n)
           cut == {L[y].first : y \in cutters} \ {NoNode}
           at(x) == CASE x \in cutters /\ x \in cut -> [Detached(L, x)[x] EXCEPT !.next = NoNode]
                      [] x \in cutters -> Detached(L, x)[x]
                      [] x \in cut -> [L[x] EXCEPT !.next = NoNode]
                      [] OTHER -> L[x]
<1>1. DOMAIN L = Linkable
  BY DEF Table
<1>2. ASSUME NEW x \in Linkable PROVE at(x) \in Links
  <2> HIDE DEF cutters, cut
  <2>1. /\ Detached(L, x)[x] \in Links /\ L[x] \in Links /\ [L[x] EXCEPT !.next = NoNode] \in Links
        /\ [Detached(L, x)[x] EXCEPT !.next = NoNode] \in Links
    BY DetachedIs
  <2> QED BY <2>1
<1>3. ChildrenCut(L, n) = [x \in Linkable |-> at(x)]
  BY <1>1 DEF ChildrenCut
<1> HIDE DEF at
<1> QED BY <1>2, <1>3 DEF Table, Links

\* erase_children(n) leaves what is not below n.
LEMMA CutFits ==
  ASSUME NEW L, NEW F, NEW K, NEW E, Linked(L, F, K, E), NEW n \in K
  PROVE  /\ Linked(ChildrenCut(L, n), Bare(F, Under(F, n)), K \ (Under(F, n) \ {n}), E)
         /\ Under(F, n) \subseteq K /\ n \in Under(F, n) /\ Closed(F, Under(F, n))
         /\ \A p \in Parents : p \notin Under(F, n) => ToSet(F[p]) \cap (Under(F, n) \ {n}) = {}
<1> DEFINE U == Under(F, n)
           gone == U \ {n}
           C == {n} \cup ErasedBelow(L, n)
           cut == {L[y].first : y \in C} \ {NoNode}
           M == ChildrenCut(L, n)
           N == [L EXCEPT ![n].first = NoNode, ![n].last = NoNode]
<1>1. Shape(F, K) /\ L \in Table /\ E \subseteq Graphs
  BY DEF Linked
<1>2. /\ K \subseteq Nodes /\ Nodes \subseteq Parents /\ n \in Parents /\ n \in Nodes
      /\ \A p \in Parents : ToSet(F[p]) \subseteq Parents
  <2>1. K \subseteq Nodes /\ Nodes \subseteq Parents
    BY <1>1, ShapeIs
  <2>2. \A p \in Parents : ToSet(F[p]) \subseteq Parents
    BY <1>1, ShapeIs
  <2> QED BY <2>1, <2>2
<1>3. C \subseteq U /\ U \subseteq K
  BY ErasedBelowIs
<1>4. n \in U /\ Closed(F, U)
  BY <1>2, UnderIs
<1>5. \A z \in U : z # n => \E p \in U : z \in ToSet(F[p])
  BY <1>2, UnderIs
<1>6. \A p, q \in Parents, x \in K : x \in ToSet(F[p]) /\ x \in ToSet(F[q]) => p = q
  BY <1>1, ShapeIs
<1> HIDE DEF U
<1>7. \A p \in Parents : p \notin U => ToSet(F[p]) \cap (U \ {n}) = {}
  BY <1>2, <1>3, <1>5, <1>6
<1>8. \A y \in K : L[y].first # NoNode => L[y].first \in ToSet(F[y])
  <2> SUFFICES ASSUME NEW y \in K, L[y].first # NoNode PROVE L[y].first \in ToSet(F[y])
    OBVIOUS
  <2> DEFINE s == F[y]
  <2>1. y \in Held(K, E)
    BY DEF Held
  <2>2. /\ Leftmost(L, y) = At(F[y], y, 1) /\ Leftmost(L, y) = L[y].first /\ RightEnd(y) = NoNode
        /\ s \in Seq(Nodes) /\ Len(s) \in Nat
    BY <2>1, Ends
  <2>3. At(s, y, 1) = IF Len(s) = 0 THEN RightEnd(y) ELSE s[1]
    <3> HIDE DEF s
    <3> QED BY <2>2 DEF At
  <2>4. Len(s) # 0
    BY <2>2, <2>3
  <2>5. s[1] \in ToSet(s)
    <3> HIDE DEF s
    <3>1. 1 \in 1 .. Len(s)
      BY <2>2, <2>4
    <3> QED BY <2>2, <3>1, SetOf
  <2> QED BY <2>2, <2>3, <2>4, <2>5
<1>9. cut \subseteq U /\ n \notin cut /\ L[n].first # n
  <2>1. \A y \in U : n \notin ToSet(F[y])
    <3> SUFFICES ASSUME NEW y \in U, n \in ToSet(F[y]) PROVE FALSE
      OBVIOUS
    <3>1. y \notin Under(F, n)
      BY <1>1, <1>2, <1>3, Acyclic
    <3> QED BY <3>1 DEF U
  <2> HIDE DEF C
  <2>2. \A y \in C : L[y].first # NoNode => L[y].first \in U /\ L[y].first # n
    BY <1>3, <1>4, <1>8, <2>1 DEF Closed
  <2>3. n \in C /\ n # NoNode
    BY <1>2, ParentsAre DEF C
  <2> QED BY <2>2, <2>3
<1>10. \E H : /\ Linked(N, H, K, E) /\ H[n] = <<>> /\ \A r \in Parents : r # n => H[r] = F[r]
  <2>1. n \in Held(K, E)
    BY DEF Held
  <2>2. CASE F[n] # <<>>
    <3>1. Joined(L, N, n, LeftEnd(n), RightEnd(n))
      BY <1>1, <1>2, ChildrenForgotten
    <3> HIDE DEF N
    <3>2. Linked(N, Short(F, n, 1, Len(F[n])), K, E)
      BY <2>1, <2>2, <3>1, TakeAll
    <3>3. Short(F, n, 1, Len(F[n]))[n] = <<>>
      BY <2>1, <2>2, <3>1, TakeAll
    <3>4. \A r \in Parents : r # n => Short(F, n, 1, Len(F[n]))[r] = F[r]
      BY <2>1, <2>2, <3>1, TakeAll
    <3> QED BY <3>2, <3>3, <3>4
  <2>3. CASE F[n] = <<>>
    <3>1. /\ Leftmost(L, n) = At(F[n], n, 1) /\ Rightmost(L, n) = At(F[n], n, Len(F[n]))
          /\ Len(F[n]) = 0 /\ Leftmost(L, n) = L[n].first /\ Rightmost(L, n) = L[n].last
          /\ LeftEnd(n) = NoNode /\ RightEnd(n) = NoNode
      BY <2>1, <2>3, Ends
    <3>2. L[n].first = NoNode /\ L[n].last = NoNode
      BY <3>1 DEF At
    <3>3. N = L
      <4>1. L \in [Linkable -> Links] /\ n \in Linkable
        BY <1>1, <1>2, ParentsAre DEF Table, Links
      <4>2. L[n] \in Links
        BY <4>1
      <4>3. [L[n] EXCEPT !.first = NoNode] = L[n]
        BY <3>2, <4>2 DEF Links
      <4>4. [L[n] EXCEPT !.last = NoNode] = L[n]
        BY <3>2, <4>2 DEF Links
      <4>5. [L EXCEPT ![n].first = NoNode] = L
        BY <4>1, <4>3
      <4>6. [L EXCEPT ![n].last = NoNode] = L
        BY <4>1, <4>4
      <4>7. N = [[L EXCEPT ![n].first = NoNode] EXCEPT ![n].last = NoNode]
        OBVIOUS
      <4> QED BY <4>5, <4>6, <4>7
    <3> QED BY <2>3, <3>3
  <2> QED BY <2>2, <2>3
<1>11. PICK H : /\ Linked(N, H, K, E) /\ H[n] = <<>> /\ \A r \in Parents : r # n => H[r] = F[r]
  BY <1>10
<1>12. Linked(N, Bare(H, gone), K \ gone, E)
  <2>1. \A p \in Parents : p \notin gone => ToSet(H[p]) \cap gone = {}
    <3> SUFFICES ASSUME NEW p \in Parents, p \notin gone PROVE ToSet(H[p]) \cap gone = {}
      OBVIOUS
    <3>1. CASE p = n
      BY <1>11, <3>1 DEF ToSet
    <3>2. CASE p # n
      BY <1>7, <1>11, <3>2
    <3> QED BY <3>1, <3>2
  <2>2. gone \subseteq K
    BY <1>3
  <2> HIDE DEF gone, N
  <2> QED BY <1>11, <2>1, <2>2, Shrink
<1>13. Bare(H, gone) = Bare(F, U)
  <2>1. \A p \in Parents : (IF p \in gone THEN <<>> ELSE H[p]) = (IF p \in U THEN <<>> ELSE F[p])
    BY <1>4, <1>11
  <2> HIDE DEF gone
  <2> QED BY <2>1 DEF Bare
<1>14. M \in Table
  BY <1>1, <1>2, <1>3, CutTable
<1>15. /\ \A x \in Linkable : x \notin U => M[x] = L[x]
       /\ M[n] = N[n]
  <2>1. DOMAIN L = Linkable /\ n \in Linkable
    BY <1>1, <1>2, ParentsAre DEF Table
  <2>2. \A x \in Linkable : M[x] =
         CASE x \in C /\ x \in cut -> [Detached(L, x)[x] EXCEPT !.next = NoNode]
           [] x \in C -> Detached(L, x)[x]
           [] x \in cut -> [L[x] EXCEPT !.next = NoNode]
           [] OTHER -> L[x]
    BY <2>1 DEF ChildrenCut
  <2>3. n \in C
    OBVIOUS
  <2> HIDE DEF M, C, cut
  <2>4. \A x \in Linkable : x \notin U => M[x] = L[x]
    BY <1>3, <1>9, <2>2
  <2>5. M[n] = Detached(L, n)[n]
    BY <1>9, <2>1, <2>2, <2>3
  <2>6. N[n] = [L[n] EXCEPT !.first = NoNode, !.last = NoNode]
    <3> DEFINE A == [L EXCEPT ![n].first = NoNode]
    <3>1. DOMAIN A = Linkable /\ A[n] = [L[n] EXCEPT !.first = NoNode]
      BY <2>1
    <3>2. N = [A EXCEPT ![n].last = NoNode]
      OBVIOUS
    <3> HIDE DEF N, A
    <3>3. N[n] = [A[n] EXCEPT !.last = NoNode]
      BY <2>1, <3>1, <3>2
    <3> QED BY <3>1, <3>3
  <2>7. /\ L[n].first = NoNode => Detached(L, n)[n] = L[n]
        /\ L[n].first # NoNode /\ L[n].first # n =>
              Detached(L, n)[n] = [L[n] EXCEPT !.first = NoNode, !.last = NoNode]
    BY <1>1, <2>1, DetachedIs
  <2>8. L[n].first = NoNode => L[n].last = NoNode
    <3> SUFFICES ASSUME L[n].first = NoNode PROVE L[n].last = NoNode
      OBVIOUS
    <3>1. n \in Held(K, E)
      BY DEF Held
    <3> DEFINE s == F[n]
    <3>2. /\ Leftmost(L, n) = At(s, n, 1) /\ Rightmost(L, n) = At(s, n, Len(s))
          /\ s \in Seq(Nodes) /\ Len(s) \in Nat
          /\ Leftmost(L, n) = L[n].first /\ Rightmost(L, n) = L[n].last
          /\ LeftEnd(n) = NoNode /\ RightEnd(n) = NoNode
      BY <3>1, Ends
    <3> HIDE DEF s
    <3>3. Len(s) = 0
      <4> SUFFICES ASSUME Len(s) # 0 PROVE FALSE
        OBVIOUS
      <4>1. 1 \in 1 .. Len(s) /\ 1 \in 0 .. Len(s) + 1
        BY <3>2
      <4>2. At(s, n, 1) \in Nodes
        BY <1>2, <3>2, <4>1, AtIs
      <4> QED BY <3>2, <4>2, ParentsAre
    <3> QED BY <3>2, <3>3 DEF At
  <2>9. L[n].first = NoNode => [L[n] EXCEPT !.first = NoNode, !.last = NoNode] = L[n]
    <3>1. L[n] \in Links
      BY <1>1, <2>1 DEF Table, Links
    <3> QED BY <2>8, <3>1 DEF Links
  <2>10. M[n] = N[n]
    BY <1>9, <2>5, <2>6, <2>7, <2>9
  <2> QED BY <2>4, <2>10
<1>16. Linked(M, Bare(F, U), K \ gone, E)
  <2>1. \A y \in K \ gone : M[y] = N[y]
    <3> TAKE y \in K \ gone
    <3>1. y \in Linkable /\ DOMAIN L = Linkable /\ n \in Linkable
      BY <1>1, <1>2, ParentsAre DEF Table
    <3>2. CASE y = n
      BY <1>15, <3>2
    <3>3. CASE y # n
      <4>1. N[y] = L[y]
        BY <3>1, <3>3
      <4>2. y \notin U
        BY <3>3
      <4> HIDE DEF M, N
      <4> QED BY <1>15, <3>1, <4>1, <4>2
    <3> QED BY <3>2, <3>3
  <2>2. ASSUME NEW g \in E PROVE M[HeadOf(g)] = N[HeadOf(g)] /\ M[FeetOf(g)] = N[FeetOf(g)]
    <3> DEFINE p == HeadOf(g)
    <3>1. p \in Parents /\ p \in Linkable /\ p < 0 /\ p \in Int /\ p - 1 \in Linkable /\ p - 1 \notin Parents
          /\ FeetOf(g) = p - 1
      BY <1>1, ParentsAre
    <3> HIDE DEF p
    <3>2. p \notin Nodes
      BY <3>1, ParentsAre
    <3>3. p - 1 \notin Nodes
      BY <1>2, <3>1
    <3>4. DOMAIN L = Linkable
      BY <1>1 DEF Table
    <3>5. N[p] = L[p] /\ N[p - 1] = L[p - 1]
      BY <1>2, <3>1, <3>2, <3>3, <3>4
    <3>6. p \notin U /\ p - 1 \notin U
      BY <1>2, <1>3, <3>2, <3>3
    <3> HIDE DEF M, N
    <3>7. M[p] = N[p] /\ M[p - 1] = N[p - 1]
      BY <1>15, <3>1, <3>5, <3>6
    <3> QED BY <3>1, <3>7 DEF p
  <2> HIDE DEF M, N, gone
  <2>3. Linked(N, Bare(F, U), K \ gone, E)
    BY <1>12, <1>13
  <2> QED BY <1>14, <2>1, <2>2, <2>3, SameLinks
<1> QED BY <1>3, <1>4, <1>7, <1>16 DEF U

\* Erasing the i-th child of p.
LEMMA ErasedFits ==
  ASSUME NEW L, NEW F, NEW E, Fits(L, F, E), NEW p \in Held(Attached(F), E), NEW i \in 1 .. Len(F[p]),
         NEW n, n = F[p][i]
  PROVE  /\ Fits(Erased(L, n), Bare(Short(F, p, i, i), Under(F, n)), E)
         /\ Attached(Bare(Short(F, p, i, i), Under(F, n))) = Attached(F) \ Under(F, n)
         /\ p \notin Under(F, n) /\ n \in Under(F, n) /\ p \in Parents /\ Under(F, n) \subseteq Nodes
         /\ \A y \in Parents : ToSet(Bare(Short(F, p, i, i), Under(F, n))[y]) \subseteq ToSet(F[y])
<1> DEFINE K == Attached(F)
           U == Under(F, n)
           M == ChildrenCut(L, n)
           B == Bare(F, U)
           J == K \ (U \ {n})
           H == Short(F, p, i, i)
           G == Bare(H, U)
<1>1. Linked(L, F, K, E) /\ Shape(F, K) /\ p \in Held(K, E)
  BY DEF Fits, Linked
<1> HIDE DEF K
<1>2. /\ K \subseteq Nodes /\ Nodes \subseteq Parents /\ p \in Parents
      /\ \A q \in Parents : ToSet(F[q]) \subseteq Parents
      /\ \A q \in Parents : ToSet(F[q]) \subseteq K
  <2>1. K \subseteq Nodes /\ Nodes \subseteq Parents
    BY <1>1, ShapeIs
  <2>2. p \in Parents
    BY <1>1, HeldIs
  <2>3. \A q \in Parents : ToSet(F[q]) \subseteq K
    BY <1>1, ShapeIs
  <2> QED BY <2>1, <2>2, <2>3
<1>3. n \in ToSet(F[p]) /\ n \in K /\ F[p] \in Seq(Nodes) /\ i \in i .. Len(F[p]) /\ DOMAIN F = Parents
  <2>1. n \in ToSet(F[p]) /\ F[p] \in Seq(Nodes) /\ DOMAIN F = Parents
    BY <1>1, <1>2, ShapeIs
  <2>2. Len(F[p]) \in Nat
    BY <2>1, SetOf
  <2> QED BY <1>2, <2>1, <2>2
<1>4. /\ Linked(M, B, J, E) /\ U \subseteq K /\ n \in U /\ Closed(F, U)
  <2>1. /\ Linked(ChildrenCut(L, n), Bare(F, Under(F, n)), K \ (Under(F, n) \ {n}), E)
        /\ Under(F, n) \subseteq K /\ n \in Under(F, n) /\ Closed(F, Under(F, n))
    BY ONLY <1>1, <1>3, CutFits
  <2> QED BY <2>1
<1>5. \A q \in Parents : q \notin U => ToSet(F[q]) \cap (U \ {n}) = {}
  <2>1. \A q \in Parents : q \notin Under(F, n) => ToSet(F[q]) \cap (Under(F, n) \ {n}) = {}
    BY ONLY <1>1, <1>3, CutFits
  <2> QED BY <2>1
<1>6. p \notin U
  BY <1>1, <1>2, <1>3, Acyclic
<1> HIDE DEF U, M, J
<1>7. /\ DOMAIN H = Parents /\ \A q \in Parents : ToSet(H[q]) \subseteq ToSet(F[q])
      /\ Attached(H) = Attached(F) \ {n}
  <2>1. \A q \in Parents : ToSet(H[q]) \subseteq ToSet(F[q])
    BY <1>1, TakeOne
  <2>2. Attached(Short(F, p, i, i)) = Attached(F) \ {F[p][i]}
    BY <1>1, TakeOne
  <2> QED BY <1>3, <2>1, <2>2 DEF Short
<1>8. \A q \in Parents : G[q] = IF q \in U THEN <<>> ELSE H[q]
  BY DEF Bare
<1>9. p \in Held(J, E) /\ B[p] = F[p] /\ DOMAIN B = Parents
  BY <1>1, <1>2, <1>4, <1>6 DEF Held, J, Bare
<1>10. Linked(TakenOut(M, n), Short(B, p, i, i), J, E) /\ Attached(Short(B, p, i, i)) = Attached(B) \ {n}
  <2> HIDE DEF B
  <2>1. i \in 1 .. Len(B[p]) /\ B[p][i] = n
    BY <1>9
  <2>2. Linked(TakenOut(M, B[p][i]), Short(B, p, i, i), J, E)
    BY <1>4, <1>9, <2>1, TakeOne
  <2>3. Attached(Short(B, p, i, i)) = Attached(B) \ {B[p][i]}
    BY <1>4, <1>9, <2>1, TakeOne
  <2> QED BY <2>1, <2>2, <2>3
<1>11. Bare(Short(B, p, i, i), {n}) = G
  <2>1. \A q \in Parents : Short(B, p, i, i)[q] = IF q = p THEN Shorter(F[p], i, i) ELSE B[q]
    BY <1>2, <1>9 DEF Short
  <2>2. \A q \in Parents : H[q] = IF q = p THEN Shorter(F[p], i, i) ELSE F[q]
    BY <1>2, <1>3 DEF Short
  <2>3. \A q \in Parents : B[q] = IF q \in U THEN <<>> ELSE F[q]
    BY DEF Bare
  <2> HIDE DEF B, H
  <2>4. \A q \in Parents : (IF q \in {n} THEN <<>> ELSE Short(B, p, i, i)[q])
                             = (IF q \in U THEN <<>> ELSE H[q])
    BY <1>4, <1>6, <2>1, <2>2, <2>3
  <2> QED BY <2>4 DEF Bare
<1>12. Linked(TakenOut(M, n), G, J \ {n}, E)
  <2> DEFINE R == Short(B, p, i, i)
  <2>1. \A q \in Parents : q \notin {n} => ToSet(R[q]) \cap {n} = {}
    <3>1. \A q \in Parents : n \notin ToSet(R[q])
      BY <1>10 DEF Attached
    <3> QED BY <3>1
  <2>2. {n} \subseteq J
    BY <1>3 DEF J
  <2> HIDE DEF B, R, G
  <2>3. Linked(TakenOut(M, n), R, J, E)
    BY <1>10 DEF R
  <2>4. Linked(TakenOut(M, n), Bare(R, {n}), J \ {n}, E)
    BY <2>1, <2>2, <2>3, Shrink
  <2> QED BY <1>11, <2>4 DEF R
<1> HIDE DEF H
<1>13. Attached(G) = K \ U
  <2>1. \A q \in Parents : ToSet(G[q]) \subseteq K \ U
    <3> SUFFICES ASSUME NEW q \in Parents, NEW z \in ToSet(G[q]) PROVE z \in K \ U
      OBVIOUS
    <3>1. q \notin U
      <4> SUFFICES ASSUME q \in U PROVE FALSE
        OBVIOUS
      <4>1. G[q] = <<>>
        BY <1>8
      <4> QED BY <4>1 DEF ToSet
    <3>2. z \in ToSet(H[q])
      BY <1>8, <3>1
    <3>3. z \in ToSet(F[q]) /\ z # n
      BY <1>7, <3>2 DEF Attached
    <3> QED BY <1>2, <1>5, <3>1, <3>3
  <2>2. \A z \in K \ U : z \in Attached(G)
    <3> SUFFICES ASSUME NEW z \in K \ U PROVE z \in Attached(G)
      OBVIOUS
    <3>1. z \in Attached(H)
      BY <1>4, <1>7 DEF K
    <3>2. PICK q \in Parents : z \in ToSet(H[q])
      BY <3>1 DEF Attached
    <3>3. q \notin U
      BY <1>4, <1>7, <3>2 DEF Closed
    <3>4. z \in ToSet(G[q])
      BY <1>8, <3>2, <3>3
    <3> QED BY <3>4 DEF Attached
  <2> HIDE DEF G
  <2> QED BY <2>1, <2>2 DEF Attached
<1>14. J \ {n} = K \ U
  BY <1>4 DEF J
<1>15. \A y \in Parents : ToSet(G[y]) \subseteq ToSet(F[y])
  <2> TAKE y \in Parents
  <2>1. CASE y \in U
    <3>1. G[y] = <<>>
      BY <1>8, <2>1
    <3> QED BY <3>1 DEF ToSet
  <2>2. CASE y \notin U
    BY <1>7, <1>8, <2>2
  <2> QED BY <2>1, <2>2
<1> HIDE DEF G
<1>16. Fits(Erased(L, n), G, E)
  BY <1>12, <1>13, <1>14 DEF Fits, Erased, M
<1>17. U \subseteq Nodes
  BY <1>2, <1>4
<1> QED BY <1>2, <1>4, <1>6, <1>13, <1>15, <1>16, <1>17 DEF G, H, U, K

\* erase: n and all that is below it leave the forest.
LEMMA EraseTurns ==
  ASSUME NEW L, NEW F, NEW E, Fits(L, F, E), NEW n \in Attached(F)
  PROVE  \E G : /\ Becomes(F, G, Forgotten(Erased(L, n), {n} \cup ErasedBelow(L, n)), E,
                           Attached(F) \ Under(F, n))
                /\ \A X : Gains(F, G, X, X)
<1>1. Linked(L, F, Attached(F), E) /\ Shape(F, Attached(F))
  BY DEF Fits, Linked
<1>2. PICK p \in Held(Attached(F), E) : \E i \in 1 .. Len(F[p]) : n = F[p][i]
  BY <1>1, Place
<1>3. PICK i \in 1 .. Len(F[p]) : n = F[p][i]
  BY <1>2
<1> DEFINE U == Under(F, n)
           G == Bare(Short(F, p, i, i), U)
           back == {n} \cup ErasedBelow(L, n)
<1>4. Fits(Erased(L, n), G, E) /\ Attached(G) = Attached(F) \ U /\ p \in Parents
  BY <1>3, ErasedFits
<1>5. \A y \in Parents : ToSet(G[y]) \subseteq ToSet(F[y])
  BY <1>3, ErasedFits
<1>6. back \subseteq U /\ U \subseteq Nodes
  <2>1. back \subseteq U
    BY <1>1, ErasedBelowIs
  <2>2. U \subseteq Nodes
    BY <1>3, ErasedFits
  <2> QED BY <2>1, <2>2
<1>7. F = G \/ Forest!Step(F, G)
  <2>1. F[p] \in Seq(Nodes) /\ n \in Nodes
    BY <1>1, <1>4, ShapeIs
  <2>2. DOMAIN F[p] = 1 .. Len(F[p]) /\ Len(F[p]) \in Nat
    BY <2>1, SetOf
  <2>3. /\ Forest!Holders = Parents /\ Forest!Shortened(F, p, i, i) = Short(F, p, i, i)
    BY <1>1, <1>4, ForestNames
  <2>4. Forest!Emptied(Short(F, p, i, i), U) = G
    BY <2>3 DEF Forest!Emptied, Bare
  <2>5. Forest!Within(F, F[p][i]) = U
    BY <1>1, <1>3, <2>1, ForestWithinIs
  <2>6. UNION {Forest!Within(F, F[p][j]) : j \in i .. i} = U
    <3>1. i .. i = {i}
      BY <2>2
    <3> QED BY <2>5, <3>1
  <2> HIDE DEF G, U
  <2>7. Forest!Erase(F, G)
    BY <1>4, <2>2, <2>3, <2>4, <2>6 DEF Forest!Erase
  <2> QED BY <2>7, StepIs
<1> HIDE DEF G, U, back
<1>8. Fits(Forgotten(Erased(L, n), back), G, E)
  <2>1. Linked(Erased(L, n), G, Attached(G), E) /\ back \cap Attached(G) = {}
    BY <1>4, <1>6 DEF Fits
  <2>2. Linked(Forgotten(Erased(L, n), back), G, Attached(G), E)
    BY <1>6, <2>1, ForgetLinked
  <2> QED BY <2>2 DEF Fits
<1>9. Becomes(F, G, Forgotten(Erased(L, n), back), E, Attached(F) \ U)
  BY <1>4, <1>7, <1>8 DEF Becomes
<1>10. \A X : Gains(F, G, X, X)
  BY <1>5 DEF Gains
<1> QED BY <1>9, <1>10 DEF U, back

\* All children of n are erased, with all that is below them.
LEMMA EraseAllStep ==
  ASSUME NEW F, NEW K, Shape(F, K), NEW n \in Parents
  PROVE  F = Bare(F, Under(F, n)) \/ Forest!Step(F, Bare(F, Under(F, n)))
<1> DEFINE U == Under(F, n)
           G == Bare(F, U)
<1>1. Shape(F, K)
  OBVIOUS
<1>4. F[n] \in Seq(Nodes) /\ F \in [Parents -> Seq(K)] /\ IsInjective(F[n])
      /\ \A q \in Parents : ToSet(F[q]) \subseteq Parents
  <2>1. F[n] \in Seq(Nodes) /\ IsInjective(F[n])
    BY ShapeIs
  <2>2. F \in [Parents -> Seq(K)]
    BY DEF Shape
  <2>3. \A q \in Parents : ToSet(F[q]) \subseteq Parents
    BY ShapeIs
  <2> QED BY <2>1, <2>2, <2>3
<1>6. U = {n} \cup UNION {Under(F, y) : y \in ToSet(F[n])}
  BY <1>4, UnderIs
<1> HIDE DEF U
<1>7. \A q \in Parents : G[q] = IF q \in U THEN <<>> ELSE F[q]
  BY DEF Bare
<1>10. F = G \/ Forest!Step(F, G)
  <2>1. CASE F[n] = <<>>
    <3>1. U = {n}
      BY <1>6, <2>1 DEF ToSet
    <3>2. \A q \in Parents : G[q] = F[q]
      BY <1>7, <2>1, <3>1
    <3>3. G = [q \in Parents |-> G[q]] /\ F = [q \in Parents |-> F[q]]
      BY <1>4 DEF Bare
    <3> HIDE DEF G
    <3> QED BY <3>2, <3>3
  <2>2. CASE F[n] # <<>>
    <3> DEFINE m == Len(F[n])
    <3>1. 1 \in 1 .. m /\ m \in 1 .. m /\ DOMAIN F[n] = 1 .. m
      BY <1>4, <2>2, WholeRun, SetOf
    <3>2. Shorter(F[n], 1, m) = <<>>
      <4> DEFINE s == F[n]
      <4>1. s \in Seq(Nodes) /\ IsInjective(s) /\ 1 \in 1 .. Len(s) /\ m \in 1 .. Len(s) /\ Len(s) \in Nat
        BY <1>4, <3>1, SetOf
      <4>3. Len(s) - (m - 1 + 1) = 0
        BY <4>1
      <4> HIDE DEF s, m
      <4>4. Shorter(s, 1, m) \in Seq(Nodes)
        BY ONLY <4>1, TakeSeq
      <4>5. Len(Shorter(s, 1, m)) = Len(s) - (m - 1 + 1)
        BY ONLY <4>1, TakeSeq
      <4> QED BY <4>3, <4>4, <4>5, EmptySeq DEF s
    <3> HIDE DEF m
    <3>3. /\ Forest!Holders = Parents /\ Forest!Shortened(F, n, 1, m) = Short(F, n, 1, m)
      BY <1>1, <1>4, ForestNames
    <3>4. Forest!Emptied(Short(F, n, 1, m), UNION {Under(F, F[n][j]) : j \in 1 .. m}) = G
      <4> DEFINE V == UNION {Under(F, F[n][j]) : j \in 1 .. m}
                 S == Short(F, n, 1, m)
      <4>1. V = UNION {Under(F, y) : y \in ToSet(F[n])}
        BY <3>1 DEF ToSet
      <4>2. U = {n} \cup V
        BY <1>6, <4>1
      <4>3. \A q \in Parents : S[q] = IF q = n THEN <<>> ELSE F[q]
        BY <1>4, <3>2 DEF Short
      <4> HIDE DEF V, S
      <4>4. \A q \in Parents : (IF q \in V THEN <<>> ELSE S[q]) = (IF q \in U THEN <<>> ELSE F[q])
        BY <4>2, <4>3
      <4>5. Forest!Emptied(S, V) = G
        BY <3>3, <4>4 DEF Forest!Emptied, Bare
      <4> QED BY <4>5 DEF V, S
    <3>5. \A j \in 1 .. m : Forest!Within(F, F[n][j]) = Under(F, F[n][j])
      <4> TAKE j \in 1 .. m
      <4>1. F[n][j] \in Nodes
        BY <1>4, <3>1
      <4> QED BY <1>1, <4>1, ForestWithinIs
    <3>6. UNION {Forest!Within(F, F[n][j]) : j \in 1 .. m} = UNION {Under(F, F[n][j]) : j \in 1 .. m}
      BY <3>5
    <3> HIDE DEF G
    <3>7. G = Forest!Emptied(Forest!Shortened(F, n, 1, m), UNION {Forest!Within(F, F[n][j]) : j \in 1 .. m})
      BY <3>3, <3>4, <3>6
    <3>8. Forest!Erase(F, G)
      BY <1>4, <3>1, <3>3, <3>7 DEF Forest!Erase
    <3> QED BY <3>8, StepIs
  <2> QED BY <2>1, <2>2
<1> QED BY <1>10 DEF U

\* erase_children: all that is below n leaves the forest.
LEMMA CutTurns ==
  ASSUME NEW L, NEW F, NEW E, Fits(L, F, E), NEW n \in Attached(F)
  PROVE  \E G : /\ Becomes(F, G, Forgotten(ChildrenCut(L, n), ErasedBelow(L, n)), E,
                           Attached(F) \ (Under(F, n) \ {n}))
                /\ \A X : Gains(F, G, X, X)
<1> DEFINE K == Attached(F)
           U == Under(F, n)
           G == Bare(F, U)
           M == ChildrenCut(L, n)
           back == ErasedBelow(L, n)
<1>1. Linked(L, F, K, E) /\ Shape(F, K)
  BY DEF Fits, Linked
<1>2. Linked(M, G, K \ (U \ {n}), E) /\ U \subseteq K /\ n \in U /\ Closed(F, U)
  BY <1>1, CutFits
<1>3. \A p \in Parents : p \notin U => ToSet(F[p]) \cap (U \ {n}) = {}
  BY <1>1, CutFits
<1>4. /\ n \in K /\ K \subseteq Nodes /\ Nodes \subseteq Parents /\ n \in Nodes
      /\ \A q \in Parents : ToSet(F[q]) \subseteq K
      /\ F[n] \in Seq(Nodes) /\ F \in [Parents -> Seq(K)] /\ IsInjective(F[n])
      /\ \A q \in Parents : ToSet(F[q]) \subseteq Parents
  <2>1. n \in K /\ K \subseteq Nodes /\ Nodes \subseteq Parents
    BY <1>1, ShapeIs
  <2>2. \A q \in Parents : ToSet(F[q]) \subseteq K
    BY <1>1, ShapeIs
  <2>3. F[n] \in Seq(Nodes) /\ IsInjective(F[n])
    BY <1>1, <2>1, ShapeIs
  <2>4. F \in [Parents -> Seq(K)]
    BY <1>1 DEF Shape
  <2> QED BY <2>1, <2>2, <2>3, <2>4
<1>5. back \subseteq U /\ n \notin back
  <2>1. {n} \cup ErasedBelow(L, n) \subseteq Under(F, n)
    BY <1>1, ErasedBelowIs
  <2>2. n \notin ErasedBelow(L, n)
    BY <1>1, ErasedBelowIs
  <2> QED BY <2>1, <2>2
<1>6. U = {n} \cup UNION {Under(F, y) : y \in ToSet(F[n])}
  BY <1>4, UnderIs
<1> HIDE DEF U, K, M, back
<1>7. \A q \in Parents : G[q] = IF q \in U THEN <<>> ELSE F[q]
  BY DEF Bare
<1>8. \A y \in Parents : ToSet(G[y]) \subseteq ToSet(F[y])
  <2> TAKE y \in Parents
  <2>1. CASE y \in U
    <3>1. G[y] = <<>>
      BY <1>7, <2>1
    <3> QED BY <3>1 DEF ToSet
  <2>2. CASE y \notin U
    BY <1>7, <2>2
  <2> QED BY <2>1, <2>2
<1>9. Attached(G) = K \ (U \ {n})
  <2>1. \A q \in Parents : ToSet(G[q]) \subseteq K \ (U \ {n})
    <3> TAKE q \in Parents
    <3>1. CASE q \in U
      <4>1. G[q] = <<>>
        BY <1>7, <3>1
      <4> QED BY <4>1 DEF ToSet
    <3>2. CASE q \notin U
      BY <1>3, <1>4, <1>7, <3>2
    <3> QED BY <3>1, <3>2
  <2>2. \A z \in K \ (U \ {n}) : z \in Attached(G)
    <3> SUFFICES ASSUME NEW z \in K \ (U \ {n}) PROVE z \in Attached(G)
      OBVIOUS
    <3>1. PICK q \in Parents : z \in ToSet(F[q])
      BY DEF Attached, K
    <3>2. q \notin U
      <4> SUFFICES ASSUME q \in U PROVE FALSE
        OBVIOUS
      <4>1. z = n
        BY <1>2, <3>1 DEF Closed
      <4>2. q \notin Under(F, n)
        BY <1>1, <3>1, <4>1, Acyclic
      <4> QED BY <4>2 DEF U
    <3>3. z \in ToSet(G[q])
      BY <1>7, <3>1, <3>2
    <3> QED BY <3>3 DEF Attached
  <2> HIDE DEF G
  <2> QED BY <2>1, <2>2 DEF Attached
<1>10. F = G \/ Forest!Step(F, G)
  BY <1>1, <1>4, EraseAllStep DEF U
<1> HIDE DEF G
<1>11. Fits(Forgotten(M, back), G, E)
  <2>1. Linked(M, G, Attached(G), E) /\ back \cap Attached(G) = {} /\ back \subseteq Nodes
    BY <1>2, <1>4, <1>5, <1>9 DEF G
  <2>2. Linked(Forgotten(M, back), G, Attached(G), E)
    BY <2>1, ForgetLinked
  <2> QED BY <2>2 DEF Fits
<1>12. Becomes(F, G, Forgotten(M, back), E, K \ (U \ {n}))
  BY <1>9, <1>10, <1>11 DEF Becomes
<1>13. \A X : Gains(F, G, X, X)
  BY <1>8 DEF Gains
<1> QED BY <1>12, <1>13 DEF U, K, M, back

\* clear() erases one top after the other.
LEMMA ClearSteps ==
  ASSUME NEW g, Len(Tops(link, g)) \in Nat
  PROVE  \E h : /\ h[0] = link /\ ClearedLinks(g) = h[Len(Tops(link, g))]
                /\ \A k \in 1 .. Len(Tops(link, g)) : h[k] = Erased(h[k - 1], Tops(link, g)[k])
<1> DEFINE xs == Tops(link, g)
           m == Len(xs)
           Good(f) == f = [k \in 0 .. m |-> IF k = 0 THEN link ELSE Erased(f[k - 1], xs[k])]
           h == CHOOSE f : Good(f)
           Part(f, t) == f[0] = link /\ \A k \in 1 .. t : f[k] = Erased(f[k - 1], xs[k])
           Bad == {t \in 0 .. m : ~ \E f : Part(f, t)}
<1>1. ClearedLinks(g) = h[m]
  BY DEF ClearedLinks
<1> HIDE DEF xs, m
<1>2. m \in Nat
  BY DEF m, xs
<1>3. Bad = {}
  <2> SUFFICES ASSUME Bad # {} PROVE FALSE
    OBVIOUS
  <2> HIDE DEF Part
  <2>1. Bad \subseteq Nat
    OBVIOUS
  <2>2. PICK t \in Bad : \A l \in Bad : t <= l
    BY <2>1, LeastNumber
  <2>3. t # 0
    <3> SUFFICES ASSUME t = 0 PROVE FALSE
      OBVIOUS
    <3>1. Part([k \in {0} |-> link], 0)
      BY DEF Part
    <3> QED BY <2>2, <3>1
  <2>4. t \in 1 .. m /\ t - 1 \in 0 .. m /\ ~(t <= t - 1) /\ t \in Nat
    BY <1>2, <2>2, <2>3
  <2>5. PICK f : Part(f, t - 1)
    BY <2>2, <2>4
  <2> DEFINE e == [k \in 0 .. t |-> IF k = t THEN Erased(f[t - 1], xs[t]) ELSE f[k]]
  <2>6. e[0] = link
    BY <2>3, <2>4, <2>5 DEF Part
  <2>7. ASSUME NEW k \in 1 .. t PROVE e[k] = Erased(e[k - 1], xs[k])
    <3>1. k - 1 \in 0 .. t /\ k - 1 # t /\ k \in 0 .. t
      BY <2>4
    <3>2. e[k - 1] = f[k - 1]
      BY <3>1
    <3>3. CASE k = t
      BY <2>4, <3>1, <3>2, <3>3
    <3>4. CASE k # t
      <4>1. k \in 1 .. t - 1
        BY <2>4, <3>4
      <4>2. e[k] = f[k]
        BY <3>1, <3>4
      <4> HIDE DEF e
      <4> QED BY <2>5, <3>2, <4>1, <4>2 DEF Part
    <3> QED BY <3>3, <3>4
  <2> HIDE DEF e
  <2>8. Part(e, t)
    BY <2>6, <2>7 DEF Part
  <2> QED BY <2>2, <2>8
<1>4. PICK f : Part(f, m)
  BY <1>2, <1>3
<1>5. Good([k \in 0 .. m |-> f[k]])
  <2> DEFINE e == [k \in 0 .. m |-> f[k]]
  <2>1. ASSUME NEW k \in 0 .. m
        PROVE  f[k] = IF k = 0 THEN link ELSE Erased(e[k - 1], xs[k])
    <3>1. CASE k = 0
      BY <1>4, <3>1
    <3>2. CASE k # 0
      <4>1. k \in 1 .. m /\ k - 1 \in 0 .. m
        BY <1>2, <3>2
      <4> QED BY <1>4, <3>2, <4>1
    <3> QED BY <3>1, <3>2
  <2> QED BY <2>1
<1>6. Good(h)
  <2> HIDE DEF Good
  <2> QED BY <1>5
<1> HIDE DEF h
<1>7. h[0] = link /\ \A k \in 1 .. m : h[k] = Erased(h[k - 1], xs[k])
  <2>1. 0 \in 0 .. m
    BY <1>2
  <2>2. \A k \in 1 .. m : k \in 0 .. m /\ k # 0
    BY <1>2
  <2>3. \A k \in 0 .. m : h[k] = IF k = 0 THEN link ELSE Erased(h[k - 1], xs[k])
    BY <1>6
  <2> HIDE DEF Good
  <2> QED BY <2>1, <2>2, <2>3
<1> QED BY <1>1, <1>7 DEF m, xs

\* Children that were not below what is gone are still below the others.
LEMMA UnderKept ==
  ASSUME NEW F, NEW G, NEW x \in Parents,
         \A p \in Parents : ToSet(F[p]) \subseteq Parents /\ ToSet(G[p]) \subseteq ToSet(F[p]),
         \A y \in Under(F, x) : G[y] = F[y]
  PROVE  Under(G, x) = Under(F, x)
<1>1. Under(G, x) \subseteq Under(F, x)
  BY UnderLess
<1>2. \A p \in Parents : ToSet(F[p]) \subseteq Parents
  OBVIOUS
<1>3. \A p \in Parents : ToSet(G[p]) \subseteq Parents
  OBVIOUS
<1>4. x \in Under(G, x) /\ Closed(G, Under(G, x)) /\ Under(G, x) \subseteq Parents
  BY <1>3, UnderIs
<1>5. Closed(F, Under(G, x))
  BY <1>1, <1>4 DEF Closed
<1>6. \A T \in SUBSET Parents : x \in T /\ Closed(F, T) => Under(F, x) \subseteq T
  BY <1>2, UnderIs
<1> QED BY <1>1, <1>4, <1>5, <1>6

\* What clear() of g leaves.
LEMMA ClearedFits ==
  ASSUME NEW F, NEW E, Fits(link, F, E), NEW g \in E
  PROVE  /\ Fits(ClearedLinks(g), Bare(F, Under(F, HeadOf(g))), E)
         /\ Tops(link, g) = F[HeadOf(g)] /\ HeadOf(g) \in Parents
<1> DEFINE p == HeadOf(g)
           xs == F[p]
           m == Len(xs)
           V(k) == UNION {Under(F, xs[j]) : j \in 1 .. k}
           K == Attached(F)
<1>1. Linked(link, F, K, E) /\ Shape(F, K)
  BY DEF Fits, Linked
<1>2. p \in Parents /\ Tops(link, g) = xs /\ g \in Graphs
  <2>1. g \in Graphs
    BY <1>1, HeldIs
  <2>2. p \in Parents
    BY <2>1, ParentsAre
  <2>3. \A f \in E : Tops(link, f) = F[HeadOf(f)]
    BY <1>1, ChildrenAre
  <2> QED BY <2>1, <2>2, <2>3
<1>3. \A T : p \in Held(T, E)
  BY DEF Held
<1> HIDE DEF p, K
<1>4. /\ xs \in Seq(Nodes) /\ IsInjective(xs) /\ DOMAIN F = Parents /\ Nodes \subseteq Parents
      /\ \A q \in Parents : ToSet(F[q]) \subseteq Parents
  <2>1. xs \in Seq(Nodes) /\ IsInjective(xs) /\ DOMAIN F = Parents /\ Nodes \subseteq Parents
    BY <1>1, <1>2, ShapeIs
  <2>2. \A q \in Parents : ToSet(F[q]) \subseteq Parents
    BY <1>1, ShapeIs
  <2> QED BY <2>1, <2>2
<1> HIDE DEF xs
<1>5. /\ m \in Nat /\ DOMAIN xs = 1 .. m /\ (xs = <<>> <=> m = 0)
      /\ \A i \in 1 .. m : xs[i] \in Nodes /\ xs[i] \in ToSet(xs)
      /\ \A i, j \in 1 .. m : xs[i] = xs[j] => i = j
  <2>1. m \in Nat /\ DOMAIN xs = 1 .. m /\ (xs = <<>> <=> m = 0)
    BY <1>4, SetOf
  <2>2. \A i \in 1 .. m : xs[i] \in Nodes /\ xs[i] \in ToSet(xs)
    BY <1>4, SetOf
  <2>3. \A i, j \in 1 .. m : xs[i] = xs[j] => i = j
    BY <1>4, SetOf
  <2> QED BY <2>1, <2>2, <2>3
<1>6. PICK h : /\ h[0] = link /\ ClearedLinks(g) = h[m]
               /\ \A k \in 1 .. m : h[k] = Erased(h[k - 1], xs[k])
  <2>1. Len(Tops(link, g)) \in Nat
    BY <1>2, <1>5
  <2> QED BY <1>2, <2>1, ClearSteps
<1> HIDE DEF m
<1>7. ASSUME NEW i \in 1 .. m, NEW j \in 1 .. m, i # j
      PROVE  Under(F, xs[i]) \cap Under(F, xs[j]) = {} /\ p \notin Under(F, xs[i])
  <2>1. /\ \A x \in ToSet(xs) : p \notin Under(F, x)
    BY <1>1, <1>2, Acyclic DEF xs
  <2>2. \A a, b \in 1 .. m : a # b => xs[a] \notin Under(F, xs[b])
    <3> SUFFICES ASSUME NEW a \in 1 .. m, NEW b \in 1 .. m, a # b, xs[a] \in Under(F, xs[b]) PROVE FALSE
      OBVIOUS
    <3>1. xs[a] # xs[b] /\ xs[b] \in Parents /\ xs[a] \in Nodes /\ xs[a] \in ToSet(F[p])
      BY <1>4, <1>5 DEF xs
    <3>2. \A z \in Under(F, xs[b]) : z # xs[b] => \E q \in Under(F, xs[b]) : z \in ToSet(F[q])
      BY <1>4, <3>1, UnderIs
    <3>3. Under(F, xs[b]) \subseteq Parents
      BY <1>4, <3>1, UnderIs
    <3>4. PICK q \in Under(F, xs[b]) : xs[a] \in ToSet(F[q])
      BY <3>1, <3>2
    <3>5. xs[a] \in K
      BY <1>1, <1>2, <3>1, ShapeIs
    <3>6. \A r, s \in Parents, x \in K : x \in ToSet(F[r]) /\ x \in ToSet(F[s]) => r = s
      BY <1>1, ShapeIs
    <3>7. q = p
      BY <1>2, <3>1, <3>3, <3>4, <3>5, <3>6
    <3> QED BY <1>5, <2>1, <3>4, <3>7
  <2>3. xs[i] \in Parents /\ xs[j] \in Parents
    BY <1>4, <1>5
  <2>4. Under(F, xs[i]) \cap Under(F, xs[j]) = {}
    <3>1. xs[i] \notin Under(F, xs[j]) /\ xs[j] \notin Under(F, xs[i])
      BY <1>7, <2>2
    <3> QED BY <1>1, <2>3, <3>1, UnderApart
  <2> QED BY <1>5, <2>1, <2>4
<1> DEFINE Left(G, k) == /\ Len(G[p]) = m - k
                         /\ \A j \in 1 .. m - k : G[p][j] = xs[k + j]
                         /\ \A y \in Parents : y # p => G[y] = IF y \in V(k) THEN <<>> ELSE F[y]
           Inv(k) == \E G : Fits(h[k], G, E) /\ Left(G, k)
           Bad == {k \in 0 .. m : ~Inv(k)}
<1>8. Inv(0)
  <2>1. Len(F[p]) = m - 0
    BY <1>5 DEF m, xs
  <2>2. \A j \in 1 .. m - 0 : F[p][j] = xs[0 + j]
    BY <1>5 DEF xs
  <2>3. V(0) = {}
    OBVIOUS
  <2>4. Left(F, 0)
    BY <2>1, <2>2, <2>3
  <2>5. Fits(h[0], F, E)
    BY <1>6
  <2> HIDE DEF Left
  <2> QED BY <2>4, <2>5
<1>9. ASSUME NEW k \in 1 .. m, Inv(k - 1) PROVE Inv(k)
  <2> HIDE DEF Left, V
  <2>1. PICK G : Fits(h[k - 1], G, E) /\ Left(G, k - 1)
    BY <1>9
  <2> DEFINE n == xs[k]
             W == Under(G, n)
             D == Bare(Short(G, p, 1, 1), W)
  <2>2. Shape(G, Attached(G)) /\ Linked(h[k - 1], G, Attached(G), E)
    BY <2>1 DEF Fits, Linked
  <2>3. /\ G[p] \in Seq(Nodes) /\ IsInjective(G[p]) /\ DOMAIN G = Parents
    BY <1>2, <2>2, ShapeIs
  <2>4. /\ Len(G[p]) = m - (k - 1)
        /\ \A j \in 1 .. m - (k - 1) : G[p][j] = xs[(k - 1) + j]
        /\ \A y \in Parents : y # p => G[y] = IF y \in V(k - 1) THEN <<>> ELSE F[y]
    BY <2>1 DEF Left
  <2>5. 1 \in 1 .. Len(G[p]) /\ G[p][1] = n /\ p \in Held(Attached(G), E) /\ 1 \in 1 .. m - (k - 1)
    <3>1. 1 \in 1 .. m - (k - 1) /\ (k - 1) + 1 = k
      BY <1>5
    <3> QED BY <1>3, <2>4, <3>1
  <2> HIDE DEF n
  <2>6. /\ Fits(Erased(h[k - 1], n), D, E) /\ p \notin W
    BY <2>1, <2>5, ErasedFits
  <2>7. /\ Len(D[p]) = m - k
        /\ \A j \in 1 .. m - k : D[p][j] = xs[k + j]
    <3>1. D[p] = Shorter(G[p], 1, 1)
      BY <1>2, <2>3, <2>6 DEF Bare, Short
    <3> DEFINE s == G[p]
    <3>2. s \in Seq(Nodes) /\ IsInjective(s) /\ 1 \in 1 .. Len(s) /\ 1 \in 1 .. Len(s)
      BY <2>3, <2>5
    <3>3. Len(s) = m - (k - 1) /\ \A j \in 1 .. m - (k - 1) : s[j] = xs[(k - 1) + j]
      BY <2>4
    <3> HIDE DEF s, D
    <3>4. Len(Shorter(s, 1, 1)) = Len(s) - (1 - 1 + 1)
      BY ONLY <3>2, TakeSeq
    <3>5. \A j \in 1 .. Len(s) - (1 - 1 + 1) :
            Shorter(s, 1, 1)[j] = IF j < 1 THEN s[j] ELSE s[j + (1 - 1 + 1)]
      <4> DEFINE lo == 1
                 hi == 1
      <4>1. s \in Seq(Nodes) /\ IsInjective(s) /\ lo \in 1 .. Len(s) /\ hi \in lo .. Len(s)
        BY <3>2
      <4> HIDE DEF lo, hi
      <4>2. \A j \in 1 .. Len(s) - (hi - lo + 1) :
              Shorter(s, lo, hi)[j] = IF j < lo THEN s[j] ELSE s[j + (hi - lo + 1)]
        BY ONLY <4>1, TakeSeq
      <4> QED BY <4>2 DEF lo, hi
    <3>6. Len(s) - (1 - 1 + 1) = m - k
      BY <1>5, <3>3
    <3>7. ASSUME NEW j \in 1 .. m - k PROVE Shorter(s, 1, 1)[j] = xs[k + j]
      <4>1. j \in 1 .. Len(s) - (1 - 1 + 1) /\ ~(j < 1) /\ j + (1 - 1 + 1) = j + 1
            /\ j + 1 \in 1 .. m - (k - 1) /\ (k - 1) + (j + 1) = k + j
        BY <1>5, <3>6
      <4>2. Shorter(s, 1, 1)[j] = s[j + 1]
        BY <3>5, <4>1
      <4> QED BY <3>3, <4>1, <4>2
    <3> QED BY <3>1, <3>4, <3>6, <3>7 DEF s
  <2>8. W = Under(F, n)
    <3>1. n \in Parents /\ n \in Nodes
      BY <1>4, <1>5 DEF n
    <3>2. Under(F, n) \cap V(k - 1) = {}
      <4>1. \A j \in 1 .. k - 1 : j \in 1 .. m /\ j # k
        BY <1>5
      <4> QED BY <1>7, <4>1 DEF V, n
    <3>3. p \notin Under(F, n)
      BY <1>1, <1>2, <1>5, Acyclic DEF n, xs
    <3>4. Under(F, n) \subseteq Parents
      BY <1>4, <3>1, UnderIs
    <3>5. \A y \in Under(F, n) : G[y] = F[y]
      BY <2>4, <3>2, <3>3, <3>4
    <3>6. ASSUME NEW y \in Parents PROVE ToSet(G[y]) \subseteq ToSet(F[y])
      <4>1. CASE y = p
        <5>1. \A j \in 1 .. Len(G[p]) : G[p][j] \in ToSet(xs)
          <6> TAKE j \in 1 .. Len(G[p])
          <6>1. j \in 1 .. m - (k - 1) /\ (k - 1) + j \in 1 .. m
            BY <1>5, <2>4
          <6> QED BY <1>5, <2>4, <6>1
        <5>2. \A z \in ToSet(G[p]) : \E j \in 1 .. Len(G[p]) : z = G[p][j]
          BY <2>3, SetOf
        <5> QED BY <4>1, <5>1, <5>2 DEF xs
      <4>2. CASE y # p
        <5>1. G[y] = IF y \in V(k - 1) THEN <<>> ELSE F[y]
          BY <2>4, <4>2
        <5> QED BY <5>1 DEF ToSet
      <4> QED BY <4>1, <4>2
    <3> QED BY <1>4, <3>1, <3>5, <3>6, UnderKept
  <2>9. ASSUME NEW y \in Parents, y # p PROVE D[y] = IF y \in V(k) THEN <<>> ELSE F[y]
    <3>1. D[y] = IF y \in W THEN <<>> ELSE G[y]
      BY <2>3, <2>9 DEF Bare, Short
    <3>2. V(k) = V(k - 1) \cup W
      <4>1. 1 .. k = (1 .. k - 1) \cup {k}
        BY <1>5
      <4> QED BY <2>8, <4>1 DEF V, n
    <3>3. G[y] = IF y \in V(k - 1) THEN <<>> ELSE F[y]
      BY <2>4, <2>9
    <3> HIDE DEF D, W
    <3> QED BY <3>1, <3>2, <3>3
  <2> HIDE DEF D
  <2>10. Left(D, k)
    BY <2>7, <2>9 DEF Left
  <2>11. h[k] = Erased(h[k - 1], n)
    BY <1>6 DEF n
  <2>12. Fits(h[k], D, E)
    BY <2>6, <2>11
  <2> QED BY <2>10, <2>12
<1> HIDE DEF Inv
<1>10. Bad = {}
  <2> SUFFICES ASSUME Bad # {} PROVE FALSE
    OBVIOUS
  <2>1. Bad \subseteq Nat
    OBVIOUS
  <2>2. PICK k \in Bad : \A l \in Bad : k <= l
    BY <2>1, LeastNumber
  <2>3. k # 0
    BY <1>8, <2>2
  <2>4. k \in 1 .. m /\ k - 1 \in 0 .. m /\ ~(k <= k - 1)
    BY <1>5, <2>2, <2>3
  <2>5. Inv(k - 1)
    BY <2>2, <2>4
  <2> QED BY <1>9, <2>2, <2>4, <2>5
<1>11. Inv(m)
  BY <1>5, <1>10
<1>12. PICK G : Fits(h[m], G, E) /\ Left(G, m)
  BY <1>11 DEF Inv
<1> DEFINE U == Under(F, p)
<1>13. U = {p} \cup V(m)
  <2>1. U = {p} \cup UNION {Under(F, y) : y \in ToSet(F[p])}
    BY <1>2, <1>4, UnderIs
  <2>2. ToSet(xs) = {xs[j] : j \in 1 .. m}
    BY <1>5 DEF ToSet
  <2> HIDE DEF U
  <2> QED BY <2>1, <2>2 DEF xs
<1>14. G = Bare(F, U)
  <2>1. G \in [Parents -> Seq(Attached(G))]
    BY <1>12 DEF Fits, Linked, Shape
  <2>2. G[p] = <<>>
    <3>1. m - m = 0
      BY <1>5
    <3>2. Len(G[p]) = 0
      BY <1>12, <3>1
    <3>3. G[p] \in Seq(Attached(G))
      BY <1>2, <2>1
    <3> QED BY <3>2, <3>3, EmptySeq
  <2>3. \A y \in Parents : y # p => G[y] = IF y \in V(m) THEN <<>> ELSE F[y]
    BY <1>12
  <2> HIDE DEF V, U
  <2>4. \A y \in Parents : G[y] = IF y \in U THEN <<>> ELSE F[y]
    BY <1>13, <2>2, <2>3
  <2> QED BY <2>1, <2>4 DEF Bare
<1>15. Fits(ClearedLinks(g), Bare(F, U), E)
  BY <1>6, <1>12, <1>14
<1> QED BY <1>2, <1>15 DEF p, xs

\* clear() and ~graph: all that is below the head leaves the forest.
LEMMA ClearTurns ==
  ASSUME NEW F, NEW E, Fits(link, F, E), NEW g \in E, NEW back, back \subseteq Nodes,
         back \cap (Attached(F) \ Under(F, HeadOf(g))) = {}
  PROVE  \E G : /\ Becomes(F, G, Forgotten(ClearedLinks(g), back), E,
                           Attached(F) \ Under(F, HeadOf(g)))
                /\ Becomes(F, G, Forgotten(ClearedLinks(g), back), E \ {g},
                           Attached(F) \ Under(F, HeadOf(g)))
                /\ \A X : Gains(F, G, X, X)
<1> DEFINE p == HeadOf(g)
           U == Under(F, p)
           G == Bare(F, U)
           K == Attached(F)
           M == Forgotten(ClearedLinks(g), back)
<1>1. Linked(link, F, K, E) /\ Shape(F, K)
  BY DEF Fits, Linked
<1>2. Fits(ClearedLinks(g), G, E) /\ p \in Parents
  BY ClearedFits
<1> HIDE DEF p
<1>3. /\ \A q \in Parents : ToSet(F[q]) \subseteq Parents
      /\ \A q \in Parents : ToSet(F[q]) \subseteq K
      /\ \A r, s \in Parents, x \in K : x \in ToSet(F[r]) /\ x \in ToSet(F[s]) => r = s
      /\ K \subseteq Nodes /\ Nodes \subseteq Parents
  <2>1. \A q \in Parents : ToSet(F[q]) \subseteq Parents
    BY <1>1, ShapeIs
  <2>2. \A q \in Parents : ToSet(F[q]) \subseteq K
    BY <1>1, ShapeIs
  <2>3. \A r, s \in Parents, x \in K : x \in ToSet(F[r]) /\ x \in ToSet(F[s]) => r = s
    BY <1>1, ShapeIs
  <2>4. K \subseteq Nodes /\ Nodes \subseteq Parents
    BY <1>1, ShapeIs
  <2> QED BY <2>1, <2>2, <2>3, <2>4
<1>4. Closed(F, U) /\ U \subseteq Parents /\ p \in U /\ p \notin K
  <2>1. Closed(F, U) /\ U \subseteq Parents /\ p \in U
    BY <1>2, <1>3, UnderIs
  <2>2. g \in Graphs
    BY <1>1, HeldIs
  <2>3. p < 0
    BY <2>2, ParentsAre DEF p
  <2> QED BY <1>2, <1>3, <2>1, <2>3, ParentsAre
<1>5. \A z \in U : z # p => \E q \in U : z \in ToSet(F[q])
  BY <1>2, <1>3, UnderIs
<1>6. F = G \/ Forest!Step(F, G)
  BY <1>1, <1>2, EraseAllStep
<1> HIDE DEF U
<1>7. \A q \in Parents : G[q] = IF q \in U THEN <<>> ELSE F[q]
  BY DEF Bare
<1>8. \A y \in Parents : ToSet(G[y]) = IF y \in U THEN {} ELSE ToSet(F[y])
  <2> TAKE y \in Parents
  <2>1. CASE y \in U
    <3>1. G[y] = <<>>
      BY <1>7, <2>1
    <3> QED BY <2>1, <3>1 DEF ToSet
  <2>2. CASE y \notin U
    BY <1>7, <2>2
  <2> QED BY <2>1, <2>2
<1>9. Attached(G) = K \ U
  <2>1. \A q \in Parents : ToSet(G[q]) \subseteq K \ U
    <3> SUFFICES ASSUME NEW q \in Parents, q \notin U, NEW z \in ToSet(F[q]) PROVE z \notin U
      BY <1>3, <1>8
    <3>1. z \in K
      BY <1>3
    <3> QED BY <1>3, <1>4, <1>5, <3>1
  <2>2. \A z \in K \ U : z \in Attached(G)
    <3> SUFFICES ASSUME NEW z \in K \ U PROVE z \in Attached(G)
      OBVIOUS
    <3>1. PICK q \in Parents : z \in ToSet(F[q])
      BY DEF Attached
    <3>2. q \notin U
      BY <1>4, <3>1 DEF Closed
    <3>3. z \in ToSet(G[q])
      BY <1>8, <3>1, <3>2
    <3> QED BY <3>3 DEF Attached
  <2> HIDE DEF G, K
  <2> QED BY <2>1, <2>2 DEF Attached
<1>10. G[p] = <<>>
  BY <1>2, <1>4, <1>7
<1> HIDE DEF G, K
<1>11. Linked(M, G, Attached(G), E)
  <2>1. Linked(ClearedLinks(g), G, Attached(G), E)
    BY <1>2 DEF Fits
  <2>2. back \cap Attached(G) = {}
    BY <1>9 DEF U, p, K
  <2> QED BY <2>1, <2>2, ForgetLinked
<1>12. Linked(M, G, Attached(G), E \ {g})
  <2>1. \A f \in Graphs \ (E \ {g}) : G[HeadOf(f)] = <<>>
    BY <1>10, <1>11 DEF Linked, p
  <2>2. \A q \in Held(Attached(G), E \ {g}) : q \in Held(Attached(G), E)
    BY DEF Held
  <2> QED BY <1>11, <2>1, <2>2 DEF Linked
<1>13. Fits(M, G, E) /\ Fits(M, G, E \ {g})
  BY <1>11, <1>12 DEF Fits
<1> HIDE DEF M
<1>14. Becomes(F, G, M, E, K \ U) /\ Becomes(F, G, M, E \ {g}, K \ U)
  BY <1>6, <1>9, <1>13 DEF Becomes
<1>15. \A X : Gains(F, G, X, X)
  BY <1>8 DEF Gains
<1> QED BY <1>14, <1>15 DEF K, U, M, p

\* The nodes that clear() of g destroys are all below its head.
LEMMA ClearedIn ==
  ASSUME NEW F, NEW E, Fits(link, F, E), NEW g \in E
  PROVE  /\ ClearedNodes(g) \subseteq Under(F, HeadOf(g)) /\ ClearedNodes(g) \subseteq Nodes
         /\ ClearedNodes(g) = UNION {{n} \cup ErasedBelow(link, n) : n \in ToSet(F[HeadOf(g)])}
         /\ ToSet(F[HeadOf(g)]) \subseteq Attached(F)
<1> DEFINE p == HeadOf(g)
<1>1. Linked(link, F, Attached(F), E) /\ Shape(F, Attached(F))
  BY DEF Fits, Linked
<1>2. Tops(link, g) = F[p] /\ p \in Parents
  BY ClearedFits
<1> HIDE DEF p
<1>3. \A q \in Parents : ToSet(F[q]) \subseteq Parents
  BY <1>1, ShapeIs
<1>4. ToSet(F[p]) \subseteq Attached(F) /\ Attached(F) \subseteq Nodes
  <2>1. ToSet(F[p]) \subseteq Attached(F)
    BY <1>2 DEF Attached
  <2> QED BY <1>1, <2>1, ShapeIs
<1>5. ASSUME NEW n \in ToSet(F[p])
      PROVE  /\ {n} \cup ErasedBelow(link, n) \subseteq Under(F, p)
             /\ {n} \cup ErasedBelow(link, n) \subseteq Nodes
  <2>1. n \in Attached(F)
    BY <1>4
  <2>2. {n} \cup ErasedBelow(link, n) \subseteq Under(F, n)
    BY <1>1, <2>1, ErasedBelowIs
  <2>3. Under(F, n) \subseteq Attached(F)
    BY <1>1, <2>1, ErasedBelowIs
  <2>4. n \in Under(F, p)
    BY <1>2, <1>3, UnderIs
  <2>5. \A y \in Under(F, p) : Under(F, y) \subseteq Under(F, p)
    BY <1>2, <1>3, UnderIs
  <2> QED BY <1>4, <2>2, <2>3, <2>4, <2>5
<1>6. ClearedNodes(g) = UNION {{n} \cup ErasedBelow(link, n) : n \in ToSet(F[p])}
  BY <1>2 DEF ClearedNodes, p
<1>7. ClearedNodes(g) \subseteq Under(F, p) /\ ClearedNodes(g) \subseteq Nodes
  BY <1>5, <1>6
<1> QED BY <1>4, <1>6, <1>7 DEF p

-----------------------------------------------------------------------------
(* Wrapping, and moving on top of another node.                            *)

\* A function on 1 .. n is a sequence of length n.
LEMMA FunctionSeq ==
  ASSUME NEW S, NEW n \in Nat, NEW v, v = [j \in 1 .. n |-> v[j]], \A j \in 1 .. n : v[j] \in S
  PROVE  v \in Seq(S) /\ Len(v) = n
<1>1. v \in [1 .. n -> S]
  OBVIOUS
<1>2. v \in Seq(S)
  BY <1>1, SeqDef
<1>3. DOMAIN v = 1 .. n
  BY <1>1
<1>4. Len(v) \in Nat /\ DOMAIN v = 1 .. Len(v)
  BY <1>2, SetOf
<1>5. n # 0 => n \in 1 .. Len(v)
  <2>1. n # 0 => n \in 1 .. n
    OBVIOUS
  <2> QED BY <1>3, <1>4, <2>1
<1>6. Len(v) # 0 => Len(v) \in 1 .. n
  <2>1. Len(v) # 0 => Len(v) \in 1 .. Len(v)
    BY <1>4
  <2> QED BY <1>3, <1>4, <2>1
<1>7. Len(v) = n
  BY <1>4, <1>5, <1>6
<1> QED BY <1>2, <1>7

\* x stands in the place of s[i].
LEMMA PutFor ==
  ASSUME NEW s \in Seq(Nodes), IsInjective(s), NEW x \in Nodes, x \notin ToSet(s), NEW i \in 1 .. Len(s)
  PROVE  /\ Shorter(Longer(s, <<x>>, i), i + 1, i + 1) = [j \in DOMAIN s |-> IF s[j] = s[i] THEN x ELSE s[j]]
         /\ i + 1 \in 1 .. Len(Longer(s, <<x>>, i))
         /\ Longer(s, <<x>>, i)[i + 1] = s[i]
         /\ IsInjective(Longer(s, <<x>>, i)) /\ Longer(s, <<x>>, i) \in Seq(Nodes)
<1> DEFINE m == Len(s)
           xs == <<x>>
           t == Longer(s, xs, i)
<1>1. m \in Nat /\ DOMAIN s = 1 .. m /\ (\A j \in 1 .. m : s[j] \in Nodes /\ s[j] \in ToSet(s))
  BY SetOf
<1>2. \A j, k \in 1 .. m : s[j] = s[k] => j = k
  BY SetOf
<1>3. xs \in Seq(Nodes) /\ Len(xs) = 1 /\ xs[1] = x
  OBVIOUS
<1> HIDE DEF xs, m
<1>4. i \in 1 .. Len(s) + 1
  BY <1>1 DEF m
<1>a. PutsIn(Nodes, s, xs, i)
  BY <1>3, <1>4 DEF PutsIn
<1>5. /\ t \in Seq(Nodes) /\ Len(t) = Len(s) + Len(xs)
  BY ONLY <1>a, PutIs
<1>6. \A j \in 1 .. Len(s) + Len(xs) :
        t[j] = IF j < i THEN s[j] ELSE IF j < i + Len(xs) THEN xs[j - i + 1] ELSE s[j - Len(xs)]
  BY ONLY <1>a, PutIs
<1>7. Len(s) = m
  BY DEF m
<1> HIDE DEF t
<1>8. Len(t) = m + 1 /\ \A j \in 1 .. m + 1 : t[j] = IF j < i THEN s[j] ELSE IF j = i THEN x ELSE s[j - 1]
  <2>1. ASSUME NEW j \in 1 .. m + 1
        PROVE  t[j] = IF j < i THEN s[j] ELSE IF j = i THEN x ELSE s[j - 1]
    <3>1. j \in Int /\ i \in Int /\ (j = i => j - i + 1 = 1) /\ (j < i + 1 <=> j <= i)
      BY <1>1, <1>7
    <3> QED BY <1>3, <1>6, <1>7, <3>1
  <2> QED BY <1>3, <1>5, <1>7, <2>1
<1>9. ASSUME NEW j \in 1 .. m + 1, NEW k \in 1 .. m + 1, t[j] = t[k] PROVE j = k
  <2>1. /\ j < i => j \in 1 .. m
        /\ j > i => j - 1 \in 1 .. m
        /\ k < i => k \in 1 .. m
        /\ k > i => k - 1 \in 1 .. m
    BY <1>1, <1>7
  <2>2. /\ j = i => t[j] = x
        /\ j < i => t[j] = s[j]
        /\ j > i => t[j] = s[j - 1]
        /\ k = i => t[k] = x
        /\ k < i => t[k] = s[k]
        /\ k > i => t[k] = s[k - 1]
    BY <1>8
  <2>3. \A l \in 1 .. m : s[l] # x
    BY <1>1
  <2>4. j \in Int /\ k \in Int /\ i \in Int /\ i \in 1 .. m
    BY <1>1, <1>7
  <2>5. CASE j = i
    BY <1>9, <2>1, <2>2, <2>3, <2>4, <2>5
  <2>6. CASE j < i
    BY <1>2, <1>9, <2>1, <2>2, <2>3, <2>4, <2>6
  <2>7. CASE j > i
    BY <1>2, <1>9, <2>1, <2>2, <2>3, <2>4, <2>7
  <2> QED BY <2>4, <2>5, <2>6, <2>7
<1>10. IsInjective(t)
  <2>1. \A j, k \in 1 .. Len(t) : t[j] = t[k] => j = k
    BY <1>8, <1>9
  <2> QED BY <1>5, <2>1, SetOf
<1>11. i + 1 \in 1 .. Len(t) /\ t[i + 1] = s[i]
  <2>1. i + 1 \in 1 .. m + 1 /\ ~(i + 1 < i) /\ i + 1 # i /\ (i + 1) - 1 = i
    BY <1>1, <1>7
  <2> QED BY <1>8, <2>1
<1> DEFINE lo == i + 1
           u == Shorter(t, lo, lo)
           v == [j \in DOMAIN s |-> IF s[j] = s[i] THEN x ELSE s[j]]
<1>12. t \in Seq(Nodes) /\ IsInjective(t) /\ lo \in 1 .. Len(t) /\ lo \in lo .. Len(t)
  <2>1. lo \in Int /\ Len(t) \in Nat
    BY <1>5, <1>11, SetOf
  <2> QED BY <1>5, <1>10, <1>11, <2>1
<1> HIDE DEF lo
<1>13. u \in Seq(Nodes) /\ Len(u) = Len(t) - (lo - lo + 1)
  BY ONLY <1>12, TakeSeq
<1>14. \A j \in 1 .. Len(t) - (lo - lo + 1) : u[j] = IF j < lo THEN t[j] ELSE t[j + (lo - lo + 1)]
  BY ONLY <1>12, TakeSeq
<1>15. Len(t) - (lo - lo + 1) = m /\ lo - lo + 1 = 1 /\ lo = i + 1
  BY <1>1, <1>7, <1>8 DEF lo
<1> HIDE DEF u
<1>16. ASSUME NEW j \in 1 .. m PROVE u[j] = IF s[j] = s[i] THEN x ELSE s[j]
  <2>1. u[j] = IF j < i + 1 THEN t[j] ELSE t[j + 1]
    BY <1>14, <1>15
  <2>2. j \in 1 .. m + 1 /\ j + 1 \in 1 .. m + 1 /\ (j + 1) - 1 = j /\ i \in 1 .. m /\ j \in Int /\ i \in Int
    BY <1>1, <1>7
  <2>3. CASE j = i
    <3>1. u[j] = t[j] /\ t[j] = x
      BY <1>8, <2>1, <2>2, <2>3
    <3> QED BY <2>3, <3>1
  <2>4. CASE j < i
    <3>1. u[j] = t[j] /\ t[j] = s[j] /\ j # i
      BY <1>8, <2>1, <2>2, <2>4
    <3> QED BY <1>2, <2>2, <3>1
  <2>5. CASE j > i
    <3>1. ~(j < i + 1) /\ ~(j + 1 < i) /\ j + 1 # i /\ j # i
      BY <2>2, <2>5
    <3>2. u[j] = t[j + 1] /\ t[j + 1] = s[j]
      BY <1>8, <2>1, <2>2, <3>1
    <3> QED BY <1>2, <2>2, <3>1, <3>2
  <2> QED BY <2>2, <2>3, <2>4, <2>5
<1>17. u = v
  <2>1. v \in Seq(Nodes) /\ Len(v) = m
    <3>1. \A j \in 1 .. m : v[j] \in Nodes
      BY <1>1
    <3>2. DOMAIN v = 1 .. m /\ v = [j \in 1 .. m |-> v[j]]
      BY <1>1
    <3> HIDE DEF v
    <3>3. m \in Nat /\ v = [j \in 1 .. m |-> v[j]] /\ \A j \in 1 .. m : v[j] \in Nodes
      BY <1>1, <3>1, <3>2
    <3>4. v \in Seq(Nodes)
      BY ONLY <3>3, FunctionSeq
    <3>5. Len(v) = m
      BY ONLY <3>3, FunctionSeq
    <3> QED BY <3>4, <3>5
  <2>2. \A j \in 1 .. m : v[j] = IF s[j] = s[i] THEN x ELSE s[j]
    BY <1>1
  <2> HIDE DEF v
  <2>3. Len(u) = m /\ Len(v) = m /\ u \in Seq(Nodes) /\ v \in Seq(Nodes) /\ \A j \in 1 .. m : u[j] = v[j]
    BY <1>13, <1>15, <1>16, <2>1, <2>2
  <2>4. Len(u) = Len(v) /\ \A j \in 1 .. Len(u) : u[j] = v[j]
    BY <2>3
  <2> QED BY ONLY <2>3, <2>4, SeqEqual
<1> QED BY <1>5, <1>10, <1>11, <1>17 DEF u, lo, t, xs

\* The children of everything under other names.
Named(F, f) == [q \in Parents |-> [j \in DOMAIN F[q] |-> f[F[q][j]]]]

\* Renamed and Same of OrderedForest.
LEMMA NamedIs ==
  ASSUME NEW F, NEW f
  PROVE  Forest!Renamed(F, f) = Named(F, f) /\ Forest!Same = [x \in Nodes |-> x]
<1>1. Forest!Holders = Parents
  BY DEF Forest!Holders, Parents
<1> QED BY <1>1 DEF Forest!Renamed, Named, Forest!Same

\* G and M are F and L with n at the place i of p.
AddedAt(F, E, M, n, p, i, G) ==
  /\ Fits(M, G, E) /\ Attached(G) = Attached(F) \cup {n}
  /\ Shape(G, Attached(F) \cup {n}) /\ G[p] = Longer(F[p], <<n>>, i)
  /\ \A q \in Parents : q # p => G[q] = F[q]

\* Adding a node gives the forest with it.
LEMMA AddsTo ==
  ASSUME NEW L, NEW F, NEW E, Fits(L, F, E), NEW n \in Nodes, n \notin Attached(F),
         NEW p \in Held(Attached(F), E), NEW a, NEW b, NEW i, Gap(F[p], p, a, b, i)
  PROVE  AddedAt(F, E, PutIn([L EXCEPT ![n] = NoLinks], n, UpFrom(p), a, b), n, p, i, Long(F, <<n>>, p, i))
  BY AddFits DEF AddedAt

\* A new node x takes the place of n, and n comes below x.
LEMMA WrapTurns ==
  ASSUME NEW L, NEW F, NEW E, Fits(L, F, E), NEW n \in Attached(F), NEW x \in Nodes, x \notin Attached(F),
         NEW M, M = PutIn([L EXCEPT ![x] = NoLinks], x, L[n].up, L[n].prev, n),
         NEW P, Whole(F, P), n \in P
  PROVE  \E G : /\ Becomes(F, G, RunIn(TakenOut(M, n), <<n>>, x, NoNode, NoNode), E, Attached(F) \cup {x})
                /\ Gains(F, G, P \cup {x}, P \cup {x})
<1> DEFINE K == Attached(F)
<1>1. Linked(L, F, K, E) /\ Shape(F, K)
  BY DEF Fits, Linked
<1>2. PICK p \in Held(Attached(F), E) : \E i \in 1 .. Len(F[p]) :
           p \in Parents /\ n = F[p][i] /\ n \in ToSet(F[p]) /\ L[n].up = UpFrom(p)
  BY <1>1, Place
<1>3. PICK i \in 1 .. Len(F[p]) :
           p \in Parents /\ n = F[p][i] /\ n \in ToSet(F[p]) /\ L[n].up = UpFrom(p)
  BY <1>2
<1>4. Gap(F[p], p, L[n].prev, n, i)
  BY <1>1, <1>3, GapAround
<1> DEFINE G == Long(F, <<x>>, p, i)
           J == K \cup {x}
<1>5. /\ Fits(PutIn([L EXCEPT ![x] = NoLinks], x, UpFrom(p), L[n].prev, n), G, E)
      /\ Attached(G) = Attached(F) \cup {x}
      /\ Shape(G, Attached(F) \cup {x})
      /\ G[p] = Longer(F[p], <<x>>, i)
      /\ \A q \in Parents : q # p => G[q] = F[q]
  <2> HIDE DEF G
  <2>0. /\ Fits(L, F, E) /\ x \in Nodes /\ x \notin Attached(F) /\ p \in Held(Attached(F), E)
        /\ Gap(F[p], p, L[n].prev, n, i)
    BY <1>4
  <2>1. AddedAt(F, E, PutIn([L EXCEPT ![x] = NoLinks], x, UpFrom(p), L[n].prev, n), x, p, i, Long(F, <<x>>, p, i))
    BY ONLY <2>0, AddsTo
  <2> QED BY <2>1 DEF AddedAt, G
<1>6. Fits(M, G, E) /\ Linked(M, G, J, E)
  <2>1. Fits(M, G, E)
    BY <1>3, <1>5
  <2> HIDE DEF G
  <2> QED BY <1>5, <2>1 DEF Fits
<1>7. /\ F[p] \in Seq(Nodes) /\ IsInjective(F[p]) /\ ToSet(F[p]) \subseteq K /\ n \in Nodes
      /\ DOMAIN F = Parents /\ K \subseteq Nodes /\ x \in Parents /\ Nodes \subseteq Parents
  <2>1. /\ F[p] \in Seq(Nodes) /\ IsInjective(F[p]) /\ ToSet(F[p]) \subseteq K
    BY <1>1, <1>3, ShapeIs
  <2>2. DOMAIN F = Parents /\ K \subseteq Nodes /\ Nodes \subseteq Parents
    BY <1>1, ShapeIs
  <2> QED BY <2>1, <2>2
<1>8. F[x] = <<>> /\ p # x
  <2>1. F[x] = <<>>
    BY <1>1 DEF Shape
  <2> QED BY <1>3, <2>1 DEF ToSet
<1> HIDE DEF G
<1> DEFINE s == F[p]
           u == [j \in DOMAIN s |-> IF s[j] = s[i] THEN x ELSE s[j]]
<1>9. /\ Shorter(G[p], i + 1, i + 1) = u /\ i + 1 \in 1 .. Len(G[p]) /\ G[p][i + 1] = n
  <2>1. s \in Seq(Nodes) /\ IsInjective(s) /\ x \notin ToSet(s) /\ i \in 1 .. Len(s)
    BY <1>7
  <2>2. G[p] = Longer(s, <<x>>, i) /\ n = s[i]
    BY <1>3, <1>5
  <2> HIDE DEF s
  <2> QED BY <2>1, <2>2, PutFor
<1> DEFINE j == i + 1
<1>10. j \in 1 .. Len(G[p]) /\ G[p][j] = n /\ Shorter(G[p], j, j) = u
  BY <1>9
<1> HIDE DEF j, u
<1> DEFINE T == TakenOut(M, n)
           H == Short(G, p, j, j)
<1>11. p \in Held(J, E) /\ x \in Held(J, E)
  BY DEF Held
<1> HIDE DEF J
<1>12. /\ Joined(M, T, p, At(G[p], p, j - 1), At(G[p], p, j + 1)) /\ T \in Table
       /\ H[p] = Shorter(G[p], j, j)
       /\ \A r \in Parents : r # p => H[r] = G[r]
  <2>1. /\ Joined(M, TakenOut(M, G[p][j]), p, At(G[p], p, j - 1), At(G[p], p, j + 1))
        /\ TakenOut(M, G[p][j]) \in Table
        /\ Short(G, p, j, j)[p] = Shorter(G[p], j, j)
    BY <1>6, <1>10, <1>11, TakeOne
  <2>2. \A r \in Parents : r # p => Short(G, p, j, j)[r] = G[r]
    BY <1>6, <1>10, <1>11, TakeOne
  <2> QED BY <1>10, <2>1, <2>2
<1>13. Run(G, p, j, j) = <<n>> /\ j \in j .. Len(G[p])
  <2>1. G[p] \in Seq(Nodes) /\ IsInjective(G[p]) /\ Len(G[p]) \in Nat
    <3>1. G[p] \in Seq(Nodes) /\ IsInjective(G[p])
      BY <1>3, <1>5, ShapeIs
    <3> QED BY <3>1, SetOf
  <2>2. Run(G, p, j, j) = <<G[p][j]>>
    BY <1>10, <2>1, OneOf DEF Run
  <2> QED BY <1>10, <2>1, <2>2
<1>14. x \notin Under(G, n)
  <2>1. \A r \in Parents : ToSet(G[r]) \subseteq Parents
    BY <1>5, ShapeIs
  <2>2. n \in ToSet(G[p]) /\ x \in ToSet(G[p])
    <3>1. ToSet(G[p]) = ToSet(s) \cup {x}
      <4>1. s \in Seq(Nodes) /\ <<x>> \in Seq(Nodes) /\ ToSet(<<x>>) = {x} /\ i \in 1 .. Len(s) + 1
        BY <1>4, <1>7, One DEF Gap
      <4>2. G[p] = Longer(s, <<x>>, i)
        BY <1>5
      <4> DEFINE xs == <<x>>
      <4>3. xs \in Seq(Nodes)
        BY <4>1
      <4> HIDE DEF s, xs
      <4>4. ToSet(Longer(s, xs, i)) = ToSet(s) \cup ToSet(xs)
        BY ONLY <4>1, <4>3, PutSeq
      <4> QED BY <4>1, <4>2, <4>4 DEF xs
    <3> QED BY <1>3, <3>1
  <2>3. p \notin Under(G, n) /\ n \in Parents
    BY <1>3, <1>5, <1>7, <2>2, Acyclic
  <2>4. \A z \in Under(G, n) : z # n => \E q \in Under(G, n) : z \in ToSet(G[q])
    BY <2>1, <2>3, UnderIs
  <2>5. Under(G, n) \subseteq Parents
    BY <2>1, <2>3, UnderIs
  <2> SUFFICES ASSUME x \in Under(G, n) PROVE FALSE
    OBVIOUS
  <2>6. PICK q \in Under(G, n) : x \in ToSet(G[q])
    BY <2>4
  <2> DEFINE Kx == Attached(F) \cup {x}
  <2>7. \A a, b \in Parents, z \in Kx : z \in ToSet(G[a]) /\ z \in ToSet(G[b]) => a = b
    <3>1. Shape(G, Kx)
      BY <1>5
    <3> HIDE DEF Kx
    <3> QED BY ONLY <3>1, ShapeIs
  <2>8. q = p
    BY <1>3, <2>2, <2>5, <2>6, <2>7
  <2> QED BY <2>3, <2>6, <2>8
<1> DEFINE N == RunIn(T, <<n>>, x, NoNode, NoNode)
<1>15. RunJoined(T, N, <<n>>, x, NoNode, NoNode) /\ UpFrom(x) = x /\ LeftEnd(x) = NoNode /\ RightEnd(x) = NoNode
  <2>1. x > 0 /\ x \in Nat /\ n \in Nat /\ n > 0 /\ NoNode = 0
    BY <1>7, ParentsAre
  <2>2. UpFrom(x) = x /\ LeftEnd(x) = NoNode /\ RightEnd(x) = NoNode
    BY <2>1 DEF UpFrom, LeftEnd, RightEnd
  <2>3. <<n>> \in Seq(Nodes) /\ <<n>> # <<>> /\ ToSet(<<n>>) = {n}
    BY <1>7, One
  <2>4. NoNode \notin ToSet(<<n>>)
    BY <2>1, <2>3
  <2> DEFINE xs == <<n>>
  <2>5. xs \in Seq(Nodes) /\ xs # <<>> /\ NoNode \notin ToSet(xs)
    BY <2>3, <2>4
  <2> HIDE DEF xs, T
  <2>6. RunJoined(T, RunIn(T, xs, UpFrom(x), NoNode, NoNode), xs, x, NoNode, NoNode)
    BY <1>7, <1>12, <2>2, <2>5, RunInReads
  <2> QED BY <2>2, <2>6 DEF xs
<1>16. H[x] = <<>>
  BY <1>5, <1>7, <1>8, <1>12
<1>17. Gap(H[x], x, NoNode, NoNode, 1)
  BY <1>15, <1>16 DEF Gap, At
<1> HIDE DEF N, T
<1> DEFINE D == Moved(G, p, j, j, x, 1)
<1>18. Fits(N, D, E) /\ Attached(D) = Attached(G) /\ Shape(D, Attached(G))
  <2>1. \A z \in ToSet(Run(G, p, j, j)) : x \notin Under(G, z)
    BY <1>7, <1>13, <1>14, One
  <2>2. /\ Fits(M, G, E) /\ p \in Held(Attached(G), E) /\ x \in Held(Attached(G), E)
        /\ j \in 1 .. Len(G[p]) /\ j \in j .. Len(G[p])
        /\ Joined(M, T, p, At(G[p], p, j - 1), At(G[p], p, j + 1))
        /\ \A z \in ToSet(Run(G, p, j, j)) : x \notin Under(G, z)
        /\ Gap(Short(G, p, j, j)[x], x, NoNode, NoNode, 1)
        /\ RunJoined(T, N, Run(G, p, j, j), x, NoNode, NoNode)
    BY <1>5, <1>6, <1>10, <1>11, <1>12, <1>13, <1>15, <1>17, <2>1 DEF J
  <2> HIDE DEF D
  <2>3. RunMoves(M, G, E, p, j, j, T, x, NoNode, NoNode, 1, N)
    BY <2>2 DEF RunMoves
  <2>4. /\ Fits(N, Moved(G, p, j, j, x, 1), E)
        /\ Attached(Moved(G, p, j, j, x, 1)) = Attached(G)
        /\ Shape(Moved(G, p, j, j, x, 1), Attached(G))
    BY ONLY <2>3, RunFits
  <2> QED BY <2>4 DEF D
<1>19. /\ D[x] = <<n>> /\ D[p] = u
       /\ \A q \in Parents : q # x /\ q # p => D[q] = F[q]
  <2>1. DOMAIN H = Parents
    <3>1. Shape(Short(G, p, j, j), Attached(F) \cup {x})
      BY <1>3, <1>5, <1>10, <1>13, ShapeShort
    <3> QED BY <3>1, ShapeIs
  <2>2. D[x] = Longer(H[x], <<n>>, 1) /\ \A q \in Parents : q # x => D[q] = H[q]
    BY <1>7, <1>13, <2>1 DEF Moved, Long
  <2>3. Longer(<<>>, <<n>>, 1) = <<n>>
    <3> DEFINE e == SubSeq(<<>>, 1, 0)
    <3>1. SubSeq(<<>>, 1, 1 - 1) = <<>> /\ SubSeq(<<>>, 1, Len(<<>>)) = <<>>
      OBVIOUS
    <3>2. Longer(<<>>, <<n>>, 1) = <<>> \o <<n>> \o <<>>
      BY <3>1 DEF Longer
    <3>3. <<n>> \in Seq(Nodes)
      BY <1>7
    <3> QED BY <3>2, <3>3
  <2> HIDE DEF D, H
  <2> QED BY <1>3, <1>5, <1>8, <1>10, <1>12, <1>16, <2>2, <2>3
<1> HIDE DEF D
<1>20. D = [Named(F, [[z \in Nodes |-> z] EXCEPT ![n] = x]) EXCEPT ![x] = <<n>>]
  <2> DEFINE f == [[z \in Nodes |-> z] EXCEPT ![n] = x]
             W == [Named(F, f) EXCEPT ![x] = <<n>>]
  <2>1. \A z \in Nodes : f[z] = IF z = n THEN x ELSE z
    BY <1>7
  <2> HIDE DEF f
  <2>2. ASSUME NEW q \in Parents, q # x
        PROVE  D[q] = [k \in DOMAIN F[q] |-> f[F[q][k]]]
    <3>1. F[q] \in Seq(Nodes)
      BY <1>1, ShapeIs
    <3>2. \A k \in DOMAIN F[q] : F[q][k] \in Nodes /\ F[q][k] \in ToSet(F[q])
      BY <3>1, SetOf
    <3>3. CASE q = p
      <4>1. [k \in DOMAIN s |-> f[s[k]]] = u
        BY <1>3, <2>1, <3>2, <3>3 DEF u
      <4> QED BY <1>19, <3>3, <4>1
    <3>4. CASE q # p
      <4>1. n \notin ToSet(F[q])
        <5>1. \A a, b \in Parents, z \in K : z \in ToSet(F[a]) /\ z \in ToSet(F[b]) => a = b
          BY <1>1, ShapeIs
        <5> QED BY <1>3, <3>4, <5>1
      <4>2. [k \in DOMAIN F[q] |-> f[F[q][k]]] = [k \in DOMAIN F[q] |-> F[q][k]]
        BY <2>1, <3>2, <4>1
      <4>3. F[q] = [k \in DOMAIN F[q] |-> F[q][k]]
        <5> DEFINE t == F[q]
        <5>1. t \in Seq(Nodes)
          BY <3>1
        <5> HIDE DEF t
        <5>2. t = [k \in DOMAIN t |-> t[k]]
          BY <5>1
        <5> QED BY <5>2 DEF t
      <4> QED BY <1>19, <2>2, <3>4, <4>2, <4>3
    <3> QED BY <3>3, <3>4
  <2>3. W = [q \in Parents |-> IF q = x THEN <<n>> ELSE [k \in DOMAIN F[q] |-> f[F[q][k]]]]
    BY <1>7 DEF Named
  <2>4. D \in [Parents -> Seq(Attached(G))]
    BY <1>18 DEF Shape
  <2> HIDE DEF W
  <2>5. D = W
    BY <1>19, <2>2, <2>3, <2>4
  <2> QED BY <2>5 DEF W, f
<1>21. F = D \/ Forest!Step(F, D)
  <2>1. Forest!Members(F) = Attached(F)
    BY <1>1, ForestNames
  <2>2. Forest!Members(D) = Attached(D)
    BY <1>18, ForestNames
  <2>3. x \in Forest!Members(D) \ Forest!Members(F)
    BY <1>5, <1>18, <2>1, <2>2
  <2>4. D = [Forest!Renamed(F, [Forest!Same EXCEPT ![n] = x]) EXCEPT ![x] = <<n>>]
    BY <1>20, NamedIs
  <2>5. Forest!Wrap(F, D)
    BY <2>1, <2>3, <2>4 DEF Forest!Wrap
  <2> QED BY <2>5, StepIs
<1>22. Gains(F, D, P \cup {x}, P \cup {x})
  <2>1. p \in P
    BY <1>3 DEF Whole
  <2> SUFFICES ASSUME NEW q \in Parents
               PROVE  ToSet(D[q]) \subseteq ToSet(F[q]) \cup (IF q \in P \cup {x} THEN P \cup {x} ELSE {})
    BY DEF Gains
  <2>2. CASE q = x
    <3>1. ToSet(<<n>>) = {n}
      BY <1>7, One
    <3> QED BY <1>19, <2>2, <3>1
  <2>3. CASE q = p
    <3>1. \A z \in ToSet(u) : z = x \/ z \in ToSet(F[p])
      BY DEF u, ToSet
    <3> QED BY <1>19, <2>1, <2>3, <3>1
  <2>4. CASE q # x /\ q # p
    BY <1>19, <2>4
  <2> QED BY <2>2, <2>3, <2>4
<1>23. Becomes(F, D, N, E, Attached(F) \cup {x})
  BY <1>5, <1>18, <1>21 DEF Becomes
<1> QED BY <1>22, <1>23 DEF N, T

\* r is s without s[i].
TakenAt(s, i, r) ==
  /\ r \in Seq(Nodes) /\ IsInjective(r) /\ Len(s) \in Nat /\ i \in Nat /\ Len(r) = Len(s) - 1
  /\ \A j \in 1 .. Len(s) - 1 : r[j] = IF j < i THEN s[j] ELSE s[j + 1]

\* Taking out one of a sequence.
LEMMA TakeAt ==
  ASSUME NEW s \in Seq(Nodes), IsInjective(s), NEW i \in 1 .. Len(s)
  PROVE  TakenAt(s, i, Shorter(s, i, i))
<1>1. Len(s) \in Nat /\ i \in Nat
  BY SetOf
<1> DEFINE lo == i
           hi == i
<1>2. s \in Seq(Nodes) /\ IsInjective(s) /\ lo \in 1 .. Len(s) /\ hi \in lo .. Len(s)
  BY <1>1
<1>3. lo = i /\ hi = i
  OBVIOUS
<1> HIDE DEF lo, hi
<1> DEFINE r == Shorter(s, lo, hi)
<1>4. r \in Seq(Nodes)
  BY ONLY <1>2, TakeSeq
<1>5. IsInjective(r)
  BY ONLY <1>2, TakeSeq
<1>6. Len(r) = Len(s) - (hi - lo + 1)
  BY ONLY <1>2, TakeSeq
<1>7. \A j \in 1 .. Len(s) - (hi - lo + 1) : r[j] = IF j < lo THEN s[j] ELSE s[j + (hi - lo + 1)]
  BY ONLY <1>2, TakeSeq
<1>8. r = Shorter(s, i, i)
  BY <1>3
<1> HIDE DEF r
<1>9. hi - lo + 1 = 1
  BY <1>1, <1>3
<1>10. \A j \in 1 .. Len(s) - 1 : r[j] = IF j < i THEN s[j] ELSE s[j + 1]
  BY <1>3, <1>7, <1>9
<1> QED BY <1>1, <1>4, <1>5, <1>6, <1>8, <1>9, <1>10 DEF TakenAt

\* y stands in the place of s[i].
LEMMA PutBack ==
  ASSUME NEW s \in Seq(Nodes), IsInjective(s), NEW y \in Nodes, NEW i \in 1 .. Len(s)
  PROVE  Longer(Shorter(s, i, i), <<y>>, i) = [j \in DOMAIN s |-> IF s[j] = s[i] THEN y ELSE s[j]]
<1> DEFINE r == Shorter(s, i, i)
           u == [j \in DOMAIN s |-> IF s[j] = s[i] THEN y ELSE s[j]]
           one == <<y>>
<1>1. Len(s) \in Nat /\ DOMAIN s = 1 .. Len(s) /\ i \in Nat /\ i \in i .. Len(s)
      /\ \A a, b \in 1 .. Len(s) : s[a] = s[b] => a = b
  BY SetOf
<1>2. /\ r \in Seq(Nodes) /\ Len(r) = Len(s) - 1
      /\ \A j \in 1 .. Len(s) - 1 : r[j] = IF j < i THEN s[j] ELSE s[j + 1]
  BY TakeAt DEF TakenAt
<1>3. one \in Seq(Nodes) /\ Len(one) = 1 /\ one[1] = y
  OBVIOUS
<1> HIDE DEF r, one
<1> DEFINE w == Longer(r, one, i)
<1>4. /\ w \in Seq(Nodes) /\ DOMAIN w = 1 .. Len(r) + Len(one)
      /\ \A j \in 1 .. Len(r) + Len(one) :
           w[j] = IF j < i THEN r[j] ELSE IF j < i + Len(one) THEN one[j - i + 1] ELSE r[j - Len(one)]
  <2>1. i \in 1 .. Len(r) + 1
    BY <1>1, <1>2
  <2>2. r \in Seq(Nodes) /\ one \in Seq(Nodes)
    BY <1>2, <1>3
  <2>3. w \in Seq(Nodes) /\ DOMAIN w = 1 .. Len(r) + Len(one)
    BY ONLY <2>1, <2>2, PutSeq
  <2>4. \A j \in 1 .. Len(r) + Len(one) :
          w[j] = IF j < i THEN r[j] ELSE IF j < i + Len(one) THEN one[j - i + 1] ELSE r[j - Len(one)]
    BY ONLY <2>1, <2>2, PutSeq
  <2> QED BY ONLY <2>3, <2>4
<1> HIDE DEF w
<1>5. DOMAIN w = 1 .. Len(s)
  BY <1>1, <1>2, <1>3, <1>4
<1>6. ASSUME NEW j \in 1 .. Len(s)
      PROVE  w[j] = IF j = i THEN y ELSE s[j]
  <2>1. j \in 1 .. Len(r) + Len(one)
    BY <1>1, <1>2, <1>3
  <2>2. CASE j < i
    <3>1. w[j] = r[j] /\ j \in 1 .. Len(s) - 1
      BY <1>1, <1>4, <2>1, <2>2
    <3> QED BY <1>1, <1>2, <2>2, <3>1
  <2>3. CASE j = i
    <3>1. w[j] = one[j - i + 1]
      BY <1>1, <1>3, <1>4, <2>1, <2>3
    <3>2. j - i + 1 = 1
      BY <1>1, <2>3
    <3> QED BY <1>3, <2>3, <3>1, <3>2
  <2>4. CASE j > i
    <3>1. w[j] = r[j - 1]
      BY <1>1, <1>3, <1>4, <2>1, <2>4
    <3>2. j - 1 \in 1 .. Len(s) - 1 /\ ~(j - 1 < i) /\ (j - 1) + 1 = j
      BY <1>1, <2>4
    <3>3. r[j - 1] = s[(j - 1) + 1]
      BY <1>2, <3>2
    <3> QED BY <1>1, <2>4, <3>1, <3>2, <3>3
  <2> QED BY <1>1, <2>2, <2>3, <2>4
<1>7. w = [j \in 1 .. Len(s) |-> w[j]]
  BY <1>4, <1>5
<1>8. \A j \in 1 .. Len(s) : w[j] = IF s[j] = s[i] THEN y ELSE s[j]
  BY <1>1, <1>6
<1>9. [j \in 1 .. Len(s) |-> w[j]] = u
  BY <1>1, <1>8
<1> QED BY <1>7, <1>9 DEF w, r, one

\* The neighbours of s[i] are next to each other without it.
LEMMA GapLeft ==
  ASSUME NEW p \in Parents, NEW s \in Seq(Nodes), IsInjective(s), NEW i \in 1 .. Len(s)
  PROVE  Gap(Shorter(s, i, i), p, At(s, p, i - 1), At(s, p, i + 1), i)
<1> DEFINE r == Shorter(s, i, i)
<1>1. Len(s) \in Nat /\ i \in Nat /\ i \in i .. Len(s)
  BY SetOf
<1>2. /\ Len(r) = Len(s) - 1
      /\ \A j \in 1 .. Len(s) - 1 : r[j] = IF j < i THEN s[j] ELSE s[j + 1]
  BY TakeAt DEF TakenAt
<1> HIDE DEF r
<1>3. At(r, p, i - 1) = At(s, p, i - 1)
  <2>1. CASE i = 1
    BY <2>1 DEF At
  <2>2. CASE i # 1
    <3>1. i - 1 \in 1 .. Len(s) - 1 /\ i - 1 < i /\ i - 1 # Len(s) + 1 /\ i - 1 # Len(r) + 1 /\ i - 1 # 0
      BY <1>1, <1>2, <2>2
    <3> QED BY <1>2, <3>1 DEF At
  <2> QED BY <2>1, <2>2
<1>4. At(r, p, i) = At(s, p, i + 1)
  <2>1. CASE i = Len(s)
    <3>1. i = Len(r) + 1 /\ i # 0 /\ i + 1 = Len(s) + 1 /\ i + 1 # 0
      BY <1>1, <1>2, <2>1
    <3> QED BY <3>1 DEF At
  <2>2. CASE i # Len(s)
    <3>1. i \in 1 .. Len(s) - 1 /\ i # Len(r) + 1 /\ i # 0 /\ i + 1 # Len(s) + 1 /\ i + 1 # 0 /\ ~(i < i)
      BY <1>1, <1>2, <2>2
    <3> QED BY <1>2, <3>1 DEF At
  <2> QED BY <2>1, <2>2
<1>5. i \in 1 .. Len(r) + 1
  BY <1>1, <1>2
<1> QED BY <1>3, <1>4, <1>5 DEF Gap, r

\* Two are taken out in either order.
LEMMA TakeTwo ==
  ASSUME NEW s \in Seq(Nodes), IsInjective(s), NEW i \in 1 .. Len(s), NEW j \in 1 .. Len(s), i # j
  PROVE  \E k \in 1 .. Len(Shorter(s, j, j)), m \in 1 .. Len(Shorter(s, i, i)) :
           /\ Shorter(s, j, j)[k] = s[i] /\ Shorter(s, i, i)[m] = s[j]
           /\ Shorter(Shorter(s, i, i), m, m) = Shorter(Shorter(s, j, j), k, k)
<1> DEFINE ri == Shorter(s, i, i)
           rj == Shorter(s, j, j)
           k == IF i < j THEN i ELSE i - 1
           m == IF j < i THEN j ELSE j - 1
<1>1. Len(s) \in Nat /\ i \in Nat /\ j \in Nat /\ Len(s) > 1
  BY SetOf
<1>3. /\ ri \in Seq(Nodes) /\ IsInjective(ri) /\ Len(ri) = Len(s) - 1
      /\ \A b \in 1 .. Len(s) - 1 : ri[b] = IF b < i THEN s[b] ELSE s[b + 1]
  BY TakeAt DEF TakenAt
<1>4. /\ rj \in Seq(Nodes) /\ IsInjective(rj) /\ Len(rj) = Len(s) - 1
      /\ \A b \in 1 .. Len(s) - 1 : rj[b] = IF b < j THEN s[b] ELSE s[b + 1]
  BY TakeAt DEF TakenAt
<1> HIDE DEF ri, rj
<1>5. k \in 1 .. Len(rj) /\ m \in 1 .. Len(ri)
  BY <1>1, <1>3, <1>4
<1>6. rj[k] = s[i]
  <2>1. CASE i < j
    BY <1>1, <1>4, <2>1
  <2>2. CASE i > j
    <3>1. i - 1 \in 1 .. Len(s) - 1 /\ ~(i - 1 < j) /\ (i - 1) + 1 = i /\ k = i - 1
      BY <1>1, <2>2
    <3> QED BY <1>4, <3>1
  <2> QED BY <1>1, <2>1, <2>2
<1>7. ri[m] = s[j]
  <2>1. CASE j < i
    BY <1>1, <1>3, <2>1
  <2>2. CASE j > i
    <3>1. j - 1 \in 1 .. Len(s) - 1 /\ ~(j - 1 < i) /\ (j - 1) + 1 = j /\ m = j - 1
      BY <1>1, <2>2
    <3> QED BY <1>3, <3>1
  <2> QED BY <1>1, <2>1, <2>2
<1>8. k \in Nat /\ m \in Nat /\ (i < j => k = i /\ m = j - 1) /\ (j < i => k = i - 1 /\ m = j)
  BY <1>1
<1> HIDE DEF k, m
<1> DEFINE v == Shorter(ri, m, m)
           w == Shorter(rj, k, k)
<1>9. /\ v \in Seq(Nodes) /\ Len(v) = Len(ri) - 1
      /\ \A b \in 1 .. Len(ri) - 1 : v[b] = IF b < m THEN ri[b] ELSE ri[b + 1]
  BY <1>3, <1>5, TakeAt DEF TakenAt
<1>10. /\ w \in Seq(Nodes) /\ Len(w) = Len(rj) - 1
       /\ \A b \in 1 .. Len(rj) - 1 : w[b] = IF b < k THEN rj[b] ELSE rj[b + 1]
  BY <1>4, <1>5, TakeAt DEF TakenAt
<1> HIDE DEF v, w
<1>11. ASSUME NEW b \in 1 .. Len(s) - 2
       PROVE  v[b] = w[b]
  <2>1. b \in 1 .. Len(ri) - 1 /\ b \in 1 .. Len(rj) - 1 /\ b \in 1 .. Len(s) - 1 /\ b + 1 \in 1 .. Len(s) - 1
        /\ b \in Nat
    BY <1>1, <1>3, <1>4
  <2>2. v[b] = (IF b < m THEN ri[b] ELSE ri[b + 1]) /\ w[b] = (IF b < k THEN rj[b] ELSE rj[b + 1])
    BY <1>9, <1>10, <2>1
  <2>3. /\ ri[b] = (IF b < i THEN s[b] ELSE s[b + 1]) /\ ri[b + 1] = (IF b + 1 < i THEN s[b + 1] ELSE s[(b + 1) + 1])
        /\ rj[b] = (IF b < j THEN s[b] ELSE s[b + 1]) /\ rj[b + 1] = (IF b + 1 < j THEN s[b + 1] ELSE s[(b + 1) + 1])
    BY <1>3, <1>4, <2>1
  <2>4. CASE i < j
    BY <1>1, <1>8, <2>1, <2>2, <2>3, <2>4
  <2>5. CASE j < i
    BY <1>1, <1>8, <2>1, <2>2, <2>3, <2>5
  <2> QED BY <1>1, <2>4, <2>5
<1>12. v = w
  <2>1. Len(v) = Len(s) - 2 /\ Len(w) = Len(s) - 2
    BY <1>1, <1>3, <1>4, <1>9, <1>10
  <2>2. v = [b \in 1 .. Len(v) |-> v[b]] /\ w = [b \in 1 .. Len(w) |-> w[b]]
    BY <1>9, <1>10
  <2>3. [b \in 1 .. Len(s) - 2 |-> v[b]] = [b \in 1 .. Len(s) - 2 |-> w[b]]
    BY <1>11
  <2> QED BY <2>1, <2>2, <2>3
<1> QED BY <1>5, <1>6, <1>7, <1>12 DEF v, w, ri, rj

\* F without x and y, in either order, and without what is below the nodes in U.
TwoOutAt(F, p, i, q, j, U, k, m) ==
  /\ k \in 1 .. Len(Short(F, q, j, j)[p]) /\ m \in 1 .. Len(Bare(Short(F, p, i, i), U)[q])
  /\ Short(F, q, j, j)[p][k] = F[p][i] /\ Bare(Short(F, p, i, i), U)[q][m] = F[q][j]
  /\ Short(Bare(Short(F, p, i, i), U), q, m, m) = Bare(Short(Short(F, q, j, j), p, k, k), U)

\* Two nodes of the forest are taken out in either order.
LEMMA TwoOut ==
  ASSUME NEW F, NEW K, Shape(F, K), NEW p \in Parents, NEW q \in Parents, NEW i \in 1 .. Len(F[p]),
         NEW j \in 1 .. Len(F[q]), F[p][i] # F[q][j], NEW U, p \notin U, q \notin U
  PROVE  \E k, m : TwoOutAt(F, p, i, q, j, U, k, m)
<1>1. DOMAIN F = Parents /\ F = [z \in Parents |-> F[z]]
  BY DEF Shape
<1> DEFINE FI == Short(F, p, i, i)
           FJ == Short(F, q, j, j)
           A == Bare(FI, U)
<1>2. /\ FI = [z \in Parents |-> IF z = p THEN Shorter(F[p], i, i) ELSE F[z]]
      /\ FJ = [z \in Parents |-> IF z = q THEN Shorter(F[q], j, j) ELSE F[z]]
  BY <1>1 DEF Short
<1>3. A = [z \in Parents |-> IF z \in U THEN <<>> ELSE IF z = p THEN Shorter(F[p], i, i) ELSE F[z]]
  BY <1>2 DEF Bare
<1>4. ASSUME NEW k, NEW m,
             k \in 1 .. Len(FJ[p]), m \in 1 .. Len(A[q]), FJ[p][k] = F[p][i], A[q][m] = F[q][j],
             \A z \in Parents : (IF z = q THEN Shorter(A[q], m, m) ELSE A[z])
                                = (IF z \in U THEN <<>> ELSE IF z = p THEN Shorter(FJ[p], k, k) ELSE FJ[z])
      PROVE  TwoOutAt(F, p, i, q, j, U, k, m)
  <2>1. Short(A, q, m, m) = [z \in Parents |-> IF z = q THEN Shorter(A[q], m, m) ELSE A[z]]
    BY <1>3 DEF Short
  <2>2. Short(FJ, p, k, k) = [z \in Parents |-> IF z = p THEN Shorter(FJ[p], k, k) ELSE FJ[z]]
    BY <1>2 DEF Short
  <2>3. Bare(Short(FJ, p, k, k), U)
          = [z \in Parents |-> IF z \in U THEN <<>> ELSE IF z = p THEN Shorter(FJ[p], k, k) ELSE FJ[z]]
    BY <2>2 DEF Bare
  <2> HIDE DEF FJ, A
  <2>4. Short(A, q, m, m) = Bare(Short(FJ, p, k, k), U)
    BY <1>4, <2>1, <2>3
  <2> QED BY <1>4, <2>4 DEF TwoOutAt, FI, FJ, A
<1>5. CASE p = q
  <2> DEFINE s == F[p]
             ri == Shorter(s, i, i)
             rj == Shorter(s, j, j)
  <2>1. s \in Seq(Nodes) /\ IsInjective(s)
    BY ShapeIs
  <2>2. i \in 1 .. Len(s) /\ j \in 1 .. Len(s) /\ i # j
    BY <1>5
  <2>3. FJ[p] = rj /\ A[q] = ri /\ F[p][i] = s[i] /\ F[q][j] = s[j]
    BY <1>2, <1>3, <1>5
  <2>4. \A z \in Parents : z # p => A[z] = (IF z \in U THEN <<>> ELSE F[z]) /\ FJ[z] = F[z]
    BY <1>2, <1>3, <1>5
  <2> HIDE DEF s, FJ, A, FI
  <2>5. PICK k \in 1 .. Len(Shorter(s, j, j)), m \in 1 .. Len(Shorter(s, i, i)) :
           /\ Shorter(s, j, j)[k] = s[i] /\ Shorter(s, i, i)[m] = s[j]
           /\ Shorter(Shorter(s, i, i), m, m) = Shorter(Shorter(s, j, j), k, k)
    BY <2>1, <2>2, TakeTwo
  <2> HIDE DEF ri, rj
  <2>6. /\ k \in 1 .. Len(FJ[p]) /\ m \in 1 .. Len(A[q]) /\ FJ[p][k] = F[p][i] /\ A[q][m] = F[q][j]
        /\ Shorter(A[q], m, m) = Shorter(FJ[p], k, k)
    BY <2>3, <2>5 DEF ri, rj
  <2>7. \A z \in Parents : (IF z = q THEN Shorter(A[q], m, m) ELSE A[z])
                            = (IF z \in U THEN <<>> ELSE IF z = p THEN Shorter(FJ[p], k, k) ELSE FJ[z])
    BY <1>5, <2>4, <2>6
  <2> QED BY <1>4, <2>6, <2>7
<1>6. CASE p # q
  <2>1. FJ[p] = F[p] /\ A[q] = F[q]
    BY <1>2, <1>3, <1>6
  <2>2. \A z \in Parents : (IF z = q THEN Shorter(A[q], j, j) ELSE A[z])
                            = (IF z \in U THEN <<>> ELSE IF z = p THEN Shorter(FJ[p], i, i) ELSE FJ[z])
    BY <1>2, <1>3, <1>6, <2>1
  <2> HIDE DEF A, FJ
  <2> QED BY <1>4, <2>1, <2>2
<1> QED BY <1>5, <1>6

\* The links of x do not change when a node that is not next to it is taken out.
LEMMA ApartLinks ==
  ASSUME NEW L, NEW F, NEW E, Fits(L, F, E), NEW p \in Held(Attached(F), E), NEW i \in 1 .. Len(F[p]),
         NEW q \in Held(Attached(F), E), NEW j \in 1 .. Len(F[q]), NEW x, x = F[p][i], NEW y, y = F[q][j],
         x # y, L[x].next # y, L[y].next # x, NEW k \in 1 .. Len(Short(F, q, j, j)[p]),
         Short(F, q, j, j)[p][k] = x
  PROVE  /\ L[x].prev = At(Short(F, q, j, j)[p], p, k - 1) /\ L[x].next = At(Short(F, q, j, j)[p], p, k + 1)
         /\ L[x].up = UpFrom(p)
<1> DEFINE K == Attached(F)
<1>1. Linked(L, F, K, E) /\ p \in Held(K, E) /\ q \in Held(K, E)
  BY DEF Fits
<1> HIDE DEF K
<1>2. p \in Parents /\ q \in Parents /\ Shape(F, K)
  BY <1>1, HeldIs DEF Linked
<1>3. /\ F[p] \in Seq(Nodes) /\ DOMAIN F[p] = 1 .. Len(F[p]) /\ Len(F[p]) \in Nat
      /\ F[q] \in Seq(Nodes) /\ DOMAIN F[q] = 1 .. Len(F[q]) /\ Len(F[q]) \in Nat
  BY <1>1, Ends
<1>4. /\ \A a \in 1 .. Len(F[p]) : /\ L[F[p][a]].up = UpFrom(p)
                                   /\ L[F[p][a]].prev = At(F[p], p, a - 1) /\ L[F[p][a]].next = At(F[p], p, a + 1)
      /\ \A a \in 1 .. Len(F[q]) : L[F[q][a]].prev = At(F[q], q, a - 1) /\ L[F[q][a]].next = At(F[q], q, a + 1)
  BY <1>1, <1>3 DEF Linked, Sibs
<1>5. x \in Nodes /\ y \in Nodes /\ i \in Nat /\ j \in Nat
  BY <1>3
<1>6. LeftEnd(q) \notin Nodes /\ RightEnd(q) \notin Nodes
  BY <1>2, <1>3, AtIs
<1>7. At(F[q], q, j - 1) # x
  <2> SUFFICES ASSUME At(F[q], q, j - 1) = x PROVE FALSE
    OBVIOUS
  <2>1. j - 1 # 0 /\ j - 1 # Len(F[q]) + 1 /\ F[q][j - 1] = x
    BY <1>3, <1>5, <1>6 DEF At
  <2>2. j - 1 \in 1 .. Len(F[q]) /\ (j - 1) + 1 = j /\ j # 0 /\ j # Len(F[q]) + 1
    BY <1>3, <1>5, <2>1
  <2>3. L[x].next = At(F[q], q, (j - 1) + 1)
    BY <1>4, <2>1, <2>2
  <2> QED BY <2>2, <2>3 DEF At
<1>8. At(F[q], q, j + 1) # x
  <2> SUFFICES ASSUME At(F[q], q, j + 1) = x PROVE FALSE
    OBVIOUS
  <2>1. L[y].next = At(F[q], q, j + 1)
    BY <1>4
  <2> QED BY <2>1
<1> DEFINE T == TakenOut(L, y)
           H == Short(F, q, j, j)
<1>9. Linked(T, H, K, E) /\ Joined(L, T, q, At(F[q], q, j - 1), At(F[q], q, j + 1))
  <2>1. Linked(TakenOut(L, F[q][j]), Short(F, q, j, j), K, E)
    BY ONLY <1>1, TakeOne
  <2>2. Joined(L, TakenOut(L, F[q][j]), q, At(F[q], q, j - 1), At(F[q], q, j + 1))
    BY ONLY <1>1, TakeOne
  <2> QED BY <2>1, <2>2
<1>10. T[x].up = L[x].up /\ T[x].prev = L[x].prev /\ T[x].next = L[x].next
  <2> HIDE DEF T
  <2> QED BY <1>5, <1>7, <1>8, <1>9 DEF Joined
<1> HIDE DEF T
<1>11. DOMAIN H[p] = 1 .. Len(H[p])
  <2> HIDE DEF H
  <2> QED BY <1>1, <1>9, Ends
<1>12. T[x].prev = At(H[p], p, k - 1) /\ T[x].next = At(H[p], p, k + 1)
  <2> HIDE DEF H
  <2>1. Sibs(T, p, H[p])
    BY <1>1, <1>9 DEF Linked
  <2>2. k \in DOMAIN H[p] /\ H[p][k] = x
    BY <1>11 DEF H
  <2> QED BY <2>1, <2>2 DEF Sibs
<1>13. L[x].up = UpFrom(p)
  BY <1>4
<1> QED BY <1>10, <1>12, <1>13

\* The links M say G, in which the nodes K have a place.
Says(M, G, E, K) == Fits(M, G, E) /\ Attached(G) = K /\ Shape(G, K)

\* y, the j-th child of q, takes the place of x, the i-th of p.
LEMMA OntopFits ==
  ASSUME NEW L, NEW F, NEW E, Fits(L, F, E), NEW p \in Held(Attached(F), E), NEW i \in 1 .. Len(F[p]),
         NEW q \in Held(Attached(F), E), NEW j \in 1 .. Len(F[q]), NEW x, x = F[p][i], NEW y, y = F[q][j],
         x \notin Under(F, y), y \notin Under(F, x), L[x].next # y, L[y].next # x,
         NEW k, NEW m, TwoOutAt(F, p, i, q, j, Under(F, x), k, m),
         NEW A, A = Bare(Short(F, p, i, i), Under(F, x))
  PROVE  Says(OnTop(L, x, y), Moved(A, q, m, m, p, k), E, Attached(F) \ Under(F, x))
<1> DEFINE K == Attached(F)
           U == Under(F, x)
<1>1. Linked(L, F, K, E) /\ p \in Held(K, E) /\ q \in Held(K, E)
  BY DEF Fits
<1>2. /\ Fits(Erased(L, x), A, E) /\ Attached(A) = K \ U
      /\ p \notin U /\ p \in Parents /\ U \subseteq Nodes
  BY ErasedFits
<1>3. \A z \in Parents : ToSet(A[z]) \subseteq ToSet(F[z])
  BY ErasedFits
<1> HIDE DEF K
<1>4. q \in Parents /\ Shape(F, K) /\ DOMAIN F = Parents
  <2>1. q \in Parents /\ Shape(F, K)
    BY <1>1, HeldIs DEF Linked
  <2> QED BY <2>1, ShapeIs
<1>5. /\ F[p] \in Seq(Nodes) /\ F[q] \in Seq(Nodes)
      /\ \A z \in Parents : ToSet(F[z]) \subseteq Parents
      /\ x \in ToSet(F[p]) /\ y \in ToSet(F[q]) /\ x \in Nodes /\ y \in Nodes /\ x \in Parents /\ y \in Parents
  <2>1. F[p] \in Seq(Nodes) /\ F[q] \in Seq(Nodes)
    BY <1>1, Ends
  <2>2. \A z \in Parents : ToSet(F[z]) \subseteq Parents
    BY <1>4, ShapeIs
  <2>3. x \in ToSet(F[p]) /\ y \in ToSet(F[q]) /\ x \in Nodes /\ y \in Nodes
    BY <2>1, SetOf
  <2> QED BY <2>1, <2>2, <2>3, ParentsAre
<1>6. q \notin U /\ x # y
  <2>1. Closed(F, U) /\ x \in U
    BY <1>5, UnderIs
  <2> HIDE DEF U
  <2>2. y \notin U
    BY DEF U
  <2> QED BY <1>5, <2>1, <2>2 DEF Closed
<1>7. p \notin Under(F, y)
  <2>1. Closed(F, Under(F, y))
    BY <1>5, UnderIs
  <2> QED BY <1>5, <2>1 DEF Closed
<1>8. p \notin Under(A, y)
  <2>1. Under(A, y) \subseteq Under(F, y)
    BY <1>3, <1>5, UnderLess
  <2> QED BY <1>7, <2>1
<1> DEFINE H == Short(F, q, j, j)
<1>9. /\ k \in 1 .. Len(H[p]) /\ m \in 1 .. Len(A[q]) /\ H[p][k] = x /\ A[q][m] = y
      /\ Short(A, q, m, m) = Bare(Short(H, p, k, k), U)
  BY DEF TwoOutAt
<1>10. Linked(TakenOut(L, y), H, K, E)
  <2>1. Linked(TakenOut(L, F[q][j]), Short(F, q, j, j), K, E)
    BY ONLY <1>1, TakeOne
  <2> QED BY <2>1
<1>11. H[p] \in Seq(Nodes) /\ IsInjective(H[p]) /\ DOMAIN H = Parents
  <2>1. Shape(H, K)
    BY <1>10 DEF Linked
  <2> HIDE DEF H
  <2> QED BY <1>2, <2>1, ShapeIs
<1>12. L[x].prev = At(H[p], p, k - 1) /\ L[x].next = At(H[p], p, k + 1) /\ L[x].up = UpFrom(p)
  BY <1>6, <1>9, ApartLinks, SMTT(30)
<1>13. Short(A, q, m, m)[p] = Shorter(H[p], k, k)
  <2> HIDE DEF H
  <2>1. Bare(Short(H, p, k, k), U)[p] = Shorter(H[p], k, k)
    BY <1>2, <1>11 DEF Bare, Short
  <2> QED BY <1>9, <2>1
<1> HIDE DEF H, U
<1>14. Gap(Short(A, q, m, m)[p], p, L[x].prev, L[x].next, k)
  <2> DEFINE s == H[p]
  <2>1. s \in Seq(Nodes) /\ IsInjective(s) /\ k \in 1 .. Len(s) /\ p \in Parents
    BY <1>2, <1>9, <1>11
  <2>2. L[x].prev = At(s, p, k - 1) /\ L[x].next = At(s, p, k + 1) /\ Short(A, q, m, m)[p] = Shorter(s, k, k)
    BY <1>12, <1>13
  <2> HIDE DEF s
  <2>3. Gap(Shorter(s, k, k), p, At(s, p, k - 1), At(s, p, k + 1), k)
    BY ONLY <2>1, GapLeft
  <2> QED BY <2>2, <2>3
<1>15. p \in Held(Attached(A), E) /\ q \in Held(Attached(A), E)
  BY <1>1, <1>2, <1>6 DEF Held
<1> DEFINE a == L[x].prev
           b == L[x].next
           M == Erased(L, x)
<1>16. /\ Fits(M, A, E) /\ q \in Held(Attached(A), E) /\ m \in 1 .. Len(A[q]) /\ p \in Held(Attached(A), E)
       /\ p \notin Under(A, A[q][m]) /\ Gap(Short(A, q, m, m)[p], p, a, b, k)
  BY <1>2, <1>8, <1>9, <1>14, <1>15
<1> HIDE DEF a, b, M
<1>17. /\ Fits(PutIn(TakenOut(M, A[q][m]), A[q][m], UpFrom(p), a, b), Moved(A, q, m, m, p, k), E)
       /\ Attached(Moved(A, q, m, m, p, k)) = Attached(A)
  <2>1. NodeMoves(M, A, E, q, m, p, a, b, k)
    BY ONLY <1>16 DEF NodeMoves
  <2> QED BY ONLY <2>1, MoveFits
<1>18. Attached(Moved(A, q, m, m, p, k)) = Attached(A)
  BY <1>17
<1>19. Shape(Moved(A, q, m, m, p, k), Attached(A))
  BY <1>17, <1>18 DEF Fits, Linked
<1>20. PutIn(TakenOut(M, A[q][m]), A[q][m], UpFrom(p), a, b) = OnTop(L, x, y)
  BY <1>9, <1>12 DEF OnTop, M, a, b
<1> QED BY <1>2, <1>17, <1>18, <1>19, <1>20 DEF K, U, Says

\* Every node under its own name, but x under the name y.
Instead(x, y) == [[z \in Nodes |-> z] EXCEPT ![x] = y]

\* What the children are when y has taken the place of x.
LEMMA OntopIs ==
  ASSUME NEW F, NEW K, Shape(F, K), NEW p \in Parents, NEW i \in 1 .. Len(F[p]),
         NEW q \in Parents, NEW j \in 1 .. Len(F[q]), NEW x, x = F[p][i], NEW y, y = F[q][j], x # y,
         NEW U, p \notin U, q \notin U, NEW k, NEW m, TwoOutAt(F, p, i, q, j, U, k, m),
         NEW A, A = Bare(Short(F, p, i, i), U)
  PROVE  /\ Moved(A, q, m, m, p, k) = Bare(Named(Short(F, q, j, j), Instead(x, y)), U)
         /\ \A P, X : p \in P /\ y \in X => Gains(F, Moved(A, q, m, m, p, k), P, X)
<1> DEFINE H == Short(F, q, j, j)
           f == Instead(x, y)
           r == H[p]
           G == Moved(A, q, m, m, p, k)
<1>1. DOMAIN F = Parents /\ (\A z \in Parents : F[z] \in Seq(Nodes) /\ IsInjective(F[z]))
      /\ (\A a, b \in Parents, z \in K : z \in ToSet(F[a]) /\ z \in ToSet(F[b]) => a = b)
      /\ x \in Nodes /\ y \in Nodes /\ x \in K /\ x \in ToSet(F[p])
  <2>1. DOMAIN F = Parents /\ (\A z \in Parents : F[z] \in Seq(Nodes) /\ IsInjective(F[z]))
    BY ShapeIs
  <2>2. \A a, b \in Parents, z \in K : z \in ToSet(F[a]) /\ z \in ToSet(F[b]) => a = b
    BY ShapeIs
  <2>3. x \in K /\ x \in ToSet(F[p]) /\ y \in K /\ K \subseteq Nodes
    BY ShapeIs
  <2> QED BY <2>1, <2>2, <2>3
<1>2. /\ H = [z \in Parents |-> IF z = q THEN Shorter(F[q], j, j) ELSE F[z]]
      /\ k \in 1 .. Len(H[p]) /\ m \in 1 .. Len(A[q]) /\ H[p][k] = x /\ A[q][m] = y
      /\ Short(A, q, m, m) = Bare(Short(H, p, k, k), U)
  BY <1>1 DEF TwoOutAt, Short
<1>3. \A z \in Parents : /\ H[z] \in Seq(Nodes) /\ IsInjective(H[z]) /\ ToSet(H[z]) \subseteq ToSet(F[z])
  <2> SUFFICES ASSUME NEW z \in Parents
               PROVE  H[z] \in Seq(Nodes) /\ IsInjective(H[z]) /\ ToSet(H[z]) \subseteq ToSet(F[z])
    OBVIOUS
  <2>1. CASE z = q
    <3> DEFINE s == F[q]
    <3>1. s \in Seq(Nodes) /\ IsInjective(s) /\ j \in 1 .. Len(s)
      BY <1>1
    <3>2. H[z] = Shorter(s, j, j)
      BY <1>2, <2>1
    <3> HIDE DEF s, H
    <3> DEFINE t == Shorter(s, j, j)
    <3>3. TakenAt(s, j, t)
      BY <3>1, TakeAt
    <3> HIDE DEF t
    <3>4. t \in Seq(Nodes) /\ IsInjective(t)
      BY <3>3 DEF TakenAt
    <3>5. ToSet(t) \subseteq ToSet(s)
      <4> SUFFICES ASSUME NEW v \in ToSet(t) PROVE v \in ToSet(s)
        OBVIOUS
      <4>1. PICK c \in 1 .. Len(t) : v = t[c]
        BY <3>4, SetOf
      <4>2. c \in 1 .. Len(s) - 1 /\ Len(s) \in Nat /\ (v = s[c] \/ v = s[c + 1])
        BY <3>3, <4>1 DEF TakenAt
      <4>3. c \in 1 .. Len(s) /\ c + 1 \in 1 .. Len(s)
        BY <4>2
      <4> QED BY <3>1, <4>2, <4>3, SetOf
    <3> QED BY <2>1, <3>2, <3>4, <3>5 DEF s, t
  <2>2. CASE z # q
    BY <1>1, <1>2, <2>2
  <2> QED BY <2>1, <2>2
<1>4. A[q] \in Seq(Nodes) /\ IsInjective(A[q])
  <2>1. A = [z \in Parents |-> IF z \in U THEN <<>> ELSE IF z = p THEN Shorter(F[p], i, i) ELSE F[z]]
    BY <1>1 DEF Bare, Short
  <2>2. CASE q = p
    <3> DEFINE s == F[p]
    <3>1. s \in Seq(Nodes) /\ IsInjective(s) /\ i \in 1 .. Len(s)
      BY <1>1
    <3>2. A[q] = Shorter(s, i, i)
      BY <2>1, <2>2
    <3> HIDE DEF s
    <3>3. TakenAt(s, i, Shorter(s, i, i))
      BY <3>1, TakeAt
    <3> QED BY <3>2, <3>3 DEF TakenAt
  <2>3. CASE q # p
    BY <1>1, <2>1, <2>3
  <2> QED BY <2>2, <2>3
<1>5. Run(A, q, m, m) = <<y>>
  <2> DEFINE s == A[q]
  <2>1. s \in Seq(Nodes) /\ IsInjective(s) /\ m \in 1 .. Len(s) /\ s[m] = y /\ Run(A, q, m, m) = SubSeq(s, m, m)
    BY <1>2, <1>4 DEF Run
  <2> HIDE DEF s
  <2> QED BY <2>1, OneOf
<1> HIDE DEF H, f
<1>6. Longer(Shorter(r, k, k), <<y>>, k) = [c \in DOMAIN r |-> IF r[c] = x THEN y ELSE r[c]]
  <2>1. r \in Seq(Nodes) /\ IsInjective(r) /\ k \in 1 .. Len(r) /\ r[k] = x /\ y \in Nodes
    BY <1>1, <1>2, <1>3
  <2> HIDE DEF r
  <2> QED BY <2>1, PutBack
<1>7. DOMAIN H = Parents
  BY <1>2
<1>8. Short(A, q, m, m) = [z \in Parents |-> IF z \in U THEN <<>> ELSE IF z = p THEN Shorter(r, k, k) ELSE H[z]]
  BY <1>2, <1>7 DEF Bare, Short
<1> HIDE DEF r
<1>9. G = [z \in Parents |-> IF z \in U THEN <<>>
                             ELSE IF z = p THEN [c \in DOMAIN r |-> IF r[c] = x THEN y ELSE r[c]] ELSE H[z]]
  <2> DEFINE B == Short(A, q, m, m)
  <2>1. G = [B EXCEPT ![p] = Longer(B[p], <<y>>, k)]
    BY <1>5 DEF Moved, Long
  <2>2. B = [z \in Parents |-> IF z \in U THEN <<>> ELSE IF z = p THEN Shorter(r, k, k) ELSE H[z]]
    BY <1>8
  <2> HIDE DEF B, G
  <2>3. B[p] = Shorter(r, k, k)
    BY <2>2
  <2>4. G = [B EXCEPT ![p] = [c \in DOMAIN r |-> IF r[c] = x THEN y ELSE r[c]]]
    BY <1>6, <2>1, <2>3
  <2> DEFINE v == [c \in DOMAIN r |-> IF r[c] = x THEN y ELSE r[c]]
  <2>5. G = [B EXCEPT ![p] = v]
    BY <2>4
  <2> HIDE DEF v
  <2>6. G = [z \in Parents |-> IF z \in U THEN <<>> ELSE IF z = p THEN v ELSE H[z]]
    BY <2>2, <2>5
  <2> QED BY <2>6 DEF v
<1> HIDE DEF G
<1>10. \A z \in Nodes : f[z] = IF z = x THEN y ELSE z
  BY <1>1 DEF f, Instead
<1>11. G = Bare(Named(H, f), U)
  <2>1. ASSUME NEW z \in Parents, z \notin U
        PROVE  [c \in DOMAIN H[z] |-> f[H[z][c]]]
                 = IF z = p THEN [c \in DOMAIN r |-> IF r[c] = x THEN y ELSE r[c]] ELSE H[z]
    <3> DEFINE s == H[z]
    <3>1. s \in Seq(Nodes) /\ DOMAIN s = 1 .. Len(s) /\ (\A c \in DOMAIN s : s[c] \in Nodes /\ s[c] \in ToSet(s))
      BY <1>3, SetOf
    <3>2. s = [c \in DOMAIN s |-> s[c]]
      <4> HIDE DEF s
      <4> QED BY <3>1
    <3>3. CASE z = p
      <4>1. r = s
        BY <3>3 DEF r
      <4> HIDE DEF s
      <4>2. [c \in DOMAIN s |-> f[s[c]]] = [c \in DOMAIN s |-> IF s[c] = x THEN y ELSE s[c]]
        BY <1>10, <3>1
      <4> QED BY <3>3, <4>1, <4>2 DEF s
    <3>4. CASE z # p
      <4>1. x \notin ToSet(s)
        BY <1>1, <1>3, <3>4
      <4> HIDE DEF s
      <4>2. [c \in DOMAIN s |-> f[s[c]]] = [c \in DOMAIN s |-> s[c]]
        BY <1>10, <3>1, <4>1
      <4> QED BY <3>2, <3>4, <4>2 DEF s
    <3> QED BY <3>3, <3>4
  <2>2. Bare(Named(H, f), U) = [z \in Parents |-> IF z \in U THEN <<>> ELSE [c \in DOMAIN H[z] |-> f[H[z][c]]]]
    BY DEF Bare, Named
  <2>3. \A z \in Parents : G[z] = Bare(Named(H, f), U)[z]
    BY <1>9, <2>1, <2>2
  <2> QED BY <1>9, <2>2, <2>3
<1>12. ASSUME NEW P, NEW X, p \in P, y \in X
       PROVE  Gains(F, G, P, X)
  <2> SUFFICES ASSUME NEW z \in Parents
               PROVE  ToSet(G[z]) \subseteq ToSet(F[z]) \cup (IF z \in P THEN X ELSE {})
    BY DEF Gains
  <2>1. CASE z \in U
    BY <1>9, <2>1 DEF ToSet
  <2>2. CASE z \notin U /\ z = p
    <3> DEFINE v == [c \in DOMAIN r |-> IF r[c] = x THEN y ELSE r[c]]
    <3>1. \A w \in ToSet(v) : w = y \/ w \in ToSet(r)
      BY DEF ToSet
    <3>2. ToSet(r) \subseteq ToSet(F[p])
      BY <1>3 DEF r
    <3>3. G[z] = v
      BY <1>9, <2>2
    <3> HIDE DEF v
    <3> QED BY <1>12, <2>2, <3>1, <3>2, <3>3
  <2>3. CASE z \notin U /\ z # p
    BY <1>3, <1>9, <2>3
  <2> QED BY <2>1, <2>2, <2>3
<1> QED BY <1>11, <1>12 DEF G, H, f

\* One node takes the place of another, which is erased.
LEMMA OntopTurns ==
  ASSUME NEW L, NEW F, NEW E, Fits(L, F, E), NEW x \in Attached(F), NEW y \in Attached(F),
         x \notin Under(F, y), y \notin Under(F, x), L[x].next # y, L[y].next # x,
         NEW P, Whole(F, P), x \in P, NEW X, y \in X, NEW back, back \subseteq Under(F, x)
  PROVE  \E G : /\ Becomes(F, G, Forgotten(OnTop(L, x, y), back), E, Attached(F) \ Under(F, x))
                /\ Gains(F, G, P, X)
<1> DEFINE K == Attached(F)
           U == Under(F, x)
<1>1. Linked(L, F, K, E) /\ x \in Attached(F) /\ y \in Attached(F) /\ Shape(F, K)
  BY DEF Fits, Linked
<1>2. PICK p \in Held(K, E) : \E i \in 1 .. Len(F[p]) : x = F[p][i]
  <2> HIDE DEF K
  <2> QED BY <1>1, Place
<1>3. PICK i \in 1 .. Len(F[p]) : x = F[p][i]
  BY <1>2
<1>4. PICK q \in Held(K, E) : \E j \in 1 .. Len(F[q]) : y = F[q][j]
  <2> HIDE DEF K
  <2> QED BY <1>1, Place
<1>5. PICK j \in 1 .. Len(F[q]) : y = F[q][j]
  BY <1>4
<1>6. /\ p \in Held(Attached(F), E) /\ q \in Held(Attached(F), E)
  BY <1>2, <1>4
<1> HIDE DEF K
<1>7. p \in Parents /\ q \in Parents
  BY <1>1, <1>2, <1>4, HeldIs
<1>8. F[p] \in Seq(Nodes) /\ F[q] \in Seq(Nodes) /\ x \in Nodes /\ y \in Nodes /\ x \in Parents /\ y \in Parents
  <2>1. F[p] \in Seq(Nodes) /\ F[q] \in Seq(Nodes)
    BY <1>1, <1>2, <1>4, Ends
  <2> QED BY <1>3, <1>5, <2>1, ParentsAre
<1>9. x \in ToSet(F[p]) /\ y \in ToSet(F[q]) /\ (\A z \in Parents : ToSet(F[z]) \subseteq Parents)
  <2>1. x \in ToSet(F[p]) /\ y \in ToSet(F[q])
    BY <1>3, <1>5, <1>8, SetOf
  <2>2. \A z \in Parents : ToSet(F[z]) \subseteq Parents
    BY <1>1, ShapeIs
  <2> QED BY <2>1, <2>2
<1>10. x \in U /\ Closed(F, U) /\ x # y
  <2>1. x \in U /\ Closed(F, U) /\ y \in Under(F, y)
    BY <1>8, <1>9, UnderIs
  <2> QED BY <2>1
<1>11. p \notin U /\ q \notin U
  <2>1. p \notin U
    BY <1>1, <1>7, <1>9, Acyclic
  <2>2. y \notin U
    OBVIOUS
  <2> HIDE DEF U
  <2> QED BY <1>9, <1>10, <2>1, <2>2 DEF Closed
<1>12. PICK k, m : TwoOutAt(F, p, i, q, j, U, k, m)
  <2>1. F[p][i] # F[q][j]
    BY <1>3, <1>5, <1>10
  <2> HIDE DEF U
  <2> QED BY <1>1, <1>7, <1>11, <2>1, TwoOut
<1> DEFINE A == Bare(Short(F, p, i, i), U)
           G == Moved(A, q, m, m, p, k)
<1>13. /\ Fits(L, F, E) /\ p \in Held(Attached(F), E) /\ i \in 1 .. Len(F[p])
       /\ q \in Held(Attached(F), E) /\ j \in 1 .. Len(F[q]) /\ x = F[p][i] /\ y = F[q][j]
       /\ x \notin Under(F, y) /\ y \notin Under(F, x) /\ L[x].next # y /\ L[y].next # x
       /\ TwoOutAt(F, p, i, q, j, Under(F, x), k, m) /\ A = Bare(Short(F, p, i, i), Under(F, x))
  BY <1>3, <1>5, <1>6, <1>12
<1> HIDE DEF A
<1>14. /\ Fits(OnTop(L, x, y), Moved(A, q, m, m, p, k), E)
       /\ Attached(Moved(A, q, m, m, p, k)) = Attached(F) \ Under(F, x)
  <2>1. Says(OnTop(L, x, y), Moved(A, q, m, m, p, k), E, Attached(F) \ Under(F, x))
    BY ONLY <1>13, OntopFits
  <2> QED BY ONLY <2>1 DEF Says
<1>15. Attached(Moved(A, q, m, m, p, k)) = Attached(F) \ Under(F, x)
  BY ONLY <1>14
<1>16. Fits(Forgotten(OnTop(L, x, y), back), G, E)
  <2> HIDE DEF G
  <2>1. Linked(OnTop(L, x, y), G, Attached(G), E)
    BY <1>14 DEF Fits, G
  <2>2. back \cap Attached(G) = {}
    BY <1>15 DEF G
  <2>3. back \subseteq Nodes
    <3>1. Under(F, x) \subseteq K
      <4>1. \A z \in Under(F, x) : z = x \/ z \in Attached(F)
        BY <1>1, <1>8, UnderAttached
      <4> QED BY <4>1 DEF K
    <3> QED BY <1>1, <3>1 DEF Shape
  <2>4. Linked(Forgotten(OnTop(L, x, y), back), G, Attached(G), E)
    BY <2>1, <2>2, <2>3, ForgetLinked
  <2> QED BY <2>4 DEF Fits
<1> DEFINE f == Instead(x, y)
           H == Short(F, q, j, j)
<1>17. /\ Shape(F, K) /\ p \in Parents /\ i \in 1 .. Len(F[p]) /\ q \in Parents /\ j \in 1 .. Len(F[q])
       /\ x = F[p][i] /\ y = F[q][j] /\ x # y /\ p \notin U /\ q \notin U
       /\ TwoOutAt(F, p, i, q, j, U, k, m) /\ A = Bare(Short(F, p, i, i), U)
  BY <1>1, <1>7, <1>10, <1>11, <1>13
<1> HIDE DEF U
<1>18. Moved(A, q, m, m, p, k) = Bare(Named(Short(F, q, j, j), Instead(x, y)), U)
  BY ONLY <1>17, OntopIs
<1>19. \A PP, XX : p \in PP /\ y \in XX => Gains(F, Moved(A, q, m, m, p, k), PP, XX)
  BY ONLY <1>17, OntopIs
<1>20. Gains(F, G, P, X)
  BY <1>7, <1>9, <1>19 DEF Whole
<1>21. F = G \/ Forest!Step(F, G)
  <2>1. Forest!Within(F, x) = U /\ Forest!Within(F, y) = Under(F, y)
    BY <1>1, <1>8, ForestWithinIs DEF U
  <2>2. /\ Forest!Holders = Parents /\ Forest!Members(F) = K
        /\ Forest!Shortened(F, q, j, j) = Short(F, q, j, j)
        /\ DOMAIN F = Parents
    BY <1>1, <1>7, ForestNames DEF K
  <2>3. Forest!Renamed(H, [Forest!Same EXCEPT ![x] = y]) = Named(H, f)
    BY NamedIs DEF Instead
  <2>4. Forest!Emptied(Named(H, f), U) = Bare(Named(H, f), U)
    BY <2>2 DEF Forest!Emptied, Bare
  <2>5. DOMAIN F[q] = 1 .. Len(F[q])
    BY <1>1, <1>4, Ends
  <2>6. x \notin Forest!Within(F, y) /\ y \notin Forest!Within(F, x)
    BY <2>1 DEF U
  <2>7. G = Forest!Emptied(Forest!Renamed(Forest!Shortened(F, q, j, j), [Forest!Same EXCEPT ![x] = y]),
                           Forest!Within(F, x))
    BY <1>18, <2>1, <2>2, <2>3, <2>4
  <2> HIDE DEF G, H, f
  <2>8. q \in Forest!Holders /\ x \in Forest!Members(F) /\ j \in DOMAIN F[q] /\ F[q][j] = y
    BY <1>1, <1>5, <1>7, <2>2, <2>5 DEF K
  <2>9. Forest!Replace(F, G)
    BY <2>6, <2>7, <2>8 DEF Forest!Replace
  <2> QED BY <2>9, StepIs
<1>22. Becomes(F, G, Forgotten(OnTop(L, x, y), back), E, Attached(F) \ Under(F, x))
  BY <1>15, <1>16, <1>21 DEF Becomes
<1> QED BY <1>20, <1>22

-----------------------------------------------------------------------------
(* A node of a graph appended below another.                               *)

\* Nothing is erased below a node without children.
LEMMA NothingBelow ==
  ASSUME NEW L, NEW n, L[n].first = NoNode, n \in DOMAIN L, L = [x \in DOMAIN L |-> L[x]]
  PROVE  ErasedBelow(L, n) = {} /\ ChildrenCut(L, n) = L
<1> DEFINE old(S) == UNION {ToSet(Tail(Children(L, x))) : x \in {y \in S : Children(L, y) # <<>>}}
           h == CHOOSE e : e = [k \in 0 .. MaxNodes |->
                  IF k = 0 THEN {n}
                  ELSE e[k - 1] \cup UNION {ToSet(Tail(Children(L, x))) :
                                              x \in {y \in e[k - 1] : Children(L, y) # <<>>}}]
           b == [k \in 0 .. MaxNodes |-> {n}]
<1>1. Children(L, n) = <<>>
  <2> DEFINE s == <<>>
             r == NoNode
             x == NoNode
  <2>1. s \in Seq(Nodes) /\ IsInjective(s)
    BY DEF IsInjective
  <2>2. r \notin Nodes
    BY ParentsAre
  <2>3. x = IF s = <<>> THEN r ELSE s[1]
    OBVIOUS
  <2>4. \A i \in 1 .. Len(s) : L[s[i]].next = IF i = Len(s) THEN r ELSE s[i + 1]
    OBVIOUS
  <2>5. Children(L, n) = ChainFrom(L, x) /\ s = <<>>
    BY DEF Children
  <2> HIDE DEF s, r, x
  <2>6. ChainFrom(L, x) = s
    BY ONLY <2>1, <2>2, <2>3, <2>4, ChainIs
  <2> QED BY <2>5, <2>6
<1>2. old({n}) = {}
  BY <1>1
<1>3. \A k \in 1 .. MaxNodes : k - 1 \in 0 .. MaxNodes /\ k \in 0 .. MaxNodes /\ k # 0
  BY NodesFinite
<1>4. b = [k \in 0 .. MaxNodes |-> IF k = 0 THEN {n} ELSE b[k - 1] \cup old(b[k - 1])]
  <2> SUFFICES ASSUME NEW k \in 0 .. MaxNodes, k # 0
               PROVE  b[k] = b[k - 1] \cup old(b[k - 1])
    OBVIOUS
  <2>1. b[k] = {n} /\ b[k - 1] = {n}
    BY <1>3, NodesFinite
  <2> HIDE DEF b, old
  <2> QED BY <1>2, <2>1
<1>5. h = [k \in 0 .. MaxNodes |-> IF k = 0 THEN {n} ELSE h[k - 1] \cup old(h[k - 1])]
  BY <1>4
<1>6. ErasedBelow(L, n) = h[MaxNodes] \ {n}
  BY DEF ErasedBelow
<1> HIDE DEF h, old, b
<1> DEFINE bad == {k \in 0 .. MaxNodes : h[k] # {n}}
<1>7. bad = {}
  <2> SUFFICES ASSUME bad # {} PROVE FALSE
    OBVIOUS
  <2>1. PICK k \in bad : \A j \in bad : k <= j
    <3>1. bad \subseteq Nat
      OBVIOUS
    <3> HIDE DEF bad
    <3> QED BY <3>1, LeastNumber
  <2>2. k \in 0 .. MaxNodes /\ h[k] # {n}
    OBVIOUS
  <2>3. k # 0
    BY <1>5, <2>2
  <2>4. k - 1 \in 0 .. MaxNodes /\ k - 1 \notin bad
    BY <2>1, <2>2, <2>3, NodesFinite
  <2>5. h[k - 1] = {n}
    BY <2>4
  <2>6. h[k] = h[k - 1] \cup old(h[k - 1])
    BY <1>5, <2>2, <2>3
  <2> QED BY <1>2, <2>2, <2>5, <2>6
<1>8. ErasedBelow(L, n) = {}
  <2>1. MaxNodes \in 0 .. MaxNodes
    BY NodesFinite
  <2>2. h[MaxNodes] = {n}
    BY <1>7, <2>1
  <2> QED BY <1>6, <2>2
<1>9. ChildrenCut(L, n) = [x \in DOMAIN L |-> L[x]]
  <2>1. {L[y].first : y \in {n}} \ {NoNode} = {}
    OBVIOUS
  <2>2. Detached(L, n) = L
    BY DEF Detached
  <2> DEFINE cutters == {n} \cup ErasedBelow(L, n)
             cut == {L[y].first : y \in cutters} \ {NoNode}
  <2>3. cutters = {n} /\ cut = {}
    BY <1>8, <2>1
  <2>4. ChildrenCut(L, n) = [x \in DOMAIN L |->
         CASE x \in cutters /\ x \in cut -> [Detached(L, x)[x] EXCEPT !.next = NoNode]
           [] x \in cutters -> Detached(L, x)[x]
           [] x \in cut -> [L[x] EXCEPT !.next = NoNode]
           [] OTHER -> L[x]]
    BY DEF ChildrenCut
  <2> HIDE DEF cutters, cut
  <2>5. ASSUME NEW x \in DOMAIN L
        PROVE  (CASE x \in cutters /\ x \in cut -> [Detached(L, x)[x] EXCEPT !.next = NoNode]
                  [] x \in cutters -> Detached(L, x)[x]
                  [] x \in cut -> [L[x] EXCEPT !.next = NoNode]
                  [] OTHER -> L[x]) = L[x]
    BY <2>2, <2>3
  <2> QED BY <2>4, <2>5
<1> QED BY <1>8, <1>9

\* What is joined in a larger table.
Agree(L, M) == DOMAIN L = Linkable /\ Linkable \subseteq DOMAIN M /\ \A x \in Linkable : M[x] = L[x]

\* Joining two neighbours does the same in the larger table.
LEMMA JoinAgrees ==
  ASSUME NEW L, NEW M, Agree(L, M), NEW p, NEW a, NEW b,
         a # NoNode => a \in Linkable, b # NoNode => b \in Linkable,
         a = NoNode \/ b = NoNode => p \in Linkable
  PROVE  Agree(Join(L, p, a, b), Join(M, p, a, b))
<1> DEFINE L1 == IF a # NoNode THEN [L EXCEPT ![a].next = b] ELSE [L EXCEPT ![p].first = b]
           M1 == IF a # NoNode THEN [M EXCEPT ![a].next = b] ELSE [M EXCEPT ![p].first = b]
<1>1. DOMAIN L = Linkable /\ Linkable \subseteq DOMAIN M /\ \A x \in Linkable : M[x] = L[x]
  BY DEF Agree
<1>2. DOMAIN L1 = Linkable /\ Linkable \subseteq DOMAIN M1 /\ \A x \in Linkable : M1[x] = L1[x]
  <2>1. CASE a # NoNode
    BY <1>1, <2>1
  <2>2. CASE a = NoNode
    BY <1>1, <2>2
  <2> QED BY <2>1, <2>2
<1> HIDE DEF L1, M1
<1>3. Join(L, p, a, b) = (IF b # NoNode THEN [L1 EXCEPT ![b].prev = a] ELSE [L1 EXCEPT ![p].last = a])
      /\ Join(M, p, a, b) = (IF b # NoNode THEN [M1 EXCEPT ![b].prev = a] ELSE [M1 EXCEPT ![p].last = a])
  BY DEF Join, L1, M1
<1>4. CASE b # NoNode
  BY <1>2, <1>3, <1>4 DEF Agree
<1>5. CASE b = NoNode
  BY <1>2, <1>3, <1>5 DEF Agree
<1> QED BY <1>4, <1>5

\* A link that is written back is as it was.
LEMMA Restored ==
  ASSUME NEW r \in Links, NEW v
  PROVE  /\ [[r EXCEPT !.next = v] EXCEPT !.next = r.next] = r
         /\ [[r EXCEPT !.prev = v] EXCEPT !.prev = r.prev] = r
         /\ [[r EXCEPT !.first = v] EXCEPT !.first = r.first] = r
         /\ [[r EXCEPT !.last = v] EXCEPT !.last = r.last] = r
         /\ [[[[r EXCEPT !.first = v] EXCEPT !.last = v] EXCEPT !.first = r.first] EXCEPT !.last = r.last] = r
<1>1. r = [up |-> r.up, first |-> r.first, last |-> r.last, prev |-> r.prev, next |-> r.next]
  BY DEF Links
<1> QED BY <1>1

\* a and b are next to each other below p.
Adjacent(L, p, a, b) ==
  /\ a = NoNode \/ b = NoNode
  /\ IF a = NoNode THEN L[p].first = b ELSE a \in Nodes /\ a # p /\ L[a].next = b
  /\ IF b = NoNode THEN L[p].last = a ELSE b \in Nodes /\ b # p /\ L[b].prev = a

\* M is L with the slot n between a and b.
Passed(L, p, a, b, n, M) ==
  /\ DOMAIN M = Linkable \cup {n} /\ M = [x \in DOMAIN M |-> M[x]]
  /\ M[n].up = p /\ M[n].first = NoNode /\ M[n].prev = a /\ M[n].next = b
  /\ Agree(L, Join(M, p, a, b))

\* A slot between a and b leaves them as they were when it is taken out.
LEMMA PassedBy ==
  ASSUME NEW L \in Table, NEW p \in Nodes, NEW a, NEW b, Adjacent(L, p, a, b),
         NEW n, n \notin Linkable, n # NoNode,
         NEW L1, L1 = [x \in Linkable \cup {n} |-> IF x = n THEN NoLinks ELSE L[x]],
         NEW M, M = PutIn(L1, n, p, a, b)
  PROVE  Passed(L, p, a, b, n, M)
<1>1. /\ p \in Linkable /\ p # n /\ p # NoNode
      /\ a # NoNode => a \in Linkable /\ a # n /\ a # p /\ L[a].next = b
      /\ b # NoNode => b \in Linkable /\ b # n /\ b # p /\ L[b].prev = a
      /\ a = NoNode => L[p].first = b
      /\ b = NoNode => L[p].last = a
      /\ NoNode \notin Linkable
      /\ a = NoNode \/ b = NoNode
  BY ParentsAre DEF Adjacent
<1>2. \A x \in Linkable : L[x] \in [up : Int, first : Int, last : Int, prev : Int, next : Int]
  BY DEF Table
<1> DEFINE N0 == [NoLinks EXCEPT !.up = p]
           N1 == [N0 EXCEPT !.prev = a]
           N2 == [N1 EXCEPT !.next = b]
           A0 == [L1 EXCEPT ![n].up = p]
           A1 == IF a # NoNode THEN [A0 EXCEPT ![a].next = n] ELSE [A0 EXCEPT ![p].first = n]
           A2 == [A1 EXCEPT ![n].prev = a]
           A3 == [A2 EXCEPT ![n].next = b]
           A4 == IF b # NoNode THEN [A3 EXCEPT ![b].prev = n] ELSE [A3 EXCEPT ![p].last = n]
           D == Linkable \cup {n}
<1>3. M = A4
  <2>1. M = Join(Join(A0, p, a, n), p, n, b)
    BY DEF PutIn
  <2> HIDE DEF A0
  <2>2. Join(A0, p, a, n) = A2
    <3>1. Join(A0, p, a, n) = IF n # NoNode THEN [A1 EXCEPT ![n].prev = a] ELSE [A1 EXCEPT ![p].last = a]
      BY DEF Join
    <3> HIDE DEF A1
    <3> QED BY <3>1
  <2> HIDE DEF A2
  <2>3. Join(A2, p, n, b) = A4
    <3>1. Join(A2, p, n, b)
            = LET X == IF n # NoNode THEN [A2 EXCEPT ![n].next = b] ELSE [A2 EXCEPT ![p].first = b]
              IN  IF b # NoNode THEN [X EXCEPT ![b].prev = n] ELSE [X EXCEPT ![p].last = n]
      BY DEF Join
    <3>2. (IF n # NoNode THEN [A2 EXCEPT ![n].next = b] ELSE [A2 EXCEPT ![p].first = b]) = A3
      OBVIOUS
    <3> HIDE DEF A3
    <3> QED BY <3>1, <3>2
  <2> QED BY <2>1, <2>2, <2>3
<1>4. DOMAIN A0 = D /\ A0[n] = N0 /\ \A x \in Linkable : A0[x] = L[x]
  BY <1>1
<1>5. /\ DOMAIN A1 = D /\ A1[n] = N0
      /\ \A x \in Linkable : A1[x] = IF a # NoNode THEN IF x = a THEN [L[x] EXCEPT !.next = n] ELSE L[x]
                                     ELSE IF x = p THEN [L[x] EXCEPT !.first = n] ELSE L[x]
  <2> HIDE DEF A0, N0
  <2>1. CASE a # NoNode
    BY <1>1, <1>4, <2>1
  <2>2. CASE a = NoNode
    BY <1>1, <1>4, <2>2
  <2> QED BY <2>1, <2>2
<1> HIDE DEF A1
<1>6. DOMAIN A3 = D /\ A3[n] = N2 /\ \A x \in Linkable : A3[x] = A1[x]
  <2> HIDE DEF N0
  <2>1. DOMAIN A2 = D /\ A2[n] = N1 /\ \A x \in Linkable : A2[x] = A1[x]
    BY <1>5
  <2> HIDE DEF A2, N1
  <2> QED BY <2>1
<1> HIDE DEF A3
<1>7. /\ DOMAIN A4 = D /\ A4[n] = N2
      /\ \A x \in Linkable : A4[x] = IF b # NoNode THEN IF x = b THEN [A1[x] EXCEPT !.prev = n] ELSE A1[x]
                                     ELSE IF x = p THEN [A1[x] EXCEPT !.last = n] ELSE A1[x]
  <2> HIDE DEF N2
  <2>1. CASE b # NoNode
    BY <1>1, <1>6, <2>1
  <2>2. CASE b = NoNode
    BY <1>1, <1>6, <2>2
  <2> QED BY <2>1, <2>2
<1>8. M = [x \in DOMAIN M |-> M[x]]
  <2>1. A4 = [x \in DOMAIN A4 |-> A4[x]]
    <3>1. CASE b # NoNode
      BY <3>1, <1>6
    <3>2. CASE b = NoNode
      BY <3>2, <1>6
    <3> QED BY <3>1, <3>2
  <2> QED BY <1>3, <2>1
<1> HIDE DEF A4
<1>9. N2.up = p /\ N2.first = NoNode /\ N2.prev = a /\ N2.next = b
  BY DEF NoLinks
<1> HIDE DEF N2
<1> DEFINE B1 == IF a # NoNode THEN [M EXCEPT ![a].next = b] ELSE [M EXCEPT ![p].first = b]
           B2 == IF b # NoNode THEN [B1 EXCEPT ![b].prev = a] ELSE [B1 EXCEPT ![p].last = a]
<1>10. Join(M, p, a, b) = B2
  BY DEF Join
<1>11. DOMAIN M = D
  BY <1>3, <1>7
<1>12. /\ DOMAIN B1 = D
       /\ \A x \in Linkable : B1[x] = IF a # NoNode THEN IF x = a THEN [M[x] EXCEPT !.next = b] ELSE M[x]
                                      ELSE IF x = p THEN [M[x] EXCEPT !.first = b] ELSE M[x]
  <2>1. CASE a # NoNode
    BY <1>1, <1>11, <2>1
  <2>2. CASE a = NoNode
    BY <1>1, <1>11, <2>2
  <2> QED BY <2>1, <2>2
<1> HIDE DEF B1
<1>13. /\ DOMAIN B2 = D
       /\ \A x \in Linkable : B2[x] = IF b # NoNode THEN IF x = b THEN [B1[x] EXCEPT !.prev = a] ELSE B1[x]
                                      ELSE IF x = p THEN [B1[x] EXCEPT !.last = a] ELSE B1[x]
  <2>1. CASE b # NoNode
    BY <1>1, <1>12, <2>1
  <2>2. CASE b = NoNode
    BY <1>1, <1>12, <2>2
  <2> QED BY <2>1, <2>2
<1> HIDE DEF B2, D
<1>14. ASSUME NEW x \in Linkable
       PROVE  B2[x] = L[x]
  <2> DEFINE r == L[x]
  <2>1. r \in Links
    BY <1>2 DEF Links
  <2>2. CASE a # NoNode
    <3>1. b = NoNode /\ L[a].next = NoNode /\ L[p].last = a /\ a # p
      BY <1>1, <2>2
    <3>2. CASE x = a
      <4>1. A1[x] = [r EXCEPT !.next = n] /\ r.next = b
        BY <1>1, <1>5, <2>2, <3>2
      <4>2. M[x] = A1[x] /\ B1[x] = [M[x] EXCEPT !.next = b] /\ B2[x] = B1[x]
        BY <1>3, <1>7, <1>12, <1>13, <2>2, <3>1, <3>2
      <4> HIDE DEF r
      <4>3. B2[x] = [[r EXCEPT !.next = n] EXCEPT !.next = r.next]
        BY <4>1, <4>2, ZenonT(30)
      <4>4. B2[x] = r
        BY <2>1, <4>3, Restored, ZenonT(30)
      <4> QED BY <4>4 DEF r
    <3>3. CASE x = p
      <4>1. A1[x] = r /\ r.last = a
        BY <1>5, <2>2, <3>1, <3>3
      <4>2. M[x] = [A1[x] EXCEPT !.last = n] /\ B1[x] = M[x] /\ B2[x] = [B1[x] EXCEPT !.last = a]
        BY <1>3, <1>7, <1>12, <1>13, <2>2, <3>1, <3>3
      <4> HIDE DEF r
      <4>3. B2[x] = [[r EXCEPT !.last = n] EXCEPT !.last = r.last]
        BY <4>1, <4>2, ZenonT(30)
      <4>4. B2[x] = r
        BY <2>1, <4>3, Restored, ZenonT(30)
      <4> QED BY <4>4 DEF r
    <3>4. CASE x # a /\ x # p
      <4>1. A1[x] = r
        BY <1>5, <2>2, <3>4
      <4>2. M[x] = A1[x]
        BY <1>3, <1>7, <3>1, <3>4
      <4>3. B1[x] = M[x]
        BY <1>12, <2>2, <3>4
      <4>4. B2[x] = B1[x]
        BY <1>13, <3>1, <3>4
      <4> QED BY <4>1, <4>2, <4>3, <4>4
    <3> QED BY <3>2, <3>3, <3>4
  <2>3. CASE a = NoNode
    <3>1. L[p].first = b
      BY <1>1, <2>3
    <3>2. CASE x = p /\ b = NoNode
      <4>1. A1[x] = [r EXCEPT !.first = n] /\ r.first = b /\ r.last = a
        BY <1>1, <1>5, <2>3, <3>1, <3>2
      <4>2. M[x] = [A1[x] EXCEPT !.last = n] /\ B1[x] = [M[x] EXCEPT !.first = b]
            /\ B2[x] = [B1[x] EXCEPT !.last = a]
        BY <1>3, <1>7, <1>12, <1>13, <2>3, <3>2
      <4> HIDE DEF r
      <4>3. B2[x] = [[[[r EXCEPT !.first = n] EXCEPT !.last = n] EXCEPT !.first = r.first] EXCEPT !.last = r.last]
        BY <4>1, <4>2, ZenonT(30)
      <4>4. B2[x] = r
        BY <2>1, <4>3, Restored, ZenonT(30)
      <4> QED BY <4>4 DEF r
    <3>3. CASE x = p /\ b # NoNode
      <4>1. A1[x] = [r EXCEPT !.first = n] /\ r.first = b /\ b # p
        BY <1>1, <1>5, <2>3, <3>1, <3>3
      <4>2. M[x] = A1[x] /\ B1[x] = [M[x] EXCEPT !.first = b] /\ B2[x] = B1[x]
        BY <1>3, <1>7, <1>12, <1>13, <2>3, <3>3, <4>1
      <4> HIDE DEF r
      <4>3. B2[x] = [[r EXCEPT !.first = n] EXCEPT !.first = r.first]
        BY <4>1, <4>2, ZenonT(30)
      <4>4. B2[x] = r
        BY <2>1, <4>3, Restored, ZenonT(30)
      <4> QED BY <4>4 DEF r
    <3>4. CASE x # p /\ b # NoNode /\ x = b
      <4>1. A1[x] = r /\ r.prev = a
        BY <1>1, <1>5, <2>3, <3>4
      <4>2. M[x] = [A1[x] EXCEPT !.prev = n] /\ B1[x] = M[x] /\ B2[x] = [B1[x] EXCEPT !.prev = a]
        BY <1>3, <1>7, <1>12, <1>13, <2>3, <3>4
      <4> HIDE DEF r
      <4>3. B2[x] = [[r EXCEPT !.prev = n] EXCEPT !.prev = r.prev]
        BY <4>1, <4>2, ZenonT(30)
      <4>4. B2[x] = r
        BY <2>1, <4>3, Restored, ZenonT(30)
      <4> QED BY <4>4 DEF r
    <3>5. CASE x # p /\ ~(b # NoNode /\ x = b)
      BY <1>3, <1>5, <1>7, <1>12, <1>13, <2>3, <3>5
    <3> QED BY <3>2, <3>3, <3>4, <3>5
  <2> QED BY <2>2, <2>3
<1>15. Agree(L, Join(M, p, a, b))
  BY <1>10, <1>13, <1>14 DEF Agree, D, Table
<1>16. M[n] = N2
  BY <1>3, <1>7
<1> QED BY <1>8, <1>9, <1>11, <1>15, <1>16 DEF D, Passed

\* What stands in the links of a node.
Around(L, x) ==
  /\ L[x].prev # NoNode => L[x].prev \in Linkable
  /\ L[x].next # NoNode => L[x].next \in Linkable
  /\ L[x].prev = NoNode \/ L[x].next = NoNode => L[x].up \in Linkable

\* Moving src on top of an empty node is moving it where the empty node was.
LEMMA AdoptedIs ==
  ASSUME link \in Table, NEW p \in Nodes, NEW src \in Nodes, NEW a, NEW b, Adjacent(link, p, a, b),
         a # src, b # src, Around(link, src), NEW T, T = TakenOut(link, src), T \in Table
  PROVE  Adopted(p, src, a, b) = PutIn(T, src, p, a, b)
<1> DEFINE n == MaxNodes + 1
           L1 == [x \in DOMAIN link \cup {n} |-> IF x = n THEN NoLinks ELSE link[x]]
           M == PutIn(L1, n, p, a, b)
           R == Join(M, p, a, b)
<1>1. /\ n \notin Linkable /\ n # NoNode
      /\ p \in Linkable /\ src \in Linkable /\ p # NoNode /\ src # NoNode
      /\ a # NoNode => a \in Linkable
      /\ b # NoNode => b \in Linkable
      /\ a = NoNode \/ b = NoNode
  <2>1. n \in Nat /\ n > MaxNodes /\ n # 0
    BY NodesFinite
  <2>2. n \notin Nodes
    BY <2>1, NodesFinite DEF Nodes
  <2>3. \A g \in Graphs : HeadOf(g) < 0 /\ FeetOf(g) < 0
    <3>1. \A g \in Graphs : HeadOf(g) < 0 /\ HeadOf(g) \in Int /\ FeetOf(g) = HeadOf(g) - 1
      BY ParentsAre
    <3> QED BY <3>1
  <2>4. n \notin Sentinels
    BY <2>1, <2>3 DEF Sentinels
  <2>5. n \notin Linkable
    BY <2>2, <2>4 DEF Linkable
  <2>6. p \in Linkable /\ src \in Linkable /\ p # NoNode /\ src # NoNode
    BY ParentsAre
  <2>7. /\ a # NoNode => a \in Nodes
        /\ b # NoNode => b \in Nodes
        /\ a = NoNode \/ b = NoNode
    BY DEF Adjacent
  <2>8. NoNode = 0 /\ \A x \in Nodes : x \in Linkable
    BY ParentsAre
  <2>9. n # NoNode
    BY <2>1, <2>8
  <2>10. (a # NoNode => a \in Linkable) /\ (b # NoNode => b \in Linkable)
    BY ONLY <2>7, <2>8
  <2> QED BY <2>5, <2>6, <2>7, <2>9, <2>10
<1>2. DOMAIN link = Linkable
  BY DEF Table
<1>3. /\ Adopted(p, src, a, b) = [x \in DOMAIN link |-> OnTop(M, n, src)[x]]
  BY DEF Adopted
<1> HIDE DEF n
<1>4. /\ DOMAIN M = Linkable \cup {n} /\ M = [x \in DOMAIN M |-> M[x]]
      /\ M[n].up = p /\ M[n].first = NoNode /\ M[n].prev = a /\ M[n].next = b
      /\ Agree(link, R)
  <2>1. L1 = [x \in Linkable \cup {n} |-> IF x = n THEN NoLinks ELSE link[x]] /\ M = PutIn(L1, n, p, a, b)
    BY <1>2
  <2> HIDE DEF L1, M
  <2>2. link \in Table /\ p \in Nodes /\ Adjacent(link, p, a, b)
    OBVIOUS
  <2>3. Passed(link, p, a, b, n, M)
    BY ONLY <1>1, <2>1, <2>2, PassedBy
  <2> QED BY <2>3 DEF Passed
<1> HIDE DEF M
<1>5. Erased(M, n) = R
  <2>1. ChildrenCut(M, n) = M
    BY <1>4, NothingBelow
  <2> QED BY <1>4, <2>1 DEF Erased, TakenOut
<1>6. OnTop(M, n, src) = PutIn(TakenOut(R, src), src, p, a, b)
  BY <1>4, <1>5 DEF OnTop
<1> HIDE DEF R
<1>7. Agree(T, TakenOut(R, src))
  <2>1. R[src] = link[src]
    BY <1>1, <1>4 DEF Agree
  <2> DEFINE u == link[src].up
             c == link[src].prev
             d == link[src].next
  <2>2. T = Join(link, u, c, d) /\ TakenOut(R, src) = Join(R, u, c, d)
    BY <2>1 DEF TakenOut
  <2>3. /\ c # NoNode => c \in Linkable
        /\ d # NoNode => d \in Linkable
        /\ c = NoNode \/ d = NoNode => u \in Linkable
    BY DEF Around
  <2> HIDE DEF u, c, d
  <2> QED BY <1>4, <2>2, <2>3, JoinAgrees
<1> DEFINE V == TakenOut(R, src)
           T0 == [T EXCEPT ![src].up = p]
           V0 == [V EXCEPT ![src].up = p]
<1> HIDE DEF V
<1>8. Agree(T0, V0)
  <2>1. Agree(T, V)
    BY <1>7 DEF V
  <2> QED BY <1>1, <2>1 DEF Agree
<1>9. Agree(Join(T0, p, a, src), Join(V0, p, a, src))
  <2> HIDE DEF T0, V0
  <2> QED BY <1>1, <1>8, JoinAgrees
<1>10. Agree(Join(Join(T0, p, a, src), p, src, b), Join(Join(V0, p, a, src), p, src, b))
  <2> DEFINE T1 == Join(T0, p, a, src)
             V1 == Join(V0, p, a, src)
  <2>1. Agree(T1, V1)
    BY <1>9
  <2> HIDE DEF T1, V1
  <2>2. Agree(Join(T1, p, src, b), Join(V1, p, src, b))
    BY <1>1, <2>1, JoinAgrees
  <2> QED BY <2>2 DEF T1, V1
<1>11. Agree(PutIn(T, src, p, a, b), PutIn(V, src, p, a, b))
  BY <1>10 DEF PutIn
<1>12. PutIn(T, src, p, a, b) \in Table
  <2>1. p \in Parents /\ UpFrom(p) = p /\ LeftEnd(p) = NoNode /\ RightEnd(p) = NoNode
    BY <1>1, ParentsAre DEF UpFrom, LeftEnd, RightEnd
  <2>2. a \in Nodes \cup {LeftEnd(p)} /\ b \in Nodes \cup {RightEnd(p)}
    BY <2>1 DEF Adjacent
  <2>3. RunJoined(T, PutIn(T, src, UpFrom(p), a, b), <<src>>, p, a, b)
    BY <2>1, <2>2, PutInReads
  <2> QED BY <2>1, <2>3 DEF RunJoined
<1> DEFINE W == PutIn(T, src, p, a, b)
<1>13. W \in Table /\ (\A x \in Linkable : OnTop(M, n, src)[x] = W[x])
  BY <1>6, <1>11, <1>12 DEF Agree, V
<1> HIDE DEF W
<1>14. W = [x \in Linkable |-> W[x]]
  BY <1>13 DEF Table
<1>15. [x \in DOMAIN link |-> OnTop(M, n, src)[x]] = [x \in Linkable |-> W[x]]
  BY <1>2, <1>13
<1> QED BY <1>3, <1>14, <1>15 DEF W

\* A node of the forest has neighbours, an end or a parent that have links.
LEMMA AroundIs ==
  ASSUME NEW L, NEW F, NEW K, NEW E, Linked(L, F, K, E), NEW n \in Attached(F)
  PROVE  Around(L, n)
<1>1. PICK p \in Held(K, E) : \E i \in 1 .. Len(F[p]) :
          /\ p \in Parents /\ L[n].up = UpFrom(p)
          /\ L[n].prev = At(F[p], p, i - 1) /\ L[n].next = At(F[p], p, i + 1)
  BY Place
<1>2. PICK i \in 1 .. Len(F[p]) :
          /\ p \in Parents /\ L[n].up = UpFrom(p)
          /\ L[n].prev = At(F[p], p, i - 1) /\ L[n].next = At(F[p], p, i + 1)
  BY <1>1
<1> DEFINE s == F[p]
<1>3. p \in Parents /\ s \in Seq(Nodes) /\ i \in 1 .. Len(s) /\ Len(s) \in Nat
  BY <1>2, Ends
<1>4. L[n].prev = At(s, p, i - 1) /\ L[n].next = At(s, p, i + 1) /\ L[n].up = UpFrom(p)
  BY <1>2
<1> HIDE DEF s
<1>5. At(s, p, i - 1) \in Nodes \cup {LeftEnd(p)}
  <2>1. i - 1 \in 0 .. Len(s) + 1 /\ i - 1 # Len(s) + 1
    BY <1>3
  <2> QED BY <1>3, <2>1, AtIs
<1>6. At(s, p, i + 1) \in Nodes \cup {RightEnd(p)}
  <2>1. i + 1 \in 0 .. Len(s) + 1 /\ i + 1 # 0
    BY <1>3
  <2> QED BY <1>3, <2>1, AtIs
<1>7. \A x \in Nodes : x \in Linkable /\ x # NoNode
  BY ParentsAre
<1>8. p \in Int /\ p \in Linkable /\ p # NoNode /\ (p < 0 => p - 1 \in Linkable) /\ NoNode \notin Linkable
  BY <1>3, ParentsAre
<1>9. CASE p < 0
  <2>1. LeftEnd(p) = p /\ RightEnd(p) = p - 1
    BY <1>9 DEF LeftEnd, RightEnd
  <2>2. L[n].prev \in Linkable /\ L[n].next \in Linkable
    BY <1>4, <1>5, <1>6, <1>7, <1>8, <1>9, <2>1
  <2> QED BY <1>8, <2>2 DEF Around
<1>10. CASE ~(p < 0)
  <2>1. LeftEnd(p) = NoNode /\ RightEnd(p) = NoNode /\ UpFrom(p) = p
    BY <1>10 DEF LeftEnd, RightEnd, UpFrom
  <2> QED BY <1>4, <1>5, <1>6, <1>7, <1>8, <2>1 DEF Around
<1> QED BY <1>9, <1>10

\* Both ends of the children of p are next to nothing.
LEMMA EndsAdjacent ==
  ASSUME NEW L, NEW F, NEW E, Fits(L, F, E), NEW p \in Attached(F)
  PROVE  Adjacent(L, p, L[p].last, NoNode) /\ Adjacent(L, p, NoNode, L[p].first)
<1> DEFINE K == Attached(F)
           s == F[p]
<1>1. Linked(L, F, K, E) /\ p \in Held(K, E) /\ p \in K /\ Shape(F, K)
  BY DEF Fits, Held, Linked
<1>2. p \in Parents
  BY <1>1, HeldIs
<1> HIDE DEF K
<1>3. /\ L[p].first = At(s, p, 1) /\ L[p].last = At(s, p, Len(s))
      /\ s \in Seq(Nodes) /\ Len(s) \in Nat /\ DOMAIN s = 1 .. Len(s)
      /\ p \in Nodes /\ LeftEnd(p) = NoNode /\ RightEnd(p) = NoNode
  BY <1>1, Ends
<1>4. \A i \in DOMAIN s : L[s[i]].prev = At(s, p, i - 1) /\ L[s[i]].next = At(s, p, i + 1)
  BY <1>1 DEF Linked, Sibs
<1>5. \A i \in 1 .. Len(s) : s[i] \in Nodes /\ s[i] # p
  <2> SUFFICES ASSUME NEW i \in 1 .. Len(s) PROVE s[i] \in Nodes /\ s[i] # p
    OBVIOUS
  <2>1. s[i] \in Nodes /\ s[i] \in ToSet(s)
    BY <1>3, SetOf
  <2>2. p \notin Under(F, s[i])
    BY <1>1, <1>2, <2>1, Acyclic
  <2>3. s[i] \in Under(F, s[i])
    <3>1. \A z \in Parents : ToSet(F[z]) \subseteq Parents
      BY <1>1, ShapeIs
    <3>2. s[i] \in Parents
      BY <2>1, ParentsAre
    <3> QED BY <3>1, <3>2, UnderIs
  <2> QED BY <2>1, <2>2, <2>3
<1> HIDE DEF s
<1>6. NoNode \notin Nodes
  BY ParentsAre
<1>7. CASE Len(s) = 0
  <2>1. L[p].first = NoNode /\ L[p].last = NoNode
    BY <1>3, <1>7 DEF At
  <2> QED BY <2>1 DEF Adjacent
<1>8. CASE Len(s) # 0
  <2>1. /\ 1 \in 1 .. Len(s) /\ Len(s) \in 1 .. Len(s) /\ 1 # Len(s) + 1 /\ Len(s) # Len(s) + 1
        /\ Len(s) + 1 # 0 /\ 1 - 1 = 0 /\ 1 # 0
    <3> DEFINE m == Len(s)
    <3>1. m \in Nat /\ m # 0
      BY <1>3, <1>8
    <3> HIDE DEF m
    <3>2. 1 \in 1 .. m /\ m \in 1 .. m /\ 1 # m + 1 /\ m # m + 1 /\ m + 1 # 0
          /\ 1 - 1 = 0 /\ 1 # 0
      BY <3>1
    <3> QED BY <3>2 DEF m
  <2>2. L[p].first = s[1] /\ L[p].last = s[Len(s)]
    <3>1. At(s, p, 1) = s[1]
      BY <2>1, ZenonT(30) DEF At
    <3>2. At(s, p, Len(s)) = s[Len(s)]
      BY <1>8, <2>1, ZenonT(30) DEF At
    <3> QED BY <1>3, <3>1, <3>2
  <2>3. L[s[1]].prev = NoNode
    <3>1. L[s[1]].prev = At(s, p, 1 - 1)
      BY <1>3, <1>4, <2>1, ZenonT(30)
    <3> QED BY <1>3, <2>1, <3>1, ZenonT(30) DEF At
  <2>4. L[s[Len(s)]].next = NoNode
    <3>1. L[s[Len(s)]].next = At(s, p, Len(s) + 1)
      BY <1>3, <1>4, <2>1
    <3> QED BY <1>3, <2>1, <3>1, ZenonT(30) DEF At
  <2> QED BY <1>5, <1>6, <2>1, <2>2, <2>3, <2>4 DEF Adjacent
<1> QED BY <1>7, <1>8

\* append_child and prepend_child of a node that is in a graph already.
LEMMA AdoptTurns ==
  ASSUME NEW F, NEW E, Fits(link, F, E), NEW src \in Attached(F), NEW p \in Attached(F),
         p \notin Under(F, src), NEW P, p \in P, NEW X, src \in X
  PROVE  /\ link[p].last # src =>
              \E G : Becomes(F, G, Adopted(p, src, link[p].last, NoNode), E, Attached(F)) /\ Gains(F, G, P, X)
         /\ link[p].first # src =>
              \E G : Becomes(F, G, Adopted(p, src, NoNode, link[p].first), E, Attached(F)) /\ Gains(F, G, P, X)
<1> DEFINE T == TakenOut(link, src)
           K == Attached(F)
<1>1. Linked(link, F, K, E) /\ src \in Attached(F) /\ p \in Attached(F)
  BY DEF Fits
<1>2. link \in Table /\ p \in Nodes /\ src \in Nodes
  BY <1>1 DEF Linked, Shape
<1>3. Around(link, src) /\ Adjacent(link, p, link[p].last, NoNode) /\ Adjacent(link, p, NoNode, link[p].first)
  <2>1. Adjacent(link, p, link[p].last, NoNode) /\ Adjacent(link, p, NoNode, link[p].first)
    BY EndsAdjacent
  <2> HIDE DEF K
  <2> QED BY <1>1, <2>1, AroundIs
<1>4. T \in Table
  <2> HIDE DEF K
  <2>1. PICK q \in Held(K, E) : \E j \in 1 .. Len(F[q]) : src = F[q][j]
    BY <1>1, Place
  <2>2. PICK j \in 1 .. Len(F[q]) : src = F[q][j]
    BY <2>1
  <2>3. TakenOut(link, F[q][j]) \in Table
    BY <1>1, TakeOne
  <2> QED BY <2>2, <2>3
<1>5. NoNode # src
  BY <1>2, ParentsAre
<1>6. T = TakenOut(link, src)
  OBVIOUS
<1> HIDE DEF T
<1>7. ASSUME link[p].last # src
      PROVE  \E G : Becomes(F, G, Adopted(p, src, link[p].last, NoNode), E, Attached(F)) /\ Gains(F, G, P, X)
  <2>1. Adopted(p, src, link[p].last, NoNode) = PutIn(T, src, p, link[p].last, NoNode)
    BY <1>2, <1>3, <1>4, <1>5, <1>6, <1>7, AdoptedIs
  <2>2. \E G : /\ Becomes(F, G, PutIn(T, src, p, link[p].last, NoNode), E, Attached(F))
               /\ Gains(F, G, P, X)
    BY <1>6, <1>7, MoveUnder
  <2> QED BY <2>1, <2>2
<1>8. ASSUME link[p].first # src
      PROVE  \E G : Becomes(F, G, Adopted(p, src, NoNode, link[p].first), E, Attached(F)) /\ Gains(F, G, P, X)
  <2>1. Adopted(p, src, NoNode, link[p].first) = PutIn(T, src, p, NoNode, link[p].first)
    BY <1>2, <1>3, <1>4, <1>5, <1>6, <1>8, AdoptedIs
  <2>2. \E G : /\ Becomes(F, G, PutIn(T, src, p, NoNode, link[p].first), E, Attached(F))
               /\ Gains(F, G, P, X)
    BY <1>6, <1>8, MoveUnder
  <2> QED BY <2>1, <2>2
<1> QED BY <1>7, <1>8
=============================================================================

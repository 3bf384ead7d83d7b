---------------------------- MODULE OrderedForest ----------------------------
(* What tim::graph documents of itself: trees of nodes whose children have *)
(* an order. Every operation adds nodes at one place, erases nodes with    *)
(* all that is below them, or moves a run of siblings, with all that is    *)
(* below them, to another place. Nothing else changes.                     *)
EXTENDS Naturals, Sequences, SequencesExt

CONSTANTS Trees, Items

VARIABLE kids   \* the children of each item, the topmost items of each tree

Holders == Trees \cup Items

Members(k) == UNION {ToSet(k[p]) : p \in Holders}

\* x and everything below it.
Within(k, x) == LET w[y \in Items] == {y} \cup UNION {w[z] : z \in ToSet(k[y])} IN w[x]

\* The items in `gone' have no children.
Emptied(k, gone) == [p \in Holders |-> IF p \in gone THEN <<>> ELSE k[p]]

\* The items xs put at the place i of p, and the run lo..hi of q taken out.
With(k, xs, p, i) == [k EXCEPT ![p] = SubSeq(@, 1, i - 1) \o xs \o SubSeq(@, i, Len(@))]
Shortened(k, q, lo, hi) == [k EXCEPT ![q] = SubSeq(@, 1, lo - 1) \o SubSeq(@, hi + 1, Len(@))]

\* Every child under another name.
Same == [x \in Items |-> x]
Renamed(k, f) == [p \in Holders |-> [j \in DOMAIN k[p] |-> f[k[p][j]]]]

Init == kids = [p \in Holders |-> <<>>]

----------------------------------------------------------------------------
(* Steps from the forest k to the forest l.                                 *)

Insert(k, l) == \E x \in Members(l) \ Members(k) : \E p \in Holders :
  \E i \in 1 .. Len(k[p]) + 1 : l = With(k, <<x>>, p, i)

\* One item, or all children of one, with all that is below.
Erase(k, l) == \E p \in Holders : \E lo, hi \in DOMAIN k[p] :
  /\ lo = hi \/ lo .. hi = DOMAIN k[p]
  /\ l = Emptied(Shortened(k, p, lo, hi), UNION {Within(k, k[p][j]) : j \in lo .. hi})

\* A run of siblings becomes a run of the children of p, which is not below them.
Move(k, l) ==
  /\ Members(k) = Members(l)
  /\ \E p, q \in Holders :
       /\ l[p] # k[p]
       /\ \E lo \in DOMAIN k[q] : \E hi \in lo .. Len(k[q]) :
            /\ \A j \in lo .. hi : p \notin Within(k, k[q][j])
            /\ LET rest == Shortened(k, q, lo, hi) IN
                 \E i \in 1 .. Len(rest[p]) + 1 : l = With(rest, SubSeq(k[q], lo, hi), p, i)

\* x and y change places, with what is below them.
Exchange(k, l) ==
  /\ Members(k) = Members(l)
  /\ \E x, y \in Members(k) :
       /\ x \notin Within(k, y) /\ y \notin Within(k, x)
       /\ l = Renamed(k, [Same EXCEPT ![x] = y, ![y] = x])

\* A child of q takes the place of x, with all that is below it; x is erased.
Replace(k, l) == \E q \in Holders, x \in Members(k) : \E j \in DOMAIN k[q] :
  LET y == k[q][j] IN
  /\ x \notin Within(k, y) /\ y \notin Within(k, x)
  /\ l = Emptied(Renamed(Shortened(k, q, j, j), [Same EXCEPT ![x] = y]), Within(k, x))

\* The new item x takes the place of y, which becomes its only child.
Wrap(k, l) == \E x \in Members(l) \ Members(k), y \in Members(k) :
  l = [Renamed(k, [Same EXCEPT ![y] = x]) EXCEPT ![x] = <<y>>]

\* A copy of what is within y takes the place of x, which is erased.
Overwrite(k, l) == \E x, y \in Members(k) :
  LET gone == Within(k, x)
      copied == Within(k, y)
  IN
  /\ gone \cap copied = {}
  /\ \E image \in [copied -> Items \ (Members(k) \ gone)] :
       /\ \A a, b \in copied : a # b => image[a] # image[b]
       /\ l = [q \in Holders |->
            IF \E a \in copied : image[a] = q
            THEN LET a == CHOOSE a \in copied : image[a] = q
                 IN [j \in DOMAIN k[a] |-> image[k[a][j]]]
            ELSE IF q \in gone THEN <<>>
            ELSE [j \in DOMAIN k[q] |-> IF k[q][j] = x THEN image[y] ELSE k[q][j]]]

Step(k, l) ==
  /\ k # l
  /\ \/ Insert(k, l) \/ Wrap(k, l) \/ Erase(k, l) \/ Replace(k, l)
     \/ Move(k, l) \/ Exchange(k, l) \/ Overwrite(k, l)

Spec == Init /\ [][Step(kids, kids')]_kids
=============================================================================

-------------------------------- MODULE Graph --------------------------------
(***************************************************************************)
(* tim::graph (storage/graph.hpp): nodes linked to their parent, to their  *)
(* first and last child and to both neighbours, below a head and a feet    *)
(* sentinel for each graph. A node is the slot of memory it lies in; the   *)
(* memory belongs to the allocator of the graph that cut the slot, shared  *)
(* between that graph, the graph that stole its resources and a registry   *)
(* (data/shared_stateful_allocator.hpp). An operation is one step: a graph *)
(* has one user at a time.                                                 *)
(***************************************************************************)
EXTENDS Integers, Sequences, SequencesExt, FiniteSets

CONSTANTS Graphs,     \* graph objects
          Main,       \* the graph the others are merged into
          MaxNodes    \* bound: slots ever cut

ASSUME GraphAssumption == Graphs \subseteq Nat \ {0} /\ Main \in Graphs /\ MaxNodes \in Nat

\* Pointers: a slot, a sentinel or null.
Nodes == 1 .. MaxNodes
NoNode == 0
HeadOf(g) == -(2 * g + 1)
FeetOf(g) == -(2 * g + 2)
Sentinels == {HeadOf(g) : g \in Graphs} \cup {FeetOf(g) : g \in Graphs}

VARIABLES link,       \* the five links of each node and sentinel
          live,       \* nodes constructed and not destroyed
          owner,      \* owner[n]: the graph whose allocator cut slot n
          dangles,    \* slots an allocator got back
          exists,     \* graphs between construction and destruction
          stolen,     \* m_stolen_alloc of each graph
          registered, \* allocators the registry holds
          merging,    \* the graph a merge is taking nodes from
          forest      \* history: children and tops, read forwards
memoryVars == <<live, owner, dangles, exists, stolen, registered>>
graphVars == <<link, memoryVars, merging, forest>>

NoLinks == [up |-> NoNode, first |-> NoNode, last |-> NoNode, prev |-> NoNode, next |-> NoNode]

\* m_head_initialize.
Initialized(L, g) ==
  [L EXCEPT ![HeadOf(g)] = [NoLinks EXCEPT !.next = FeetOf(g)],
            ![FeetOf(g)] = [NoLinks EXCEPT !.prev = HeadOf(g)]]

GraphInit ==
  /\ link = [n \in Nodes \cup Sentinels |-> NoLinks]
  /\ live = {} /\ owner = [n \in Nodes |-> NoNode]
  /\ dangles = [g \in Graphs |-> {}]
  /\ exists = {} /\ registered = {} /\ merging = NoNode
  /\ stolen = [g \in Graphs |-> {}]
  /\ forest = [x \in {HeadOf(g) : g \in Graphs} \cup Nodes |-> <<>>]

----------------------------------------------------------------------------
(* Links                                                                    *)

\* Mutant: the last child of the parent is not kept when the last one leaves.
JoinFirst(L, p, a, b) ==
  LET M == IF a # NoNode THEN [L EXCEPT ![a].next = b] ELSE [L EXCEPT ![p].first = b]
  IN  IF b # NoNode THEN [M EXCEPT ![b].prev = a] ELSE M

\* a and b become neighbours below p; the end that is null is the end of p's children.
Join(L, p, a, b) ==
  LET M == IF a # NoNode THEN [L EXCEPT ![a].next = b] ELSE [L EXCEPT ![p].first = b]
  IN  IF b # NoNode THEN [M EXCEPT ![b].prev = a] ELSE [M EXCEPT ![p].last = a]

TakenOut(L, n) == Join(L, L[n].up, L[n].prev, L[n].next)

\* n comes between a and b below p.
PutIn(L, n, p, a, b) == Join(Join([L EXCEPT ![n].up = p], p, a, n), p, n, b)

\* The siblings from x on, to the end of the range.
ChainFrom(L, x) ==
  LET c[k \in 0 .. MaxNodes] ==
        IF k = 0 THEN <<>>
        ELSE LET s == c[k - 1]
                 y == IF k = 1 THEN x ELSE IF s = <<>> THEN NoNode ELSE L[s[Len(s)]].next
             IN  IF Len(s) = k - 1 /\ y \in Nodes THEN Append(s, y) ELSE s
  IN c[MaxNodes]

Children(L, n) == ChainFrom(L, L[n].first)
Tops(L, g) == ChainFrom(L, L[HeadOf(g)].next)

\* The nodes in `roots' and below them.
Below(L, roots) ==
  LET b[k \in 0 .. MaxNodes] ==
        IF k = 0 THEN roots ELSE b[k - 1] \cup UNION {ToSet(Children(L, n)) : n \in b[k - 1]}
  IN b[MaxNodes]

\* The graphs that exist as they are read from the first child or top forwards.
Read(L, graphs) ==
  LET reached == Below(L, UNION {ToSet(Tops(L, g)) : g \in graphs}) IN
  [x \in {HeadOf(g) : g \in Graphs} \cup Nodes |->
     CASE \E g \in graphs : x = HeadOf(g) -> ChainFrom(L, L[x].next)
       [] x \in reached -> Children(L, x)
       [] OTHER -> <<>>]

Within(x) == LET w[y \in DOMAIN forest] == {y} \cup UNION {w[z] : z \in ToSet(forest[y])} IN w[x]
UnderOf(n) == Within(n)
Reached(g) == Within(HeadOf(g)) \ {HeadOf(g)}

\* The run of siblings xs moves below p, between a and b, L being without it.
RunIn(L, xs, p, a, b) ==
  LET ups == [n \in DOMAIN L |-> IF n \in ToSet(xs) THEN [L[n] EXCEPT !.up = p] ELSE L[n]]
  IN  Join(Join(ups, p, a, xs[1]), p, xs[Len(xs)], b)

----------------------------------------------------------------------------
(* Memory                                                                   *)

Slots == {n \in Nodes : owner[n] # NoNode}

\* What k requests of an allocator with these free slots may return when these
\* are cut: dangling slots first, then the next ones that were never cut.
Supplies(free, cut, k) ==
  LET few == IF k < Cardinality(free) THEN k ELSE Cardinality(free)
      uncut == Nodes \ (cut \cup free)
  IN  {old \cup new : old \in {s \in SUBSET free : Cardinality(s) = few},
                      new \in {s \in SUBSET uncut : /\ Cardinality(s) = k - few
                                                    /\ \A x \in s, y \in uncut \ s : x < y}}

\* g's allocator cuts what is new of `got' and ends with the slots `free'.
Supplied(g, got, free) ==
  /\ owner' = [n \in Nodes |-> IF n \in got /\ owner[n] = NoNode THEN g ELSE owner[n]]
  /\ dangles' = [dangles EXCEPT ![g] = free]
  /\ UNCHANGED <<exists, registered>>

\* The links of a destroyed node are not read again.
Forgotten(L, back) == [n \in DOMAIN L |-> IF n \in back THEN NoLinks ELSE L[n]]

Returned(g, back) ==
  /\ Supplied(g, {}, dangles[g] \cup back)
  /\ live' = live \ back
  /\ UNCHANGED stolen

\* A new node below p between a and b, made by g.
Add(g, p, a, b) ==
  \E n \in Nodes :
    /\ {n} \in Supplies(dangles[g], Slots, 1)
    /\ link' = PutIn([link EXCEPT ![n] = NoLinks], n, p, a, b)
    /\ live' = live \cup {n}
    /\ Supplied(g, {n}, dangles[g] \ {n})
    /\ UNCHANGED stolen

\* The memory of g's allocator is there as long as one holds it.
Holders(g) == {h \in exists : h = g \/ g \in stolen[h]}
Remembered(g) == g \in registered \/ Holders(g) # {}

Construct(g) ==
  /\ g \notin exists /\ ~Remembered(g)
  /\ link' = Initialized(link, g)
  /\ exists' = exists \cup {g} /\ registered' = registered \cup {g}
  /\ dangles' = [dangles EXCEPT ![g] = {}]
  /\ UNCHANGED <<live, owner, stolen>>

----------------------------------------------------------------------------
(* Insertion                                                                *)

SetHead(g) == link[HeadOf(g)].next = FeetOf(g) /\ Add(g, NoNode, HeadOf(g), FeetOf(g))

AppendChild(g, p) == Add(g, p, link[p].last, NoNode)
PrependChild(g, p) == Add(g, p, NoNode, link[p].first)
InsertBefore(g, q) == Add(g, link[q].up, link[q].prev, q)
InsertAfter(g, q) == Add(g, link[q].up, q, link[q].next)

\* wrap: insert before n, then reparent n below the new node.
Wrap(g, n) ==
  \E x \in Nodes :
    /\ {x} \in Supplies(dangles[g], Slots, 1)
    /\ LET L == PutIn([link EXCEPT ![x] = NoLinks], x, link[n].up, link[n].prev, n)
       IN  link' = RunIn(TakenOut(L, n), <<n>>, x, NoNode, NoNode)
    /\ live' = live \cup {x}
    /\ Supplied(g, {x}, dangles[g] \ {x})
    /\ UNCHANGED stolen

----------------------------------------------------------------------------
(* Erasure                                                                  *)

\* Mutant: the children are cut off and none of them is erased.
ErasedBelowNone(L, n) == {}

\* What erase_children(n) erases: its children but the first, and what erasing
\* them erases. The first child is cut off and stays in memory.
ErasedBelow(L, n) ==
  LET e[k \in 0 .. MaxNodes] ==
        IF k = 0 THEN {n} ELSE e[k - 1] \cup UNION {ToSet(Tail(Children(L, x))) :
                                 x \in {y \in e[k - 1] : Children(L, y) # <<>>}}
  IN e[MaxNodes] \ {n}

\* The links a first child is left with, and those of its parent.
Detached(L, n) ==
  IF L[n].first = NoNode THEN L
  ELSE [L EXCEPT ![L[n].first].next = NoNode, ![n].first = NoNode, ![n].last = NoNode]

\* erase_children(n) for n and for every node it erases.
ChildrenCut(L, n) ==
  LET cutters == {n} \cup ErasedBelow(L, n)
      cut == {L[y].first : y \in cutters} \ {NoNode}
  IN  [x \in DOMAIN L |->
         CASE x \in cutters /\ x \in cut -> [Detached(L, x)[x] EXCEPT !.next = NoNode]
           [] x \in cutters -> Detached(L, x)[x]
           [] x \in cut -> [L[x] EXCEPT !.next = NoNode]
           [] OTHER -> L[x]]

EraseChildren(g, n) ==
  /\ link' = Forgotten(ChildrenCut(link, n), ErasedBelow(link, n))
  /\ Returned(g, ErasedBelow(link, n))

Erased(L, n) == TakenOut(ChildrenCut(L, n), n)

Erase(g, n) ==
  /\ link' = Forgotten(Erased(link, n), {n} \cup ErasedBelow(link, n))
  /\ Returned(g, {n} \cup ErasedBelow(link, n))

\* What clear() of g erases, and the links it leaves.
ClearedNodes(g) == UNION {{n} \cup ErasedBelow(link, n) : n \in ToSet(Tops(link, g))}
ClearedLinks(g) ==
  LET L[k \in 0 .. Len(Tops(link, g))] ==
        IF k = 0 THEN link ELSE Erased(L[k - 1], Tops(link, g)[k])
  IN  L[Len(Tops(link, g))]

Clear(g) ==
  /\ link' = Forgotten(ClearedLinks(g), ClearedNodes(g))
  /\ Returned(g, ClearedNodes(g))

\* release() by g: the registry lets go of an allocator that only g holds.
Released(r, g, a) == IF Holders(a) = {g} THEN r \ {a} ELSE r

\* ~graph: clear, then every stolen allocator is released, then its own. The
\* memory of an allocator that nothing holds any more can be cut again.
Destroy(g) ==
  LET stay == {a \in registered : a \in Released(registered, g, a)}
      gone == {n \in Nodes : owner[n] \notin stay}
  IN
  /\ link' = Forgotten(ClearedLinks(g), ClearedNodes(g) \cup gone)
  /\ live' = (live \ ClearedNodes(g)) \ gone
  /\ owner' = [n \in Nodes |-> IF n \in gone THEN NoNode ELSE owner[n]]
  /\ dangles' = [dangles EXCEPT ![g] = {}]
  /\ exists' = exists \ {g}
  /\ stolen' = [stolen EXCEPT ![g] = {}]
  /\ registered' = stay

----------------------------------------------------------------------------
(* Movement. Where the code reads links of a node it has just unlinked, the  *)
(* callers below keep the node and its neighbours apart.                     *)

Moves(L) == link' = L /\ UNCHANGED memoryVars

MoveAfter(dst, src) ==
  IF link[dst].next = src THEN UNCHANGED <<link, memoryVars>>
  ELSE LET L == TakenOut(link, src) IN Moves(PutIn(L, src, L[dst].up, dst, L[dst].next))

MoveBefore(dst, src) ==
  IF link[dst].prev = src THEN UNCHANGED <<link, memoryVars>>
  ELSE LET L == TakenOut(link, src) IN Moves(PutIn(L, src, L[dst].up, L[dst].prev, dst))

\* dst is erased; src takes the place that dst had in L.
OnTop(L, dst, src) ==
  PutIn(TakenOut(Erased(L, dst), src), src, L[dst].up, L[dst].prev, L[dst].next)

MoveOntop(g, dst, src) ==
  /\ link' = Forgotten(OnTop(link, dst, src), {dst} \cup ErasedBelow(link, dst))
  /\ Returned(g, {dst} \cup ErasedBelow(link, dst))

\* append_child(p, src) and prepend_child(p, src): an empty node is added and
\* src moved on top of it. The slot is taken and returned.
Adopted(p, src, a, b) ==
  LET n == MaxNodes + 1
      L == PutIn([x \in DOMAIN link \cup {n} |-> IF x = n THEN NoLinks ELSE link[x]], n, p, a, b)
      M == OnTop(L, n, src)
  IN [x \in DOMAIN link |-> M[x]]

Adopt(g, p, src, a, b) ==
  /\ link' = Adopted(p, src, a, b)
  /\ \E got \in Supplies(dangles[g], Slots, 1) : Supplied(g, got, dangles[g] \cup got)
  /\ UNCHANGED live

AppendOther(g, p, src) == Adopt(g, p, src, link[p].last, NoNode) /\ UNCHANGED stolen
PrependOther(g, p, src) == Adopt(g, p, src, NoNode, link[p].first) /\ UNCHANGED stolen

Flatten(n) ==
  LET xs == Children(link, n)
      L == [link EXCEPT ![n].first = NoNode, ![n].last = NoNode]
  IN  xs # <<>> /\ Moves(RunIn(L, xs, link[n].up, n, link[n].next))

\* The children of `from' become the last children of p.
Reparent(p, from) ==
  LET xs == Children(link, from)
      L == [link EXCEPT ![from].first = NoNode, ![from].last = NoNode]
  IN  xs # <<>> /\ Moves(RunIn(L, xs, p, L[p].last, NoNode))

SwapNext(n) ==
  LET p == link[n].up
      m == link[n].next
  IN  Moves(Join(Join(Join(link, p, link[n].prev, m), p, m, n), p, n, link[m].next))

Swap(n, m) ==
  CASE link[n].next = m -> SwapNext(n)
    [] link[m].next = n -> SwapNext(m)
    [] OTHER -> Moves(PutIn(PutIn(link, n, link[m].up, link[m].prev, link[m].next),
                            m, link[n].up, link[n].prev, link[n].next))

\* Mutant: the other graph's memory is not kept.
StealNothing(g, h) == stolen[g]

\* A shared pointer to the allocator of h is kept.
Steal(g, h) == stolen[g] \cup {h}

\* All of graph h goes below p, between a and b; h is empty then.
MoveIn(h, p, a, b) ==
  /\ Tops(link, h) # <<>>
  /\ Moves(RunIn([link EXCEPT ![HeadOf(h)].next = FeetOf(h), ![FeetOf(h)].prev = HeadOf(h)],
                 Tops(link, h), p, a, b))

MoveInBefore(h, q) == MoveIn(h, link[q].up, link[q].prev, q)

MoveInAsNthChild(h, p, k) ==
  LET xs == Children(link, p) IN
  MoveIn(h, p, IF k = 0 THEN NoNode ELSE xs[k], IF k = Len(xs) THEN NoNode ELSE xs[k + 1])

\* The end of the merge of h: its resources are stolen and it is cleared.
EndMerge(g, h) ==
  /\ link' = Forgotten(ClearedLinks(h), ClearedNodes(h))
  /\ live' = live \ ClearedNodes(h)
  /\ Supplied(h, {}, dangles[h] \cup ClearedNodes(h))
  /\ stolen' = [stolen EXCEPT ![g] = Steal(g, h)]

----------------------------------------------------------------------------
(* Replacement of pos by a copy of `from' with all below it.                 *)

\* The copy's nodes: `top' for `from', the others in any fixed order.
Images(from, top, rest) ==
  LET below == CHOOSE f \in Injection(UnderOf(from) \ {from}, rest) : TRUE
  IN  [x \in UnderOf(from) |-> IF x = from THEN top ELSE below[x]]

Copied(L, from, pos, image) ==
  LET Of(x) == IF x \in DOMAIN image THEN image[x] ELSE x
      linked == [y \in DOMAIN L |->
        IF \E x \in DOMAIN image : image[x] = y
        THEN LET r == L[CHOOSE x \in DOMAIN image : image[x] = y] IN
             [up |-> Of(r.up), first |-> Of(r.first), last |-> Of(r.last),
              prev |-> Of(r.prev), next |-> Of(r.next)]
        ELSE L[y]]
  IN  PutIn(linked, image[from], L[pos].up, L[pos].prev, L[pos].next)

ReplaceBy(g, pos, from) ==
  LET free == dangles[g] \cup ErasedBelow(link, pos) IN
  \E top \in Nodes :
    /\ {top} \in Supplies(free, Slots, 1)
    /\ \E got \in Supplies((free \ {top}) \cup {pos}, Slots \cup {top},
                          Cardinality(UnderOf(from)) - 1) :
         /\ link' = Forgotten(Copied(ChildrenCut(link, pos), from, pos, Images(from, top, got)),
                              ({pos} \cup ErasedBelow(link, pos)) \ (got \cup {top}))
         /\ live' = (live \ ({pos} \cup ErasedBelow(link, pos))) \cup got \cup {top}
         /\ Supplied(g, got \cup {top}, ((free \ {top}) \cup {pos}) \ got)
  /\ UNCHANGED stolen

----------------------------------------------------------------------------
(* Users of graphs. Each operation is called where its links allow it: no    *)
(* node is moved below itself, and a node that is moved on top of another is *)
(* not its neighbour.                                                        *)

Apart(n, m) == n \notin UnderOf(m) /\ m \notin UnderOf(n)
Neighbours(n, m) == link[n].next = m \/ link[m].next = n

Build(g) ==
  \/ SetHead(g)
  \/ \E n \in Reached(g) :
       AppendChild(g, n) \/ PrependChild(g, n) \/ InsertBefore(g, n) \/ InsertAfter(g, n)
       \/ Wrap(g, n)

Prune(g) ==
  \/ \E n \in Reached(g) : Erase(g, n) \/ EraseChildren(g, n)
  \/ Clear(g) \/ Destroy(g)

Rearrange(g) ==
  \/ \E n, m \in Reached(g) :
       \/ n \notin UnderOf(m) /\ (MoveAfter(n, m) \/ MoveBefore(n, m))
       \/ Apart(n, m) /\ ~Neighbours(n, m) /\ MoveOntop(g, n, m)
       \/ Apart(n, m) /\ Swap(n, m)
       \/ Apart(n, m) /\ ReplaceBy(g, n, m)
       \/ n \notin UnderOf(m) /\ link[n].last # m /\ AppendOther(g, n, m)
       \/ n \notin UnderOf(m) /\ link[n].first # m /\ PrependOther(g, n, m)
       \/ (n = m \/ n \notin UnderOf(m)) /\ Reparent(n, m)
  \/ \E n \in Reached(g) : Flatten(n)

\* One node of h, or all of it, is moved to g.
TakeFrom(g, h) ==
  \E n \in Reached(g) :
    \/ \E m \in Reached(h) : AppendOther(g, n, m)
    \/ link[n].prev # NoNode /\ MoveInBefore(h, n)
    \/ \E k \in 0 .. Len(Children(link, n)) : MoveInAsNthChild(h, n, k)

\* A merge holds both graphs to its end. It is the only one that moves nodes to
\* another graph; move_in, which nothing calls, does not steal on its own either.
Merge(g, h) ==
  /\ merging \in {NoNode, h}
  /\ \/ TakeFrom(g, h) /\ merging' = h
     \/ EndMerge(g, h) /\ merging' = NoNode

Use ==
  \/ /\ merging = NoNode /\ UNCHANGED merging
     /\ \/ \E g \in Graphs : Construct(g)
        \/ \E g \in exists : Build(g) \/ Prune(g) \/ Rearrange(g)
  \/ Main \in exists /\ \E h \in exists \ {Main} : Merge(Main, h)

GraphNext == Use /\ forest' = Read(link', exists')

GraphSpec == GraphInit /\ [][GraphNext]_graphVars

----------------------------------------------------------------------------
(* Properties                                                               *)

\* Read from the first child or the first top forwards, the graphs are ordered
\* trees and every operation does to them what its comment in the class says.
AllReached == UNION {Reached(g) : g \in Graphs}
Forest == INSTANCE OrderedForest WITH
  Trees <- {HeadOf(g) : g \in Graphs}, Items <- Nodes, kids <- forest
ImplementsForest == Forest!Spec

\* Read backwards they are the same trees: neighbours point to each other, the
\* last child is last, and all children of a node point to it.
LinksAgree ==
  /\ \A n \in AllReached :
       LET xs == Children(link, n) IN
       /\ link[n].last = IF xs = <<>> THEN NoNode ELSE xs[Len(xs)]
       /\ \A i \in DOMAIN xs : /\ link[xs[i]].up = n
                               /\ link[xs[i]].prev = IF i = 1 THEN NoNode ELSE xs[i - 1]
  /\ \A g \in exists :
       LET xs == Tops(link, g) IN
       /\ link[FeetOf(g)].prev = IF xs = <<>> THEN HeadOf(g) ELSE xs[Len(xs)]
       /\ \A i \in DOMAIN xs : /\ link[xs[i]].up = NoNode
                               /\ link[xs[i]].prev = IF i = 1 THEN HeadOf(g) ELSE xs[i - 1]

\* A node is lost when it is constructed and in no graph. Only erase_children
\* loses nodes: a first child with all that is below it, of which only memory
\* that is given back is not constructed then. Every other node an operation takes
\* out of the graph it destroys.
Lost == live \ AllReached
LosesFirstChildren ==
  [][\A n \in Lost' \ Lost : \E p \in AllReached :
       /\ forest[p] # <<>> /\ n \in Within(forest[p][1])
       /\ \A m \in Within(forest[p][1]) : m \in Lost' \/ owner'[m] = NoNode]_graphVars

\* Whatever was merged, cleared and destroyed in which order, a node of a graph
\* and a slot that a graph may hand out lie in memory that is still held, and
\* memory is given back when its last holder is gone.
NodesHaveMemory ==
  /\ AllReached \subseteq live
  /\ \A n \in live \cup UNION {dangles[g] : g \in exists} : owner[n] # NoNode
  /\ registered = {g \in Graphs : Holders(g) # {}}
=============================================================================

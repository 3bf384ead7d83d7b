----------------------------- MODULE CallGraph -----------------------------
(***************************************************************************)
(* The call-graphs of one component type: storage<Type, true> and its      *)
(* graph_data, one per thread.  The main thread owns the master storage; a *)
(* worker starts with a copy of the node the main thread is in (a dummy,   *)
(* its bookmark), takes a new bookmark when it pushes at sea level, and is *)
(* merged into the master call-graph when its thread ends.  The graph of a *)
(* thread is written by that thread without a lock; only the merge and the *)
(* first use by a worker hold the mutex of the singleton.                  *)
(*                                                                         *)
(* A node is named by the thread that made it and a serial number.  A hash *)
(* is the pair of the label and the depth it was computed from             *)
(* (scope::config::compute_hash, tree scope).                              *)
(***************************************************************************)
EXTENDS Integers, Sequences, SequencesExt, FiniteSetsExt

CONSTANTS Master, Workers,
          Labels,
          MaxBookmarks,      \* settings: max_thread_bookmarks
          MaxDepth,          \* settings: max_depth
          MaxPushes,         \* bound: timers a thread ever starts
          MaxNodes,          \* bound: nodes of a worker at its start or a sync
          Null

ASSUME CallGraphAssumption ==
  /\ Master \notin Workers /\ Null \notin Workers \union {Master}
  /\ Null \notin (Workers \union {Master}) \X Nat
  /\ MaxBookmarks \in Nat /\ MaxDepth \in Nat
  /\ MaxPushes \in [Workers \union {Master} -> Nat] /\ MaxNodes \in Nat

Threads == Workers \union {Master}

VARIABLES node,      \* node[t]: the graph nodes thread t has made
          graph,     \* graph[t]: the graph_data of t's storage
          open,      \* open[t]: the timers of t on the stack, oldest first
          job,       \* job[w]: an insert of w that has tested its bookmark
          lock,      \* owner of the singleton's mutex while it merges
          left,      \* the bookmarks the merge has still to visit
          merged,    \* whether the merge has found the place of one
          closed     \* history: laps t's popped timers added, by label

vars == <<node, graph, open, job, lock, left, merged, closed>>

\* What an add_dummy, an insert or a move changes.
State == [node |-> node, graph |-> graph]

At(s, r) == s.node[r[1]][r[2]]
Node(r) == node[r[1]][r[2]]

NewRef(s, t) == <<t, Len(s.node[t]) + 1>>

\* A graph node; `of' remembers which master node a bookmark copies.
Dummy(key, depth, tid, of) ==
  [key |-> key, depth |-> depth, tid |-> tid, dummy |-> TRUE, of |-> of,
   laps |-> 0, up |-> Null, kids |-> <<>>]

Record(key, depth, tid, up) ==
  [key |-> key, depth |-> depth, tid |-> tid, dummy |-> FALSE, of |-> Null,
   laps |-> 0, up |-> up, kids |-> <<>>]

\* graph_data(node, depth, master): the head is the first bookmark.
NewGraph(r, depth) ==
  [phase |-> "live", tops |-> <<r>>, cur |-> r, level |-> depth, sea |-> depth,
   marks |-> <<r>>]

\* graph_data::clear.
ClearedGraph(phase) ==
  [phase |-> phase, tops |-> <<>>, cur |-> Null, level |-> 0, sea |-> 0, marks |-> <<>>]

RootKey == <<Null, 0>>

Init ==
  /\ node = [t \in Threads |->
               IF t = Master THEN <<Dummy(RootKey, 0, Master, Null)>> ELSE <<>>]
  /\ graph = [t \in Threads |->
                IF t = Master THEN NewGraph(<<Master, 1>>, 0) ELSE ClearedGraph("none")]
  /\ open = [t \in Threads |-> <<>>]
  /\ job = [w \in Workers |-> Null]
  /\ lock = Null
  /\ left = <<>>
  /\ merged = FALSE
  /\ closed = [t \in Threads |-> [l \in Labels |-> 0]]

-----------------------------------------------------------------------------
(* The shape of a call-graph.                                              *)

\* The top of the tree r hangs in, and the places of r and its ancestors
\* among their siblings.
PlaceAmong(r, siblings) == SelectInSeq(siblings, LAMBDA q : q = r)

Made == UNION {{<<t, i>> : i \in DOMAIN node[t]} : t \in Threads}

TopOf == LET top[r \in Made] == IF Node(r).up = Null THEN r ELSE top[Node(r).up] IN top

PathOf ==
  LET path[r \in Made] ==
        IF Node(r).up = Null THEN <<>>
        ELSE Append(path[Node(r).up], PlaceAmong(r, Node(Node(r).up).kids))
  IN  path

\* The nodes of t's graph.
Linked(t) ==
  LET top == TopOf
      tops == ToSet(graph[t].tops)
  IN  {r \in Made : top[r] \in tops}

\* Pre-order of two paths.
Precedes(p, q) ==
  \E k \in 0..Len(p) :
     /\ k < Len(q)
     /\ SubSeq(p, 1, k) = SubSeq(q, 1, k)
     /\ k < Len(p) => p[k + 1] < q[k + 1]

\* Mutant: the label decides alone, at whatever depth.
FindByLabel(r) ==
  LET matches == {q \in Linked(Master) : Node(q).key[1] = Node(r).key[1]}
  IN  IF matches = {} THEN Null ELSE CHOOSE q \in matches : TRUE

\* Mutant: the thread ids have to be equal as well.
FindSameThread(r) ==
  LET matches == {q \in Linked(Master) : Node(q).key = Node(r).key /\ Node(q).tid = Node(r).tid}
  IN  IF matches = {} THEN Null ELSE CHOOSE q \in matches : TRUE

\* graph_data::find: a pre-order walk over the master graph that looks at a
\* node and then at its children; equal hash and depth end it.
Find(r) ==
  LET matches == {q \in Linked(Master) :
                    Node(q).key = Node(r).key /\ Node(q).depth = Node(r).depth}
      path == PathOf
      Seen(q) == path[q]
      Earlier(p, q) ==
        \/ Seen(p) = <<>>
        \/ Seen(q) # <<>> /\ Precedes(Front(Seen(p)), Front(Seen(q)))
        \/ Seen(q) # <<>> /\ Front(Seen(p)) = Front(Seen(q)) /\ Last(Seen(p)) < Last(Seen(q))
  IN  IF matches = {} THEN Null
      ELSE CHOOSE q \in matches : \A p \in matches \ {q} : Earlier(q, p)

-----------------------------------------------------------------------------
(* Pushing a timer.                                                        *)

\* Mutant: the depths of the thread stay what they were.
AddDummyKeepingDepth(s, w, by) ==
  LET at == s.graph[Master].cur
      new == NewRef(s, w)
      g == s.graph[w]
  IN [node |-> [s.node EXCEPT ![w] = Append(@, Dummy(At(s, at).key, At(s, at).depth, by, at))],
      graph |-> [s.graph EXCEPT ![w] =
                   [g EXCEPT !.cur = new, !.tops = InsertAt(@, 2, new), !.marks = Append(@, new)]]]

\* graph_data::add_dummy, by thread `by', past its two early returns.
AddDummy(s, w, by) ==
  LET at == s.graph[Master].cur
      depth == At(s, at).depth
      new == NewRef(s, w)
      g == s.graph[w]
  IN [node |-> [s.node EXCEPT ![w] = Append(@, Dummy(At(s, at).key, depth, by, at))],
      graph |-> [s.graph EXCEPT ![w] =
                   [g EXCEPT !.cur = new, !.level = depth, !.sea = depth,
                             !.tops = InsertAt(@, 2, new), !.marks = Append(@, new)]]]

\* Mutant: a new child does not become current.
InsertNotCurrent(s, t, label) ==
  LET g == s.graph[t]
      key == <<label, g.level + 1>>
      same == {r \in ToSet(At(s, g.cur).kids) : At(s, r).key = key /\ At(s, r).tid = t}
      new == NewRef(s, t)
      old == CHOOSE r \in same : TRUE
  IN IF same # {}
       THEN [s EXCEPT !.graph[t].cur = old, !.graph[t].level = At(s, old).depth]
       ELSE [node |-> [[s.node EXCEPT ![t] = Append(@, Record(key, g.level + 1, t, g.cur))]
                         EXCEPT ![g.cur[1]][g.cur[2]].kids = Append(@, new)],
             graph |-> [s.graph EXCEPT ![t].level = @ + 1]]

\* insert_hierarchy: the child of the current node with this hash and thread,
\* or a new child, becomes current.
Insert(s, t, label) ==
  LET g == s.graph[t]
      key == <<label, g.level + 1>>
      same == {r \in ToSet(At(s, g.cur).kids) : At(s, r).key = key /\ At(s, r).tid = t}
      new == NewRef(s, t)
      old == CHOOSE r \in same : TRUE
  IN IF same # {}
       THEN [s EXCEPT !.graph[t].cur = old, !.graph[t].level = At(s, old).depth]
       ELSE [node |-> [[s.node EXCEPT ![t] = Append(@, Record(key, g.level + 1, t, g.cur))]
                         EXCEPT ![g.cur[1]][g.cur[2]].kids = Append(@, new)],
             graph |-> [s.graph EXCEPT ![t].cur = new, ![t].level = @ + 1]]

Started(t) == Len(open[t]) + FoldFunction(+, 0, closed[t])

\* Mutant: the depth limit is not looked at.
MayPushDeeper(t) ==
  /\ graph[t].phase \in {"live", "cleared"}
  /\ Started(t) < MaxPushes[t]

\* push_node: no insertion past the maximum depth of the thread's own level.
MayPush(t) ==
  /\ graph[t].phase \in {"live", "cleared"}
  /\ Started(t) < MaxPushes[t]
  /\ graph[t].level + 1 <= MaxDepth

\* The insert itself, the new depth and the stack entry.
Become(s, t, label) ==
  /\ node' = s.node
  /\ graph' = s.graph
  /\ open' = [open EXCEPT ![t] = Append(@, [label |-> label, at |-> s.graph[t].cur])]
  /\ UNCHANGED <<lock, left, merged, closed>>

PushMaster(label) ==
  /\ MayPush(Master)
  /\ Become(Insert(State, Master, label), Master, label)
  /\ UNCHANGED job

\* Mutant: a bookmark is due only when the main thread is deeper.
BookmarkDueBelow(w) ==
  /\ graph[w].level = graph[w].sea
  /\ Len(graph[w].marks) < MaxBookmarks
  /\ graph[w].level < graph[Master].level

\* storage::insert: whether a bookmark is due, and add_dummy's test that the
\* main thread is at another depth.
BookmarkDue(w) ==
  /\ graph[w].level = graph[w].sea
  /\ Len(graph[w].marks) < MaxBookmarks
  /\ graph[w].level # graph[Master].level

BeginPush(w, label) ==
  /\ job[w] = Null
  /\ MayPush(w)
  /\ job' = [job EXCEPT ![w] = [label |-> label, mark |-> BookmarkDue(w),
                               seen |-> graph[Master].cur]]
  /\ UNCHANGED <<node, graph, open, lock, left, merged, closed>>

\* The main thread may have moved on between the test and the copy.
EndPush(w) ==
  /\ job[w] # Null
  /\ graph[w].cur # Null
  /\ LET marked == IF job[w].mark THEN AddDummy(State, w, w) ELSE State
     IN  Become(Insert(marked, w, job[w].label), w, job[w].label)
  /\ job' = [job EXCEPT ![w] = Null]

-----------------------------------------------------------------------------
(* Popping a timer.                                                        *)

\* graph_data::pop_graph.
Popped(g) ==
  IF g.level > 0
    THEN IF Node(g.cur).up = Null THEN g
         ELSE [g EXCEPT !.level = @ - 1, !.cur = Node(g.cur).up]
    ELSE [g EXCEPT !.cur = g.tops[1]]

\* pop_node: the lap goes to the node of the timer, wherever the graph is now.
Pop(t, i) ==
  LET timer == open[t][i] IN
  /\ t \in Workers => job[t] = Null
  /\ graph[t].phase = "live"
  /\ node' = [node EXCEPT ![timer.at[1]][timer.at[2]].laps = @ + 1]
  /\ graph' = [graph EXCEPT ![t] = Popped(@)]
  /\ open' = [open EXCEPT ![t] = RemoveAt(@, i)]
  /\ closed' = [closed EXCEPT ![t][timer.label] = @ + 1]
  /\ UNCHANGED <<job, lock, left, merged>>

-----------------------------------------------------------------------------
(* The life of a worker.                                                   *)

\* storage::_data, under the mutex: the head copies the main thread's node.
Start(w) ==
  LET at == graph[Master].cur
      depth == Node(at).depth
  IN /\ graph[w].phase = "none" /\ graph[Master].phase = "live" /\ lock = Null
     /\ Started(w) < MaxPushes[w] /\ Len(node[w]) < MaxNodes
     /\ node' = [node EXCEPT ![w] = Append(@, Dummy(Node(at).key, depth, w, at))]
     /\ graph' = [graph EXCEPT ![w] = NewGraph(NewRef(State, w), depth)]
     /\ UNCHANGED <<open, job, lock, left, merged, closed>>

\* The thread ends: its manager destroys its storages (storage::destroy).
Exit(w) ==
  /\ graph[w].phase = "live" /\ job[w] = Null
  /\ graph' = [graph EXCEPT ![w].phase = "exiting"]
  /\ UNCHANGED <<node, open, job, lock, left, merged, closed>>

\* Mutant: a graph with a single record counts as empty.
IsEmptyButOne(w) == Cardinality({r \in Linked(w) : ~Node(r).dummy}) <= 1

\* storage::true_size.
IsEmpty(w) == \A r \in Linked(w) : Node(r).dummy

\* stack_clear: every timer still on the stack is popped.
ClearedStack(n, t) ==
  LET Laps(r) == Cardinality({i \in DOMAIN open[t] : open[t][i].at = r})
  IN [u \in Threads |-> [i \in DOMAIN n[u] |-> [n[u][i] EXCEPT !.laps = @ + Laps(<<u, i>>)]]]

ClosedStack(t) ==
  [closed EXCEPT ![t] = [l \in Labels |->
      @[l] + Cardinality({i \in DOMAIN open[t] : open[t][i].label = l})]]

\* graph_data::get_inverse_insert: the bookmarks by depth, deepest first, the
\* newest first among equals.
InverseInsert(marks) ==
  LET Later(i, j) ==
        \/ Node(marks[i]).depth > Node(marks[j]).depth
        \/ Node(marks[i]).depth = Node(marks[j]).depth /\ i > j
      Rank(i) == Cardinality({j \in DOMAIN marks : Later(j, i)}) + 1
  IN [k \in DOMAIN marks |-> marks[CHOOSE i \in DOMAIN marks : Rank(i) = k]]

\* merge<Type>(lhs, rhs) up to its loop.  An empty storage is not merged.
BeginMerge(w) ==
  /\ graph[w].phase = "exiting" /\ lock = Null
  /\ IF IsEmpty(w)
       THEN /\ graph' = [graph EXCEPT ![w] = ClearedGraph("none")]
            /\ UNCHANGED <<node, open, lock, left, merged, closed>>
       ELSE /\ lock' = w
            /\ merged' = FALSE
            /\ left' = InverseInsert(graph[w].marks)
            /\ node' = ClearedStack(node, w)
            /\ closed' = ClosedStack(w)
            /\ open' = [open EXCEPT ![w] = <<>>]
            /\ graph' = [graph EXCEPT ![w].phase = "merging"]
  /\ UNCHANGED job

\* The members of q that are in set, in their order.
Only(q, set) == FlattenSeq([i \in DOMAIN q |-> IF q[i] \in set THEN <<q[i]>> ELSE <<>>])

\* graph::append_child(position, other) for each of kids in turn: they leave
\* their parent `from' and become the last children of q.
Moved(n, from, kids, q) ==
  LET cut == IF from = Null THEN n
             ELSE [n EXCEPT ![from[1]][from[2]].kids = Only(@, ToSet(@) \ ToSet(kids))]
      lifted == [t \in Threads |-> [i \in DOMAIN n[t] |->
                   IF <<t, i>> \in ToSet(kids) THEN [cut[t][i] EXCEPT !.up = q] ELSE cut[t][i]]]
  IN [lifted EXCEPT ![q[1]][q[2]].kids = @ \o kids]

\* The children of a bookmark that a merge moves: those with valid data.
Movable(r) == Only(Node(r).kids, {k \in ToSet(Node(r).kids) : ~Node(k).dummy})

\* One bookmark: its children move below the node that is found for it.
MergeOne(w) ==
  /\ lock = w /\ left # <<>>
  /\ LET r == Head(left) IN
       IF Find(r) = Null THEN UNCHANGED <<node, merged>>
       ELSE /\ node' = Moved(node, r, Movable(r), Find(r))
            /\ merged' = TRUE
  /\ left' = Tail(left)
  /\ UNCHANGED <<graph, open, job, lock, closed>>

\* When no bookmark was found: the node after the head, in pre-order, is
\* appended to the head of the master call-graph.
Fallback(w) ==
  LET tops == graph[w].tops
      kids == Node(tops[1]).kids
      next == IF kids # <<>> THEN kids[1] ELSE tops[2]
  IN  Moved(node, Node(next).up, <<next>>, graph[Master].tops[1])

\* Mutant: the mutex is not released.
EndMergeLocked(w) ==
  /\ lock = w /\ left = <<>>
  /\ node' = IF merged THEN node ELSE Fallback(w)
  /\ graph' = [graph EXCEPT ![w] = ClearedGraph("none")]
  /\ UNCHANGED <<open, job, lock, left, merged, closed>>

\* After the loop: graph_data::clear, the storage is deleted, the lock freed.
EndMerge(w) ==
  /\ lock = w /\ left = <<>>
  /\ lock' = Null
  /\ node' = IF merged THEN node ELSE Fallback(w)
  /\ graph' = [graph EXCEPT ![w] =
                 ClearedGraph(IF @.phase = "merging" THEN "none" ELSE "cleared")]
  /\ UNCHANGED <<open, job, left, merged, closed>>

-----------------------------------------------------------------------------
(* What the main thread does to the other storages and to its own.         *)

\* manager::synchronize calls sync_sea_level of w on the main thread.
Synchronize(w) ==
  /\ graph[w].phase = "live" /\ job[w] = Null /\ graph[Master].phase = "live"
  /\ graph[w].level # graph[Master].level
  /\ Len(node[w]) < MaxNodes
  /\ LET s == AddDummy(State, w, Master) IN node' = s.node /\ graph' = s.graph
  /\ UNCHANGED <<open, job, lock, left, merged, closed>>

SynchronizeIdle(w) == open[w] = <<>> /\ Synchronize(w)

LapsOf(refs, t, label) ==
  MapThenSumSet(LAMBDA r : IF Node(r).tid = t /\ Node(r).key[1] = label /\ ~Node(r).dummy
                           THEN Node(r).laps ELSE 0, refs)

\* storage::reset of the master: the children of the head are erased.
Reset ==
  LET head == graph[Master].tops[1]
      erased == Linked(Master) \ {head}
  IN /\ graph[Master].phase = "live" /\ open[Master] = <<>> /\ lock = Null
     /\ Node(head).kids # <<>>
     /\ node' = [t \in Threads |-> [i \in DOMAIN node[t] |->
          CASE <<t, i>> = head -> [node[t][i] EXCEPT !.kids = <<>>]
            [] <<t, i>> \in ToSet(Node(head).kids) -> [node[t][i] EXCEPT !.up = Null]
            [] OTHER -> node[t][i]]]
     /\ graph' = [graph EXCEPT ![Master].level = 0, ![Master].cur = head]
     /\ closed' = [t \in Threads |-> [l \in Labels |-> closed[t][l] - LapsOf(erased, t, l)]]
     /\ UNCHANGED <<open, job, lock, left, merged>>

\* storage::destroy of the master: stack_clear, then print, which merges the
\* storages of workers that still exist.
Finalize ==
  /\ graph[Master].phase = "live" /\ lock = Null
  /\ node' = ClearedStack(node, Master)
  /\ closed' = ClosedStack(Master)
  /\ open' = [open EXCEPT ![Master] = <<>>]
  /\ graph' = [graph EXCEPT ![Master].phase = "final", ![Master].level = 0,
                            ![Master].cur = graph[Master].tops[1]]
  /\ UNCHANGED <<job, lock, left, merged>>

Joined == \A w \in Workers : graph[w].phase = "none"

\* print -> merge(): the master merges a worker that is still running.
BeginMergeRunning(w) ==
  /\ graph[Master].phase = "final" /\ graph[w].phase = "live" /\ lock = Null
  /\ ~IsEmpty(w)
  /\ lock' = w
  /\ merged' = FALSE
  /\ left' = InverseInsert(graph[w].marks)
  /\ node' = ClearedStack(node, w)
  /\ closed' = ClosedStack(w)
  /\ open' = [open EXCEPT ![w] = <<>>]
  /\ UNCHANGED <<graph, job>>

Newest(t) == open[t] # <<>> /\ Pop(t, Len(open[t]))
Oldest(t) == Len(open[t]) > 1 /\ Pop(t, 1)

Use(w) ==
  \/ Start(w) \/ EndPush(w) \/ Newest(w)
  \/ \E l \in Labels : BeginPush(w, l)

MergeStep(w) == BeginMerge(w) \/ MergeOne(w) \/ EndMerge(w)

MainUse == Newest(Master) \/ \E l \in Labels : PushMaster(l)

Work == MainUse \/ \E w \in Workers : Use(w) \/ Exit(w) \/ MergeStep(w)

Next ==
  \/ Work
  \/ Joined /\ Finalize
  \/ \E t \in Threads : Oldest(t)
  \/ \E w \in Workers : SynchronizeIdle(w)

Spec == Init /\ [][Next]_vars

\* A thread that has begun to end goes on with its merge.
Fairness == \A w \in Workers : WF_vars(MergeStep(w))

\* Threads that only use scoped timers.
WorkSpec == Init /\ [][Work]_vars /\ Fairness

\* The master storage may be reset between two uses.
ResetSpec == Init /\ [][Work \/ Reset]_vars

\* synchronize() is called whatever the workers are doing.
SyncAnytimeSpec == Init /\ [][Work \/ \E w \in Workers : Synchronize(w)]_vars

\* The main thread finalizes while workers are alive.
LiveFinalizeSpec ==
  Init /\ [][Work \/ Finalize \/ \E w \in Workers : BeginMergeRunning(w)]_vars
-----------------------------------------------------------------------------
(* Properties.                                                             *)

\* The variables have the shape of storage, graph_data and the graph nodes.
TypeOK ==
  /\ \A t \in Threads : \A i \in DOMAIN node[t] :
       /\ node[t][i].depth \in Nat /\ node[t][i].laps \in Nat
       /\ node[t][i].up \in Made \union {Null}
       /\ \A q \in ToSet(node[t][i].kids) : q \in Made /\ Node(q).up = <<t, i>>
  /\ \A t \in Threads :
       /\ graph[t].phase \in {"none", "live", "exiting", "merging", "cleared", "final"}
       /\ graph[t].level \in Nat /\ graph[t].sea \in Nat
       /\ graph[t].cur \in Made \union {Null}
       /\ \A r \in ToSet(graph[t].tops) : r \in Made /\ Node(r).up = Null
       /\ ToSet(graph[t].marks) = ToSet(graph[t].tops)
  /\ lock \in Workers \union {Null}

\* Whatever the threads push, pop, bookmark and merge, each lap a timer added
\* is in exactly one call-graph: the merge loses and doubles no record
\* (operation::finalize::merge, pop_node).
LapsConserved == LET AllLinked == UNION {Linked(u) : u \in Threads} IN
  \A t \in Threads, l \in Labels :
     closed[t][l] = LapsOf(AllLinked, t, l)

\* The depth a thread counts is that of its current node, and lies as many
\* levels above sea level as it has timers on the stack: pushes and pops
\* balance, bookmarks taken in between included (graph_data::pop_graph).
StackTracksDepth ==
  \A t \in Threads : graph[t].phase = "live" =>
     /\ graph[t].cur \in Linked(t)
     /\ graph[t].level = Node(graph[t].cur).depth
     /\ graph[t].level = graph[t].sea + Len(open[t])

\* A record is one level below its parent, in the master call-graph too after
\* records of other threads were moved there (merge, insert_hierarchy).
ChildDepth ==
  \A t \in Threads : \A r \in Linked(t) :
     Node(r).up # Null => Node(r).depth = Node(Node(r).up).depth + 1

\* A merge finds a node for every bookmark ("Missing ... merge points",
\* merge.hpp:248).
BookmarksFound == \A r \in ToSet(left) : Find(r) # Null

\* The records of a worker go below the node it bookmarked, "the appropriate
\* location" (docs/components.md:90).
MergedWhereBookmarked == \A r \in ToSet(left) : Find(r) = Node(r).of

\* A worker that pushes at sea level with bookmarks to spare pushes below a
\* copy of a node the main thread was in during the call, unless the main
\* thread was at the depth of the worker's last bookmark: only then may that
\* bookmark be stale (storage::insert, graph_data::add_dummy).
StaleOnlyAtEqualDepth ==
  [][\A w \in Workers :
       /\ job[w] # Null /\ job'[w] = Null
       /\ graph[w].level = graph[w].sea /\ Len(graph[w].marks) < MaxBookmarks
       /\ Node(job[w].seen).depth # graph[w].sea
       => (Node(Node(graph[w].cur).up).of)' \in {job[w].seen, graph[Master].cur}]_vars

\* The maximum depth of the settings is exceeded by one level at most, by a
\* record directly below a worker's bookmark, or merged to where it was
\* (push_node tests the depth before insert takes the bookmark).
DepthExceededByOne ==
  \A t \in Threads : \A r \in Linked(t) : ~Node(r).dummy /\ Node(r).depth > MaxDepth =>
     /\ Node(r).depth = MaxDepth + 1
     /\ Node(r).tid # Master
     /\ t # Master => Node(Node(r).up).dummy

\* A timer pushed while another of its thread is on the stack becomes a child
\* of that one's node, which is what makes the graph a call-graph.
NestedInOpen ==
  [][\A t \in Threads :
       (Len(open'[t]) > Len(open[t]) /\ open[t] # <<>>)
       => (Node(graph[t].cur).up)' = Last(open[t]).at]_vars

\* append_child is never asked for a child of no node (its assertion,
\* graph.hpp:917).
AppendsBelowANode == \A w \in Workers : job[w] # Null => graph[w].cur # Null

\* The records of a thread that ended are in the master call-graph in the
\* end, even if other threads are merging as well.
ExitedIsMerged == \A w \in Workers :
  graph[w].phase = "exiting" ~> graph[w].phase = "none"
=============================================================================

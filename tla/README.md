# TLA+ models of timemory

timemory instruments a program: every thread records measurements in a call
graph of its own, the graphs are merged into the main thread's, samplers
interrupt threads and hand full buffers to a background thread, and small
containers carry the data. This directory models the parts of it whose
correctness depends on the order in which threads, signal handlers or callers
act. Paths below are relative to `src/source/timemory/` unless they start with
`src/`.

Run a model with `tlc -config X.cfg MCModule.tla`, check proofs with
`tlapm ModuleProofs.tla`. `PROJECT.json` lists, for every definition, the source
lines it stands for, and for every property a mutation of the model that
violates it.

## 1. The system

| Component | State | Operations | Hard part |
|---|---|---|---|
| `data/ring_buffer` | two byte counters, one block, mmap flag | init, write/request, read/retrieve, rewind, copy, move | records that do not fit at the end leave a gap; copies of wrapped buffers |
| `data/ring_buffer_allocator` | ring buffers never read, dangling slots, shared buffer data | allocate, deallocate, reserve, steal_resources | blocks must not overlap after returns, outgrown buffers and stealing |
| call-graph storage (`storage/`, `operations/types/node.hpp`, `operations/types/finalize/merge.hpp`) | per thread: tree, current node, depth, sea level, bookmarks; per timer: on stack, node, laps | first use, push, pop, bookmark (dummy), synchronize, reset, merge at thread exit, finalization | workers read the main thread's position without a lock; merges run while the main thread goes on |
| sampler and allocator thread (`sampling/`) | per sampler: buffer, filled list, running flag; queue, semaphore, spin lock, offload function | signal handler, hand-over, swap, emplace, stop, get_data, offload, deallocate | signal handlers interrupt anything; posts and swaps get out of step; destruction while queued |
| ERT barrier (`ert/barrier.hpp`, `ert/kernels.hpp`) | count, promise/future, counter, waiters | notify_wait, spin_wait, cv_wait, is checked by ops_main | a fast thread comes again before a slow one has left |
| thread numbers (`process/threading`) | two counters, two free lists, reserved set | get_id, end of a thread | take and return are guarded by different locks; the counters can cross |
| atomic ring buffer (`data/atomic_ring_buffer`) | two atomic counters, block | request, retrieve | loads, test and compare-and-swap are apart; a full buffer turns a request into a retrieval |
| graph container (`storage/graph.hpp`, `data/shared_stateful_allocator.hpp`) | nodes with five links, two sentinels, an allocator shared with a registry and with graphs that stole it | append, insert, wrap, move, swap, flatten, reparent, replace, erase, clear, move_in | backward and forward links must agree after any sequence; nodes live in memory of another graph |
| manager, singleton (`manager/`, `utility/singleton.hpp`, `config/config.cpp`) | finalizers, synchronisation callbacks, the master storage and its children, flags | construction and end of a thread's storage, timemory_finalize | threads end while the main thread walks, prints and deletes; pointers to the master storage outlive it |
| library interface and tracing (`src/source/library.cpp`, `src/source/trace.cpp`) | flags of the process, open traces, throttled and known identifiers, records, regions, component sets per thread | init, push, pop, begin, end, pause, finalize | pops that do not know what became of their push; counters and flags without a lock |
| locks, per-thread data, hash tables, signals/timers, settings, bundles, output and MPI, components, tools and bindings | | | see section 7 |

How they meet: a component's start/stop is a push/pop on the storage of the
calling thread, which is found by the number `threading::get_id()` gave the
thread. The storage's graph takes its nodes from the ring buffer allocator. At
thread exit the storage's finalizer, called by the manager, merges the graph
into the main thread's under the storage singleton's mutex. The C interface and the
calls of compiler instrumentation start and stop bundles of components by number or
name; finalising the library finalises the manager. The sampler's buffers
are ring buffers; a handler moves a full one to the allocator's thread, whose own
thread asked to be numbered apart (`offset_this_id(true)`). The ERT barrier
synchronises the threads that `ops_main` measures with.

What makes each correct: a buffer is a queue that never loses, tears or
overwrites an unread record; an allocator never hands out one slot twice; every
lap of every timer arrives once in the final graph, below a node of the right
depth, and what existed when the program was finalized is printed; a node lies in
memory that exists, and its links form an ordered tree; a trace measures its call and
no other; every full sample buffer is delivered, none twice; no thread leaves a
barrier before all came, and all leave; living threads have distinct numbers.

## 2. Modules

| Module | What it is |
|---|---|
| `RingFifo` | abstract: each buffer a bounded queue, with refusals, copies and moves |
| `RingBuffer` | the byte counters and memory of `base::ring_buffer` and the wrapper `data_storage::ring_buffer<Tp>`; implements `RingFifo` (`ImplementsFifo`) |
| `AtomicRingBuffer` | the counters of `atomic_ring_buffer` under several threads |
| `RingBufferProofs` | proofs about `RingBuffer` and `AtomicRingBuffer` |
| `SlotPool` | abstract: blocks in use share no slot |
| `RingBufferAllocator` | `data::ring_buffer_allocator`; implements `SlotPool` (`ImplementsPool`) |
| `OrderedForest` | abstract: trees whose children have an order; an operation inserts, erases or moves |
| `Graph` | `tim::graph`: links and memory of the nodes; implements `OrderedForest` (`ImplementsForest`) |
| `GraphLinkProofs` | lemmas: what insertions, moves, erasure and wrapping do to the links of `Graph` |
| `GraphProofs` | on these, the proofs about `Graph`, and those about the memory of its nodes, `RingBufferAllocator`; the refinements of `OrderedForest` and `SlotPool` among them |
| `CallGraph` | one storage per thread, `graph_data`, timers (`push_node`, `pop_node`), merge and finalization, tree scope |
| `CallGraphProofs` | proofs about `CallGraph` |
| `Lifecycle` | construction, end and finalization of the storages: singleton, manager, `timemory_finalize` |
| `LibraryState` | flags of the process that tracing and records share |
| `Tracing` | `timemory_push_trace`, `timemory_pop_trace` and what starts and ends them; on `LibraryState` |
| `Records` | records, regions and their numbers in the C interface; on `LibraryState` |
| `ComponentStacks` | the stacks of component sets of the C interface |
| `LibraryProofs` | proofs about `Tracing`, `Records` and `ComponentStacks` |
| `SamplerAllocator` | dynamic samplers, their handlers and the allocator's thread |
| `SamplerAllocatorProofs` | proofs about `SamplerAllocator` |
| `Rendezvous` | abstract: nobody leaves meeting n before everybody came to it |
| `ThreadBarrier` | `thread_barrier` in its three modes and the loop of `ops_main`; implements `Rendezvous` (`ImplementsRendezvous`) |
| `ThreadBarrierProofs` | proofs about `ThreadBarrier`, the refinement of `Rendezvous` among them |
| `ThreadIds` | `threading::internal::get_id`, its destructor, both free lists |
| `ThreadProofs` | proofs about `ThreadIds` and `Lifecycle` |
| `MC*` | instances for TLC: bounds given by thread, symmetry sets. `MCRings`, `MCRingBufferAllocator`, `MCThreads` and `MCLibrary` hold several models: a variable `program`, chosen at the start, says which of them a behaviour is about, and the others keep their initial state |

### State and steps against the code

*RingBuffer.* `buf[b]` is `m_init`, `m_use_mmap`, `m_size`, `m_read_count`,
`m_write_count` and the bytes; a record is its value repeated over its bytes, so
a torn or overwritten record is visible. Every call is one step: the class has no
synchronisation, and callers give it one user at a time. `size_t` subtraction
wraps at `Word`. Specifications: `LocalSpec` (records of one length, moves),
`Spec` (also copies), `MixedSpec` (several lengths), `RewindSpec` (with rewind).

*RingBufferAllocator.* `this[a]` is `m_buffer_this`, `data[a]` says whose
`m_buffer_this` `m_buffer_data` points to, `capacity`/`used` are the ring buffers
(a buffer that is never read is a capacity and a number used), `held` the blocks
the clients have.

*AtomicRingBuffer.* Every load of a counter, every test and every compare-and-swap is
a step. `count()` and `free()` are unsigned: a negative difference passes every test
(`Suffices`). `crowded` remembers the sides on which two calls were between test and
swap at the same time. All blocks have one length.

*Graph.* A node is the slot of memory it lies in, so a stale link to a destroyed node
meets whatever the slot holds next. `link` has the five pointers of every node and
of the two sentinels of each graph; `owner`, `dangles`, `stolen` and `registered` are
the allocators: whose buffer a slot was cut from, which slots were returned to whom,
what `steal_resources` keeps alive, and what the registry of
`shared_stateful_allocator` still holds. `Merge` and `EndMerge` are the use of the
graph by `operation::finalize::merge`: nodes of another graph are moved below one of
the main graph, then the resources are stolen and the other graph is cleared. The
refinement reads the children of a node by its first-child and next-sibling links.

*CallGraph.* Each thread has a tree of nodes, the current node, `m_depth`,
`m_sea_level` and `m_dummies`. A timer's push is `push_node` with the whole of
`insert_tree`, including the bookmark a worker takes when it is at sea level; pop
is `pop_node` with the move of the current node to the parent. Taking a bookmark
is split where the code reads the main thread's depth and then its current node.
A merge is a chain of steps, one per bookmark group, inside the mutex; the main
thread and other workers go on meanwhile. `WorkSpec` has scoped timers (the newest
is popped first), thread exit and merge; `Spec` adds pops out of order, the
synchronisation of idle workers and the final output once the workers ended;
`ResetSpec`, `SyncAnytimeSpec` and `LiveFinalizeSpec` add operations the
interface offers and the repository does not use at such moments.

*Lifecycle.* `stage` is where a thread is in a measurement (`Enter` reads
`runtime_enabled`, `Construct` and `AddChild` are the constructor of the storage,
`Measure` the push), in its end (`Retire` reads the finalized flag in the destructor of
`manager::instance`; `Destroy`, `MergeOwn`, `Leave` are `destroy` and `~storage`) or in
finalization (`BeginFinalize` to `SetFinalized`). The two mutexes are explicit, as long
as they are held across steps: the one of the master storage over the walk over its
children, the one of the singleton over each merge. A record is one element and a merge
one step; `CallGraph` has the steps inside.

*LibraryState, Tracing, Records, ComponentStacks.* The program's own call stack
(`calls`) is part of `Tracing` so that a trace can be compared with the call it is meant
to measure; the construction of a trace is split where the code may be re-entered (an
instrumented function called by timemory itself) and where another thread may act.
`Records` splits the increment of the shared counter into load and store.
`ComponentStacks` keeps beside each stack the one the documentation describes
(`meant`).

*SamplerAllocator.* A thread has a stack of handler activations, so a handler may
interrupt the code of its own thread at every step; the spin lock, the semaphore
and the queue are explicit; the allocator's thread wakes, drains the semaphore,
swaps the queue out, emplaces each buffer and calls the offload function as the
loop of `execute` does. `DestroySpec` adds `deallocate` while buffers are queued;
an exception ends the thread as it does in the code.

*ThreadBarrier.* One step per lock region or atomic operation of each mode,
spurious wake-ups included; `CheckCount` is the test `ops_main` makes after each
barrier.

*ThreadIds.* The counters are read in separate steps where the code loads them
separately; a list is read under its lock in one step and written in the next, so
that a taker (under `type_mutex<recycle_ids>`) and a returner (under another spin
lock) can overwrite each other's change. `raced` remembers the lists at which
that happened. `Take` also has the test after the critical section: a negative number,
which a list holds once more than the limit of threads were set apart, is dropped and the
thread goes on to `Count`.

## 3. Runs

| Run | Bounds | What it shows |
|---|---|---|
| `ring_gap` | 2 buffers, 2 values, page 5, record 2, counters to 9; atomic: 2 requesting and 1 retrieving thread, size 5, blocks of 2, counters to 12 | `WithinCapacity`, `UnreadIntact`, `ImplementsFifo` with a gap of one byte per lap, over more than one lap; `HeldWithinSize` |
| `allocator_blocks` | 2 allocators, 2 buffers, requests of 1 and 2; 2 graphs with up to 3 slots, a 4th where one graph has all (`Few`) | `BlocksInsideBuffer`, `HeldApart`, `OnlyTailsLost`, `ImplementsPool`; `LinksAgree`, `NodesHaveMemory`, `LosesFirstChildren`, `ImplementsForest` |
| `callgraph_work` | main and a worker, 2 labels, 2 pushes each, depth to 2, bookmarks to 3 | `LapsConserved`, `StackTracksDepth`, `ChildDepth`, `BookmarksFound`, `DepthExceededByOne`, `StaleOnlyAtEqualDepth` |
| `callgraph_threads` | main and two workers; call graphs: pushes 2, 1, 1; lives: one worker measures twice, the others once | `NestedInOpen`, `ExitedIsMerged`; `EarlierArePrinted`, `OnlyOverlappingMisuse`, `CallbacksLive`, `EndsComplete` |
| `sampler_delivery` | 2 samplers on 2 threads, 3 and 2 samples, capacity 1 | `NothingLost`, `FullInOrder`, `WakeupPending`, `FullArrives`, `FullOffloaded` |
| `barrier_kernel` | 4 threads, 2 barriers, 5 visits, 3 modes | `CountIsBack`, `ImplementsRendezvous`, `EverybodyFinishes` |
| `thread_ids` | 3 places, limit 3, 7 starts, recycling on and off, number 1 reserved | `LiveIdsDistinct`, `NoIdLost` |
| `library` | traces: one thread with calls three deep or two threads with one call each, a function traced by name and one by number, throttled at 2, two counted initialisations; records: 2 threads, 2 regions, 3 numbers; stacks: 2 threads, 3 sets | `OpenIsCalled`, `MeasuredToTheEnd`, `EarlyOnlyAfterRace`, `EmptiedStaysEmpty`; `RecordsPaired`; `CurrentAsDocumented` |
| `ring_copy_wrapped` | page 6, record 2 | violation of `CopyKeepsRecords` |
| `callgraph_attribution` | one worker, equal labels at equal depth | violation of `MergedWhereBookmarked` |
| `sampler_destroyed` | one sampler destroyed while queued | violation of `FullOffloaded` |
| `library_unique_ids` | as `library`, past the point where a counter was overwritten | violation of `UniqueForThread` |

Why the bounds suffice. Ring buffer: two records per lap and a gap reach every
relation of the counters to the end of the block, and each counter passes the end
at least once; the proofs cover all sizes. Allocator: a block of two outgrows a
buffer of one. Call graph: two pushes of a worker let the main thread move
between them, three depths separate parent, child and bookmark; two workers are
needed for two merges to meet at the mutex. Lives: the main thread may begin to finalize
in every state of the workers, and a second measurement meets it with a storage that
exists already. Graph: three nodes are a parent with two children or a chain of three,
so that a move has a neighbour, a parent and a sentinel at its ends; four leave one
more on each side. Atomic ring: the second lap begins behind a gap, and two
requesting threads beside a retrieving one are what crowds either side (a request that
finds the buffer full retrieves). Library: three nested calls separate a refused call,
the one around it and one more of the same function; the throttle of 2 is reached on
the second call. Sampler: with capacity 1 every sample
fills a buffer, so three samples give three hand-overs with posts and swaps out of
step; a second sampler shares the queue and the lock. Barrier: five visits use the
first barrier three times, which is when a slow thread could meet a fast one's next
round. Thread numbers: seven starts at a limit of three exhaust the numbers, recycle
some, let the counters cross and let a thread drop a negative number.

Each passing run says nothing of a state past its bounds, all of which are named as
such in the modules. A `program` that is not chosen cannot hide a step of the other:
the models share no variable. The part about records stops where a counter was
overwritten; `RacedSpec`, of `library_unique_ids`, goes on.

Deadlock checking is off where the modelled callers may stop for good (the ring
buffers, the allocator and the graph, the call graph and the lives of storages, the C
interface, whose bounds end the work); elsewhere a
named last step (`Quiet`, `Finished`) is the only legal end.

## 4. Fairness

* `ExitedIsMerged`: weak fairness of the merge steps of each worker (waiting for the
  mutex, merging one group, ending): a thread that runs its exit handler is
  scheduled. A holder releases the mutex after finitely many steps, and every worker
  takes it a bounded number of times; nothing is assumed of the application's
  pushes, pops and exits.
* `EndsComplete`: weak fairness of the steps of a worker that has begun to end and of
  the finalization; none of a measurement. Each mutex is taken a bounded number of
  times per thread, and the code waits for nothing else.
* `FullArrives`, `FullOffloaded`: weak fairness of every step of a running handler
  and of the allocator's thread. No fairness of the arrival of signals. The spin
  lock is not fair, but each sampler takes it finitely often (`MaxSamples`), so it
  becomes free.
* `EverybodyFinishes`: weak fairness of each thread's own steps; spurious wake-ups
  have none.

## 5. Proofs

All for arbitrary values of the constants, under the named assumptions of the
module (`ASSUME` in the module that declares the constants, evaluated by TLC in
the runs). Three kinds of assumption are about names only: graphs are positive numbers, so that
the pointers to their sentinels are no nodes and not null; `Null` is none of the
numbers, nodes or threads it stands beside, and in `Records` the owner `Own` is
not the name of a region. One theorem has a hypothesis: `TwoBarriers` in
`ThreadBarrierProofs`, since `ops_main` alternates two barriers and a single one may
trap a thread. TLC checked every inductive invariant below on the bounds of the
component's run before it was proved.

| Module | Theorem | Property |
|---|---|---|
| `RingBufferProofs` | `CountersWithinCapacity`, `WritesSpareUnreadRecords` | `TypeOK`, `WithinCapacity`, `UnreadIntact` |
| | `WrapperIsFifo` | `ImplementsFifo` |
| | `AtomicHeldWithinSize` | `HeldWithinSize` |
| `CallGraphProofs` | `CallGraphTypeCorrect`, `CallGraphsInOrder` | `TypeOK`, the invariant `CallInv` |
| | `StackTracksDepthHolds`, `ChildDepthHolds`, `BookmarksFoundHolds`, `DepthExceededByOneHolds` | the properties of these names |
| | `StaleOnlyAtEqualDepthHolds`, `NestedInOpenHolds` | the action properties of these names |
| | `LapsConservedHolds` | `LapsConserved` |
| `GraphProofs` | `GraphInvariant` | the invariant `GraphInv` |
| | `GraphLinksAgree`, `GraphNodesHaveMemory` | `LinksAgree`, `NodesHaveMemory` |
| | `GraphLosesFirstChildren` | the action property `LosesFirstChildren` |
| | `GraphImplementsForest` | `ImplementsForest` |
| | `BlocksAlwaysInside`, `AlwaysHeldApart`, `TailsOnlyLost` | `BlocksInsideBuffer`, `HeldApart`, `OnlyTailsLost` |
| | `AllocatorIsPool` | `ImplementsPool` |
| `SamplerAllocatorProofs` | `NoLostWakeup`, `NoLostWakeupDestroyed` | `WakeupPending` |
| | `NoSampleLost`, `FullBuffersInOrder` | `NothingLost`, `FullInOrder` |
| `ThreadBarrierProofs` | `CountAlwaysBack`, `BarriersAreMeetings` | `CountIsBack`, `ImplementsRendezvous` |
| `ThreadProofs` | `TypeCorrect`, `IdsDistinct`, `IdsKept` | `TypeOK`, `LiveIdsDistinct`, `NoIdLost` |
| | `EarlierRecordsPrinted`, `MisuseOnlyByOverlap`, `CallbacksOfLiveStorages` | `EarlierArePrinted`, `OnlyOverlappingMisuse`, `CallbacksLive` |
| `LibraryProofs` | `CurrentSetDocumented` | `CurrentAsDocumented` |
| | `OpenTracesAreCalled`, `TracedUntilReturn`, `EarlyOutputNeedsTwo`, `EmptiedForGood` | `OpenIsCalled`, `MeasuredToTheEnd`, `EarlyOnlyAfterRace`, `EmptiedStaysEmpty` |
| | `RecordsAlwaysPaired` | `RecordsPaired` |

### Why they hold

*RingBuffer.* `WithinCapacity` is inductive only together with the typing of
the buffers and the fact that both counters, modulo the block, lie on a record
boundary (`CountersOK`): without the second part a counter could be a fraction of
a record away from the end, and the gap would be counted differently by the reader
and the writer. The arithmetic is in lemmas about `Bumped` (where the next record
goes: on the same lap or at the start of the next). For `WrapperIsFifo` the block is
divided into slots of a record each, and the gap. The reader stands at the start of a slot
or of the gap, the writer on the same lap or one lap on and no further into it
(`Positions`); so the bytes counted are whole records, or whole records and the gap, and
what `free` and `count` say of one more record is exact either way (`RecordsHeld`). The new
invariant is `Uniform`: the bytes of a slot belong to one record, so that a record is never
torn, nor is what `request` hands out unwritten. A write then appends the content of the next
slot, a read takes the first one and shifts the others (`OneMore`, `OneLess`).

*AtomicRingBuffer.* `AtomicInv`: on a side where no two calls met, at most one is
between its test and its swap (`AloneBetween`), and what its test found still holds
there: only the other side moved meanwhile, which makes room for a request
(`RoomFound`) and adds blocks for a retrieval (`BlockFound`). A counter is always a
whole number of blocks into its lap (`AtBlock`).

*RingBufferAllocator.* `PoolInv`. Nothing in use or listed was never cut off its buffer
(`WithinCut`); blocks in use, lists and current buffers are pairwise apart (`ListsApart`); an
allocator draws from one that draws from its own (`RootsDrawn`). For what is lost, each
buffer has a border: all slots below are in use or listed, none above, and the border
of a current buffer is where it is cut next (`Borders`). Lists and blocks change by one
lemma each, and every step of the allocator is an allocation, a return or a stutter
of `SlotPool`.

*Graph.* (`GraphLinkProofs`, `GraphProofs`.) Neither property is inductive. `LinksAgree` says of the nodes that are read from
the heads that their links agree, but which nodes these are is itself read from the
links, and a cycle would be read as well. `GraphInv` therefore states what the links
represent: a forest that gives every node and every head a sequence of children, in which
no node has two places and every set of nodes has one without a parent in the set
(`Shape`); all five links of every node, and those of head and feet, are the ones this
forest implies (`Fits`, built from `Sibs`, which says it of one set of siblings). With heads
and feet taken for parents (`Leftmost`, `LeftEnd`, `RightEnd`) one lemma serves a child and
a top, a neighbour and an end. Three facts carry all operations: `Join` changes exactly one
pair of neighbours (`JoinReads`), a run taken out shortens the sequence (`TakeRun`), a run
put in lengthens it (`PutRun`), and a run that comes below a node that is not within it makes
no cycle. Moves are these two in turn (`RunFits`, `MoveFits`); erasing is a run of one taken
out and what is below it forgotten (`CutFits`, `ErasedFits`); `move_ontop`, `wrap` and
`append_child` of a node of another graph are additions and moves one after the other, where
the slot that is added and removed again leaves no trace (`PassedBy`, `AdoptedIs`); `swap` is
the forest under exchanged names (`SwappedIs`); `replace` is a second forest under new
names beside the first, and one of its nodes put in (`CopyShape`, `OverwriteFits`). That the
model's recursions compute what the forest says is proved without induction: a growing set
of at most `MaxNodes` nodes is closed after as many steps (`GrowthCloses`), and a recursion
along the children has one solution because a set in which two solutions differ would have a
node without a child in the set (`Unfolds`). Each operation turns the forest into one that
is a step of `OrderedForest` away (`Becomes`), and `NextTurns` shows that the forest the
next state is read as is that one.

For the memory, `Safe` adds whose the memory is: a graph keeps (is, has stolen, or is
merging) the allocator of every node it has and of every slot it has back; a dangling slot
is not constructed and dangles in one graph; only the main graph steals; the registry
holds what some graph holds. An operation of a graph brings nodes into it only from the
graph that it merges (`RegionsStay`), hence `Keeps` goes on to hold, and what `~graph` gives
back was cut by allocators that no other graph keeps (`DestroySafe`). `LosesFirstChildren`
follows from what erasing a node does not destroy (`CutoffBelow`): the nodes destroyed are
closed under all children but the first, so what is left below is a union of first children
with all within them.

*CallGraph.* `CallInv` has five parts. The nodes form trees: links of parent and child
agree, depths differ by one, exactly the bookmarks have no parent, a record belongs to
the thread that made it, and a bookmark of a worker copies the hash and depth of a node
that is below the root of the master call-graph for good (`Forest`). A thread's current
node is in a tree of its graph at the depth it counts, its sea level is the depth of
the bookmark it hangs below, and the difference is the number of timers on the stack
(`ThreadOK`). A push that has tested whether a bookmark is due still finds what it tested
(`JobOK`), and the merge visits bookmarks of the one worker it holds (`MergeOK`). The
main work is in the lemmas about how an operation changes the trees: what `Insert`,
`AddDummy`, `Moved` and `ClearedStack` do to nodes, links and tops, and that everything
else, the invariant of every other thread included, only depends on what they keep
(`Follows`). `BookmarksFound` then rests on the copied node itself: it matches, so
`Find` has a match, and the first match in pre-order exists because paths of a tree
are totally ordered. `TypeOK` needs one more fact, that a thread being merged keeps the
current node it had (`CurrentMade`). `NestedInOpen` is proved for `WorkSpec`, with the
invariant that the nodes of a thread's timers are a path, each the parent of the next and
the last one current (`Stacked`); under `Spec` it is false, since a timer popped out
of order leaves the path. `LapsConserved` needs `LapsInv`: per label, the laps counted
are the sum over all nodes (`Counted`); a timer on a stack is at a record of its thread
and label (`TimersIn`); and every record hangs below a top of its thread's graph or,
while that thread is merged, below a bookmark the merge has still to visit (`Kept`). A
sum over a finite set is a function on its subsets (`Sums`); the lemmas let any member
be taken out first, so that a step, which changes the laps of one node or moves
nodes without laps of their own, changes the sum by what it added.

*Lifecycle.* `LifeInv`: where a worker is determines what it has registered, stored
and still holds (`Course`); by the stage of the finalization, early records are with
some thread, with one the walk has still to visit, in the master storage, or printed
(`Carried`); whoever is in a measurement or an end since finalization began is in
`overlapping` (`Known`).

*SamplerAllocator.* Whenever the
queue is not empty, a semaphore post is pending or the allocator's thread is between
its wait and its swap. A handler that
queued a buffer and has not posted yet counts as the wake-up, which makes the
property inductive with no more than the shape of the records (`WakeupInv`): the
step that takes the last post away empties the queue before the thread waits
again. This is the safety half of `FullArrives`; the eventual arrival stays with
TLC. For the data (`DeliveryInv`), all places a sample can be in are joined to one
stream per sampler, in the order of delivery: what is stored, taken, queued, in the hand
of the handler and in the buffer. Each sample counted is in it exactly once, or was
handed to the offload function, and those outside `early` are in order; every step moves a
part of the stream to its neighbour.

*ThreadBarrier.* `BarrierInv`: the numbers of visits of two threads differ by one at most
(`Together`), and every barrier is in a phase: filling, closing (the last to come
resets the count while all others wait) or emptying, with the count or counter a
function of how many have come or are still to leave (`Phases`). That a fast thread never
meets a slow one's visit follows because, with two barriers, whoever comes back to a
barrier has seen everybody come to the other.

*ThreadIds.* The inductive
invariant says that each lock has one holder (`OneHolder`), that the copy a thread
will write back is still the list (`CopyFresh`), and that numbers of a kind are
held once or listed once and were counted (`Apart`). `CopyFresh` is what a common
lock would give for every list; here it ends at a list where a taker met a
returner, and the theorems end with it. Numbers of the two kinds differ because they
lie on different sides of the counters, hence the condition
`global_counter <= offset_counter` of `LiveIdsDistinct`. `NoIdLost` follows the numbers of
each kind by themselves and needs no such condition; it speaks of positive numbers only,
and a number `Take` drops is negative.

*C interface.* Component sets (`StacksInv`): the stack is the documented one, or, for a
thread that began with a push, the documented one is a set longer at the bottom. Traces
(`TracingInv`): the open traces of a function are, in order, calls of it that are traced;
they are all of them unless a call inside was refused, and then the function is among
`inside` (`Nested`); before the end somebody has counted itself, or nobody, or two have
(`Counted`). Records (`RecordsInv`): until a counter is overwritten, all numbers issued lie
below it and a thread's below the one it is creating (`Increasing`), so what a thread may
end has distinct numbers and they are its records.

Induction over data is done by the least counterexample: `LeastNumber` takes the smallest
member of a set of naturals (from `WFMin`), and what recursive definitions of the library
compute (`FlattenSeq`, tops and paths in a tree) is reached from there.

### Only model-checked

All liveness (`ExitedIsMerged`, `EndsComplete`, `FullArrives`, `FullOffloaded`,
`EverybodyFinishes`): the prover has no support for fairness or ENABLED. Every invariant
and every action property or refinement of a passing run is the statement of a theorem. The
properties of violation runs are false.

## 6. Where the code and its documents disagree

With a run: the copy of a wrapped ring buffer repeats its first record
(`data/ring_buffer.hpp:514`); records of a worker are attached to the first node of
equal label and depth (`storage/graph_data.hpp:201`); a sampler destroyed while its
buffer is queued ends the allocator's thread (`sampling/allocator.hpp:321`); the number
of a record may be given twice to one thread (`src/source/library.cpp:149`).

Characterised by a property that holds, which says how far the disagreement goes: the
rest of an outgrown buffer is lost (`data/ring_buffer_allocator.hpp:148`, `OnlyTailsLost`);
a worker keeps its bookmark when the main thread moves to another node of equal depth
(`storage/graph_data.hpp:150`, `StaleOnlyAtEqualDepth`); the depth limit can be passed by
one (`operations/types/node.hpp:197`, `DepthExceededByOne`); `erase_children` loses the
first child with all below it (`storage/graph.hpp:681`, `LosesFirstChildren`, though the
comment at line 286 says all children are erased); a thread that ends between the
deletion of the master storage and the finalized flag uses the deleted storage
(`manager/manager.cpp:861`, `OnlyOverlappingMisuse`); two requests that meet can fill the
atomic ring buffer past its size (`data/atomic_ring_buffer.cpp:240`, `HeldWithinSize`); a
pop after a refused push ends the trace of an outer call (`src/source/trace.cpp:563`,
`MeasuredToTheEnd`); a race of the first pushes lets the manager be finalized early
(`src/source/trace.cpp:757`, `EarlyOnlyAfterRace`); popping all components does not restore
the default set when the first operation of a thread was a push
(`src/source/library.cpp:403`, `CurrentAsDocumented`).

Defined in the modules, without a run, because nothing in the repository uses the
code that way or no document promises otherwise:
`UnreadIntactMixed` under `MixedSpec` (records of several lengths in one buffer),
`UnreadIntact` under `RewindSpec` (rewind after an overwrite), `HeldApart` under
`StealAgainSpec` (resources stolen twice), `BookmarksFound` under `ResetSpec`,
`NestedInOpen` under `SyncAnytimeSpec`, `AppendsBelowANode` under `LiveFinalizeSpec`
(a worker merged while it still runs), `HandlerNotBlockedBelow` (two samplers on one
thread whose signals nest spin on one lock). With recycling, a number can be given out
twice or lost when a thread ends while another takes a number
(`process/threading.cpp:209`), and two threads can step past the limit together
(`process/threading.cpp:159`): the properties of `ThreadIds` exclude exactly these
two cases. `get_id` loses a negative number it takes from a list and counts a new one
(`process/threading.cpp:173`), without any race: `NoIdLost` does not count the negative
ones. A single barrier used twice in spin or cv mode may trap a thread; `ops_main`
alternates two.

Read in the source and modelled as it is, or left out as noted:

* Graph. `replace(position, x)` (`storage/graph.hpp:1306`) destroys and constructs the
  node, which loses its links although the comment says it keeps the children; it is left
  out. `move_ontop` and `append_child` with a neighbouring or last node use links read
  before the node was taken out; callers in the models avoid these arguments. `move_out`
  does not update the parent's first and last child, `move_in` before a first child
  dereferences null and does not keep the other graph's memory; nothing calls them so.
  `steal_resources` does not pass on what the other graph had stolen before.
* Atomic ring buffer. A block that does not fit before the end is handed out at the old
  position all the same and runs past the end of the memory
  (`data/atomic_ring_buffer.cpp:252`); the counter moves before the bytes are copied, so a
  reader may come first; once a counter has passed the other the unsigned difference
  lets every later call through. Nothing in the repository uses the class from two threads.
* Lifecycle. A worker that calls `timemory_finalize` sets the finalized flag, and the main
  thread's own `finalize` then returns at once (`manager/manager.cpp:261`): nothing is
  printed. `remove_finalizer` goes on with an iterator it has erased
  (`manager/manager.cpp:749`); only `deregister` and `free_shared_manager` call it, and nothing calls
  those.
  `f_debug` and `f_verbose` of the manager test the settings the wrong way round.
* C interface. `timemory_pop_trace_hash` never tests the lock although its comment
  (`trace.hpp:79`) says so; `timemory_copy_hash_ids` holds the lock that makes
  `timemory_add_hash_id` refuse, so that a worker does not get the main thread's names
  (`src/source/trace.cpp:442`); finalising while paused returns before the manager
  (`src/source/library.cpp:263`); a library initialised by `timemory_init_library` leaves the
  count of traces at zero, and `timemory_trace_finalize` then does nothing
  (`src/source/trace.cpp:817`); open traces of other threads stay open at the end
  (`src/source/trace.cpp:868`); a pop from inside the library may close the trace that is
  just being started. `compat/library.h:194`, read literally, has a set that is made the
  default take effect once all components are popped; `timemory_set_default` reaches a
  stack only when it is empty (`src/source/library.cpp:328`), and the repository's test
  `override_default` expects that. `meant` follows the code and the test here, so
  `CurrentAsDocumented` does not judge it.

## 7. Not modelled

Storage in flat and timeline scopes, appended secondary data, `get()` and the
secondary trees; fixed-size samplers, signal masks, `flush()` and `wait()` of the
allocator; reserving numbers while threads run, callbacks that throw. Of the graph:
copies, ranges, `insert_subgraph`, `append_children`, `sort`, `merge`, `reduce`,
`move_out`. Of the manager: initializers, cleanups, metadata, the exit hook; of the
singleton: `reset`, and its use for other types than storages. The master storage is
built by a static initialiser in `Lifecycle`; with `TIMEMORY_LIBRARY_CTOR=OFF` the first
thread that measures owns it, and ends it when it ends. Of the C interface: replaced
create and delete functions, `timemory_trace_set_env`, `set_environ`, the MPI wrapper and
the wrapping of `pthread_create`. Re-entry of the C interface is modelled while a trace is
started; left out are a pop re-entered between `stop()` and `pop_back()`
(`src/source/trace.cpp:565`; both are in the step `Leave`) and a push re-entered during
`timemory_trace_init` by the thread that runs it (line 684 does not look at the lock, so
that push would count itself at line 757). Of the samplers: the handler of a sampler does
not interrupt itself, which is so with `trait::prevent_reentry` only (true by default,
`sampling/sampler.cpp:393`), and `Emplace` reads
`m_offload` once where the code tests and then calls it (`sampling/allocator.hpp:332`), so a
`set_offload` between the two is not seen. Locks appear as critical sections. Hash tables, settings,
output, MPI and UPC++ gathering, the measurements of components, vendor backends, timers
of the kernel, tools, connectors and bindings are input and output or stateless adapters;
`PROJECT.json` gives the reason for each.

Hazards without a property: a reset of the master storage, `synchronize` on a busy worker
and a merge of a running worker have one in `CallGraph` that fails, as listed above; two
nested signals likewise. The race of the main thread's `append_child` with the one of a
merging worker, link by link, would need the five writes of `append_child` as steps.

## 8. Plan

1. `CallGraph` extended by flat and timeline scopes and by the output path (`get`).
2. `append_child` and the merge of `Graph` as single link writes, for the race at
   `storage/graph.hpp:923`.
3. Signals and timers that deliver the samples of `SamplerAllocator`.

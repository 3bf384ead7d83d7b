-------------------------- MODULE SamplerAllocator --------------------------
(***************************************************************************)
(* Dynamic samplers and the thread of the allocator they share             *)
(* (sampling/sampler.cpp, sampling/allocator.hpp).  A signal handler       *)
(* records a sample in the buffer of its sampler; when the buffer is full  *)
(* it hands it over under a spin lock and posts a semaphore.  The          *)
(* allocator's thread swaps the queue out and stores each buffer, or gives *)
(* it to the offload function.  stop() hands the residual buffer over      *)
(* directly, on the thread that stops.                                     *)
(*                                                                         *)
(* The samples of a sampler are numbered in the order they are taken; a    *)
(* buffer is the sequence of its samples.                                  *)
(***************************************************************************)
EXTENDS Integers, Sequences, SequencesExt, FiniteSetsExt

CONSTANTS Samplers,
          Threads,
          Owner,         \* Owner[s]: the thread whose signals s handles
          Capacity,      \* samples a buffer holds
          MaxSamples,    \* bound: MaxSamples[s]: samples that s takes
          MaxNested,     \* handlers a thread nests: signals it is sent
          Null

ASSUME SamplerAssumption ==
  /\ Null \notin Samplers
  /\ Owner \in [Samplers -> Threads]
  /\ Capacity \in Nat \ {0} /\ MaxNested \in Nat
  /\ MaxSamples \in [Samplers -> Nat]

VARIABLES smp,       \* smp[s]: the members of the sampler
          stack,     \* stack[t]: samplers whose handler runs on t, innermost last
          spin,      \* owner of the spin mutex of the queue
          sem,       \* value of m_sem
          queue,     \* _local_buffer: buffers handed over
          pending,   \* _pending
          alloc,     \* where the allocator's thread is, and what it swapped out
          registry,  \* m_data: the samplers it knows
          stored,    \* stored[s]: sampler_data::buffers
          kept,      \* kept[s]: sampler_data::data
          offload,   \* whether an offload function is set
          offloaded  \* offloaded[s]: samples the offload function was given

sampling == <<smp, stack>>
channel == <<spin, sem, queue, pending>>
data == <<registry, stored, kept, offloaded>>
vars == <<smp, stack, spin, sem, queue, pending, alloc, registry, stored, kept,
          offload, offloaded>>

Allocator == "allocator"

\* A sampler after its construction: an empty buffer, m_move the allocator's.
NewSampler ==
  [phase |-> "stopped", linked |-> TRUE, pc |-> "idle", buffer |-> <<>>,
   hand |-> <<>>, count |-> 0, early |-> {}]

Init ==
  /\ smp = [s \in Samplers |-> NewSampler]
  /\ stack = [t \in Threads |-> <<>>]
  /\ spin = Null /\ sem = 0 /\ queue = <<>> /\ pending = 0
  /\ alloc = [pc |-> "check", completed |-> FALSE, taken |-> <<>>, back |-> "check"]
  /\ registry = Samplers
  /\ stored = [s \in Samplers |-> <<>>]
  /\ kept = [s \in Samplers |-> <<>>]
  /\ offload = FALSE
  /\ offloaded = [s \in Samplers |-> <<>>]

-----------------------------------------------------------------------------
(* The signal handler: execute() samples each sampler of the thread.       *)

\* s may be sampled by a signal that interrupts its thread (m_sig_lock).
MayEnter(s) ==
  LET t == Owner[s] IN
  /\ smp[s].phase = "running" /\ smp[s].pc = "idle"
  /\ smp[s].count < MaxSamples[s]
  /\ Len(stack[t]) < MaxNested

IsFull(buffer) == Len(buffer) = Capacity

\* sample() with room in the buffer.
Sample(s) ==
  /\ MayEnter(s) /\ ~IsFull(smp[s].buffer)
  /\ smp' = [smp EXCEPT ![s].buffer = Append(@, smp[s].count + 1), ![s].count = @ + 1]
  /\ UNCHANGED <<stack, channel, alloc, data, offload>>

\* A full buffer goes to m_move; the no-op m_move drops it.
SampleUnlinked(s) ==
  /\ MayEnter(s) /\ IsFull(smp[s].buffer) /\ ~smp[s].linked
  /\ smp' = [smp EXCEPT ![s].buffer = <<smp[s].count + 1>>, ![s].count = @ + 1]
  /\ UNCHANGED <<stack, channel, alloc, data, offload>>

BeginMove(s) ==
  /\ MayEnter(s) /\ IsFull(smp[s].buffer) /\ smp[s].linked
  /\ smp' = [smp EXCEPT ![s].hand = smp[s].buffer, ![s].buffer = <<>>, ![s].pc = "lock"]
  /\ stack' = [stack EXCEPT ![Owner[s]] = Append(@, s)]
  /\ UNCHANGED <<channel, alloc, data, offload>>

\* The innermost handler of a thread is the one that runs.
Runs(s) == stack[Owner[s]] # <<>> /\ Last(stack[Owner[s]]) = s

\* Mutant: the newest buffer is put first.
PushFront(s) ==
  /\ Runs(s) /\ smp[s].pc = "lock" /\ spin = Null
  /\ spin' = s
  /\ queue' = <<[from |-> s, buffer |-> smp[s].hand]>> \o queue
  /\ pending' = pending + 1
  /\ smp' = [smp EXCEPT ![s].hand = <<>>, ![s].pc = "unlock"]
  /\ UNCHANGED <<stack, sem, alloc, data, offload>>

\* The move function: spin lock, emplace_back, ++_pending ...
Push(s) ==
  /\ Runs(s) /\ smp[s].pc = "lock" /\ spin = Null
  /\ spin' = s
  /\ queue' = Append(queue, [from |-> s, buffer |-> smp[s].hand])
  /\ pending' = pending + 1
  /\ smp' = [smp EXCEPT ![s].hand = <<>>, ![s].pc = "unlock"]
  /\ UNCHANGED <<stack, sem, alloc, data, offload>>

\* ... unlock ...
Unlock(s) ==
  /\ Runs(s) /\ smp[s].pc = "unlock"
  /\ spin' = Null
  /\ smp' = [smp EXCEPT ![s].pc = "post"]
  /\ UNCHANGED <<stack, sem, queue, pending, alloc, data, offload>>

\* Mutant: the semaphore is not posted.
PostNothing(s) ==
  /\ Runs(s) /\ smp[s].pc = "post"
  /\ smp' = [smp EXCEPT ![s].buffer = <<smp[s].count + 1>>, ![s].count = @ + 1,
                        ![s].pc = "idle"]
  /\ stack' = [stack EXCEPT ![Owner[s]] = Front(@)]
  /\ UNCHANGED <<channel, alloc, data, offload>>

\* ... and sem_post; sample() goes on with a new buffer and its request.
Post(s) ==
  /\ Runs(s) /\ smp[s].pc = "post"
  /\ sem' = sem + 1
  /\ smp' = [smp EXCEPT ![s].buffer = <<smp[s].count + 1>>, ![s].count = @ + 1,
                        ![s].pc = "idle"]
  /\ stack' = [stack EXCEPT ![Owner[s]] = Front(@)]
  /\ UNCHANGED <<spin, queue, pending, alloc, data, offload>>

-----------------------------------------------------------------------------
(* emplace(), and what reads its result.                                   *)

\* Mutant: the offload function is not looked at.
EmplaceStored(s, buffer) ==
  /\ stored' = [stored EXCEPT ![s] = Append(@, buffer)]
  /\ UNCHANGED offloaded

\* emplace past its get(): the offload function, or the sampler's buffers.
Emplace(s, buffer) ==
  IF offload
    THEN /\ offloaded' = [offloaded EXCEPT ![s] = @ \o buffer]
         /\ UNCHANGED stored
    ELSE /\ stored' = [stored EXCEPT ![s] = Append(@, buffer)]
         /\ UNCHANGED offloaded

\* update_data: the buffers go to the offload function or become data.
UpdateData(set) ==
  LET WithBuffers(f) ==
        [s \in Samplers |-> IF s \in set THEN f[s] \o FlattenSeq(stored[s]) ELSE f[s]]
  IN  /\ stored' = [s \in Samplers |-> IF s \in set THEN <<>> ELSE stored[s]]
      /\ IF offload THEN offloaded' = WithBuffers(offloaded) /\ UNCHANGED kept
                    ELSE kept' = WithBuffers(kept) /\ UNCHANGED offloaded

\* get_data(s): update_data(s) under the mutex of the data.
GetData(s) ==
  /\ s \in registry /\ stored[s] # <<>>
  /\ UpdateData({s})
  /\ UNCHANGED <<sampling, channel, alloc, registry, offload>>

SetOffload ==
  /\ offload' = ~offload
  /\ UNCHANGED <<sampling, channel, alloc, data>>

\* The thread of s is not in a handler.
OutsideHandler(s) == stack[Owner[s]] = <<>>

Start(s) ==
  /\ smp[s].phase = "stopped" /\ OutsideHandler(s)
  /\ smp' = [smp EXCEPT ![s].phase = "running"]
  /\ UNCHANGED <<stack, channel, alloc, data, offload>>

\* stop(): the triggers first, then a buffer that is not empty.  `early'
\* remembers the samples that went this way.
Stop(s) ==
  /\ smp[s].phase = "running" /\ OutsideHandler(s)
  /\ smp' = [smp EXCEPT ![s].phase = "stopped", ![s].buffer = <<>>,
                        ![s].early = @ \union ToSet(smp[s].buffer)]
  /\ IF smp[s].buffer # <<>> THEN Emplace(s, smp[s].buffer)
                             ELSE UNCHANGED <<stored, offloaded>>
  /\ UNCHANGED <<stack, channel, alloc, registry, kept, offload>>

\* ~sampler: deallocate erases what the allocator keeps for it.
Destroy(s) ==
  /\ smp[s].phase = "stopped" /\ OutsideHandler(s)
  /\ smp' = [smp EXCEPT ![s].phase = "destroyed", ![s].linked = FALSE]
  /\ registry' = registry \ {s}
  /\ stored' = [stored EXCEPT ![s] = <<>>]
  /\ kept' = [kept EXCEPT ![s] = <<>>]
  /\ UNCHANGED <<stack, channel, alloc, offload, offloaded>>

\* A buffer of s is on its way to the allocator's data.
InFlight(s) ==
  \/ smp[s].hand # <<>>
  \/ \E i \in DOMAIN queue : queue[i].from = s
  \/ \E i \in DOMAIN alloc.taken : alloc.taken[i].from = s

\* ~allocator, when the last sampler let go of it: m_exit.
ExitAllocator ==
  /\ \A s \in Samplers : smp[s].phase = "destroyed"
  /\ ~alloc.completed
  /\ alloc' = [alloc EXCEPT !.completed = TRUE]
  /\ sem' = sem + 1
  /\ UNCHANGED <<sampling, spin, queue, pending, data, offload>>

-----------------------------------------------------------------------------
(* allocator::execute, the thread.                                         *)

Check ==
  /\ alloc.pc = "check"
  /\ alloc' = [alloc EXCEPT !.pc = IF alloc.completed THEN "drain" ELSE "wait"]
  /\ UNCHANGED <<sampling, channel, data, offload>>

Wait ==
  /\ alloc.pc = "wait" /\ sem > 0
  /\ sem' = sem - 1
  /\ alloc' = [alloc EXCEPT !.pc = "swap"]
  /\ UNCHANGED <<sampling, spin, queue, pending, data, offload>>

\* Mutant: the queue is copied, not swapped.
SwapKeeping(next) ==
  /\ spin = Null
  /\ queue' = queue
  /\ pending' = pending - Len(queue)
  /\ alloc' = [alloc EXCEPT !.taken = queue, !.back = next,
                            !.pc = IF queue = <<>> THEN next ELSE "get"]
  /\ UNCHANGED <<sampling, spin, sem, data, offload>>

\* _swap_buffer up to its loop: the queue is swapped out under the spin lock
\* and its length taken from _pending.
Swap(next) ==
  /\ spin = Null
  /\ queue' = <<>>
  /\ pending' = pending - Len(queue)
  /\ alloc' = [alloc EXCEPT !.taken = queue, !.back = next,
                            !.pc = IF queue = <<>> THEN next ELSE "get"]
  /\ UNCHANGED <<sampling, spin, sem, data, offload>>

SwapBuffer == alloc.pc = "swap" /\ Swap("check")

\* After the loop: swap as long as buffers are pending, and once more.
Drain == alloc.pc = "drain" /\ Swap(IF pending > 0 THEN "drain" ELSE "update")

\* The loop of _swap_buffer: emplace first gets the data of the sampler ...
Get ==
  /\ alloc.pc = "get"
  /\ Head(alloc.taken).from \in registry
  /\ alloc' = [alloc EXCEPT !.pc = "deliver"]
  /\ UNCHANGED <<sampling, channel, data, offload>>

\* ... and then delivers the buffer.
Deliver ==
  /\ alloc.pc = "deliver"
  /\ LET full == Head(alloc.taken) IN Emplace(full.from, full.buffer)
  /\ alloc' = [alloc EXCEPT !.taken = Tail(@),
                            !.pc = IF Len(alloc.taken) = 1 THEN alloc.back ELSE "get"]
  /\ UNCHANGED <<sampling, channel, registry, kept, offload>>

\* get() throws for a sampler that was deallocated.  In the loop the
\* exception is caught and ends the thread; after the loop nothing catches it.
Throw ==
  /\ alloc.pc = "get"
  /\ Head(alloc.taken).from \notin registry
  /\ alloc' = [alloc EXCEPT !.taken = <<>>,
                            !.pc = IF alloc.back = "check" THEN "reset" ELSE "terminated"]
  /\ UNCHANGED <<sampling, channel, data, offload>>

UpdateAll ==
  /\ alloc.pc = "update"
  /\ UpdateData(registry)
  /\ alloc' = [alloc EXCEPT !.pc = "reset"]
  /\ UNCHANGED <<sampling, channel, registry, offload>>

\* reset(): the samplers it knows get the no-op m_move; the thread ends.
Reset ==
  /\ alloc.pc = "reset"
  /\ alloc' = [alloc EXCEPT !.pc = "dead"]
  /\ smp' = [s \in Samplers |-> [smp[s] EXCEPT !.linked = @ /\ s \notin registry]]
  /\ UNCHANGED <<stack, channel, data, offload>>

-----------------------------------------------------------------------------
Handler(s) == Push(s) \/ Unlock(s) \/ Post(s)

Thread == Check \/ Wait \/ SwapBuffer \/ Get \/ Deliver \/ Drain \/ UpdateAll \/ Reset

\* Everything but the end of a sampler.
Use ==
  \/ \E s \in Samplers :
       \/ Sample(s) \/ BeginMove(s) \/ Handler(s)
       \/ Start(s) \/ Stop(s) \/ GetData(s)
  \/ SetOffload
  \/ ExitAllocator
  \/ Thread

\* The signal handlers and the thread are scheduled.
Fairness == WF_vars(Thread) /\ \A s \in Samplers : WF_vars(Handler(s))

\* A sampler is destroyed when none of its buffers is under way.
Next == Use \/ \E s \in Samplers : ~InFlight(s) /\ Destroy(s)
Spec == Init /\ [][Next]_vars /\ Fairness

\* A sampler is destroyed as soon as it is stopped.
DestroyNext == Use \/ Throw \/ \E s \in Samplers : SampleUnlinked(s) \/ Destroy(s)
DestroySpec == Init /\ [][DestroyNext]_vars /\ Fairness

-----------------------------------------------------------------------------
(* Properties.                                                             *)

Buffers(s) == UNION {[1..n -> 1..MaxSamples[s]] : n \in 0..Capacity}

\* The variables have the shape of the members of sampler and allocator.
TypeOK ==
  /\ \A s \in Samplers :
       /\ smp[s].phase \in {"stopped", "running", "destroyed"}
       /\ smp[s].pc \in {"idle", "lock", "unlock", "post"}
       /\ smp[s].buffer \in Buffers(s) /\ smp[s].hand \in Buffers(s)
       /\ smp[s].count \in 0..MaxSamples[s]
       /\ stored[s] \in Seq(Buffers(s))
  /\ sem \in Nat /\ pending = Len(queue)
  /\ spin \in Samplers \union {Null}
  /\ alloc.pc \in {"check", "wait", "swap", "get", "deliver", "drain", "update", "reset",
                   "dead", "terminated"}
  /\ \A b \in ToSet(alloc.taken \o queue) : b.from \in Samplers /\ b.buffer \in Buffers(b.from)
  /\ registry \subseteq Samplers

\* The samples of s among buffers handed over.
SamplesIn(q, s) ==
  FlattenSeq([i \in DOMAIN q |-> IF q[i].from = s THEN q[i].buffer ELSE <<>>])

\* The samples that are or will be data of s, in the order they get there.
Stream(s) ==
  kept[s] \o FlattenSeq(stored[s]) \o SamplesIn(alloc.taken, s) \o SamplesIn(queue, s)
    \o smp[s].hand \o smp[s].buffer

\* As long as a sampler lives, each sample it counted is in exactly one place:
\* handler, queue, thread, stop() and get_data() neither lose nor repeat one.
NothingLost ==
  \A s \in Samplers : smp[s].phase # "destroyed" =>
    LET all == Stream(s) \o offloaded[s]
    IN  Len(all) = smp[s].count /\ ToSet(all) = 1..smp[s].count

\* The samples of full buffers become data in the order they were taken; only
\* what stop() hands over may overtake (sampler::stop, allocator::emplace).
FullInOrder ==
  \A s \in Samplers :
    LET all == Stream(s)
        Full(i) == all[i] \notin smp[s].early
    IN  \A i, j \in DOMAIN all : i < j /\ Full(i) /\ Full(j) => all[i] < all[j]

\* A buffer in the queue has its wake-up: the semaphore is up, the handler is
\* about to post it, or the thread is about to swap (the lambdas of execute).
WakeupPending ==
  (queue # <<>> /\ alloc.pc \in {"check", "wait", "get", "deliver"} /\ alloc.back = "check")
  => \/ sem > 0
     \/ \E s \in Samplers : smp[s].pc \in {"unlock", "post"}

\* The full buffers a handler hands over all leave the queue and the thread:
\* with NothingLost, they get to the data or to the offload function.
FullArrives == \A s \in Samplers : InFlight(s) ~> ~InFlight(s)

\* A handler never waits for a spin lock that a handler it interrupted holds.
HandlerNotBlockedBelow ==
  \A s \in Samplers : smp[s].pc = "lock" /\ Runs(s) =>
     spin = Null \/ Owner[spin] # Owner[s]

\* With an offload function set, a full buffer leaves the thread's hands only
\* into that function, which "gets invoked when: a memory buffer is full"
\* (allocator.hpp:131-132).
FullOffloaded ==
  [][offload =>
       \A b \in ToSet(alloc.taken) \ ToSet(alloc.taken') :
          ToSet(b.buffer) \subseteq ToSet(offloaded'[b.from])]_vars
=============================================================================

------------------------ MODULE RingBufferAllocator ------------------------
(***************************************************************************)
(* tim::data::ring_buffer_allocator: blocks of objects cut off the front   *)
(* of ring buffers that are never read back, and a list of dangling slots  *)
(* for the blocks that were returned.  A slot is the pair of the buffer it *)
(* lies in and its index there.  `m_buffer_data` of an allocator is its    *)
(* own `m_buffer_this` until another allocator steals its resources.       *)
(***************************************************************************)
EXTENDS Integers, Sequences, Bags, SequencesExt, FiniteSetsExt

CONSTANTS Allocators,      \* the allocator objects
          BufferCount,     \* get_buffer_count(): least objects of a buffer
          Page,            \* units::get_page_size(), in bytes
          RecordLength,    \* sizeof(Tp)
          Requests,        \* the n of allocate(n)
          Reservations,    \* the n of reserve(n)
          MaxBuffers,      \* bound: buffers ever made
          Null

ASSUME AllocatorAssumption ==
  /\ BufferCount \in Nat \ {0} /\ Page \in Nat \ {0} /\ RecordLength \in 1..Page
  /\ Requests \subseteq Nat \ {0} /\ Reservations \subseteq Nat /\ MaxBuffers \in Nat
  /\ Null \notin Nat

VARIABLES capacity,        \* capacity[i]: the slots of the i-th buffer made
          used,            \* used[i]: the slots of it requested so far
          this,            \* m_buffer_this of every allocator
          data,            \* m_buffer_data: whose m_buffer_this it uses
          held             \* the blocks the clients hold, a bag

vars == <<capacity, used, this, data, held>>

Empty == [current |-> Null, buffers |-> {}, dangles |-> <<>>]

Init ==
  /\ capacity = <<>> /\ used = <<>> /\ held = EmptyBag
  /\ this = [a \in Allocators |-> Empty]
  /\ data = [a \in Allocators |-> a]

\* data_storage::ring_buffer::free and is_full: objects that still fit.
Room(i) == capacity[i] - used[i]

\* Mutant: a new buffer is made for the configured count, whatever n is.
CapacityOfCount(n) == 
  (((BufferCount * RecordLength + Page - 1) \div Page) * Page) \div RecordLength

\* The objects in the pages that hold n of them (base::ring_buffer::init).
CapacityFor(n) ==
  LET bytes == Max({n, BufferCount}) * RecordLength
      pages == (bytes + Page - 1) \div Page
  IN  (pages * Page) \div RecordLength

NeedsBuffer(d) == d.current # Null => Room(d.current) < 1

\* init_current(n) of the buffer data of a, and the first n slots cut off it.
AddBuffer(a, n, cut) ==
  /\ Len(capacity) < MaxBuffers
  /\ capacity' = Append(capacity, CapacityFor(n))
  /\ this' = [this EXCEPT ![a].current = Len(capacity) + 1,
                          ![a].buffers = @ \union {Len(capacity) + 1}]
  /\ used' = Append(cut, n)

Block(i, first, n) == [buffer |-> i, first |-> first, n |-> n]

SlotsOf(block) == {<<block.buffer, i>> : i \in block.first..(block.first + block.n - 1)}

\* Mutant: the slot that is reused stays in the list.
ReuseWithoutPop(a) ==
  LET d == this[data[a]] IN
  /\ d.dangles # <<>>
  /\ held' = held (+) SetToBag({Block(Last(d.dangles)[1], Last(d.dangles)[2], 1)})
  /\ UNCHANGED <<capacity, used, this, data>>

\* allocate(1) takes the newest dangling slot when there is one.
Reuse(a) ==
  LET d == this[data[a]] IN
  /\ d.dangles # <<>>
  /\ this' = [this EXCEPT ![data[a]].dangles = Front(@)]
  /\ held' = held (+) SetToBag({Block(Last(d.dangles)[1], Last(d.dangles)[2], 1)})
  /\ UNCHANGED <<capacity, used, data>>

\* allocate(n) out of the current buffer, or the first buffer, or the one
\* after a full one.
CutOff(a, n) ==
  LET d == this[data[a]] IN
  /\ n = 1 => d.dangles = <<>>
  /\ IF NeedsBuffer(d)
       THEN /\ AddBuffer(data[a], n, used)
            /\ held' = held (+) SetToBag({Block(Len(capacity) + 1, 0, n)})
       ELSE /\ n <= Room(d.current)
            /\ used' = [used EXCEPT ![d.current] = @ + n]
            /\ held' = held (+) SetToBag({Block(d.current, used[d.current], n)})
            /\ UNCHANGED <<capacity, this>>
  /\ UNCHANGED data

\* allocate(n) when the current buffer has room for fewer than n.  The loop
\* over the remainder leaves at its first request, which succeeds: one slot
\* is requested and dropped, and none enters the dangling list.
Outgrow(a, n) ==
  LET d == this[data[a]] IN
  /\ n = 1 => d.dangles = <<>>
  /\ ~NeedsBuffer(d) /\ n > Room(d.current)
  /\ AddBuffer(data[a], n, [used EXCEPT ![d.current] = @ + 1])
  /\ held' = held (+) SetToBag({Block(Len(capacity) + 1, 0, n)})
  /\ UNCHANGED data

Allocate(a) ==
  \/ 1 \in Requests /\ Reuse(a)
  \/ \E n \in Requests : CutOff(a, n) \/ Outgrow(a, n)

\* Mutant: ptr, and not ptr + i, is entered n times.
DeallocateFirst(a) ==
  \E block \in BagToSet(held) :
     /\ held' = held (-) SetToBag({block})
     /\ this' = [this EXCEPT ![data[a]].dangles =
                    @ \o [i \in 1..block.n |-> <<block.buffer, block.first>>]]
     /\ UNCHANGED <<capacity, used, data>>

\* Mutant: only the slot at ptr is entered, whatever n is.
DeallocateOne(a) ==
  \E block \in BagToSet(held) :
     /\ held' = held (-) SetToBag({block})
     /\ this' = [this EXCEPT ![data[a]].dangles = Append(@, <<block.buffer, block.first>>)]
     /\ UNCHANGED <<capacity, used, data>>

\* deallocate(ptr, n): every slot of the block, in order, becomes dangling.
\* Any allocator may be asked: nodes move between graphs.
Deallocate(a) ==
  \E block \in BagToSet(held) :
     /\ held' = held (-) SetToBag({block})
     /\ this' = [this EXCEPT ![data[a]].dangles =
                    @ \o [i \in 1..block.n |-> <<block.buffer, block.first + i - 1>>]]
     /\ UNCHANGED <<capacity, used, data>>

Reserve(a) ==
  \E n \in Reservations :
     /\ NeedsBuffer(this[data[a]])
     /\ Len(capacity) < MaxBuffers
     /\ capacity' = Append(capacity, CapacityFor(n))
     /\ used' = Append(used, 0)
     /\ this' = [this EXCEPT ![data[a]].current = Len(capacity) + 1,
                             ![data[a]].buffers = @ \union {Len(capacity) + 1}]
     /\ UNCHANGED <<data, held>>

\* a.steal_resources(b).  Moving the unique pointers empties those of b; the
\* dangling list and the current buffer of b are copied and stay where they are.
StealResources(a, b) ==
  /\ a # b /\ data[a] # b
  /\ this' = [this EXCEPT
       ![data[a]].buffers = @ \union this[b].buffers,
       ![data[a]].dangles = @ \o this[b].dangles,
       ![data[a]].current = IF @ = Null THEN this[b].current ELSE @,
       ![b].buffers = {}]
  /\ data' = [data EXCEPT ![b] = data[a]]
  /\ UNCHANGED <<capacity, used, held>>

Operate == \E a \in Allocators : Allocate(a) \/ Deallocate(a) \/ Reserve(a)

\* An allocator's resources are stolen once, and not after it stole itself.
StealOnce == \E a, b \in Allocators :
  data[b] = b /\ (\A c \in Allocators \ {b} : data[c] # b) /\ StealResources(a, b)

StealAgain == \E a, b \in Allocators : StealResources(a, b)

Next == Operate \/ StealOnce

Spec == Init /\ [][Next]_vars

StealAgainSpec == Init /\ [][Operate \/ StealAgain]_vars

-----------------------------------------------------------------------------

SlotsIn(i) == {<<i, k>> : k \in 0..(capacity[i] - 1)}

\* Slots the allocator has handed out at least once.
Cut == UNION {{<<i, k>> : k \in 0..(used[i] - 1)} : i \in DOMAIN capacity}

\* The states have the shape of the members of the class.
TypeOK ==
  /\ Len(used) = Len(capacity)
  /\ \A i \in DOMAIN capacity : capacity[i] \in Nat \ {0} /\ used[i] \in Nat
  /\ data \in [Allocators -> Allocators]
  /\ \A a \in Allocators :
       /\ this[a].current \in DOMAIN capacity \union {Null}
       /\ this[a].buffers \subseteq DOMAIN capacity
       /\ this[a].dangles \in Seq(UNION {SlotsIn(i) : i \in DOMAIN capacity})
  /\ \A block \in BagToSet(held) : block.buffer \in DOMAIN capacity

\* Every block lies inside the buffer it was cut off: the requests of
\* allocate(n), whose results after the first are not looked at, all succeeded
\* (allocate, ring_buffer_allocator.hpp:158-163).
BlocksInsideBuffer ==
  \A block \in BagToSet(held) :
     /\ SlotsOf(block) \subseteq Cut
     /\ block.first + block.n <= capacity[block.buffer]

\* The list an allocator now draws from has no slot twice and no slot of a
\* block in use; no two blocks in use share a slot (allocate and deallocate).
HeldApart ==
  /\ \A p, q \in BagToSet(held) : p # q => SlotsOf(p) \intersect SlotsOf(q) = {}
  /\ \A p \in BagToSet(held) : held[p] = 1
  /\ \A a \in Allocators :
       LET free == this[data[a]].dangles IN
       /\ IsInjective(free)
       /\ \A block \in BagToSet(held) : SlotsOf(block) \intersect ToSet(free) = {}

\* The allocator is a pool of slots (SlotPool): a block it returns is no
\* part of a block in use, whatever was returned, reused or stolen before.
Pool == INSTANCE SlotPool
ImplementsPool == Pool!Spec

\* Slot k of buffer i is in use, dangling, or still to be cut off.
Kept(i, k) ==
  LET drawn == {this[data[a]] : a \in Allocators} IN
  \/ \E block \in BagToSet(held) : <<i, k>> \in SlotsOf(block)
  \/ \E d \in drawn : <<i, k>> \in ToSet(d.dangles)
  \/ k >= used[i] /\ \E d \in drawn : d.current = i

\* What is lost ("the free spaces are stored in a dangling array",
\* ring_buffer_allocator.hpp:52) is only the tail of a buffer that a larger
\* block outgrew or that was current where resources were stolen: a slot that
\* was ever handed out comes back whenever its block does.
OnlyTailsLost ==
  \A i \in DOMAIN capacity : \A k \in 0..(capacity[i] - 1) : ~Kept(i, k) =>
     /\ \A a \in Allocators : this[data[a]].current # i
     /\ \A j \in k..(capacity[i] - 1) : ~Kept(i, j)
=============================================================================

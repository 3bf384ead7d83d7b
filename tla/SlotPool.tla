------------------------------ MODULE SlotPool ------------------------------
(* What an allocator promises: a block that is handed out is a run of       *)
(* slots of one memory block and shares no slot with a block in use.        *)
EXTENDS Integers, Bags

VARIABLE held         \* the bag of blocks in use: [buffer, first, n]

SlotsOf(block) == {<<block.buffer, i>> : i \in block.first..(block.first + block.n - 1)}

Init == held = EmptyBag

Allocate ==
  \E block \in BagToSet(held') :
     /\ held' = held (+) SetToBag({block})
     /\ \A other \in BagToSet(held) : SlotsOf(block) \intersect SlotsOf(other) = {}

Deallocate == \E block \in BagToSet(held) : held' = held (-) SetToBag({block})

Spec == Init /\ [][Allocate \/ Deallocate]_held
=============================================================================

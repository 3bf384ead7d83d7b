----------------------- MODULE MCRingBufferAllocator -----------------------
(* Small instances of the memory of graph nodes and of the graph. One       *)
(* behaviour is about one of them; the other keeps its initial state.       *)
(*   Blocks: buffers of two to six slots, two allocators.                   *)
(*   Links: two graphs with up to three nodes, or the main graph alone with *)
(*     one more.                                                            *)
EXTENDS RingBufferAllocator, Graph

CONSTANTS a1, a2

VARIABLE program

allVars == <<vars, graphVars, program>>

Blocks == program = "blocks" /\ Next /\ UNCHANGED <<graphVars, program>>

\* bound: the last slot is cut where no other graph has a slot.
Few == owner'[MaxNodes] # NoNode => \A n \in Nodes : owner'[n] \in {NoNode, Main}
Links == program = "links" /\ GraphNext /\ Few /\ UNCHANGED <<vars, program>>

MCInit == Init /\ GraphInit /\ program \in {"blocks", "links"}
MCSpec == MCInit /\ [][Blocks \/ Links]_allVars
=============================================================================

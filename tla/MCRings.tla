------------------------------ MODULE MCRings ------------------------------
(* The ring buffers for TLC: one behaviour is about ring_buffer with one   *)
(* user at a time, or about atomic_ring_buffer with several threads; the   *)
(* other keeps its initial state.                                          *)
EXTENDS MCRingBuffer, AtomicRingBuffer

CONSTANTS t1, t2, t3

VARIABLE program

allVars == <<vars, atomicVars, program>>

MCInit == Init /\ AtomicInit /\ program \in {"ring", "atomic"}

Rings ==
  /\ program = "ring"
  /\ LocalNext \/ \E dst, src \in Buffers : Load(dst, src)
  /\ UNCHANGED <<atomicVars, program>>
Atomics == program = "atomic" /\ AtomicNext /\ UNCHANGED <<vars, program>>

MCSpec == MCInit /\ [][Rings \/ Atomics]_allVars
=============================================================================

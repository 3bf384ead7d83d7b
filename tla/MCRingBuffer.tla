----------------------------- MODULE MCRingBuffer -----------------------------
(* Small instances of RingBuffer: pages of a few bytes, records of two.    *)
EXTENDS RingBuffer, TLC

CONSTANTS b1, b2, x, y

\* Buffers and values are interchangeable in every definition.
Symmetric == Permutations({b1, b2}) \union Permutations({x, y})
===============================================================================

--------------------------- MODULE MCThreadBarrier ---------------------------
(* Small instances of ThreadBarrier.                                       *)
EXTENDS ThreadBarrier

CONSTANTS w1, w2, w3, w4
=============================================================================

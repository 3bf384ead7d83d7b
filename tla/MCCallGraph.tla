---------------------------- MODULE MCCallGraph ----------------------------
(* Small instances of CallGraph: the main thread and one or two workers.   *)
EXTENDS CallGraph, TLC

CONSTANTS main, w1, w2, foo, bar, PushesMain, PushesFirst, PushesSecond

Pushes == [t \in Workers \union {Master} |->
  CASE t = Master -> PushesMain [] t = w1 -> PushesFirst [] OTHER -> PushesSecond]

\* Labels are interchangeable in every definition.
Symmetric == Permutations(Labels)
=============================================================================

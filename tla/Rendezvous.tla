----------------------------- MODULE Rendezvous -----------------------------
(* What a barrier promises: nobody leaves a meeting that somebody has not  *)
(* come to, and nobody misses one.                                         *)
EXTENDS Integers

CONSTANTS Workers, MaxVisits

VARIABLES came,   \* came[w]: meetings w has come to
          left    \* left[w]: meetings w has left

vars == <<came, left>>

Init == came = [w \in Workers |-> 0] /\ left = [w \in Workers |-> 0]

Come(w) ==
  /\ came[w] = left[w] /\ came[w] < MaxVisits
  /\ came' = [came EXCEPT ![w] = @ + 1]
  /\ UNCHANGED left

Leave(w) ==
  /\ left[w] < came[w]
  /\ \A v \in Workers : came[v] >= came[w]
  /\ left' = [left EXCEPT ![w] = @ + 1]
  /\ UNCHANGED came

Next == \E w \in Workers : Come(w) \/ Leave(w)

Spec == Init /\ [][Next]_vars
=============================================================================

----------------------------- MODULE MCThreads -----------------------------
(* Threads that end and the end of the program.  One behaviour is about    *)
(* the call-graphs of a main thread and two workers, or about the lives of *)
(* the storages; the other part keeps its initial state.                   *)
EXTENDS MCCallGraph, Lifecycle

VARIABLE program

allVars == <<vars, lifeVars, program>>

MCInit == Init /\ LifeInit /\ program \in {"call graphs", "lifecycle"}

Graphs == program = "call graphs" /\ Work /\ UNCHANGED <<lifeVars, program>>
\* Bound: one worker measures twice, the others once.
Lives ==
  /\ program = "lifecycle"
  /\ LifeNext
  /\ pushed'[main] < 2 /\ pushed'[w2] < 2
  /\ UNCHANGED <<vars, program>>

MCSpec == MCInit /\ [][Graphs \/ Lives]_allVars /\ Fairness /\ LifeFairness
=============================================================================

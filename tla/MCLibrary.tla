----------------------------- MODULE MCLibrary -----------------------------
(* Small instances of the C interface's three parts.  One behaviour is     *)
(* about one part; the others keep their initial state.                    *)
(*   Traces: one thread whose calls are nested three deep, or two threads  *)
(*     that each call one function, in every order with initialisation,    *)
(*     pauses and the end of the library.                                  *)
(*   Records: two threads, until an older counter is written over a newer. *)
(*   Component stacks: two threads, two components.                        *)
EXTENDS Tracing, Records, ComponentStacks
CONSTANTS main, w, f, g

VARIABLE program  \* the part, and for traces what each thread calls and how deep

Deep == [t \in Threads |-> [depth |-> IF t = w THEN 3 ELSE 0, ids |-> TraceIds]]
Wide == [t \in Threads |-> [depth |-> 1, ids |-> IF t = w THEN Numbered ELSE Named]]

allVars == <<libraryVars, traceVars, recordVars, stackVars, program>>

MCInit == /\ TracingInit /\ RecordsInit /\ StacksInit
          /\ program \in {[part |-> "traces", calls |-> Deep],
                          [part |-> "traces", calls |-> Wide],
                          [part |-> "records"], [part |-> "stacks"]}

Traces ==
  /\ program.part = "traces"
  /\ TracingNext
  /\ \A t \in Threads :
       /\ Len(calls'[t]) <= program.calls[t].depth
       /\ \A d \in DOMAIN calls'[t] : calls'[t][d].id \in program.calls[t].ids
  /\ UNCHANGED <<recordVars, stackVars, program>>

Recording ==
  /\ program.part = "records" /\ ~overtaken
  /\ RecordsNext
  /\ UNCHANGED <<traceVars, stackVars, program>>

Stacking ==
  /\ program.part = "stacks"
  /\ StacksNext
  /\ UNCHANGED <<libraryVars, traceVars, recordVars, program>>

MCSpec == MCInit /\ [][Traces \/ Recording \/ Stacking]_allVars

\* The records alone, on past the point where a counter was overwritten.
RecordingOn ==
  /\ program.part = "records"
  /\ RecordsNext
  /\ UNCHANGED <<traceVars, stackVars, program>>
RacedSpec == MCInit /\ [][RecordingOn]_allVars
=============================================================================

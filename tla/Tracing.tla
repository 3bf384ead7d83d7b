------------------------------ MODULE Tracing ------------------------------
(* timemory_push_trace and timemory_pop_trace (src/source/trace.cpp), the  *)
(* calls that compiler and binary instrumentation put at the entry and the *)
(* exit of every function.  A push may be refused: collection is paused,   *)
(* the identifier is throttled or unknown, the library is finalised, or    *)
(* the thread is already inside the library (trace::lock).  A pop does not *)
(* know whether its push was refused: it closes the last trace of the      *)
(* identifier, if there is one.  `calls' is the program's own call stack,  *)
(* which the code cannot see: the properties compare the two.              *)
EXTENDS LibraryState, Naturals, Sequences, SequencesExt

CONSTANTS Main,           \* the thread whose number is 0
          Named,          \* functions traced by name
          Numbered,       \* functions traced by a number of their own
          ThrottleCount,  \* settings::throttle_count()
          MaxCalls,       \* bound: depth of a thread's call stack
          MaxInits        \* bound: first pushes that count themselves

TraceIds == Named \cup Numbered

ASSUME TracingAssumption ==
  /\ Main \in Threads
  /\ Named \cap Numbered = {}
  /\ ThrottleCount \in Nat \ {0}
  /\ {MaxCalls, MaxInits} \subseteq Nat

VARIABLES traceCount,   \* library_trace_count
          managers,     \* threads whose manager is finalised; Main's is the master
          settingsDone, \* settings::get_finalized()
          masterIds,    \* master_hash_ids
          knownIds,     \* get_hash_ids() of each thread
          open,         \* get_trace_map(): for each thread and id the open traces
          laps,         \* get_overhead(): calls of the id since it was last judged
          throttled,    \* get_throttle()
          calls,        \* the program: functions the thread is in, and their traces
          at,           \* where the thread is in the push of its last call
          inside,       \* history: ids refused inside a trace of the same id
          initializers, \* history: threads that counted themselves in trace_init
          emptied       \* history: threads that finalised and emptied their map

processVars == <<traceCount, managers, settingsDone, masterIds, initializers, emptied>>
threadVars == <<knownIds, open, laps, throttled, calls, at, inside>>
traceVars == <<processVars, threadVars>>

TracingInit ==
  /\ LibraryInit
  /\ traceCount = 0 /\ managers = {} /\ settingsDone = FALSE /\ masterIds = {}
  /\ knownIds = [t \in Threads |-> {}]
  /\ open = [t \in Threads |-> [i \in TraceIds |-> <<>>]]
  /\ laps = [t \in Threads |-> [i \in TraceIds |-> 0]]
  /\ throttled = [t \in Threads |-> {}]
  /\ calls = [t \in Threads |-> <<>>]
  /\ at = [t \in Threads |-> "program"]
  /\ inside = [t \in Threads |-> {}]
  /\ initializers = {} /\ emptied = {}

Callee(t) == Last(calls[t]).id
\* Mutant: the second flag is not looked at.
CollectingForEver == initialized

Collecting == initialized /\ ~finalized
TracedCalls(t, i) == {d \in DOMAIN calls[t] : calls[t][d] = [id |-> i, traced |-> TRUE]}

----------------------------------------------------------------------------
(* Initialisation: the first push of the process runs timemory_trace_init.  *)

\* Mutant: every first push counts itself, whether the library is initialised or not.
EnterCounts(t, i) ==
  /\ at[t] = "program" /\ Len(calls[t]) < MaxCalls
  /\ traceCount < MaxInits
  /\ calls' = [calls EXCEPT ![t] = Append(@, [id |-> i, traced |-> FALSE])]
  /\ at' = [at EXCEPT ![t] = IF t \in managers THEN "check" ELSE "count"]
  /\ UNCHANGED <<libraryVars, processVars, knownIds, open, laps, throttled, inside>>

\* The program calls a function, whose instrumentation pushes a trace. A frame
\* is [id, traced]; a trace is known by the depth of the call it was opened for.
Enter(t, i) ==
  /\ at[t] = "program" /\ Len(calls[t]) < MaxCalls
  /\ initialized \/ t \in managers \/ traceCount < MaxInits
  /\ calls' = [calls EXCEPT ![t] = Append(@, [id |-> i, traced |-> FALSE])]
  /\ at' = [at EXCEPT ![t] = IF initialized \/ t \in managers THEN "check" ELSE "count"]
  /\ UNCHANGED <<libraryVars, processVars, knownIds, open, laps, throttled, inside>>

\* The first to count configures; another that came by then goes on at once.
CountInit(t) ==
  /\ at[t] = "count"
  /\ traceCount' = traceCount + 1
  /\ initializers' = initializers \cup {t}
  /\ at' = [at EXCEPT ![t] = IF traceCount = 0 THEN "configure" ELSE "check"]
  /\ UNCHANGED <<libraryVars, managers, settingsDone, masterIds, emptied, knownIds, open,
                 laps, throttled, calls, inside>>

Configure(t) ==
  /\ at[t] = "configure"
  /\ initialized' = TRUE
  /\ at' = [at EXCEPT ![t] = "check"]
  /\ UNCHANGED <<enabled, finalized, processVars, knownIds, open, laps, throttled, calls,
                 inside>>

----------------------------------------------------------------------------
(* Names of identifiers, kept for each thread.                              *)

\* timemory_add_hash_id gives up when the thread is inside the library.
AddHashIds(known, ids, locked) == IF locked THEN known ELSE known \cup ids

\* timemory_copy_hash_ids takes the lock and then adds the ids one by one.
CopyHashIds(t) ==
  IF t = Main THEN knownIds[t] ELSE AddHashIds(knownIds[t], masterIds, TRUE)

\* The program gives a number its name, in one thread.
AddHashId(t, i) ==
  /\ at[t] = "program" /\ i \notin knownIds[t]
  /\ knownIds' = [knownIds EXCEPT ![t] = AddHashIds(@, {i}, FALSE)]
  /\ masterIds' = IF t = Main THEN masterIds \cup {i} ELSE masterIds
  /\ UNCHANGED <<libraryVars, traceCount, managers, settingsDone, initializers, emptied,
                 open, laps, throttled, calls, at, inside>>

\* timemory_push_trace adds the name of its argument, inside the library or not.
AddName(i) == IF i \in Named /\ Collecting /\ enabled THEN {i} ELSE {}

----------------------------------------------------------------------------
(* Push: the checks, the entry in the trace map, the start of the trace.    *)

KnownAtPush(t, i) == CopyHashIds(t) \cup AddName(i)

Accepts(t, i) == Collecting /\ enabled /\ i \notin throttled[t] /\ i \in KnownAtPush(t, i)

Refused(t, i) == IF TracedCalls(t, i) = {} THEN inside[t] ELSE inside[t] \cup {i}

Check(t) ==
  LET i == Callee(t) IN
  /\ at[t] = "check"
  /\ knownIds' = [knownIds EXCEPT ![t] = KnownAtPush(t, i)]
  /\ at' = [at EXCEPT ![t] = IF Accepts(t, i) THEN "open" ELSE "program"]
  /\ inside' = [inside EXCEPT ![t] = IF Accepts(t, i) THEN @ ELSE Refused(t, i)]
  /\ UNCHANGED <<libraryVars, processVars, open, laps, throttled, calls>>

\* The trace enters the map and its components are started, the lock held.
Open(t) ==
  /\ at[t] = "open"
  /\ open' = [open EXCEPT ![t][Callee(t)] = Append(@, Len(calls[t]))]
  /\ calls' = [calls EXCEPT ![t][Len(calls[t])].traced = TRUE]
  /\ at' = [at EXCEPT ![t] = "starting"]
  /\ UNCHANGED <<libraryVars, processVars, knownIds, laps, throttled, inside>>

Started(t) ==
  /\ at[t] = "starting"
  /\ at' = [at EXCEPT ![t] = "program"]
  /\ UNCHANGED <<libraryVars, processVars, knownIds, open, laps, throttled, calls, inside>>

----------------------------------------------------------------------------
(* Pop: whether its push was refused is not known here.                     *)

\* The last trace of i is closed and counted; after ThrottleCount of them the
\* id is judged by the average of their times, which may be below the limit.
Judge(t, i) ==
  /\ laps' = [laps EXCEPT ![t][i] = (@ + 1) % ThrottleCount]
  /\ \/ UNCHANGED throttled
     \/ /\ laps[t][i] + 1 = ThrottleCount
        /\ throttled' = [throttled EXCEPT ![t] = @ \cup {i}]

\* Mutant: the first trace of i is closed instead of the last.
CloseFirst(t, i) ==
  /\ open' = [open EXCEPT ![t][i] = Tail(@)]
  /\ IF i \in throttled[t] THEN UNCHANGED <<laps, throttled>> ELSE Judge(t, i)

Close(t, i) ==
  /\ open' = [open EXCEPT ![t][i] = Front(@)]
  /\ IF i \in throttled[t] THEN UNCHANGED <<laps, throttled>> ELSE Judge(t, i)

\* Mutant: a pop of a throttled id returns before it closes.
PopUnlessThrottled(t, i) ==
  IF Collecting /\ open[t][i] # <<>> /\ i \notin throttled[t] THEN Close(t, i)
  ELSE UNCHANGED <<open, laps, throttled>>

PopTrace(t, i) ==
  IF Collecting /\ open[t][i] # <<>> THEN Close(t, i)
  ELSE UNCHANGED <<open, laps, throttled>>

Leave(t) ==
  LET below == Front(calls[t]) IN
  /\ at[t] = "program" /\ calls[t] # <<>>
  /\ PopTrace(t, Callee(t))
  /\ calls' = [calls EXCEPT ![t] = below]
  /\ inside' = [inside EXCEPT ![t] = @ \cap {below[d].id : d \in DOMAIN below}]
  /\ UNCHANGED <<libraryVars, processVars, knownIds, at>>

\* While a trace is started, a component calls an instrumented function: its
\* push meets the lock, after adding the name; its pop does not look at it.
Reenter(t, i) ==
  /\ at[t] = "starting"
  /\ knownIds' = [knownIds EXCEPT ![t] = @ \cup AddName(i)]
  /\ inside' = [inside EXCEPT ![t] = Refused(t, i)]
  /\ PopTrace(t, i)
  /\ UNCHANGED <<libraryVars, processVars, calls, at>>

ResetThrottle(t, i) ==
  /\ at[t] = "program" /\ i \in throttled[t]
  /\ throttled' = [throttled EXCEPT ![t] = @ \ {i}]
  /\ UNCHANGED <<libraryVars, processVars, knownIds, open, laps, calls, at, inside>>

----------------------------------------------------------------------------
(* The end. No record is open: those are in the module Records.             *)

\* manager::finalize of the calling thread.
Finalized(t) == IF settingsDone THEN managers ELSE managers \cup {t}

\* One of several that counted themselves: only the manager is finalised.
FinalizeEarly(t) ==
  /\ at[t] = "program" /\ traceCount > 1
  /\ traceCount' = traceCount - 1
  /\ managers' = Finalized(t)
  /\ UNCHANGED <<libraryVars, settingsDone, masterIds, threadVars, initializers, emptied>>

\* timemory_finalize_library, called at the end of the last or by the program.
EndLibrary(t) ==
  /\ FinalizeLibrary(TRUE)
  /\ managers' = IF FinalizeReaches(TRUE) THEN Finalized(t) ELSE managers
  /\ settingsDone' = (settingsDone \/ FinalizeReaches(TRUE))
  /\ UNCHANGED <<masterIds, initializers, knownIds, laps, throttled, calls, at, inside>>

\* The last: traces of the calling thread are closed, those of others stay.
FinalizeLast(t) ==
  /\ at[t] = "program" /\ traceCount = 1
  /\ traceCount' = 0
  /\ IF Main \in managers
     THEN UNCHANGED <<open, emptied>>
     ELSE /\ open' = [open EXCEPT ![t] = [i \in TraceIds |-> <<>>]]
          /\ emptied' = emptied \cup {t}
  /\ EndLibrary(t)

FinalizeDirect(t) ==
  /\ at[t] = "program"
  /\ EndLibrary(t) /\ UNCHANGED <<traceCount, open, emptied>>

TracingNext ==
  \/ (Toggle \/ InitLibrary) /\ UNCHANGED traceVars
  \/ \E t \in Threads :
       \/ \E i \in TraceIds : Enter(t, i) \/ Reenter(t, i) \/ ResetThrottle(t, i)
       \/ \E i \in Numbered : AddHashId(t, i)
       \/ CountInit(t) \/ Configure(t) \/ Check(t) \/ Open(t) \/ Started(t) \/ Leave(t)
       \/ FinalizeEarly(t) \/ FinalizeLast(t) \/ FinalizeDirect(t)

TracingSpec == TracingInit /\ [][TracingNext]_<<libraryVars, traceVars>>

----------------------------------------------------------------------------
(* Properties                                                               *)

\* Every variable keeps its type; the count of a judged id starts again.
TracingTypeOK ==
  /\ LibraryTypeOK
  /\ traceCount \in Nat /\ managers \subseteq Threads /\ settingsDone \in BOOLEAN
  /\ masterIds \subseteq Numbered /\ initializers \subseteq Threads /\ emptied \subseteq Threads
  /\ \A t \in Threads :
       /\ knownIds[t] \cup throttled[t] \cup inside[t] \subseteq TraceIds
       /\ at[t] \in {"program", "count", "configure", "check", "open", "starting"}
       /\ \A i \in TraceIds : laps[t][i] \in 0 .. ThrottleCount - 1

\* Until the library is finalised no trace outlives its call: every open trace
\* belongs to a call of that function that has not returned, and inner calls
\* have the later traces, whatever was paused, throttled or refused meanwhile.
OpenIsCalled ==
  ~finalized => \A t \in Threads, i \in TraceIds :
    /\ Range(open[t][i]) \subseteq TracedCalls(t, i)
    /\ \A j, k \in DOMAIN open[t][i] : j < k => open[t][i][j] < open[t][i][k]

\* A call that is traced is measured until it returns, unless a call of the same
\* function inside it was refused: the pop of that one closes the outer trace.
MeasuredToTheEnd ==
  ~finalized => \A t \in Threads, i \in TraceIds :
    i \notin inside[t] => TracedCalls(t, i) \subseteq Range(open[t][i])

\* Output is written while traces are still collected only if two threads ran
\* the first push at once: both counted, and the first to finalise is not last.
EarlyOnlyAfterRace ==
  managers # {} /\ ~finalized => Cardinality(initializers) > 1

\* A thread that finalised with the master still running has no open trace left,
\* and never opens one again.
EmptiedStaysEmpty == \A t \in emptied, i \in TraceIds : open[t][i] = <<>>
=============================================================================

-------------------------- MODULE ComponentStacks --------------------------
(* The sets of components that timemory's C interface records with         *)
(* (src/source/library.cpp): a stack of sets for the thread that asked     *)
(* first, the leader, and a copy of it for every other thread, made when   *)
(* that thread asks for the first time.  The interface is documented as a  *)
(* stack above the default set; the code's stack starts empty, and the     *)
(* default is pushed only by an operation that needs a current set.        *)
EXTENDS Naturals, Sequences, SequencesExt

CONSTANTS Users,       \* threads that use the interface
          Components,
          Default,     \* the set configured at the start
          Nobody,      \* no leader yet
          MaxSets      \* bound: sets on a stack

ASSUME StacksAssumption ==
  Nobody \notin Users /\ Default \subseteq Components /\ MaxSets \in Nat \ {0}

VARIABLES leader,      \* _leader_tid: the first thread that asked
          asked,       \* threads whose stack exists
          stack,       \* get_components_stack() of each thread
          default,     \* get_default_components()
          meant,       \* history: the stack as documented
          bare         \* history: threads whose stack began without the default

stackVars == <<leader, asked, stack, default, meant, bare>>

StacksInit ==
  /\ leader = Nobody /\ asked = {} /\ bare = {}
  /\ stack = [t \in Users |-> <<>>]
  /\ meant = [t \in Users |-> <<>>]
  /\ default = Default

\* The stack t finds: its own, or at first a copy of the leader's.
Found(t, s) == IF t \in asked \/ leader = Nobody THEN s[t] ELSE s[leader]
FoundBare(t) == IF t \in asked \/ leader = Nobody THEN t \in bare ELSE leader \in bare

\* Every operation leaves t with a stack s, which is documented to be m.
Uses(t, s, m, isBare) ==
  /\ leader' = IF leader = Nobody THEN t ELSE leader
  /\ asked' = asked \cup {t}
  /\ stack' = [stack EXCEPT ![t] = s]
  /\ meant' = [meant EXCEPT ![t] = m]
  /\ bare' = IF isBare THEN bare \cup {t} ELSE bare \ {t}

\* get_current_components: an empty stack gets the default set first.
OrDefault(s) == IF s = <<>> THEN <<default>> ELSE s
ReplaceTop(s, set) == Append(Front(s), set)

----------------------------------------------------------------------------
\* Begin of a record, or any call that only looks at the current set.
Current(t) ==
  /\ Uses(t, OrDefault(Found(t, stack)), OrDefault(Found(t, meant)), FoundBare(t))
  /\ UNCHANGED default

SetDefault(t, set) ==
  /\ default' = set
  /\ LET s == Found(t, stack)
         m == Found(t, meant)
     IN Uses(t, IF s = <<>> THEN <<set>> ELSE s, IF m = <<>> THEN <<set>> ELSE m, FoundBare(t))

AddComponents(t, set) ==
  LET s == OrDefault(Found(t, stack))
      m == OrDefault(Found(t, meant))
  IN
  /\ Uses(t, ReplaceTop(s, Last(s) \cup set), ReplaceTop(m, Last(m) \cup set), FoundBare(t))
  /\ UNCHANGED default

RemoveComponents(t, set) ==
  LET s == OrDefault(Found(t, stack))
      m == OrDefault(Found(t, meant))
  IN
  /\ Uses(t, ReplaceTop(s, Last(s) \ set), ReplaceTop(m, Last(m) \ set), FoundBare(t))
  /\ UNCHANGED default

\* The default set is not put below a first push.
Pushed(s, set) == Append(s, set)

PushComponents(t, set) ==
  LET s == Found(t, stack) IN
  /\ Len(s) < MaxSets
  /\ Uses(t, Pushed(s, set), Append(OrDefault(Found(t, meant)), set), FoundBare(t) \/ s = <<>>)
  /\ UNCHANGED default

\* Mutant: the last set is popped too.
PoppedToEmpty(s) == IF Len(s) > 0 THEN Front(s) ELSE s

Popped(s) == IF Len(s) > 1 THEN Front(s) ELSE s

PopComponents(t) ==
  LET m == Found(t, meant) IN
  /\ Uses(t, Popped(Found(t, stack)), IF Len(m) > 1 THEN Front(m) ELSE m, FoundBare(t))
  /\ UNCHANGED default

StacksNext ==
  \E t \in Users :
    \/ Current(t) \/ PopComponents(t)
    \/ \E set \in SUBSET Components :
         SetDefault(t, set) \/ AddComponents(t, set) \/ RemoveComponents(t, set)
         \/ PushComponents(t, set)

StacksSpec == StacksInit /\ [][StacksNext]_stackVars

----------------------------------------------------------------------------
(* "Inverse of the last timemory_push_components [...] call. Popping all    *)
(* components will restore to set the configured as the default."           *)
(* (compat/library.h:194). The current set is the documented one, through   *)
(* any calls and for a thread that copied the leader's stack too, unless    *)
(* the stack began with a push and all but that push has been popped.       *)
CurrentAsDocumented ==
  \A t \in Users :
    stack[t] # <<>> /\ ~(t \in bare /\ Len(stack[t]) = 1) => Last(stack[t]) = Last(meant[t])
=============================================================================

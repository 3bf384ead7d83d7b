---------------------------- MODULE LibraryState ----------------------------
(* What the C interface keeps for the whole process and what both of its   *)
(* halves read: the switch settings::enabled() and the two flags of        *)
(* get_library_state(), [0] for initialised and [1] for finalised.  They   *)
(* are plain variables that every thread reads and writes without a lock.  *)
CONSTANT Threads

VARIABLES enabled, initialized, finalized

libraryVars == <<enabled, initialized, finalized>>

LibraryInit == enabled = TRUE /\ initialized = FALSE /\ finalized = FALSE

LibraryTypeOK == {enabled, initialized, finalized} \subseteq BOOLEAN

\* timemory_pause and timemory_resume, by any thread at any time.
Toggle == enabled' = ~enabled /\ UNCHANGED <<initialized, finalized>>

\* timemory_init_library: parsing the command line is left out.
InitLibrary == ~initialized /\ initialized' = TRUE /\ UNCHANGED <<enabled, finalized>>

\* What timemory_finalize_library does to the flags. With collection switched
\* off and no record open in the calling thread it returns before the manager.
FinalizeReaches(emptyMap) == enabled \/ ~emptyMap
FinalizeLibrary(emptyMap) ==
  /\ finalized' = TRUE
  /\ enabled' = IF FinalizeReaches(emptyMap) THEN FALSE ELSE enabled
  /\ UNCHANGED initialized
=============================================================================

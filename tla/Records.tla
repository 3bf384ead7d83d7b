------------------------------ MODULE Records ------------------------------
(* The records of timemory's C interface (src/source/library.cpp): begin   *)
(* and end by number, push and pop of regions by name, the unique numbers  *)
(* both rest on, and the end of the library.  Records and regions are kept *)
(* per thread; only the counter of numbers is shared, and it is a plain    *)
(* integer that every thread increments without a lock.  Calls made from   *)
(* inside a component's start or stop meet the thread's own lock and do    *)
(* nothing, so they are no steps here.                                     *)
EXTENDS LibraryState, Naturals, Sequences, SequencesExt

CONSTANTS Names,       \* names of regions
          MaxRegions,  \* bound: regions of one name a thread has open
          MaxNumbers,  \* bound: numbers handed out
          NoRecord     \* the number of a record that was not begun: 2^64 - 1

Own == "own"  \* what a record is begun for, if not for a region

ASSUME RecordsAssumption ==
  NoRecord \notin Nat /\ Own \notin Names /\ {MaxRegions, MaxNumbers} \subseteq Nat

VARIABLES uniqID,    \* the counter of timemory_get_unique_id
          records,   \* the record map of each thread: the numbers of its records
          regions,   \* the region map of each thread: a stack of numbers per name
          handles,   \* the program: numbers each thread began itself and has not ended
          creating,  \* creation in progress: [number, name], the counter not yet written
          issued,    \* history: numbers each thread was given
          overtaken, \* history: a thread wrote an older value over the counter
          ended      \* history: threads whose call finalised the library

recordVars == <<uniqID, records, regions, handles, creating, issued, overtaken, ended>>

Purposes == Names \cup {Own}
Idle == [number |-> NoRecord, purpose |-> Own]

RecordsInit ==
  /\ LibraryInit
  /\ uniqID = 0
  /\ records = [t \in Threads |-> {}]
  /\ regions = [t \in Threads |-> [n \in Names |-> <<>>]]
  /\ handles = [t \in Threads |-> <<>>]
  /\ creating = [t \in Threads |-> Idle]
  /\ issued = [t \in Threads |-> {}]
  /\ overtaken = FALSE
  /\ ended = {}

Free(t) == creating[t] = Idle

----------------------------------------------------------------------------
(* Beginning                                                                *)

\* begin_record, get_begin_record, push_region: the counter is read.
Begin(t, p) ==
  /\ Free(t) /\ enabled /\ uniqID < MaxNumbers
  /\ IF p = Own THEN Len(handles[t]) < MaxRegions ELSE Len(regions[t][p]) < MaxRegions
  /\ creating' = [creating EXCEPT ![t] = [number |-> uniqID, purpose |-> p]]
  /\ UNCHANGED <<libraryVars, uniqID, records, regions, handles, issued, overtaken, ended>>

\* The counter is written, the record enters the map (or meets one that has its
\* number) and is started; the program or the region keeps the number.
CreateRecord(t) ==
  LET k == creating[t].number
      p == creating[t].purpose
  IN
  /\ ~Free(t)
  /\ uniqID' = k + 1
  /\ overtaken' = (overtaken \/ uniqID > k + 1)
  /\ records' = [records EXCEPT ![t] = @ \cup {k}]
  /\ issued' = [issued EXCEPT ![t] = @ \cup {k}]
  /\ IF p = Own
     THEN handles' = [handles EXCEPT ![t] = Append(@, k)] /\ UNCHANGED regions
     ELSE regions' = [regions EXCEPT ![t][p] = Append(@, k)] /\ UNCHANGED handles
  /\ creating' = [creating EXCEPT ![t] = Idle]
  /\ UNCHANGED <<libraryVars, ended>>

\* push_region while collection is off: the region is kept without a record.
PushRegionPaused(t, n) ==
  /\ Free(t) /\ ~enabled /\ Len(regions[t][n]) < MaxRegions
  /\ regions' = [regions EXCEPT ![t][n] = Append(@, NoRecord)]
  /\ UNCHANGED <<libraryVars, uniqID, records, handles, creating, issued, overtaken, ended>>

----------------------------------------------------------------------------
(* Ending                                                                   *)

\* Mutant: nothing is deleted while collection is off.
DeleteIfEnabled(t, k) == records' = IF enabled THEN [records EXCEPT ![t] = @ \ {k}] ELSE records

\* delete_record stops and erases the record, if the thread has it.
DeleteRecord(t, k) == records' = [records EXCEPT ![t] = @ \ {k}]

EndRecord(t, j) ==
  /\ Free(t) /\ j \in DOMAIN handles[t]
  /\ DeleteRecord(t, handles[t][j])
  /\ handles' = [handles EXCEPT ![t] = RemoveAt(@, j)]
  /\ UNCHANGED <<libraryVars, uniqID, regions, creating, issued, overtaken, ended>>

PopRegion(t, n) ==
  /\ Free(t) /\ regions[t][n] # <<>>
  /\ DeleteRecord(t, Last(regions[t][n]))
  /\ regions' = [regions EXCEPT ![t][n] = Front(@)]
  /\ UNCHANGED <<libraryVars, uniqID, handles, creating, issued, overtaken, ended>>

\* timemory_finalize_library deletes the records of the calling thread only.
Finalize(t) ==
  LET reaches == FinalizeReaches(records[t] = {}) IN
  /\ Free(t)
  /\ FinalizeLibrary(records[t] = {})
  /\ records' = IF reaches THEN [records EXCEPT ![t] = {}] ELSE records
  /\ ended' = IF reaches THEN ended \cup {t} ELSE ended
  /\ UNCHANGED <<uniqID, regions, handles, creating, issued, overtaken>>

RecordsNext ==
  \/ Toggle /\ UNCHANGED recordVars
  \/ \E t \in Threads :
       \/ \E p \in Purposes : Begin(t, p)
       \/ \E n \in Names : PushRegionPaused(t, n) \/ PopRegion(t, n)
       \/ \E j \in 1 .. MaxRegions : EndRecord(t, j)
       \/ CreateRecord(t) \/ Finalize(t)

RecordsSpec == RecordsInit /\ [][RecordsNext]_<<libraryVars, recordVars>>

----------------------------------------------------------------------------
(* Properties                                                               *)

\* The numbers a thread may still end: its own and those of its open regions.
Ends(t) ==
  {<<Own, j, handles[t][j]>> : j \in DOMAIN handles[t]} \cup
  UNION {{<<n, j, regions[t][n][j]>> : j \in {k \in DOMAIN regions[t][n] :
            regions[t][n][k] # NoRecord}} : n \in Names}

\* Unless an older counter was written over a newer one, every begin has one end
\* and every record is ended by its own begin's end: what a thread may still end
\* are distinct numbers, and its records are exactly these (fewer once it has
\* finalised the library), across pauses, nesting and finalisation elsewhere.
RecordsPaired ==
  ~overtaken => \A t \in Threads :
    LET numbers == {e[3] : e \in Ends(t)} IN
    /\ Cardinality(Ends(t)) = Cardinality(numbers)
    /\ records[t] \subseteq numbers
    /\ t \notin ended => records[t] = numbers

\* "two threads updating at once and subsequently losing once of the updates
\* still results in a unique id for that thread" (library.cpp:146): a thread is
\* never given a number it was given before.
UniqueForThread == \A t \in Threads : creating[t].number \notin issued[t]
=============================================================================

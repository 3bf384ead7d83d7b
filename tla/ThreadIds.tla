------------------------------ MODULE ThreadIds ------------------------------
(***************************************************************************)
(* The numbers threads are known by (process/threading.cpp).  Storage,     *)
(* thread_data and every per-thread array are indexed with them, so two    *)
(* threads with one number share what must be private.                     *)
(*                                                                         *)
(* Ordinary threads count up from 0 (global_counter); threads that asked   *)
(* to be set apart count down from MaxThreads (offset_counter).  With      *)
(* recycle_ids() the number of a thread that ended goes to a list, one per *)
(* kind, and is given out again.  get_id takes from a list under a mutex,  *)
(* and the end of a thread returns to it under a spin lock of its own: the *)
(* two do not exclude each other, and a list is read and written in two    *)
(* steps here so that the one can overwrite what the other did.  A number  *)
(* below zero (more than MaxThreads threads set apart) is returned like    *)
(* any other, but get_id takes it for none and counts a new one.           *)
(***************************************************************************)
EXTENDS Integers, Sequences, Functions

CONSTANTS
  Threads,     \* places of threads; a place is used again when its thread ended
  MaxThreads,  \* thread_id_manager::max_threads
  Reserved,    \* thread_id_manager::reserved, filled before the threads start
  Starts       \* bound: how many threads are started in all

ASSUME MaxThreadsAssumption == MaxThreads \in Nat \ {0}
ASSUME ReservedAssumption == Reserved \subseteq Nat /\ 0 \in Reserved
ASSUME StartsAssumption == Starts \in Nat

VARIABLES
  recycle,         \* recycle_ids()
  global_counter,  \* the next number of an ordinary thread
  offset_counter,  \* the number last given to a thread set apart
  list,            \* list[k]: the members available and offset
  pc,              \* pc[t]: where thread t is in get_id or in its end
  kind,            \* kind[t]: "offset" when offset_this_id() of t says so
  id,              \* id[t]: the number t was given
  seen,            \* seen[t]: global_counter as t loaded it for the comparison
  copy,            \* copy[t]: a list as t read it before writing it back
  started,         \* how many threads were started (for the bound)
  raced            \* the lists at which a taker and a returner were together

counters == <<global_counter, offset_counter>>
vars == <<recycle, counters, list, pc, kind, id, seen, copy, started, raced>>

Kinds == {"available", "offset"}

Locations == {"absent", "choose", "compare", "lock", "take", "count", "live",
              "end", "return"}

Init ==
  /\ recycle \in BOOLEAN
  /\ global_counter = 0
  /\ offset_counter = MaxThreads
  /\ list = [k \in Kinds |-> <<>>]
  /\ pc = [t \in Threads |-> "absent"]
  /\ kind = [t \in Threads |-> "available"]
  /\ id = [t \in Threads |-> -1]
  /\ seen = [t \in Threads |-> 0]
  /\ copy = [t \in Threads |-> <<>>]
  /\ started = 0
  /\ raced = {}

\* t is between reading and writing back a list: to take from it, holding
\* type_mutex<recycle_ids>(k), or to return to it, holding _avail_lk or
\* _offset_lk.
Taking(t, k) == pc[t] = "take" /\ kind[t] = k
Returning(t, k) == pc[t] = "return" /\ kind[t] = k

(***************************************************************************)
(* get_id                                                                  *)
(***************************************************************************)

\* A thread calls get_id for the first time.  offset_this_id(b), or a callback,
\* may have set it apart; while no number was given yet that wish is dropped
\* and no callback is asked.
Ask(t) ==
  /\ pc[t] = "absent" /\ started < Starts
  /\ started' = started + 1
  /\ \E k \in IF global_counter = 0 THEN {"available"} ELSE Kinds :
       kind' = [kind EXCEPT ![t] = k]
  /\ pc' = [pc EXCEPT ![t] = "choose"]
  /\ UNCHANGED <<recycle, counters, list, id, seen, copy, raced>>

\* Without recycling a new number is counted; a thread set apart tries its list
\* at once, an ordinary one first loads global_counter ...
Choose(t) ==
  /\ pc[t] = "choose"
  /\ pc' = [pc EXCEPT ![t] = IF ~recycle THEN "count"
                             ELSE IF kind[t] = "offset" THEN "lock" ELSE "compare"]
  /\ seen' = [seen EXCEPT ![t] = global_counter]
  /\ UNCHANGED <<recycle, counters, list, kind, id, copy,
                 started, raced>>

\* ... and then (left operand first) compares it with offset_counter, which may
\* have moved meanwhile:
\* only when the two have met does it look for a number given back.
Compare(t) ==
  /\ pc[t] = "compare"
  /\ pc' = [pc EXCEPT ![t] = IF seen[t] >= offset_counter THEN "lock" ELSE "count"]
  /\ UNCHANGED <<recycle, counters, list, kind, id, seen, copy,
                 started, raced>>

\* Mutant: no mutex.
LookUnlocked(t) == LET k == kind[t] IN
  /\ pc[t] = "lock"
  /\ pc' = [pc EXCEPT ![t] = IF list[k] = <<>> THEN "count" ELSE "take"]
  /\ copy' = [copy EXCEPT ![t] = list[k]]
  /\ raced' = IF list[k] # <<>> /\ \E s \in Threads : Returning(s, k)
                THEN raced \cup {k} ELSE raced
  /\ UNCHANGED <<recycle, counters, list, kind, id, seen, started>>

\* The mutex is taken (nobody else holds it) and the list of the thread's kind
\* read; an empty list ends the critical section.
Look(t) == LET k == kind[t] IN
  /\ pc[t] = "lock" /\ ~ \E s \in Threads : Taking(s, k)
  /\ IF list[k] = <<>>
       THEN /\ pc' = [pc EXCEPT ![t] = "count"]
            /\ UNCHANGED <<copy, raced>>
       ELSE /\ pc' = [pc EXCEPT ![t] = "take"]
            /\ copy' = [copy EXCEPT ![t] = list[k]]
            /\ raced' = IF \E s \in Threads : Returning(s, k)
                          THEN raced \cup {k} ELSE raced
  /\ UNCHANGED <<recycle, counters, list, kind, id, seen, started>>

\* The front is taken out, the others move up by one.  It is the thread's number
\* unless it is negative: then it is dropped and a new one is counted.
Take(t) == LET k == kind[t] IN
  /\ pc[t] = "take"
  /\ list' = [list EXCEPT ![k] = Tail(copy[t])]
  /\ copy' = [copy EXCEPT ![t] = <<>>]
  /\ \/ /\ Head(copy[t]) >= 0
        /\ id' = [id EXCEPT ![t] = Head(copy[t])]
        /\ pc' = [pc EXCEPT ![t] = "live"]
     \/ /\ Head(copy[t]) < 0
        /\ pc' = [pc EXCEPT ![t] = "count"]
        /\ UNCHANGED id
  /\ UNCHANGED <<recycle, counters, kind, seen, started, raced>>

\* No number, or a negative one, was taken: --offset_counter or global_counter++,
\* both atomic.
Count(t) ==
  /\ pc[t] = "count"
  /\ pc' = [pc EXCEPT ![t] = "live"]
  /\ \/ /\ kind[t] = "offset"
        /\ offset_counter' = offset_counter - 1
        /\ id' = [id EXCEPT ![t] = offset_counter']
        /\ UNCHANGED global_counter
     \/ /\ kind[t] = "available"
        /\ global_counter' = global_counter + 1
        /\ id' = [id EXCEPT ![t] = global_counter]
        /\ UNCHANGED offset_counter
  /\ UNCHANGED <<recycle, list, kind, seen, copy, started, raced>>

(***************************************************************************)
(* The end of a thread: the destructor get_id returned with the number.    *)
(***************************************************************************)

\* Number 0 is never returned, nor is a reserved number of an ordinary thread.
Returns(t) == id[t] # 0 /\ (kind[t] = "offset" \/ id[t] \notin Reserved)

Forget(t) == id' = [id EXCEPT ![t] = -1]

End(t) ==
  /\ pc[t] = "live"
  /\ IF Returns(t) THEN pc' = [pc EXCEPT ![t] = "end"] /\ UNCHANGED id
                   ELSE pc' = [pc EXCEPT ![t] = "absent"] /\ Forget(t)
  /\ UNCHANGED <<recycle, counters, list, kind, seen, copy,
                 started, raced>>

\* Mutant: no spin lock.
ReadForReturnUnlocked(t) == LET k == kind[t] IN
  /\ pc[t] = "end"
  /\ copy' = [copy EXCEPT ![t] = list[k]]
  /\ pc' = [pc EXCEPT ![t] = "return"]
  /\ raced' = IF \E s \in Threads : Taking(s, k) THEN raced \cup {k} ELSE raced
  /\ UNCHANGED <<recycle, counters, list, kind, id, seen, started>>

ReadForReturn(t) == LET k == kind[t] IN
  /\ pc[t] = "end" /\ ~ \E s \in Threads : Returning(s, k)
  /\ copy' = [copy EXCEPT ![t] = list[k]]
  /\ pc' = [pc EXCEPT ![t] = "return"]
  /\ raced' = IF \E s \in Threads : Taking(s, k) THEN raced \cup {k} ELSE raced
  /\ UNCHANGED <<recycle, counters, list, kind, id, seen, started>>

\* emplace_back; the thread is gone.
Return(t) == LET k == kind[t] IN
  /\ pc[t] = "return"
  /\ list' = [list EXCEPT ![k] = Append(copy[t], id[t])]
  /\ pc' = [pc EXCEPT ![t] = "absent"]
  /\ Forget(t)
  /\ copy' = [copy EXCEPT ![t] = <<>>]
  /\ UNCHANGED <<recycle, counters, kind, seen, started, raced>>

\* Every thread has ended and no further one is started.
Quiet ==
  /\ started = Starts /\ \A t \in Threads : pc[t] = "absent"
  /\ UNCHANGED vars

Step(t) == \/ Ask(t) \/ Choose(t) \/ Compare(t) \/ Look(t) \/ Take(t) \/ Count(t)
           \/ End(t) \/ ReadForReturn(t) \/ Return(t)

Next == Quiet \/ \E t \in Threads : Step(t)

Spec == Init /\ [][Next]_vars

(***************************************************************************)
(* Properties                                                              *)
(***************************************************************************)

\* The types of the variables of the id manager.
TypeOK ==
  /\ recycle \in BOOLEAN /\ raced \subseteq Kinds
  /\ global_counter \in Nat /\ offset_counter \in Int /\ offset_counter <= MaxThreads
  /\ started \in 0..Starts
  /\ list \in [Kinds -> Seq(Int)]
  /\ pc \in [Threads -> Locations]
  /\ kind \in [Threads -> Kinds]
  /\ id \in [Threads -> Int]
  /\ seen \in [Threads -> Nat]
  /\ copy \in [Threads -> Seq(Int)]

\* t has its number and has not given it back.
Holds(t) == pc[t] \in {"live", "end", "return"}

\* No two living threads have the same number, as long as the two counters have
\* not passed each other (more numbers in use than MaxThreads) and no thread took
\* a number from a list while another returned one to it.  Without recycling the
\* second condition always holds.
LiveIdsDistinct ==
  (raced = {} /\ global_counter <= offset_counter) =>
    \A s, t \in Threads : (Holds(s) /\ Holds(t) /\ id[s] = id[t]) => s = t

HeldAs(k) == {id[t] : t \in {u \in Threads : Holds(u) /\ kind[u] = k}}

\* The numbers of a kind that were counted so far and are meant to come back: not 0,
\* nor a reserved number of an ordinary thread, which are never returned, and not a
\* negative one, which get_id drops when it takes it from the list.
Counted(k) ==
  IF k = "offset" THEN {n \in offset_counter .. MaxThreads - 1 : n > 0}
                  ELSE (0 .. global_counter - 1) \ Reserved

\* A positive number that was given out is never lost, whether or not the counters
\* have passed each other, at a list where no taker met a returner: a thread has it,
\* or it is in its list (a taker that has read the list not yet having taken it out).
\* A long-lived program that starts and ends threads therefore does not leak numbers.
NoIdLost ==
  \A k \in Kinds \ raced : Counted(k) \subseteq HeldAs(k) \cup Range(list[k])
=============================================================================

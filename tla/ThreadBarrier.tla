---------------------------- MODULE ThreadBarrier ----------------------------
(***************************************************************************)
(* ert::thread_barrier and the loop of ert::ops_main that meets at it: the *)
(* threads of a roofline kernel wait at a first barrier before and at a    *)
(* last barrier after each measurement, and throw if the count of the      *)
(* barrier they left is not back at zero.  The barrier has three modes of  *)
(* waiting: a shared future, a spin loop and a condition variable.         *)
(***************************************************************************)
EXTENDS Integers, FiniteSets

CONSTANTS Workers,
          Modes,       \* modes of waiting the threads may agree on
          Barriers,    \* barriers visited in turn: fbarrier and lbarrier
          MaxVisits    \* bound: visits of a thread

ASSUME BarrierAssumption ==
  /\ IsFiniteSet(Workers) /\ Workers # {}
  /\ Modes \subseteq {"notify", "spin", "cv"} /\ Modes # {}
  /\ Barriers \in Nat \ {0} /\ MaxVisits \in Nat

VARIABLES mode,
          bar,    \* bar[b]: the members of a barrier
          th      \* th[w]: where a thread is, its visits, its copy of a future

vars == <<mode, bar, th>>

Size == Cardinality(Workers)

\* Futures are numbered: `future' is the one of m_promise, `ready' are those
\* whose promise is kept.
NewBarrier == [notify |-> 0, future |-> 0, ready |-> {}, counter |-> 0, waiting |-> 0]

Init ==
  /\ mode \in Modes
  /\ bar = [b \in 1..Barriers |-> NewBarrier]
  /\ th = [w \in Workers |-> [pc |-> "work", visits |-> 0, future |-> 0]]

\* Mutant: the last barrier is left out.
OnlyBarrier(w) == 1

\* The barrier w meets at, or will meet at, next.
BarrierOf(w) == (th[w].visits % Barriers) + 1

B(w) == bar[BarrierOf(w)]

Comes(w, m) == mode = m /\ th[w].pc = "work" /\ th[w].visits < MaxVisits

At(w, pc) == th[w].pc = pc

Goto(w, pc) == th' = [th EXCEPT ![w].pc = pc]

-----------------------------------------------------------------------------
(* notify_wait.                                                            *)

CopyFuture(w) ==
  /\ Comes(w, "notify")
  /\ th' = [th EXCEPT ![w].pc = "count", ![w].future = B(w).future]
  /\ UNCHANGED <<mode, bar>>

Count(w) ==
  /\ At(w, "count")
  /\ bar' = [bar EXCEPT ![BarrierOf(w)].notify = @ + 1]
  /\ Goto(w, IF B(w).notify + 1 = Size THEN "swap" ELSE "wait")
  /\ UNCHANGED mode

\* The last to count swaps promise and future for the next visit, ...
SwapPromise(w) ==
  /\ At(w, "swap")
  /\ bar' = [bar EXCEPT ![BarrierOf(w)].future = @ + 1]
  /\ Goto(w, "reset")
  /\ UNCHANGED mode

\* ... resets the count, ...
ResetCount(w) ==
  /\ At(w, "reset")
  /\ bar' = [bar EXCEPT ![BarrierOf(w)].notify = 0]
  /\ Goto(w, "release")
  /\ UNCHANGED mode

\* ... and keeps the old promise.
Release(w) ==
  /\ At(w, "release")
  /\ bar' = [bar EXCEPT ![BarrierOf(w)].ready = @ \union {th[w].future}]
  /\ Goto(w, "wait")
  /\ UNCHANGED mode

WakeByFuture(w) ==
  /\ At(w, "wait") /\ th[w].future \in B(w).ready
  /\ Goto(w, "check")
  /\ UNCHANGED <<mode, bar>>

NotifyWait(w) ==
  CopyFuture(w) \/ Count(w) \/ SwapPromise(w) \/ ResetCount(w) \/ Release(w) \/ WakeByFuture(w)

-----------------------------------------------------------------------------
(* spin_wait and cv_wait; each mutex section is a step.                    *)

Entered(b) == [b EXCEPT !.counter = @ + 1, !.waiting = @ + 1]

Left(b) ==
  [b EXCEPT !.waiting = @ - 1, !.counter = IF b.waiting = 1 THEN 0 ELSE @]

EnterSpin(w) ==
  /\ Comes(w, "spin")
  /\ bar' = [bar EXCEPT ![BarrierOf(w)] = Entered(@)]
  /\ Goto(w, "spin")
  /\ UNCHANGED mode

\* Mutant: the spin ends one thread early.
EndSpinEarly(w) ==
  /\ At(w, "spin") /\ B(w).counter >= Size - 1
  /\ Goto(w, "leave")
  /\ UNCHANGED <<mode, bar>>

EndSpin(w) ==
  /\ At(w, "spin") /\ B(w).counter >= Size
  /\ Goto(w, "leave")
  /\ UNCHANGED <<mode, bar>>

LeaveSpin(w) ==
  /\ At(w, "leave") /\ mode = "spin"
  /\ bar' = [bar EXCEPT ![BarrierOf(w)] = Left(@)]
  /\ Goto(w, "check")
  /\ UNCHANGED mode

SpinWait(w) == EnterSpin(w) \/ EndSpin(w) \/ LeaveSpin(w)

\* The last one to come does not sleep.
EnterCv(w) ==
  /\ Comes(w, "cv")
  /\ bar' = [bar EXCEPT ![BarrierOf(w)] = Entered(@)]
  /\ Goto(w, IF B(w).counter + 1 >= Size THEN "leave" ELSE "sleep")
  /\ UNCHANGED mode

Sleepers(b) == {v \in Workers : th[v].pc = "sleep" /\ BarrierOf(v) = b}

\* Mutant: no notify_one.
LeaveCvQuietly(w) ==
  /\ At(w, "leave") /\ mode = "cv"
  /\ bar' = [bar EXCEPT ![BarrierOf(w)] = Left(@)]
  /\ Goto(w, "check")
  /\ UNCHANGED mode

\* notify_one wakes one sleeper; then the thread leaves.
LeaveCv(w) ==
  /\ At(w, "leave") /\ mode = "cv"
  /\ bar' = [bar EXCEPT ![BarrierOf(w)] = Left(@)]
  /\ IF Sleepers(BarrierOf(w)) = {} THEN Goto(w, "check")
     ELSE \E v \in Sleepers(BarrierOf(w)) :
            th' = [th EXCEPT ![w].pc = "check", ![v].pc = "awake"]
  /\ UNCHANGED mode

\* A sleeper that was woken looks at the counter.
Look(w) ==
  /\ At(w, "awake")
  /\ Goto(w, IF B(w).counter >= Size THEN "leave" ELSE "sleep")
  /\ UNCHANGED <<mode, bar>>

\* A wait on a condition variable may also end by itself.
WakeSpuriously(w) == At(w, "sleep") /\ Goto(w, "awake") /\ UNCHANGED <<mode, bar>>

-----------------------------------------------------------------------------
\* ops_main: "if(fbarrier->get_count() > 0) throw"; get_count looks at the
\* count of the notify mode.
CheckCount(w) ==
  /\ At(w, "check")
  /\ th' = [th EXCEPT ![w] = IF B(w).notify > 0 THEN [@ EXCEPT !.pc = "threw"]
                             ELSE [@ EXCEPT !.pc = "work", !.visits = th[w].visits + 1]]
  /\ UNCHANGED <<mode, bar>>

Step(w) ==
  \/ NotifyWait(w)
  \/ SpinWait(w)
  \/ EnterCv(w) \/ LeaveCv(w) \/ Look(w)
  \/ CheckCount(w)

Finished == (\A w \in Workers : th[w].visits = MaxVisits) /\ UNCHANGED vars

Next == (\E w \in Workers : Step(w) \/ WakeSpuriously(w)) \/ Finished

Spec == Init /\ [][Next]_vars /\ \A w \in Workers : WF_vars(Step(w))
-----------------------------------------------------------------------------
(* Properties.                                                             *)

Places == {"work", "count", "swap", "reset", "release", "wait", "spin", "sleep", "awake",
           "leave", "check", "threw"}

\* The members have the type of their declarations, and no count of a barrier
\* exceeds the number of its threads.
TypeOK ==
  /\ mode \in Modes
  /\ \A b \in 1..Barriers :
       /\ {bar[b].notify, bar[b].counter, bar[b].waiting} \subseteq 0..Size
       /\ bar[b].future \in Nat /\ bar[b].ready \subseteq Nat
  /\ th \in [Workers -> [pc : Places, visits : 0..MaxVisits, future : Nat]]

\* A thread has come to the barrier of its current visit once it is counted.
HasCome(w) == th[w].pc \notin {"work", "count"}

Meetings == INSTANCE Rendezvous WITH
  came <- [w \in Workers |-> th[w].visits + (IF HasCome(w) THEN 1 ELSE 0)],
  left <- [w \in Workers |-> th[w].visits]

\* No thread leaves a barrier before all threads have come to it, although
\* the two barriers are used again and again: the loop of ops_main implements
\* the meetings a barrier promises.
ImplementsRendezvous == Meetings!Spec

\* "first barrier failed", "last barrier failed": the count of a barrier is
\* zero whenever a thread that left it looks (kernels.hpp:273, :327).
CountIsBack == \A w \in Workers : th[w].pc # "threw"

\* All threads get through all their visits.
EverybodyFinishes == \A w \in Workers : <>(th[w].visits = MaxVisits)
=============================================================================

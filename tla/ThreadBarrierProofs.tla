------------------------- MODULE ThreadBarrierProofs -------------------------
(* Proofs about ThreadBarrier for any number of threads and visits and two *)
(* or more barriers visited in turn, as ops_main does: no thread finds a   *)
(* count left on the barrier it comes from, and the loop implements the    *)
(* meetings of Rendezvous in every mode of waiting.                        *)
EXTENDS ThreadBarrier, FiniteSetTheorems, TLAPS

\* The meetings a thread has come to.
Came(w) == th[w].visits + (IF HasCome(w) THEN 1 ELSE 0)

\* Who has come to barrier b in its current visit, and who of them is counted as
\* waiting by it.
Arrived(b) == {w \in Workers : BarrierOf(w) = b /\ HasCome(w)}
Waiters(b) == {w \in Workers : BarrierOf(w) = b /\ th[w].pc \in {"spin", "sleep", "awake", "leave"}}

NotifyPlaces == {"work", "count", "swap", "reset", "release", "wait", "check"}
CounterPlaces == {"work", "spin", "sleep", "awake", "leave", "check"}

Members == [notify : Nat, future : Nat, ready : SUBSET Nat, counter : Nat, waiting : Int]

BarrierShape == bar \in [1..Barriers -> Members]

\* A thread is at a place of its mode, and under way only to visits it is to make.
PlaceFits(pc, visits) ==
  /\ pc \in IF mode = "notify" THEN NotifyPlaces ELSE CounterPlaces
  /\ pc # "work" => visits < MaxVisits

ThreadShape ==
  /\ th \in [Workers -> [pc : Places, visits : 0..MaxVisits, future : Nat]]
  /\ \A w \in Workers : PlaceFits(th[w].pc, th[w].visits)

Shape == mode \in Modes /\ BarrierShape /\ ThreadShape

\* Whoever has left a meeting, everybody has come to it: visits differ by one.
Together == \A v, w \in Workers : th[w].visits <= Came(v)

EverybodyCame(b) == \A w \in Arrived(b), v \in Workers : th[w].visits < Came(v)

\* notify_wait, from the first to come to the last to leave.
Gathering(b) ==
  /\ bar[b].notify = Cardinality(Arrived(b)) /\ bar[b].notify < Size
  /\ \A w \in Arrived(b) : th[w].pc = "wait" /\ th[w].future = bar[b].future

\* l, the last to come, makes the next promise, resets the count, keeps the old one.
Closing(b, l) ==
  /\ Arrived(b) = Workers
  /\ th[l].pc \in {"swap", "reset", "release"}
  /\ \A w \in Workers \ {l} : th[w].pc = "wait"
  /\ \A w \in Workers :
       /\ th[w].future = IF th[l].pc = "swap" THEN bar[b].future ELSE bar[b].future - 1
       /\ th[w].future \notin bar[b].ready
  /\ bar[b].notify = IF th[l].pc = "release" THEN 0 ELSE Size

Opened(b) ==
  /\ bar[b].notify = 0
  /\ EverybodyCame(b)
  /\ \A w \in Arrived(b) :
       \/ th[w].pc = "check"
       \/ th[w].pc = "wait" /\ th[w].future \in bar[b].ready

NotifyPhase(b) ==
  /\ \A f \in bar[b].ready : f < bar[b].future
  /\ \A w \in Workers : BarrierOf(w) = b /\ th[w].pc = "count" => th[w].future = bar[b].future
  /\ Gathering(b) \/ (\E l \in Workers : Closing(b, l)) \/ Opened(b)

\* spin_wait and cv_wait.
Filling(b) ==
  /\ Arrived(b) = Waiters(b)
  /\ bar[b].counter = Cardinality(Arrived(b)) /\ bar[b].counter < Size
  /\ \A w \in Arrived(b) : th[w].pc # "leave"

Emptying(b) ==
  /\ EverybodyCame(b)
  /\ bar[b].counter = IF Waiters(b) = {} THEN 0 ELSE Size

CounterPhase(b) ==
  /\ bar[b].notify = 0
  /\ bar[b].waiting = Cardinality(Waiters(b))
  /\ Filling(b) \/ Emptying(b)

Phases == \A b \in 1..Barriers : IF mode = "notify" THEN NotifyPhase(b) ELSE CounterPhase(b)

BarrierInv == Shape /\ Together /\ Phases

-----------------------------------------------------------------------------
(* Counting and turns.                                                     *)

TwoBarriers == Barriers \in Nat /\ Barriers >= 2

\* The barrier is made for a finite number of threads.
LEMMA SizeOfWorkers == IsFiniteSet(Workers) /\ Size \in Nat /\ Size >= 1
<1>1. IsFiniteSet(Workers) /\ Workers # {}
  BY BarrierAssumption
<1>2. Cardinality(Workers) \in Nat /\ (Cardinality(Workers) = 0 <=> Workers = {})
  BY <1>1, FS_CardinalityType, FS_EmptySet
<1> QED
  BY <1>1, <1>2 DEF Size

\* A part of them,
LEMMA CountOf ==
  ASSUME NEW S, S \subseteq Workers
  PROVE  /\ IsFiniteSet(S) /\ Cardinality(S) \in 0..Size
         /\ Cardinality(S) = Size => S = Workers
         /\ Cardinality(S) = 0 <=> S = {}
<1>1. /\ IsFiniteSet(S) /\ Cardinality(S) <= Cardinality(Workers)
      /\ Cardinality(S) = Cardinality(Workers) => S = Workers
  BY SizeOfWorkers, FS_Subset
<1>2. Cardinality(S) \in Nat /\ (Cardinality(S) = 0 <=> S = {})
  BY <1>1, FS_CardinalityType, FS_EmptySet
<1> QED
  BY <1>1, <1>2, SizeOfWorkers DEF Size

\* one more,
LEMMA OneMore ==
  ASSUME NEW S, S \subseteq Workers, NEW w \in Workers, w \notin S
  PROVE  Cardinality(S \cup {w}) = Cardinality(S) + 1
BY CountOf, FS_AddElement

\* and one less.
LEMMA OneLess ==
  ASSUME NEW S, S \subseteq Workers, NEW w \in S
  PROVE  Cardinality(S \ {w}) = Cardinality(S) - 1
BY CountOf, FS_RemoveElement

\* Neighbouring visits are at different barriers.
LEMMA Turns ==
  ASSUME TwoBarriers, NEW x \in Nat, NEW y \in Nat
  PROVE  /\ (x % Barriers) + 1 \in 1..Barriers
         /\ x <= y + 1 /\ y <= x + 1 /\ x % Barriers = y % Barriers => x = y
<1> DEFINE M == Barriers
           p == x \div M
           q == y \div M
           r == x % M
<1>1. /\ M \in Nat /\ M >= 2 /\ p \in Nat /\ q \in Nat
      /\ r \in 0..(M - 1) /\ x = M * p + r /\ y = M * q + (y % M)
  BY SMT DEF TwoBarriers
<1> HIDE DEF M, p, q, r
<1>2. ASSUME NEW a \in Nat, NEW b \in Nat, a < b PROVE M * a + M <= M * b
  <2>1. M * (a + 1) = M * a + M /\ M * (b - (a + 1)) = M * b - M * (a + 1)
    BY <1>1, SMT
  <2>2. M * (b - (a + 1)) >= 0
    BY <1>1, <1>2, SMT
  <2> QED
    BY <1>1, <1>2, <2>1, <2>2, SMT
<1>3. ASSUME x <= y + 1, y <= x + 1, y % M = r PROVE x = y
  <2>1. p < q => M * p + M <= M * q
    BY <1>1, <1>2
  <2>2. q < p => M * q + M <= M * p
    BY <1>1, <1>2
  <2> QED
    BY <1>1, <1>3, <2>1, <2>2, SMT
<1>4. r + 1 \in 1..M
  BY <1>1, SMT
<1> QED
  BY <1>3, <1>4 DEF M, r

\* Threads at one barrier are in the same visit.
LEMMA SameVisit ==
  ASSUME TwoBarriers, Shape, Together, NEW v \in Workers, NEW w \in Workers,
         BarrierOf(v) = BarrierOf(w)
  PROVE  th[v].visits = th[w].visits
<1>1. th[v].visits \in Nat /\ th[w].visits \in Nat
  BY BarrierAssumption DEF Shape, ThreadShape
<1>2. th[v].visits <= th[w].visits + 1 /\ th[w].visits <= th[v].visits + 1
  BY <1>1 DEF Together, Came
<1>3. th[v].visits % Barriers = th[w].visits % Barriers
  <2> DEFINE x == th[v].visits % Barriers
             y == th[w].visits % Barriers
  <2>1. x \in Int /\ y \in Int
    BY <1>1, SMT DEF TwoBarriers
  <2>2. x + 1 = y + 1
    BY DEF BarrierOf
  <2> HIDE DEF x, y
  <2> QED
    BY <2>1, <2>2 DEF x, y
<1> QED
  BY <1>1, <1>2, <1>3, Turns

\* The barrier of a visit is one of the barriers.
LEMMA BarrierExists ==
  ASSUME TwoBarriers, Shape, NEW w \in Workers
  PROVE  BarrierOf(w) \in 1..Barriers
<1>1. th[w].visits \in Nat
  BY BarrierAssumption DEF Shape, ThreadShape
<1> QED
  BY <1>1, Turns DEF BarrierOf

\* A barrier that somebody has still to leave is not come to by the next.
LEMMA NobodyLeft ==
  ASSUME TwoBarriers, Shape, Together, NEW w \in Workers, ~HasCome(w),
         EverybodyCame(BarrierOf(w))
  PROVE  Arrived(BarrierOf(w)) = {}
<1> SUFFICES ASSUME NEW v \in Arrived(BarrierOf(w)) PROVE FALSE
  OBVIOUS
<1>1. v \in Workers /\ BarrierOf(v) = BarrierOf(w)
  BY DEF Arrived
<1>2. th[v].visits = th[w].visits /\ th[w].visits \in Nat
  BY <1>1, SameVisit, BarrierAssumption DEF Shape, ThreadShape
<1>3. th[v].visits < Came(w)
  BY DEF EverybodyCame
<1> QED
  BY <1>2, <1>3 DEF Came

\* When all have come to one barrier, all have come to one meeting.
LEMMA AllAtOne ==
  ASSUME TwoBarriers, Shape, Together, NEW b, Arrived(b) = Workers
  PROVE  EverybodyCame(b)
<1> SUFFICES ASSUME NEW w \in Workers, NEW v \in Workers
             PROVE  th[w].visits < Came(v)
  BY DEF EverybodyCame
<1>1. HasCome(v) /\ BarrierOf(v) = BarrierOf(w)
  BY DEF Arrived
<1>2. th[v].visits = th[w].visits /\ th[w].visits \in Nat
  BY <1>1, SameVisit, BarrierAssumption DEF Shape, ThreadShape
<1> QED
  BY <1>1, <1>2 DEF Came

-----------------------------------------------------------------------------
(* Moves of one thread.                                                    *)

\* A thread moves to a place of its mode.
LEMMA ThreadMoves ==
  ASSUME Shape, NEW w \in Workers, NEW p, th' = [th EXCEPT ![w].pc = p], UNCHANGED mode,
         PlaceFits(p, th[w].visits)
  PROVE  ThreadShape'
<1>1. p \in Places
  BY DEF PlaceFits, Places, NotifyPlaces, CounterPlaces
<1>2. th' \in [Workers -> [pc : Places, visits : 0..MaxVisits, future : Nat]]
  BY <1>1 DEF Shape, ThreadShape
<1>3. \A v \in Workers : th'[v] = IF v = w THEN [th[w] EXCEPT !.pc = p] ELSE th[v]
  BY DEF Shape, ThreadShape
<1>4. th'[w].pc = p /\ th'[w].visits = th[w].visits
  BY <1>3 DEF Shape, ThreadShape
<1>5. \A v \in Workers : PlaceFits(th'[v].pc, th'[v].visits)
  BY <1>3, <1>4 DEF Shape, ThreadShape
<1> QED
  BY <1>2, <1>5 DEF ThreadShape, PlaceFits

\* One barrier gets other members.
LEMMA BarrierChanges ==
  ASSUME BarrierShape, NEW b \in 1..Barriers, NEW m \in Members, bar' = [bar EXCEPT ![b] = m]
  PROVE  /\ BarrierShape'
         /\ bar'[b] = m /\ \A c \in (1..Barriers) \ {b} : bar'[c] = bar[c]
BY DEF BarrierShape

\* Thread w is at place p of the same visit, where a thread that has come stays
\* come; nobody else did more than wake up or fall asleep.
Moved(w, p) ==
  /\ th'[w].pc = p /\ th'[w].visits = th[w].visits
  /\ HasCome(w) => p \notin {"work", "count"}
  /\ \A v \in Workers \ {w} :
       \/ th'[v] = th[v]
       \/ /\ th'[v].visits = th[v].visits
          /\ {th[v].pc, th'[v].pc} \subseteq {"sleep", "awake"}

\* One thread moves: what others have come to stays.
LEMMA Gone ==
  ASSUME Shape, NEW w \in Workers, NEW p, Moved(w, p)
  PROVE  /\ \A v \in Workers : /\ th[v].visits \in Nat /\ th'[v].visits = th[v].visits
                               /\ BarrierOf(v)' = BarrierOf(v)
                               /\ Came(v) \in Int /\ Came(v)' \in Int /\ Came(v) <= Came(v)'
         /\ \A b : Arrived(b)' = IF BarrierOf(w) = b /\ p \notin {"work", "count"}
                                THEN Arrived(b) \cup {w} ELSE Arrived(b)
         /\ \A b : Waiters(b)' = IF BarrierOf(w) = b /\ p \in {"spin", "sleep", "awake", "leave"}
                                THEN Waiters(b) \cup {w} ELSE Waiters(b) \ {w}
         /\ Together => Together'
<1>1. \A v \in Workers : th'[v].visits = th[v].visits /\ th[v].visits \in Nat
  BY BarrierAssumption DEF Shape, ThreadShape, Moved
<1>2. \A v \in Workers : BarrierOf(v)' = BarrierOf(v)
  BY <1>1 DEF BarrierOf
<1>3. \A v \in Workers : HasCome(v) => HasCome(v)'
  BY DEF HasCome, Moved
<1>4. \A v \in Workers : Came(v) <= Came(v)' /\ Came(v) \in Int /\ Came(v)' \in Int
  BY <1>1, <1>3 DEF Came
<1>5. \A v \in Workers \ {w} : HasCome(v)' = HasCome(v)
  BY DEF HasCome, Moved
<1>6. \A b : Arrived(b)' = IF BarrierOf(w) = b /\ p \notin {"work", "count"}
                           THEN Arrived(b) \cup {w} ELSE Arrived(b)
  BY <1>2, <1>5 DEF Arrived, HasCome, Moved
<1>7. \A b : Waiters(b)' = IF BarrierOf(w) = b /\ p \in {"spin", "sleep", "awake", "leave"}
                           THEN Waiters(b) \cup {w} ELSE Waiters(b) \ {w}
  BY <1>2 DEF Waiters, Moved
<1>8. Together => Together'
  BY <1>1, <1>4 DEF Together
<1> QED
  BY <1>1, <1>2, <1>4, <1>6, <1>7, <1>8

\* Of a step Goto(w, p).
LEMMA Going ==
  ASSUME Shape, NEW w \in Workers, NEW p, Goto(w, p), UNCHANGED mode,
         HasCome(w) => p \notin {"work", "count"}, PlaceFits(p, th[w].visits)
  PROVE  /\ Moved(w, p) /\ ThreadShape' /\ th'[w].pc = p /\ th'[w].future = th[w].future
         /\ \A v \in Workers \ {w} : th'[v] = th[v]
<1>1. /\ \A v \in Workers \ {w} : th'[v] = th[v]
      /\ th'[w].pc = p /\ th'[w].visits = th[w].visits /\ th'[w].future = th[w].future
  BY DEF Shape, ThreadShape, Goto
<1> QED
  BY <1>1, ThreadMoves DEF Moved, Goto

\* Nothing happens at barrier b.
LEMMA NotifyFrame ==
  ASSUME NEW b, NotifyPhase(b), bar'[b] = bar[b],
         Arrived(b)' = Arrived(b), \A v \in Arrived(b) : th'[v] = th[v],
         \A v \in Workers : Came(v) \in Int /\ Came(v)' \in Int /\ Came(v) <= Came(v)',
         \A v \in Workers : th[v].visits \in Int,
         \A v \in Workers : BarrierOf(v)' = b /\ th'[v].pc = "count" =>
                            th'[v].future = bar[b].future
  PROVE  NotifyPhase(b)'
<1>1. Arrived(b) \subseteq Workers
  BY DEF Arrived
<1>2. EverybodyCame(b) => EverybodyCame(b)'
  BY <1>1 DEF EverybodyCame
<1>3. Gathering(b) => Gathering(b)'
  BY DEF Gathering, Size
<1>4. \A l \in Workers : Closing(b, l) => Closing(b, l)'
  BY DEF Closing, Size
<1>5. Opened(b) => Opened(b)'
  BY <1>2 DEF Opened
<1> QED
  BY <1>3, <1>4, <1>5 DEF NotifyPhase

\* A barrier whose own arrivals do not change keeps its phase.
LEMMA CounterFrame ==
  ASSUME NEW b, CounterPhase(b), bar'[b] = bar[b],
         Arrived(b)' = Arrived(b), Waiters(b)' = Waiters(b),
         \A v \in Arrived(b) : th'[v].visits = th[v].visits,
         \A v \in Workers : Came(v) \in Int /\ Came(v)' \in Int /\ Came(v) <= Came(v)',
         \A v \in Workers : th[v].visits \in Int,
         (\E v \in Arrived(b) : th'[v].pc = "leave" /\ th[v].pc # "leave") => ~Filling(b)
  PROVE  CounterPhase(b)'
<1>1. Arrived(b) \subseteq Workers
  BY DEF Arrived
<1>2. EverybodyCame(b) => EverybodyCame(b)'
  BY <1>1 DEF EverybodyCame
<1>3. Filling(b) => Filling(b)'
  BY DEF Filling, Size
<1>4. Emptying(b) => Emptying(b)'
  BY <1>2 DEF Emptying, Size
<1> QED
  BY <1>3, <1>4 DEF CounterPhase

\* The barriers w is not at.
LEMMA NotifyElsewhere ==
  ASSUME BarrierInv, mode = "notify", NEW w \in Workers, NEW p, Moved(w, p),
         \A v \in Workers \ {w} : th'[v] = th[v],
         \A c \in (1..Barriers) \ {BarrierOf(w)} : bar'[c] = bar[c]
  PROVE  \A c \in (1..Barriers) \ {BarrierOf(w)} : NotifyPhase(c)'
<1> SUFFICES ASSUME NEW c \in (1..Barriers) \ {BarrierOf(w)} PROVE NotifyPhase(c)'
  OBVIOUS
<1>1. NotifyPhase(c) /\ bar'[c] = bar[c]
  BY DEF BarrierInv, Phases
<1>2. w \notin Arrived(c) /\ Arrived(c)' = Arrived(c) /\ Arrived(c) \subseteq Workers
  BY Gone DEF BarrierInv, Arrived
<1>3. \A v \in Workers : BarrierOf(v)' = c /\ th'[v].pc = "count" => th'[v].future = bar[c].future
  BY <1>1, Gone DEF BarrierInv, NotifyPhase
<1>4. \A v \in Workers : /\ Came(v) \in Int /\ Came(v)' \in Int /\ Came(v) <= Came(v)'
                         /\ th[v].visits \in Int
  BY Gone DEF BarrierInv
<1> QED
  BY <1>1, <1>2, <1>3, <1>4, NotifyFrame

\* The barriers other than that of the moving thread keep their phase.
LEMMA CounterElsewhere ==
  ASSUME BarrierInv, mode # "notify", NEW w \in Workers, NEW p, Moved(w, p),
         \A c \in (1..Barriers) \ {BarrierOf(w)} : bar'[c] = bar[c]
  PROVE  \A c \in (1..Barriers) \ {BarrierOf(w)} : CounterPhase(c)'
<1> SUFFICES ASSUME NEW c \in (1..Barriers) \ {BarrierOf(w)} PROVE CounterPhase(c)'
  OBVIOUS
<1>1. CounterPhase(c) /\ bar'[c] = bar[c]
  BY DEF BarrierInv, Phases
<1>2. /\ w \notin Arrived(c) /\ Arrived(c) \subseteq Workers /\ w \notin Waiters(c)
      /\ Arrived(c)' = Arrived(c) /\ Waiters(c)' = Waiters(c)
  BY Gone DEF BarrierInv, Arrived, Waiters
<1>3. \A v \in Workers : /\ Came(v) \in Int /\ Came(v)' \in Int /\ Came(v) <= Came(v)'
                         /\ th[v].visits \in Int /\ th'[v].visits = th[v].visits
  BY Gone DEF BarrierInv
<1>4. \A v \in Arrived(c) : th'[v].pc = "leave" => th[v].pc = "leave"
  BY <1>2 DEF Moved
<1> QED
  BY <1>1, <1>2, <1>3, <1>4, CounterFrame

-----------------------------------------------------------------------------
(* The steps of notify_wait.                                               *)

\* A step at one barrier keeps the invariant if that barrier keeps its phase.
LEMMA NotifyStep ==
  ASSUME TwoBarriers, BarrierInv, mode = "notify", NEW w \in Workers, NEW p, Moved(w, p),
         UNCHANGED mode, \A v \in Workers \ {w} : th'[v] = th[v], ThreadShape',
         NEW b, b = BarrierOf(w), NEW m \in Members, bar' = [bar EXCEPT ![b] = m],
         NotifyPhase(b)'
  PROVE  BarrierInv'
<1>1. b \in 1..Barriers
  BY BarrierExists DEF BarrierInv
<1>2. BarrierShape' /\ \A c \in (1..Barriers) \ {b} : bar'[c] = bar[c]
  BY <1>1, BarrierChanges DEF BarrierInv, Shape
<1>3. \A c \in (1..Barriers) \ {b} : NotifyPhase(c)'
  BY <1>2, NotifyElsewhere
<1>4. Phases'
  BY <1>3 DEF Phases
<1>5. Shape' /\ Together'
  BY <1>2, Gone DEF BarrierInv, Shape
<1> QED
  BY <1>4, <1>5 DEF BarrierInv

\* Whoever is about to be counted finds the barrier gathering.
LEMMA GatheringFound ==
  ASSUME TwoBarriers, BarrierInv, mode = "notify", NEW w \in Workers, ~HasCome(w)
  PROVE  Gathering(BarrierOf(w))
<1> DEFINE b == BarrierOf(w)
<1>1. b \in 1..Barriers /\ NotifyPhase(b)
  BY BarrierExists DEF BarrierInv, Phases
<1>2. \A l \in Workers : ~Closing(b, l)
  BY DEF Closing, Arrived
<1>3. ASSUME Opened(b) PROVE Gathering(b)
  <2>1. Arrived(b) = {}
    BY <1>3, NobodyLeft DEF Opened, BarrierInv
  <2>2. Cardinality(Arrived(b)) = 0
    BY <2>1, CountOf
  <2> QED
    BY <1>3, <2>1, <2>2, SizeOfWorkers DEF Opened, Gathering
<1> QED
  BY <1>1, <1>2, <1>3 DEF NotifyPhase

\* A thread copies the future.
LEMMA CopyStep ==
  ASSUME TwoBarriers, BarrierInv, NEW w \in Workers, CopyFuture(w), NEW b, b = BarrierOf(w)
  PROVE  BarrierInv'
<1>1. /\ mode = "notify" /\ th[w].pc = "work" /\ th[w].visits < MaxVisits
      /\ UNCHANGED <<mode, bar>> /\ ~HasCome(w)
      /\ th' = [th EXCEPT ![w].pc = "count", ![w].future = bar[b].future]
  BY DEF CopyFuture, Comes, B, HasCome
<1>2. b \in 1..Barriers /\ bar[b] \in Members /\ bar[b].future \in Nat /\ NotifyPhase(b)
  BY <1>1, BarrierExists DEF BarrierInv, Shape, BarrierShape, Phases, Members
<1>3. /\ \A v \in Workers \ {w} : th'[v] = th[v]
      /\ th'[w].pc = "count" /\ th'[w].visits = th[w].visits /\ th'[w].future = bar[b].future
      /\ th' \in [Workers -> [pc : Places, visits : 0..MaxVisits, future : Nat]]
  BY ZenonT(30), <1>1, <1>2 DEF BarrierInv, Shape, ThreadShape, Places
<1>4. ThreadShape'
  BY <1>1, <1>3 DEF BarrierInv, Shape, ThreadShape, PlaceFits, NotifyPlaces
<1>5. Moved(w, "count")
  BY <1>1, <1>3 DEF Moved
<1>6. w \notin Arrived(b) /\ Arrived(b) \subseteq Workers /\ Arrived(b)' = Arrived(b)
  BY <1>1, <1>5, Gone DEF BarrierInv, Arrived
<1>7. \A v \in Workers : BarrierOf(v)' = b /\ th'[v].pc = "count" => th'[v].future = bar[b].future
  BY <1>2, <1>3, <1>5, Gone DEF BarrierInv, NotifyPhase
<1>8. \A v \in Workers : /\ Came(v) \in Int /\ Came(v)' \in Int /\ Came(v) <= Came(v)'
                         /\ th[v].visits \in Int
  BY <1>5, Gone DEF BarrierInv
<1>9. bar'[b] = bar[b] /\ bar' = [bar EXCEPT ![b] = bar[b]]
  <2>1. bar = [bar EXCEPT ![b] = bar[b]]
    BY DEF BarrierInv, Shape, BarrierShape
  <2> QED
    BY <1>1, <2>1
<1>10. NotifyPhase(b)'
  BY <1>2, <1>3, <1>6, <1>7, <1>8, <1>9, NotifyFrame
<1> QED
  BY <1>1, <1>2, <1>3, <1>4, <1>5, <1>9, <1>10, NotifyStep

\* A thread counts itself.
LEMMA CountStep ==
  ASSUME TwoBarriers, BarrierInv, NEW w \in Workers, Count(w), NEW b, b = BarrierOf(w),
         mode = "notify"
  PROVE  BarrierInv'
<1> DEFINE p == IF bar[b].notify + 1 = Size THEN "swap" ELSE "wait"
           m == [bar[b] EXCEPT !.notify = @ + 1]
<1>1. /\ th[w].pc = "count" /\ ~HasCome(w) /\ UNCHANGED mode /\ Goto(w, p)
      /\ bar' = [bar EXCEPT ![b] = m]
  BY DEF Count, At, B, HasCome
<1>2. b \in 1..Barriers /\ bar[b] \in Members /\ NotifyPhase(b) /\ Gathering(b)
  BY <1>1, BarrierExists, GatheringFound DEF BarrierInv, Shape, BarrierShape, Phases
<1>3. m \in Members /\ m.notify = bar[b].notify + 1 /\ m.future = bar[b].future
      /\ m.ready = bar[b].ready
  BY <1>2 DEF Members
<1>4. PlaceFits(p, th[w].visits)
  BY <1>1 DEF BarrierInv, Shape, ThreadShape, PlaceFits, NotifyPlaces
<1>5. /\ Moved(w, p) /\ ThreadShape' /\ th'[w].pc = p /\ th'[w].future = th[w].future
      /\ \A v \in Workers \ {w} : th'[v] = th[v]
  BY <1>1, <1>4, Going DEF BarrierInv
<1>6. bar'[b] = m
  BY <1>1, <1>2 DEF BarrierInv, Shape, BarrierShape
<1>7. /\ w \notin Arrived(b) /\ Arrived(b) \subseteq Workers
      /\ Arrived(b)' = Arrived(b) \cup {w}
      /\ \A v \in Workers : BarrierOf(v)' = BarrierOf(v)
  BY <1>1, <1>5, Gone DEF BarrierInv, Arrived
<1>8. /\ Cardinality(Arrived(b) \cup {w}) = bar[b].notify + 1
      /\ bar[b].notify + 1 <= Size
      /\ bar[b].notify + 1 = Size => Arrived(b) \cup {w} = Workers
  BY <1>2, <1>7, OneMore, CountOf, SizeOfWorkers DEF Gathering
<1>9. th[w].future = bar[b].future
  BY <1>1, <1>2 DEF NotifyPhase
<1>10. \A f \in bar[b].ready : f < bar[b].future
  BY <1>2 DEF NotifyPhase
<1>11. bar[b].future \in Nat /\ bar[b].ready \subseteq Nat /\ bar[b].notify \in Nat
  BY <1>2 DEF Members
<1>12. \A v \in Workers : BarrierOf(v)' = b /\ th'[v].pc = "count"
                       => th'[v].future = bar[b].future
  <2>1. p # "count"
    OBVIOUS
  <2> HIDE DEF p, m
  <2> QED
    BY <1>2, <1>5, <1>7, <2>1 DEF NotifyPhase
<1> HIDE DEF m
<1>13. ASSUME bar[b].notify + 1 = Size PROVE NotifyPhase(b)'
  <2>1. Closing(b, w)'
    <3>1. Arrived(b)' = Workers /\ th'[w].pc = "swap" /\ bar'[b].notify = Size
      BY <1>3, <1>5, <1>6, <1>7, <1>8, <1>13
    <3>2. \A v \in Workers \ {w} : th'[v].pc = "wait" /\ th'[v].future = bar[b].future
      BY <1>2, <1>5, <1>8, <1>13 DEF Gathering
    <3>3. \A v \in Workers : th'[v].future = bar[b].future
      BY <1>5, <1>9, <3>2
    <3>4. bar[b].future \notin bar[b].ready
      BY <1>10, <1>11
    <3> QED
      BY <1>3, <1>6, <3>1, <3>2, <3>3, <3>4 DEF Closing, Size
  <2> QED
    BY <1>3, <1>6, <1>10, <1>12, <2>1 DEF NotifyPhase
<1>14. ASSUME bar[b].notify + 1 # Size PROVE NotifyPhase(b)'
  <2>1. Gathering(b)'
    <3>1. \A v \in Arrived(b)' : th'[v].pc = "wait" /\ th'[v].future = bar[b].future
      BY <1>2, <1>5, <1>7, <1>9, <1>14 DEF Gathering
    <3>2. bar[b].notify + 1 < Size
      BY <1>8, <1>11, <1>14, SizeOfWorkers
    <3> QED
      BY <1>3, <1>6, <1>7, <1>8, <3>1, <3>2 DEF Gathering, Size
  <2> QED
    BY <1>3, <1>6, <1>10, <1>12, <2>1 DEF NotifyPhase
<1>15. NotifyPhase(b)'
  BY <1>13, <1>14
<1> HIDE DEF p
<1> QED
  BY <1>1, <1>3, <1>5, <1>15, NotifyStep

\* Only the last to come swaps, resets and releases.
LEMMA CloserFound ==
  ASSUME BarrierInv, mode = "notify", NEW w \in Workers, NEW b, b = BarrierOf(w),
         b \in 1..Barriers, th[w].pc \in {"swap", "reset", "release"}
  PROVE  Closing(b, w)
<1>1. NotifyPhase(b) /\ w \in Arrived(b)
  BY DEF BarrierInv, Phases, Arrived, HasCome
<1>2. ~Gathering(b) /\ ~Opened(b)
  BY <1>1 DEF Gathering, Opened
<1>3. PICK l \in Workers : Closing(b, l)
  BY <1>1, <1>2 DEF NotifyPhase
<1>4. l = w
  BY <1>3 DEF Closing
<1> QED
  BY <1>3, <1>4

\* The last thread makes a new promise.
LEMMA SwapStep ==
  ASSUME TwoBarriers, BarrierInv, NEW w \in Workers, SwapPromise(w), NEW b, b = BarrierOf(w),
         mode = "notify"
  PROVE  BarrierInv'
<1> DEFINE m == [bar[b] EXCEPT !.future = @ + 1]
<1>1. /\ th[w].pc = "swap" /\ UNCHANGED mode /\ Goto(w, "reset") /\ bar' = [bar EXCEPT ![b] = m]
  BY DEF SwapPromise, At
<1>2. b \in 1..Barriers /\ bar[b] \in Members /\ NotifyPhase(b) /\ Closing(b, w)
  BY <1>1, BarrierExists, CloserFound DEF BarrierInv, Shape, BarrierShape, Phases
<1>3. /\ m \in Members /\ m.notify = bar[b].notify /\ m.future = bar[b].future + 1
      /\ m.ready = bar[b].ready /\ bar[b].future \in Nat /\ bar[b].ready \subseteq Nat
  BY <1>2 DEF Members
<1>4. PlaceFits("reset", th[w].visits)
  BY <1>1 DEF BarrierInv, Shape, ThreadShape, PlaceFits, NotifyPlaces
<1>5. /\ Moved(w, "reset") /\ ThreadShape' /\ th'[w].pc = "reset"
      /\ th'[w].future = th[w].future /\ \A v \in Workers \ {w} : th'[v] = th[v]
  BY <1>1, <1>4, Going DEF BarrierInv
<1>6. bar'[b] = m
  BY <1>1, <1>2 DEF BarrierInv, Shape, BarrierShape
<1>7. Arrived(b) = Workers /\ Arrived(b)' = Workers
  <2>1. Arrived(b) = Workers
    BY <1>2 DEF Closing
  <2>2. Arrived(b)' = Arrived(b) \cup {w}
    BY <1>5, Gone DEF BarrierInv
  <2> QED
    BY <2>1, <2>2
<1> HIDE DEF m
<1>8. Closing(b, w)'
  <2>1. \A v \in Workers : th'[v].future = m.future - 1 /\ th'[v].future \notin m.ready
    BY <1>1, <1>2, <1>3, <1>5 DEF Closing
  <2> QED
    BY <1>1, <1>2, <1>3, <1>5, <1>6, <1>7, <2>1 DEF Closing, Size
<1>9. \A f \in m.ready : f < m.future
  BY <1>2, <1>3 DEF NotifyPhase
<1>10. \A v \in Workers : th'[v].pc # "count"
  BY <1>2, <1>5 DEF Closing
<1>11. NotifyPhase(b)'
  BY <1>6, <1>8, <1>9, <1>10 DEF NotifyPhase
<1> QED
  BY <1>1, <1>3, <1>5, <1>11, NotifyStep

\* The last thread resets the count.
LEMMA ResetStep ==
  ASSUME TwoBarriers, BarrierInv, NEW w \in Workers, ResetCount(w), NEW b, b = BarrierOf(w),
         mode = "notify"
  PROVE  BarrierInv'
<1> DEFINE m == [bar[b] EXCEPT !.notify = 0]
<1>1. /\ th[w].pc = "reset" /\ UNCHANGED mode /\ Goto(w, "release")
      /\ bar' = [bar EXCEPT ![b] = m]
  BY DEF ResetCount, At
<1>2. b \in 1..Barriers /\ bar[b] \in Members /\ NotifyPhase(b) /\ Closing(b, w)
  BY <1>1, BarrierExists, CloserFound DEF BarrierInv, Shape, BarrierShape, Phases
<1>3. m \in Members /\ m.notify = 0 /\ m.future = bar[b].future /\ m.ready = bar[b].ready
  BY <1>2 DEF Members
<1>4. PlaceFits("release", th[w].visits)
  BY <1>1 DEF BarrierInv, Shape, ThreadShape, PlaceFits, NotifyPlaces
<1>5. /\ Moved(w, "release") /\ ThreadShape' /\ th'[w].pc = "release"
      /\ th'[w].future = th[w].future /\ \A v \in Workers \ {w} : th'[v] = th[v]
  BY <1>1, <1>4, Going DEF BarrierInv
<1>6. bar'[b] = m
  BY <1>1, <1>2 DEF BarrierInv, Shape, BarrierShape
<1>7. Arrived(b) = Workers /\ Arrived(b)' = Workers
  <2>1. Arrived(b) = Workers
    BY <1>2 DEF Closing
  <2>2. Arrived(b)' = Arrived(b) \cup {w}
    BY <1>5, Gone DEF BarrierInv
  <2> QED
    BY <2>1, <2>2
<1> HIDE DEF m
<1>8. Closing(b, w)'
  BY <1>1, <1>2, <1>3, <1>5, <1>6, <1>7 DEF Closing, Size
<1>9. \A v \in Workers : th'[v].pc # "count"
  BY <1>2, <1>5 DEF Closing
<1>10. NotifyPhase(b)'
  BY <1>2, <1>3, <1>6, <1>8, <1>9 DEF NotifyPhase
<1> QED
  BY <1>1, <1>3, <1>5, <1>10, NotifyStep

\* The last thread sets the promise.
LEMMA ReleaseStep ==
  ASSUME TwoBarriers, BarrierInv, NEW w \in Workers, Release(w), NEW b, b = BarrierOf(w),
         mode = "notify"
  PROVE  BarrierInv'
<1> DEFINE m == [bar[b] EXCEPT !.ready = @ \union {th[w].future}]
<1>1. /\ th[w].pc = "release" /\ UNCHANGED mode /\ Goto(w, "wait")
      /\ bar' = [bar EXCEPT ![b] = m]
  BY DEF Release, At
<1>2. b \in 1..Barriers /\ bar[b] \in Members /\ NotifyPhase(b) /\ Closing(b, w)
  BY <1>1, BarrierExists, CloserFound DEF BarrierInv, Shape, BarrierShape, Phases
<1>3. /\ th[w].future \in Nat /\ m \in Members /\ m.notify = bar[b].notify
      /\ m.future = bar[b].future /\ m.ready = bar[b].ready \cup {th[w].future}
      /\ bar[b].future \in Nat
  BY <1>2 DEF Members, BarrierInv, Shape, ThreadShape
<1>4. PlaceFits("wait", th[w].visits)
  BY <1>1 DEF BarrierInv, Shape, ThreadShape, PlaceFits, NotifyPlaces
<1>5. /\ Moved(w, "wait") /\ ThreadShape' /\ th'[w].pc = "wait"
      /\ th'[w].future = th[w].future /\ \A v \in Workers \ {w} : th'[v] = th[v]
  BY <1>1, <1>4, Going DEF BarrierInv
<1>6. bar'[b] = m
  BY <1>1, <1>2 DEF BarrierInv, Shape, BarrierShape
<1>7. Arrived(b) = Workers /\ Arrived(b)' = Workers
  <2>1. Arrived(b) = Workers
    BY <1>2 DEF Closing
  <2>2. Arrived(b)' = Arrived(b) \cup {w}
    BY <1>5, Gone DEF BarrierInv
  <2> QED
    BY <2>1, <2>2
<1>8. EverybodyCame(b)'
  <2>1. EverybodyCame(b)
    BY <1>7, AllAtOne DEF BarrierInv
  <2> QED
    BY <1>5, <1>7, <2>1, Gone DEF EverybodyCame, BarrierInv
<1> HIDE DEF m
<1>9. Opened(b)'
  <2>1. \A v \in Workers : th'[v].pc = "wait" /\ th'[v].future \in m.ready
    BY <1>1, <1>2, <1>3, <1>5 DEF Closing
  <2>2. m.notify = 0
    BY <1>1, <1>2, <1>3 DEF Closing
  <2> QED
    BY <1>6, <1>7, <1>8, <2>1, <2>2 DEF Opened
<1>10. \A f \in m.ready : f < m.future
  <2>1. th[w].future = bar[b].future - 1
    BY <1>1, <1>2 DEF Closing
  <2> QED
    BY <1>2, <1>3, <2>1 DEF NotifyPhase
<1>11. \A v \in Workers : th'[v].pc # "count"
  BY <1>2, <1>5 DEF Closing
<1>12. NotifyPhase(b)'
  BY <1>6, <1>9, <1>10, <1>11 DEF NotifyPhase
<1> QED
  BY <1>1, <1>3, <1>5, <1>12, NotifyStep

\* A waiting thread sees the future set.
LEMMA WakeStep ==
  ASSUME TwoBarriers, BarrierInv, NEW w \in Workers, WakeByFuture(w), NEW b, b = BarrierOf(w),
         mode = "notify"
  PROVE  BarrierInv'
<1>1. /\ th[w].pc = "wait" /\ UNCHANGED mode /\ Goto(w, "check") /\ bar' = bar
      /\ th[w].future \in bar[b].ready
  BY DEF WakeByFuture, At, B
<1>2. /\ b \in 1..Barriers /\ bar[b] \in Members /\ NotifyPhase(b)
      /\ bar[b].future \in Nat /\ bar[b].ready \subseteq Nat
      /\ bar' = [bar EXCEPT ![b] = bar[b]]
  <2>1. bar = [bar EXCEPT ![b] = bar[b]]
    BY DEF BarrierInv, Shape, BarrierShape
  <2> QED
    BY <1>1, <2>1, BarrierExists DEF BarrierInv, Shape, BarrierShape, Phases, Members
<1>3. PlaceFits("check", th[w].visits)
  BY <1>1 DEF BarrierInv, Shape, ThreadShape, PlaceFits, NotifyPlaces
<1>4. /\ Moved(w, "check") /\ ThreadShape' /\ th'[w].pc = "check"
      /\ th'[w].future = th[w].future /\ \A v \in Workers \ {w} : th'[v] = th[v]
  BY <1>1, <1>3, Going DEF BarrierInv
<1>5. w \in Arrived(b) /\ Arrived(b)' = Arrived(b) /\ Arrived(b) \subseteq Workers
  BY <1>1, <1>4, Gone DEF BarrierInv, Arrived, HasCome
<1>6. Opened(b)
  <2>1. ~Gathering(b)
    BY <1>1, <1>2, <1>5 DEF Gathering, NotifyPhase
  <2>2. \A l \in Workers : ~Closing(b, l)
    BY <1>1 DEF Closing
  <2> QED
    BY <1>2, <2>1, <2>2 DEF NotifyPhase
<1>7. EverybodyCame(b)'
  BY <1>4, <1>5, <1>6, Gone DEF EverybodyCame, BarrierInv, Opened
<1>8. Opened(b)'
  BY <1>1, <1>4, <1>5, <1>6, <1>7 DEF Opened
<1>9. \A v \in Workers : BarrierOf(v)' = b /\ th'[v].pc = "count" => th'[v].future = bar[b].future
  BY <1>2, <1>4, Gone DEF BarrierInv, NotifyPhase
<1>10. NotifyPhase(b)'
  BY <1>1, <1>2, <1>8, <1>9 DEF NotifyPhase
<1> QED
  BY <1>1, <1>2, <1>4, <1>10, NotifyStep

-----------------------------------------------------------------------------
(* The steps of spin_wait and cv_wait.                                     *)

\* The members after a thread came or left.
LEMMA EnteredLeft ==
  ASSUME NEW m \in Members
  PROVE  /\ Entered(m) \in Members /\ Left(m) \in Members
         /\ Entered(m).notify = m.notify /\ Left(m).notify = m.notify
         /\ Entered(m).counter = m.counter + 1 /\ Entered(m).waiting = m.waiting + 1
         /\ Left(m).waiting = m.waiting - 1
         /\ Left(m).counter = IF m.waiting = 1 THEN 0 ELSE m.counter
         /\ m.counter \in Nat /\ m.waiting \in Int
<1>1. /\ m.notify \in Nat /\ m.counter \in Nat /\ m.waiting \in Int
      /\ m.counter + 1 \in Nat /\ m.waiting + 1 \in Int /\ m.waiting - 1 \in Int
      /\ (IF m.waiting = 1 THEN 0 ELSE m.counter) \in Nat
  BY DEF Members
<1>2. ASSUME NEW c \in Nat, NEW n \in Int
      PROVE  [[m EXCEPT !.counter = c] EXCEPT !.waiting = n] \in Members
  <2>1. [m EXCEPT !.counter = c] \in Members
    BY DEF Members
  <2> QED
    BY <2>1 DEF Members
<1>3. Entered(m) = [[m EXCEPT !.counter = m.counter + 1] EXCEPT !.waiting = m.waiting + 1]
  BY DEF Members, Entered
<1>4. Left(m) = [[m EXCEPT !.counter = IF m.waiting = 1 THEN 0 ELSE m.counter]
                  EXCEPT !.waiting = m.waiting - 1]
  BY DEF Members, Left
<1>5. Entered(m) \in Members
  BY <1>1, <1>2, <1>3
<1>6. Left(m) \in Members
  BY <1>1, <1>2, <1>4
<1>7. /\ Entered(m).notify = m.notify /\ Left(m).notify = m.notify
      /\ Entered(m).counter = m.counter + 1 /\ Entered(m).waiting = m.waiting + 1
      /\ Left(m).waiting = m.waiting - 1
      /\ Left(m).counter = IF m.waiting = 1 THEN 0 ELSE m.counter
  BY DEF Members, Entered, Left
<1> QED
  BY <1>1, <1>5, <1>6, <1>7

\* A step of the two modes with a counter.
LEMMA CounterStep ==
  ASSUME TwoBarriers, BarrierInv, mode # "notify", NEW w \in Workers, NEW p, Moved(w, p),
         UNCHANGED mode, ThreadShape',
         NEW b, b = BarrierOf(w), NEW m \in Members, bar' = [bar EXCEPT ![b] = m],
         CounterPhase(b)'
  PROVE  BarrierInv'
<1>1. b \in 1..Barriers
  BY BarrierExists DEF BarrierInv
<1>2. BarrierShape' /\ \A c \in (1..Barriers) \ {b} : bar'[c] = bar[c]
  BY <1>1, BarrierChanges DEF BarrierInv, Shape
<1>3. \A c \in (1..Barriers) \ {b} : CounterPhase(c)'
  BY <1>2, CounterElsewhere
<1>4. Phases'
  BY <1>3 DEF Phases
<1>5. Shape' /\ Together'
  BY <1>2, Gone DEF BarrierInv, Shape
<1> QED
  BY <1>4, <1>5 DEF BarrierInv

\* Whoever comes finds the barrier filling, and nobody left from before.
LEMMA FillingFound ==
  ASSUME TwoBarriers, BarrierInv, mode # "notify", NEW w \in Workers, ~HasCome(w)
  PROVE  Filling(BarrierOf(w))
<1> DEFINE b == BarrierOf(w)
<1>1. b \in 1..Barriers /\ CounterPhase(b)
  BY BarrierExists DEF BarrierInv, Phases
<1>2. ASSUME Emptying(b) PROVE Filling(b)
  <2>1. Arrived(b) = {}
    BY <1>2, NobodyLeft DEF Emptying, BarrierInv
  <2>2. Waiters(b) = {}
    BY <2>1 DEF Arrived, Waiters, HasCome
  <2>3. Cardinality(Arrived(b)) = 0
    BY <2>1, CountOf
  <2> QED
    BY <1>2, <2>1, <2>2, <2>3, SizeOfWorkers DEF Emptying, Filling
<1> QED
  BY <1>1, <1>2 DEF CounterPhase

\* A thread comes: the last one opens the barrier.
LEMMA EnterStep ==
  ASSUME TwoBarriers, BarrierInv, mode # "notify", NEW w \in Workers, UNCHANGED mode,
         th[w].pc = "work", th[w].visits < MaxVisits, NEW b, b = BarrierOf(w),
         bar' = [bar EXCEPT ![b] = Entered(bar[b])],
         NEW p \in {"spin", "sleep", "leave"}, Goto(w, p),
         p = "leave" => bar[b].counter + 1 >= Size
  PROVE  BarrierInv'
<1> DEFINE m == Entered(bar[b])
<1>1. ~HasCome(w)
  BY DEF HasCome
<1>2. b \in 1..Barriers /\ bar[b] \in Members /\ CounterPhase(b) /\ Filling(b)
  BY <1>1, BarrierExists, FillingFound DEF BarrierInv, Shape, BarrierShape, Phases
<1>3. /\ m \in Members /\ m.notify = bar[b].notify /\ m.counter = bar[b].counter + 1
      /\ m.waiting = bar[b].waiting + 1 /\ bar[b].counter \in Nat
  BY <1>2, EnteredLeft
<1>4. PlaceFits(p, th[w].visits)
  BY DEF BarrierInv, Shape, ThreadShape, PlaceFits, CounterPlaces
<1>5. /\ Moved(w, p) /\ ThreadShape' /\ th'[w].pc = p
      /\ \A v \in Workers \ {w} : th'[v] = th[v]
  BY <1>1, <1>4, Going DEF BarrierInv
<1>6. bar'[b] = m
  BY <1>2 DEF BarrierInv, Shape, BarrierShape
<1> HIDE DEF m
<1>7. /\ w \notin Arrived(b) /\ Arrived(b) \subseteq Workers
      /\ Arrived(b)' = Arrived(b) \cup {w} /\ Waiters(b)' = Waiters(b) \cup {w}
  BY <1>1, <1>5, Gone DEF BarrierInv, Arrived
<1>8. Waiters(b) = Arrived(b) /\ bar[b].counter = Cardinality(Arrived(b))
  BY <1>2 DEF Filling
<1>9. /\ Cardinality(Arrived(b) \cup {w}) = bar[b].counter + 1
      /\ bar[b].counter + 1 <= Size
      /\ bar[b].counter + 1 = Size => Arrived(b) \cup {w} = Workers
  BY <1>7, <1>8, OneMore, CountOf, SizeOfWorkers
<1>10. m.notify = 0 /\ m.waiting = Cardinality(Arrived(b) \cup {w})
  BY <1>2, <1>3, <1>8, <1>9 DEF CounterPhase
<1>11. ASSUME bar[b].counter + 1 = Size PROVE Emptying(b)'
  <2>1. ASSUME NEW u \in Workers, NEW v \in Workers PROVE th'[u].visits < Came(v)'
    <3>1. BarrierOf(u)' = b /\ BarrierOf(v)' = b /\ HasCome(v)'
      BY <1>7, <1>9, <1>11 DEF Arrived
    <3>2. BarrierOf(u) = BarrierOf(v)
      BY <1>5, <3>1, Gone DEF BarrierInv
    <3>3. th'[u].visits = th'[v].visits /\ th'[v].visits \in Nat
      BY <1>5, <3>2, SameVisit, Gone DEF BarrierInv
    <3> QED
      BY <3>1, <3>3 DEF Came
  <2>2. EverybodyCame(b)'
    BY <1>7, <2>1 DEF EverybodyCame
  <2> QED
    BY <1>3, <1>6, <1>7, <1>11, <2>2 DEF Emptying, Size
<1>12. ASSUME bar[b].counter + 1 # Size PROVE Filling(b)'
  <2>1. bar[b].counter + 1 < Size /\ p # "leave"
    BY <1>3, <1>9, <1>12, SizeOfWorkers
  <2>2. \A v \in Arrived(b)' : th'[v].pc # "leave"
    BY <1>2, <1>5, <1>7, <2>1 DEF Filling
  <2> QED
    BY <1>3, <1>6, <1>7, <1>8, <1>9, <2>1, <2>2 DEF Filling, Size
<1>13. CounterPhase(b)'
  BY <1>6, <1>7, <1>8, <1>10, <1>11, <1>12 DEF CounterPhase
<1> QED
  BY <1>3, <1>5, <1>13, CounterStep DEF m

\* A thread that waits goes on, or falls asleep, or wakes up.
LEMMA WaitStep ==
  ASSUME TwoBarriers, BarrierInv, mode # "notify", NEW w \in Workers, UNCHANGED <<mode, bar>>,
         th[w].pc \in {"spin", "sleep", "awake"}, NEW b, b = BarrierOf(w),
         NEW p \in {"sleep", "awake", "leave"}, Goto(w, p),
         p = "leave" => bar[b].counter >= Size
  PROVE  BarrierInv'
<1>1. /\ b \in 1..Barriers /\ bar[b] \in Members /\ CounterPhase(b)
      /\ bar' = [bar EXCEPT ![b] = bar[b]]
  <2>1. bar = [bar EXCEPT ![b] = bar[b]]
    BY DEF BarrierInv, Shape, BarrierShape
  <2> QED
    BY <2>1, BarrierExists DEF BarrierInv, Shape, BarrierShape, Phases
<1>2. PlaceFits(p, th[w].visits)
  BY DEF BarrierInv, Shape, ThreadShape, PlaceFits, CounterPlaces
<1>3. Moved(w, p) /\ ThreadShape' /\ \A v \in Workers \ {w} : th'[v] = th[v]
  BY <1>2, Going DEF BarrierInv
<1>4. /\ w \in Arrived(b) /\ w \in Waiters(b)
      /\ Arrived(b) \subseteq Workers /\ Waiters(b) \subseteq Workers
  BY DEF Arrived, Waiters, HasCome
<1>5. Arrived(b)' = Arrived(b) /\ Waiters(b)' = Waiters(b)
  <2>1. Arrived(b)' = Arrived(b) \cup {w}
    BY <1>3, Gone DEF BarrierInv
  <2>2. Waiters(b)' = Waiters(b) \cup {w}
    BY <1>3, Gone DEF BarrierInv
  <2> QED
    BY <1>4, <2>1, <2>2
<1>6. p = "leave" => ~Filling(b)
  BY <1>1, SizeOfWorkers DEF Filling, Members
<1>7. \A v \in Workers : /\ Came(v) \in Int /\ Came(v)' \in Int /\ Came(v) <= Came(v)'
                         /\ th[v].visits \in Int /\ th'[v].visits = th[v].visits
  BY <1>3, Gone DEF BarrierInv
<1>8. (\E v \in Arrived(b) : th'[v].pc = "leave" /\ th[v].pc # "leave") => ~Filling(b)
  BY <1>3, <1>4, <1>6 DEF Moved
<1>9. CounterPhase(b)'
  BY <1>1, <1>4, <1>5, <1>7, <1>8, CounterFrame
<1> QED
  BY <1>1, <1>3, <1>9, CounterStep

\* A thread leaves; the last one takes the counter back.
LEMMA LeaveStep ==
  ASSUME TwoBarriers, BarrierInv, mode # "notify", NEW w \in Workers, UNCHANGED mode,
         th[w].pc = "leave", NEW b, b = BarrierOf(w),
         bar' = [bar EXCEPT ![b] = Left(bar[b])], Moved(w, "check"), ThreadShape'
  PROVE  BarrierInv'
<1> DEFINE m == Left(bar[b])
<1>1. b \in 1..Barriers /\ bar[b] \in Members /\ CounterPhase(b)
  BY BarrierExists DEF BarrierInv, Shape, BarrierShape, Phases
<1>2. /\ m \in Members /\ m.notify = bar[b].notify /\ m.waiting = bar[b].waiting - 1
      /\ m.counter = IF bar[b].waiting = 1 THEN 0 ELSE bar[b].counter
  BY <1>1, EnteredLeft
<1>3. bar'[b] = m
  BY <1>1 DEF BarrierInv, Shape, BarrierShape
<1> HIDE DEF m
<1>4. /\ w \in Arrived(b) /\ Arrived(b) \subseteq Workers
      /\ w \in Waiters(b) /\ Waiters(b) \subseteq Workers
  BY DEF Arrived, Waiters, HasCome
<1>5. Arrived(b)' = Arrived(b) /\ Waiters(b)' = Waiters(b) \ {w}
  <2>1. Arrived(b)' = Arrived(b) \cup {w}
    BY Gone DEF BarrierInv
  <2>2. Waiters(b)' = Waiters(b) \ {w}
    BY Gone DEF BarrierInv
  <2> QED
    BY <1>4, <2>1, <2>2
<1>6. Emptying(b)
  BY <1>1, <1>4 DEF CounterPhase, Filling
<1>7. bar[b].counter = Size /\ bar[b].waiting = Cardinality(Waiters(b)) /\ bar[b].notify = 0
  BY <1>1, <1>4, <1>6 DEF CounterPhase, Emptying
<1>8. Cardinality(Waiters(b) \ {w}) = bar[b].waiting - 1 /\ bar[b].waiting \in Int
  BY <1>1, <1>4, <1>7, OneLess DEF Members
<1>9. bar[b].waiting = 1 <=> Waiters(b) \ {w} = {}
  <2>1. Waiters(b) \ {w} \subseteq Workers
    BY <1>4
  <2>2. Cardinality(Waiters(b) \ {w}) = 0 <=> Waiters(b) \ {w} = {}
    BY <2>1, CountOf
  <2> QED
    BY <1>8, <2>2
<1>10. EverybodyCame(b)'
  BY <1>4, <1>5, <1>6, Gone DEF EverybodyCame, BarrierInv, Emptying
<1>11. Emptying(b)'
  BY <1>2, <1>3, <1>5, <1>7, <1>9, <1>10 DEF Emptying, Size
<1>12. CounterPhase(b)'
  BY <1>2, <1>3, <1>5, <1>7, <1>8, <1>11 DEF CounterPhase
<1> QED
  BY <1>2, <1>12, CounterStep DEF m

\* ... and wakes one that sleeps, if any does.
LEMMA LeaveMoves ==
  ASSUME BarrierInv, mode # "notify", NEW w \in Workers, LeaveSpin(w) \/ LeaveCv(w)
  PROVE  Moved(w, "check") /\ ThreadShape'
<1>1. th[w].pc = "leave" /\ UNCHANGED mode
  BY DEF LeaveSpin, LeaveCv, At
<1>2. PlaceFits("check", th[w].visits)
  BY <1>1 DEF BarrierInv, Shape, ThreadShape, PlaceFits, CounterPlaces
<1>3. CASE Goto(w, "check")
  BY <1>1, <1>2, <1>3, Going DEF BarrierInv
<1>4. CASE ~Goto(w, "check")
  <2>1. PICK v \in Workers :
          th[v].pc = "sleep" /\ th' = [th EXCEPT ![w].pc = "check", ![v].pc = "awake"]
    BY <1>4 DEF LeaveSpin, LeaveCv, Sleepers
  <2>2. v # w
    BY <1>1, <2>1
  <2>3. /\ th' \in [Workers -> [pc : Places, visits : 0..MaxVisits, future : Nat]]
        /\ th'[w].pc = "check" /\ th'[w].visits = th[w].visits
        /\ th'[v].pc = "awake" /\ th'[v].visits = th[v].visits
        /\ \A u \in Workers \ {v, w} : th'[u] = th[u]
    BY <2>1, <2>2 DEF BarrierInv, Shape, ThreadShape, Places
  <2>4. Moved(w, "check")
    BY <2>1, <2>3 DEF Moved
  <2>5. PlaceFits("awake", th[v].visits)
    BY <2>1 DEF BarrierInv, Shape, ThreadShape, PlaceFits, CounterPlaces
  <2>6. \A u \in Workers : PlaceFits(th'[u].pc, th'[u].visits)
    BY <1>2, <2>3, <2>5 DEF BarrierInv, Shape, ThreadShape
  <2> QED
    BY <1>1, <2>3, <2>4, <2>6 DEF ThreadShape, PlaceFits
<1> QED
  BY <1>3, <1>4

-----------------------------------------------------------------------------
(* From visit to visit.                                                    *)

\* Whoever is through a barrier finds its count at zero, and everybody has come.
LEMMA ThroughAll ==
  ASSUME TwoBarriers, BarrierInv, NEW w \in Workers, th[w].pc = "check", NEW b, b = BarrierOf(w)
  PROVE  /\ b \in 1..Barriers /\ w \in Arrived(b) /\ bar[b].notify = 0 /\ EverybodyCame(b)
         /\ IF mode = "notify" THEN Opened(b) ELSE Emptying(b)
<1>1. b \in 1..Barriers /\ w \in Arrived(b)
  BY BarrierExists DEF BarrierInv, Arrived, HasCome
<1>2. CASE mode = "notify"
  <2>1. NotifyPhase(b)
    BY <1>1, <1>2 DEF BarrierInv, Phases
  <2>2. ~Gathering(b) /\ \A l \in Workers : ~Closing(b, l)
    BY <1>1 DEF Gathering, Closing
  <2> QED
    BY <1>1, <1>2, <2>1, <2>2 DEF NotifyPhase, Opened
<1>3. CASE mode # "notify"
  <2>1. CounterPhase(b)
    BY <1>1, <1>3 DEF BarrierInv, Phases
  <2>2. ~Filling(b)
    BY <1>1 DEF Filling, Waiters
  <2> QED
    BY <1>1, <1>3, <2>1, <2>2 DEF CounterPhase, Emptying
<1> QED
  BY <1>2, <1>3

\* What CheckCount does: the thread goes on to its next visit, at another barrier.
LEMMA NextVisit ==
  ASSUME TwoBarriers, BarrierInv, NEW w \in Workers, CheckCount(w), NEW b, b = BarrierOf(w)
  PROVE  /\ th[w].pc = "check" /\ UNCHANGED <<mode, bar>> /\ ThreadShape'
         /\ th'[w].pc = "work" /\ th[w].visits \in Nat /\ th'[w].visits = th[w].visits + 1
         /\ \A v \in Workers \ {w} : th'[v] = th[v] /\ BarrierOf(v)' = BarrierOf(v)
         /\ BarrierOf(w)' # b
         /\ \A v \in Workers : Came(v)' = Came(v) /\ Came(v) \in Int
<1>1. bar[b].notify = 0 /\ th[w].pc = "check" /\ UNCHANGED <<mode, bar>>
  BY ThroughAll DEF CheckCount, At
<1>2. th' = [th EXCEPT ![w] = [th[w] EXCEPT !.pc = "work", !.visits = th[w].visits + 1]]
  <2>1. ~(B(w).notify > 0)
    BY <1>1 DEF B
  <2> QED
    BY <2>1, <1>1 DEF CheckCount
<1>3. th[w].visits < MaxVisits /\ th[w].visits \in 0..MaxVisits
  BY <1>1 DEF BarrierInv, Shape, ThreadShape, PlaceFits
<1>4. /\ \A v \in Workers \ {w} : th'[v] = th[v]
      /\ th'[w].pc = "work" /\ th'[w].visits = th[w].visits + 1
      /\ th'[w].future = th[w].future
  BY <1>2 DEF BarrierInv, Shape, ThreadShape
<1>5. th[w].visits + 1 \in 0..MaxVisits
  BY <1>3, BarrierAssumption
<1>6. th' \in [Workers -> [pc : Places, visits : 0..MaxVisits, future : Nat]]
  <2> DEFINE r == [[th[w] EXCEPT !.pc = "work"] EXCEPT !.visits = th[w].visits + 1]
  <2>1. [th[w] EXCEPT !.pc = "work"] \in [pc : Places, visits : 0..MaxVisits, future : Nat]
    BY DEF BarrierInv, Shape, ThreadShape, Places
  <2>2. r \in [pc : Places, visits : 0..MaxVisits, future : Nat]
    BY <1>5, <2>1
  <2>3. r = [th[w] EXCEPT !.pc = "work", !.visits = th[w].visits + 1]
    BY DEF BarrierInv, Shape, ThreadShape
  <2> HIDE DEF r
  <2> QED
    BY <1>2, <2>2, <2>3 DEF BarrierInv, Shape, ThreadShape
<1>7. ThreadShape'
  BY <1>1, <1>4, <1>6 DEF BarrierInv, Shape, ThreadShape, PlaceFits, NotifyPlaces, CounterPlaces
<1>8. \A v \in Workers \ {w} : BarrierOf(v)' = BarrierOf(v)
  BY <1>4 DEF BarrierOf
<1>9. BarrierOf(w)' # b
  <2> DEFINE x == th[w].visits
             y == th'[w].visits
  <2>1. x \in Nat /\ y = x + 1 /\ y \in Nat
    BY <1>3, <1>4, BarrierAssumption
  <2>2. b = (x % Barriers) + 1 /\ BarrierOf(w)' = (y % Barriers) + 1
    BY DEF BarrierOf
  <2> HIDE DEF x, y
  <2>3. x % Barriers # y % Barriers
    BY <2>1, Turns
  <2>4. x % Barriers \in Int /\ y % Barriers \in Int
    BY <2>1, SMT DEF TwoBarriers
  <2> QED
    BY <2>2, <2>3, <2>4
<1>10. \A v \in Workers : th[v].visits \in Nat
  BY BarrierAssumption DEF BarrierInv, Shape, ThreadShape
<1>11. \A v \in Workers : Came(v)' = Came(v) /\ Came(v) \in Int
  BY <1>1, <1>4, <1>10 DEF Came, HasCome
<1> QED
  BY <1>1, <1>3, <1>4, <1>7, <1>8, <1>9, <1>10, <1>11

\* ops_main looks at the count.
LEMMA CheckStep ==
  ASSUME TwoBarriers, BarrierInv, NEW w \in Workers, CheckCount(w), NEW b, b = BarrierOf(w)
  PROVE  BarrierInv'
<1>1. /\ th[w].pc = "check" /\ UNCHANGED <<mode, bar>> /\ ThreadShape'
      /\ th'[w].pc = "work" /\ th[w].visits \in Nat /\ th'[w].visits = th[w].visits + 1
      /\ \A v \in Workers \ {w} : th'[v] = th[v] /\ BarrierOf(v)' = BarrierOf(v)
      /\ BarrierOf(w)' # b
      /\ \A v \in Workers : Came(v)' = Came(v) /\ Came(v) \in Int
  BY NextVisit
<1>2. /\ b \in 1..Barriers /\ w \in Arrived(b) /\ bar[b].notify = 0 /\ EverybodyCame(b)
      /\ IF mode = "notify" THEN Opened(b) ELSE Emptying(b)
  BY <1>1, ThroughAll
<1>3. /\ \A c : Arrived(c) \subseteq Workers /\ Arrived(c)' = Arrived(c) \ {w}
      /\ \A c : Waiters(c)' = Waiters(c)
  <2>1. \A c : Arrived(c) \subseteq Workers /\ Arrived(c)' = Arrived(c) \ {w}
    BY <1>1 DEF Arrived, HasCome
  <2>2. \A c : Waiters(c)' = Waiters(c)
    BY <1>1 DEF Waiters
  <2> QED
    BY <2>1, <2>2
<1>4. \A v \in Workers : th[v].visits \in Nat /\ th'[v].visits \in Nat
  BY <1>1, BarrierAssumption DEF BarrierInv, Shape, ThreadShape
<1>5. Together'
  <2>1. \A v \in Workers : th'[w].visits <= Came(v)'
    BY <1>1, <1>2, <1>4 DEF EverybodyCame
  <2>2. \A v \in Workers, u \in Workers \ {w} : th'[u].visits <= Came(v)'
    BY <1>1 DEF Together, BarrierInv
  <2> QED
    BY <2>1, <2>2 DEF Together
<1>6. Shape'
  BY <1>1 DEF BarrierInv, Shape, BarrierShape
<1>7. EverybodyCame(b)'
  BY <1>1, <1>2, <1>3 DEF EverybodyCame
<1>8. CASE mode = "notify"
  <2>1. ASSUME NEW c \in 1..Barriers, c # b PROVE NotifyPhase(c)'
    <3>1. NotifyPhase(c) /\ bar'[c] = bar[c] /\ w \notin Arrived(c)
      BY <1>1, <1>8, <2>1 DEF BarrierInv, Phases, Arrived
    <3>2. Arrived(c)' = Arrived(c) /\ \A v \in Arrived(c) : th'[v] = th[v]
      BY <1>1, <1>3, <3>1
    <3>3. \A v \in Workers : BarrierOf(v)' = c /\ th'[v].pc = "count"
                             => th'[v].future = bar[c].future
      BY <1>1, <3>1 DEF NotifyPhase
    <3>4. \A v \in Workers : /\ Came(v) \in Int /\ Came(v)' \in Int /\ Came(v) <= Came(v)'
                             /\ th[v].visits \in Int
      BY <1>1, <1>4
    <3> QED
      BY <3>1, <3>2, <3>3, <3>4, NotifyFrame
  <2>2. NotifyPhase(b)'
    <3>1. Opened(b)' /\ bar'[b] = bar[b]
      BY <1>1, <1>2, <1>3, <1>7, <1>8 DEF Opened
    <3>2. NotifyPhase(b)
      BY <1>2, <1>8 DEF BarrierInv, Phases
    <3>3. \A v \in Workers : BarrierOf(v)' = b /\ th'[v].pc = "count"
                             => th'[v].future = bar[b].future
      BY <1>1, <3>2 DEF NotifyPhase
    <3> QED
      BY <3>1, <3>2, <3>3 DEF NotifyPhase
  <2>3. Phases'
    BY <1>1, <1>8, <2>1, <2>2 DEF Phases
  <2> QED
    BY <1>5, <1>6, <2>3 DEF BarrierInv
<1>9. CASE mode # "notify"
  <2>1. ASSUME NEW c \in 1..Barriers, c # b PROVE CounterPhase(c)'
    <3>1. CounterPhase(c) /\ bar'[c] = bar[c] /\ w \notin Arrived(c)
      BY <1>1, <1>9, <2>1 DEF BarrierInv, Phases, Arrived
    <3>2. /\ Arrived(c)' = Arrived(c) /\ Waiters(c)' = Waiters(c)
          /\ \A v \in Arrived(c) : th'[v] = th[v]
      BY <1>1, <1>3, <3>1
    <3>3. \A v \in Workers : /\ Came(v) \in Int /\ Came(v)' \in Int /\ Came(v) <= Came(v)'
                             /\ th[v].visits \in Int
      BY <1>1, <1>4
    <3> QED
      BY <3>1, <3>2, <3>3, CounterFrame
  <2>2. CounterPhase(b)'
    <3>1. CounterPhase(b) /\ bar'[b] = bar[b]
      BY <1>1, <1>2, <1>9 DEF BarrierInv, Phases
    <3>2. Emptying(b)'
      BY <1>2, <1>3, <1>7, <1>9, <3>1 DEF Emptying, Size
    <3> QED
      BY <1>3, <3>1, <3>2 DEF CounterPhase
  <2>3. Phases'
    BY <1>1, <1>9, <2>1, <2>2 DEF Phases
  <2> QED
    BY <1>5, <1>6, <2>3 DEF BarrierInv
<1> QED
  BY <1>8, <1>9

-----------------------------------------------------------------------------
(* The theorems.                                                           *)

\* It holds before the first visit.
LEMMA InitInv == TwoBarriers /\ Init => BarrierInv
<1> SUFFICES ASSUME TwoBarriers, Init PROVE BarrierInv
  OBVIOUS
<1>1. /\ mode \in Modes /\ \A b \in 1..Barriers : bar[b] = NewBarrier
      /\ \A w \in Workers : th[w] = [pc |-> "work", visits |-> 0, future |-> 0]
  BY DEF Init
<1>2. Shape
  <2>1. NewBarrier \in Members
    BY DEF NewBarrier, Members
  <2>2. BarrierShape
    BY <2>1 DEF Init, BarrierShape
  <2>3. ThreadShape
    BY BarrierAssumption
       DEF Init, ThreadShape, PlaceFits, Places, NotifyPlaces, CounterPlaces
  <2> QED
    BY <1>1, <2>2, <2>3 DEF Shape
<1>3. \A w \in Workers : th[w].visits = 0 /\ th[w].pc = "work" /\ Came(w) = 0
  BY <1>1 DEF Came, HasCome
<1>4. Together
  BY <1>3 DEF Together
<1>5. ASSUME NEW b \in 1..Barriers PROVE NotifyPhase(b) /\ CounterPhase(b)
  <2>1. Arrived(b) = {} /\ Waiters(b) = {}
    BY <1>3 DEF Arrived, Waiters, HasCome
  <2>2. Cardinality(Arrived(b)) = 0 /\ Cardinality(Waiters(b)) = 0
    BY <2>1, CountOf
  <2>3. /\ bar[b].notify = 0 /\ bar[b].counter = 0 /\ bar[b].waiting = 0 /\ bar[b].ready = {}
    BY <1>1 DEF NewBarrier
  <2>4. Gathering(b) /\ Filling(b)
    BY <2>1, <2>2, <2>3, SizeOfWorkers DEF Gathering, Filling
  <2> QED
    BY <1>3, <2>2, <2>3, <2>4 DEF NotifyPhase, CounterPhase
<1> QED
  BY <1>2, <1>4, <1>5 DEF BarrierInv, Phases

\* The mode decides which steps there are.
LEMMA Inductive == TwoBarriers /\ BarrierInv /\ [Next]_vars => BarrierInv'
<1> SUFFICES ASSUME TwoBarriers, BarrierInv, [Next]_vars PROVE BarrierInv'
  OBVIOUS
<1>1. CASE UNCHANGED vars
  <2>1. UNCHANGED <<mode, bar, th>>
    BY <1>1 DEF vars
  <2>2. Shape'
    BY <2>1 DEF BarrierInv, Shape, BarrierShape, ThreadShape, PlaceFits
  <2>3. \A v \in Workers : BarrierOf(v)' = BarrierOf(v) /\ Came(v)' = Came(v)
    BY <2>1 DEF BarrierOf, Came, HasCome
  <2>4. \A b : Arrived(b)' = Arrived(b) /\ Waiters(b)' = Waiters(b)
    BY <2>1, <2>3 DEF Arrived, Waiters, HasCome
  <2>5. Together' /\ \A b : EverybodyCame(b) => EverybodyCame(b)'
    BY <2>1, <2>3, <2>4 DEF BarrierInv, Together, EverybodyCame, Arrived
  <2>6. ASSUME NEW b, NotifyPhase(b) PROVE NotifyPhase(b)'
    <3>1. Gathering(b) => Gathering(b)'
      BY <2>1, <2>4 DEF Gathering, Size
    <3>2. \A l \in Workers : Closing(b, l) => Closing(b, l)'
      BY <2>1, <2>4 DEF Closing, Size
    <3>3. Opened(b) => Opened(b)'
      BY <2>1, <2>4, <2>5 DEF Opened
    <3> QED
      BY <2>1, <2>3, <2>6, <3>1, <3>2, <3>3 DEF NotifyPhase
  <2>7. ASSUME NEW b, CounterPhase(b) PROVE CounterPhase(b)'
    <3>1. Filling(b) => Filling(b)'
      BY <2>1, <2>4 DEF Filling, Size
    <3>2. Emptying(b) => Emptying(b)'
      BY <2>1, <2>4, <2>5 DEF Emptying, Size
    <3> QED
      BY <2>1, <2>4, <2>7, <3>1, <3>2 DEF CounterPhase
  <2>8. Phases'
    BY <2>1, <2>6, <2>7 DEF BarrierInv, Phases
  <2> QED
    BY <2>2, <2>5, <2>8 DEF BarrierInv
<1>2. ASSUME NEW w \in Workers, Step(w) \/ WakeSpuriously(w) PROVE BarrierInv'
  <2> PICK b : b = BarrierOf(w)
    OBVIOUS
  <2>1. th[w].pc \in IF mode = "notify" THEN NotifyPlaces ELSE CounterPlaces
    BY DEF BarrierInv, Shape, ThreadShape, PlaceFits
  <2>2. CASE CopyFuture(w)
    BY <2>2, CopyStep
  <2>3. CASE Count(w)
    BY <2>1, <2>3, CountStep DEF Count, At, CounterPlaces
  <2>4. CASE SwapPromise(w)
    BY <2>1, <2>4, SwapStep DEF SwapPromise, At, CounterPlaces
  <2>5. CASE ResetCount(w)
    BY <2>1, <2>5, ResetStep DEF ResetCount, At, CounterPlaces
  <2>6. CASE Release(w)
    BY <2>1, <2>6, ReleaseStep DEF Release, At, CounterPlaces
  <2>7. CASE WakeByFuture(w)
    BY <2>1, <2>7, WakeStep DEF WakeByFuture, At, CounterPlaces
  <2>8. CASE EnterSpin(w)
    <3>1. /\ mode # "notify" /\ UNCHANGED mode /\ th[w].pc = "work" /\ th[w].visits < MaxVisits
          /\ bar' = [bar EXCEPT ![b] = Entered(bar[b])] /\ Goto(w, "spin")
      BY <2>8 DEF EnterSpin, Comes
    <3> QED
      BY <3>1, EnterStep
  <2>9. CASE EnterCv(w)
    <3> DEFINE p == IF bar[b].counter + 1 >= Size THEN "leave" ELSE "sleep"
    <3>1. /\ mode # "notify" /\ UNCHANGED mode /\ th[w].pc = "work" /\ th[w].visits < MaxVisits
          /\ bar' = [bar EXCEPT ![b] = Entered(bar[b])] /\ Goto(w, p)
      BY <2>9 DEF EnterCv, Comes, B
    <3>2. p \in {"spin", "sleep", "leave"} /\ (p = "leave" => bar[b].counter + 1 >= Size)
      OBVIOUS
    <3> HIDE DEF p
    <3> QED
      BY <3>1, <3>2, EnterStep
  <2>10. CASE EndSpin(w)
    <3>1. /\ mode # "notify" /\ UNCHANGED <<mode, bar>> /\ th[w].pc = "spin"
          /\ bar[b].counter >= Size /\ Goto(w, "leave")
      BY <2>1, <2>10 DEF EndSpin, At, B, NotifyPlaces
    <3> QED
      BY <3>1, WaitStep
  <2>11. CASE Look(w)
    <3> DEFINE p == IF bar[b].counter >= Size THEN "leave" ELSE "sleep"
    <3>1. /\ mode # "notify" /\ UNCHANGED <<mode, bar>> /\ th[w].pc = "awake" /\ Goto(w, p)
      BY <2>1, <2>11 DEF Look, At, B, NotifyPlaces
    <3>2. p \in {"sleep", "awake", "leave"} /\ (p = "leave" => bar[b].counter >= Size)
      OBVIOUS
    <3> HIDE DEF p
    <3> QED
      BY <3>1, <3>2, WaitStep
  <2>12. CASE WakeSpuriously(w)
    <3>1. /\ mode # "notify" /\ UNCHANGED <<mode, bar>> /\ th[w].pc = "sleep" /\ Goto(w, "awake")
      BY <2>1, <2>12 DEF WakeSpuriously, At, NotifyPlaces
    <3> QED
      BY <3>1, WaitStep
  <2>13. CASE LeaveSpin(w) \/ LeaveCv(w)
    <3>1. /\ mode # "notify" /\ UNCHANGED mode /\ th[w].pc = "leave"
          /\ bar' = [bar EXCEPT ![b] = Left(bar[b])]
      BY <2>13 DEF LeaveSpin, LeaveCv, At
    <3> QED
      BY <2>13, <3>1, LeaveMoves, LeaveStep
  <2>14. CASE CheckCount(w)
    BY <2>14, CheckStep
  <2> QED
    BY <1>2, <2>2, <2>3, <2>4, <2>5, <2>6, <2>7, <2>8, <2>9, <2>10, <2>11, <2>12, <2>13, <2>14
       DEF Step, NotifyWait, SpinWait
<1> QED
  BY <1>1, <1>2 DEF Next, Finished

\* With two barriers or more no thread throws "first barrier failed" or "last
\* barrier failed": whoever left a barrier finds its count back at zero
\* (ert::ops_main, kernels.hpp).
THEOREM CountAlwaysBack == TwoBarriers => (Spec => []CountIsBack)
<1> SUFFICES ASSUME TwoBarriers PROVE Spec => []CountIsBack
  OBVIOUS
<1>1. BarrierInv => CountIsBack
  BY DEF BarrierInv, Shape, ThreadShape, PlaceFits, NotifyPlaces, CounterPlaces, CountIsBack
<1>2. Init => BarrierInv
  BY InitInv
<1>3. BarrierInv /\ [Next]_vars => BarrierInv'
  BY Inductive
<1> QED
  BY <1>1, <1>2, <1>3, PTL DEF Spec

\* The variables of Rendezvous.
AllCame == [w \in Workers |-> Came(w)]
AllLeft == [w \in Workers |-> th[w].visits]

\* Who moves within a visit comes to its meeting or does nothing of the sort.
LEMMA ComesOrWaits ==
  ASSUME BarrierInv, NEW w \in Workers, NEW p, Moved(w, p)
  PROVE  /\ UNCHANGED AllLeft
         /\ HasCome(w) \/ p = "count" => UNCHANGED AllCame
         /\ th[w].visits < MaxVisits => Meetings!Come(w) \/ UNCHANGED AllCame
<1>1. \A v \in Workers : th'[v].visits = th[v].visits /\ th[v].visits \in Nat
  BY Gone DEF BarrierInv
<1>2. AllLeft' = AllLeft
  BY <1>1 DEF AllLeft
<1>3. \A v \in Workers \ {w} : Came(v)' = Came(v)
  BY <1>1 DEF Moved, Came, HasCome
<1>4. CASE HasCome(w) \/ p \in {"work", "count"}
  <2>1. HasCome(w)' <=> HasCome(w)
    BY <1>4 DEF Moved, HasCome
  <2>2. Came(w)' = Came(w)
    BY <1>1, <2>1 DEF Came
  <2> QED
    BY <1>2, <1>3, <2>2 DEF AllCame
<1>5. CASE ~HasCome(w) /\ p \notin {"work", "count"}
  <2>1. HasCome(w)'
    BY <1>5 DEF Moved, HasCome
  <2>2. Came(w)' = Came(w) + 1 /\ Came(w) = th[w].visits
    BY <1>1, <1>5, <2>1 DEF Came
  <2>3. AllCame' = [AllCame EXCEPT ![w] = @ + 1]
    BY <1>3, <2>2 DEF AllCame
  <2>4. th[w].visits < MaxVisits => Meetings!Come(w)
    BY <1>2, <2>2, <2>3 DEF Meetings!Come, AllCame, AllLeft, Came
  <2> QED
    BY <1>2, <1>5, <2>4 DEF HasCome
<1> QED
  BY <1>4, <1>5

\* Every step but CheckCount moves its thread within a visit.
LEMMA StepMoves ==
  ASSUME BarrierInv, NEW w \in Workers, Step(w) \/ WakeSpuriously(w), ~CheckCount(w)
  PROVE  \E p : Moved(w, p)
<1>1. ASSUME NEW p, p \notin {"work", "count"}, Goto(w, p) PROVE Moved(w, p)
  BY <1>1 DEF BarrierInv, Shape, ThreadShape, Goto, Moved
<1>2. CASE CopyFuture(w)
  BY <1>2 DEF CopyFuture, Comes, HasCome, BarrierInv, Shape, ThreadShape, Moved
<1>3. CASE LeaveSpin(w) \/ LeaveCv(w)
  BY <1>3, LeaveMoves
     DEF LeaveSpin, LeaveCv, At, BarrierInv, Shape, ThreadShape, PlaceFits, NotifyPlaces
<1>4. CASE Count(w)
  BY <1>1, <1>4 DEF Count
<1>5. CASE SwapPromise(w) \/ ResetCount(w) \/ Release(w) \/ WakeByFuture(w)
  BY <1>1, <1>5 DEF SwapPromise, ResetCount, Release, WakeByFuture
<1>6. CASE EnterSpin(w) \/ EndSpin(w) \/ EnterCv(w)
  BY <1>1, <1>6 DEF EnterSpin, EndSpin, EnterCv
<1>7. CASE Look(w) \/ WakeSpuriously(w)
  BY <1>1, <1>7 DEF Look, WakeSpuriously
<1> QED
  BY <1>2, <1>3, <1>4, <1>5, <1>6, <1>7 DEF Step, NotifyWait, SpinWait

\* Who has still to come may come: it is not through its visits.
LEMMA MayCome ==
  ASSUME BarrierInv, NEW w \in Workers, Step(w) \/ WakeSpuriously(w), ~HasCome(w)
  PROVE  th[w].visits < MaxVisits
<1>1. th[w].pc \in {"work", "count"}
  BY DEF HasCome
<1>2. CASE th[w].pc = "count"
  BY <1>2 DEF BarrierInv, Shape, ThreadShape, PlaceFits
<1>3. CASE th[w].pc = "work"
  BY <1>3 DEF Step, NotifyWait, SpinWait, CopyFuture, Count, SwapPromise, ResetCount, Release,
              WakeByFuture, EnterSpin, EndSpin, LeaveSpin, EnterCv, LeaveCv, Look,
              WakeSpuriously, CheckCount, At, Comes
<1> QED
  BY <1>1, <1>2, <1>3

\* Each step is one of Rendezvous or a stutter.
LEMMA MeetingStep ==
  TwoBarriers /\ BarrierInv /\ [Next]_vars => [Meetings!Next]_(Meetings!vars)
<1> SUFFICES ASSUME TwoBarriers, BarrierInv, [Next]_vars
             PROVE  Meetings!Next \/ UNCHANGED <<AllCame, AllLeft>>
  BY DEF Meetings!vars, AllCame, AllLeft, Came
<1>1. CASE UNCHANGED vars
  BY <1>1 DEF vars, AllCame, AllLeft, Came, HasCome
<1>2. ASSUME NEW w \in Workers, Step(w) \/ WakeSpuriously(w)
      PROVE  Meetings!Next \/ UNCHANGED <<AllCame, AllLeft>>
  <2>1. CASE ~CheckCount(w)
    <3>1. PICK p : Moved(w, p)
      BY <1>2, <2>1, StepMoves
    <3>2. UNCHANGED AllLeft /\ (Meetings!Come(w) \/ UNCHANGED AllCame)
      BY <1>2, <3>1, ComesOrWaits, MayCome
    <3> QED
      BY <3>2 DEF Meetings!Next
  <2>2. CASE CheckCount(w)
    <3> PICK b : b = BarrierOf(w)
      OBVIOUS
    <3>1. /\ th[w].pc = "check" /\ th[w].visits \in Nat /\ th'[w].visits = th[w].visits + 1
          /\ \A v \in Workers \ {w} : th'[v] = th[v]
          /\ \A v \in Workers : Came(v)' = Came(v) /\ Came(v) \in Int
      BY <2>2, NextVisit
    <3>2. w \in Arrived(b) /\ EverybodyCame(b) /\ Came(w) = th[w].visits + 1
      BY <3>1, ThroughAll DEF Came, HasCome
    <3>3. \A v \in Workers : AllCame[v] >= AllCame[w] /\ AllCame[v] = Came(v)
      BY <3>1, <3>2 DEF EverybodyCame, AllCame
    <3>4. AllCame' = AllCame
      BY <3>1 DEF AllCame
    <3>5. AllLeft' = [AllLeft EXCEPT ![w] = @ + 1] /\ AllLeft[w] < AllCame[w]
      <4>1. AllLeft' = [AllLeft EXCEPT ![w] = @ + 1]
        BY <3>1 DEF AllLeft
      <4>2. AllLeft[w] = th[w].visits /\ AllCame[w] = th[w].visits + 1
        BY <3>2 DEF AllLeft, AllCame
      <4> QED
        BY <3>1, <4>1, <4>2
    <3>6. Meetings!Leave(w)
      BY <3>3, <3>4, <3>5 DEF Meetings!Leave, AllLeft, AllCame, Came
    <3> QED
      BY <3>6 DEF Meetings!Next
  <2> QED
    BY <2>1, <2>2
<1> QED
  BY <1>1, <1>2 DEF Next, Finished

\* The loop of ops_main over two barriers or more is a sequence of meetings, in
\* every mode of waiting: no thread leaves a meeting that somebody has not come to,
\* and none comes to the next before it left (thread_barrier::notify_wait,
\* spin_wait, cv_wait).
THEOREM BarriersAreMeetings == TwoBarriers => (Spec => ImplementsRendezvous)
<1> SUFFICES ASSUME TwoBarriers PROVE Spec => ImplementsRendezvous
  OBVIOUS
<1>1. Init => Meetings!Init
  BY DEF Init, Meetings!Init, HasCome
<1>2. Init => BarrierInv
  BY InitInv
<1>3. BarrierInv /\ [Next]_vars => BarrierInv'
  BY Inductive
<1>4. BarrierInv /\ [Next]_vars => [Meetings!Next]_(Meetings!vars)
  BY MeetingStep
<1> QED
  BY <1>1, <1>2, <1>3, <1>4, PTL DEF Spec, ImplementsRendezvous, Meetings!Spec
=============================================================================

----------------------- MODULE SamplerAllocatorProofs -----------------------
(***************************************************************************)
(* Proofs about SamplerAllocator for every set of samplers and threads,    *)
(* every buffer size and any nesting of handlers: a buffer in the queue    *)
(* always has its wake-up, also if samplers are destroyed early; no sample *)
(* is lost or repeated on its way to the data; and those of full buffers   *)
(* get there in the order they were taken.                                 *)
(***************************************************************************)
EXTENDS SamplerAllocator, SequenceTheorems, WellFoundedInduction, TLAPS

\* The members of a sampler and of the allocator's thread, whatever they hold.
SamplerShape(r) ==
  r = [phase |-> r.phase, linked |-> r.linked, pc |-> r.pc, buffer |-> r.buffer,
       hand |-> r.hand, count |-> r.count, early |-> r.early]

AllocShape(a) ==
  a = [pc |-> a.pc, completed |-> a.completed, taken |-> a.taken, back |-> a.back]

Shaped ==
  /\ smp = [s \in Samplers |-> smp[s]]
  /\ \A s \in Samplers : SamplerShape(smp[s])
  /\ AllocShape(alloc)
  /\ sem \in Nat

\* Inductive: a step that takes the last wake-up away empties the queue, and
\* a buffer enters the queue with its handler still to post.
WakeupInv == Shaped /\ WakeupPending

AnyNext == Next \/ DestroyNext

\* It holds when no sampler has started.
LEMMA WakeupInit == Init => WakeupInv
  BY DEF Init, NewSampler, WakeupInv, Shaped, SamplerShape, AllocShape, WakeupPending

\* The steps of a handler: what it pushes it posts.
LEMMA WakeupHandler ==
    ASSUME WakeupInv, NEW s \in Samplers,
           Handler(s) \/ Sample(s) \/ SampleUnlinked(s) \/ BeginMove(s)
    PROVE  WakeupInv'
  <1> USE DEF Shaped, SamplerShape, AllocShape
  <1>s. Shaped
    BY DEF WakeupInv
  <1>1. CASE Push(s)
    <2>1. smp'[s] = [smp[s] EXCEPT !.hand = <<>>, !.pc = "unlock"]
      BY <1>1, <1>s DEF Push
    <2>2. smp'[s].pc = "unlock"
      BY <2>1, <1>s
    <2>3. Shaped'
      BY <1>1, <1>s DEF Push
    <2> QED BY <2>2, <2>3 DEF WakeupInv, WakeupPending
  <1>2. CASE Unlock(s)
    <2>1. smp'[s].pc = "post"
      BY <1>2, <1>s DEF Unlock
    <2>2. Shaped'
      BY <1>2, <1>s DEF Unlock
    <2> QED BY <2>1, <2>2 DEF WakeupInv, WakeupPending
  <1>3. CASE Post(s)
    <2>1. sem' \in Nat /\ sem' > 0
      BY <1>3, <1>s DEF Post
    <2>2. smp' = [q \in Samplers |-> smp'[q]] /\ \A q \in Samplers : SamplerShape(smp'[q])
      BY <1>3, <1>s DEF Post
    <2>3. Shaped'
      BY <1>3, <1>s, <2>1, <2>2 DEF Post
    <2> QED BY <2>1, <2>3 DEF WakeupInv, WakeupPending
  <1>4. CASE Sample(s) \/ SampleUnlinked(s) \/ BeginMove(s)
    <2>1. smp[s].pc = "idle" /\ UNCHANGED <<sem, queue, alloc>>
      BY <1>4, <1>s DEF Sample, SampleUnlinked, BeginMove, MayEnter, channel
    <2>2. Shaped' /\ \A q \in Samplers \ {s} : smp'[q] = smp[q]
      BY <1>4, <1>s, <2>1 DEF Sample, SampleUnlinked, BeginMove, MayEnter
    <2> QED BY <2>1, <2>2 DEF WakeupInv, WakeupPending
  <1> QED BY <1>1, <1>2, <1>3, <1>4 DEF Handler

\* Steps that leave the queue, the semaphore, the thread's place and the
\* progress of every handler alone.
LEMMA WakeupQuiet ==
    ASSUME WakeupInv, Shaped', UNCHANGED <<sem, queue>>,
           alloc'.pc = alloc.pc, alloc'.back = alloc.back,
           \A s \in Samplers : smp'[s].pc = smp[s].pc
    PROVE  WakeupInv'
  BY DEF WakeupInv, WakeupPending

\* What the program does to a sampler outside its handler.
LEMMA WakeupOwner ==
    ASSUME WakeupInv, NEW s \in Samplers,
           Start(s) \/ Stop(s) \/ Destroy(s) \/ GetData(s) \/ SetOffload
    PROVE  WakeupInv'
  <1>1. UNCHANGED <<sem, queue, alloc>>
    BY DEF Start, Stop, Destroy, GetData, SetOffload, channel
  <1>2. Shaped' /\ \A q \in Samplers : smp'[q].pc = smp[q].pc
    BY <1>1 DEF Start, Stop, Destroy, GetData, SetOffload, WakeupInv, Shaped, SamplerShape,
                AllocShape, sampling
  <1> QED BY <1>1, <1>2, WakeupQuiet

\* The end of the allocator: its post is a wake-up too.
LEMMA WakeupExit ==
    ASSUME WakeupInv, ExitAllocator
    PROVE  WakeupInv'
  <1> USE DEF Shaped
  <1>1. Shaped
    BY DEF WakeupInv
  <1>2. sem' \in Nat /\ sem' > 0
    BY <1>1 DEF ExitAllocator
  <1>3. AllocShape(alloc')
    BY <1>1 DEF ExitAllocator, AllocShape
  <1>4. Shaped'
    BY <1>1, <1>2, <1>3 DEF ExitAllocator, sampling
  <1> QED BY <1>2, <1>4 DEF WakeupInv, WakeupPending

\* The thread: only Wait lowers the semaphore, and Swap follows it.
LEMMA WakeupThread ==
    ASSUME WakeupInv, Thread \/ Throw
    PROVE  WakeupInv'
  <1> USE DEF WakeupInv, Shaped, SamplerShape, AllocShape, WakeupPending
  <1>1. CASE Check
    BY <1>1 DEF Check, sampling, channel
  <1>2. CASE Wait
    BY <1>2 DEF Wait, sampling
  <1>3. CASE SwapBuffer
    BY <1>3 DEF SwapBuffer, Swap, sampling
  <1>4. CASE Drain
    BY <1>4 DEF Drain, Swap, sampling
  <1>5. CASE Get
    BY <1>5 DEF Get, sampling, channel
  <1>6. CASE Deliver
    BY <1>6 DEF Deliver, sampling, channel
  <1>7. CASE Throw
    BY <1>7 DEF Throw, sampling, channel
  <1>8. CASE UpdateAll
    BY <1>8 DEF UpdateAll, sampling, channel
  <1>9. CASE Reset
    <2>1. Shaped' /\ alloc'.pc = "dead"
      BY <1>9 DEF Reset, channel
    <2> QED BY <2>1
  <1> QED BY <1>1, <1>2, <1>3, <1>4, <1>5, <1>6, <1>7, <1>8, <1>9 DEF Thread

\* Each step of either specification keeps it.
LEMMA WakeupNext == WakeupInv /\ [AnyNext]_vars => WakeupInv'
  <1> SUFFICES ASSUME WakeupInv, [AnyNext]_vars PROVE WakeupInv'
    OBVIOUS
  <1>1. CASE \E s \in Samplers :
               \/ Handler(s) \/ Sample(s) \/ SampleUnlinked(s) \/ BeginMove(s)
               \/ Start(s) \/ Stop(s) \/ Destroy(s) \/ GetData(s)
    BY <1>1, WakeupHandler, WakeupOwner
  <1>2. CASE SetOffload
    <2>1. UNCHANGED <<smp, sem, queue, alloc>>
      BY <1>2 DEF SetOffload, sampling, channel
    <2> QED BY <2>1 DEF WakeupInv, Shaped, WakeupPending
  <1>3. CASE ExitAllocator
    BY <1>3, WakeupExit
  <1>4. CASE Thread \/ Throw
    BY <1>4, WakeupThread
  <1>5. CASE UNCHANGED vars
    BY <1>5 DEF vars, WakeupInv, Shaped, WakeupPending
  <1> QED BY <1>1, <1>2, <1>3, <1>4, <1>5 DEF AnyNext, Next, DestroyNext, Use

\* A buffer a handler put into the queue never waits without a wake-up under
\* way: the semaphore is up or the handler is still to post it.
THEOREM NoLostWakeup == Spec => []WakeupPending
  <1>1. WakeupInv /\ [Next]_vars => WakeupInv'
    BY WakeupNext DEF AnyNext
  <1>2. WakeupInv => WakeupPending
    BY DEF WakeupInv
  <1> QED BY WakeupInit, <1>1, <1>2, PTL DEF Spec

\* The same when samplers are destroyed while their buffers are under way.
THEOREM NoLostWakeupDestroyed == DestroySpec => []WakeupPending
  <1>1. WakeupInv /\ [DestroyNext]_vars => WakeupInv'
    BY WakeupNext DEF AnyNext
  <1>2. WakeupInv => WakeupPending
    BY DEF WakeupInv
  <1> QED BY WakeupInit, <1>1, <1>2, PTL DEF DestroySpec

-----------------------------------------------------------------------------
(* Sequences of samples, and what the sequences of buffers are joined to.  *)

\* A set of natural numbers has a least one: what inductions rest on here.
LEMMA LeastNumber ==
  ASSUME NEW T, T \subseteq Nat, T # {}
  PROVE  \E x \in T : \A y \in T : x <= y
  <1> DEFINE R == {p \in Nat \X Nat : p[1] < p[2]}
  <1>1. IsWellFoundedOn(R, Nat)
    BY NatLessThanWellFounded DEF OpToRel
  <1> HIDE DEF R
  <1>2. PICK x \in T : \A y \in T : <<y, x>> \notin R
    BY <1>1, WFMin
  <1>3. ASSUME NEW y \in T PROVE x <= y
    <2>1. x \in Nat /\ y \in Nat /\ ~(y < x)
      BY <1>2 DEF R
    <2> QED BY <2>1
  <1> QED BY <1>3

\* f[i] is the first i sequences of q joined: the function FlattenSeq defines.
Joins(q, n, f) == f = [i \in 1 .. n |-> IF i = 1 THEN q[i] ELSE f[i - 1] \o q[i]]

\* What such a function is at each place.
LEMMA JoinsEach ==
  ASSUME NEW q, NEW n \in Nat, NEW f, Joins(q, n, f)
  PROVE  /\ n # 0 => f[1] = q[1]
         /\ \A i \in 2 .. n : f[i] = f[i - 1] \o q[i]
  <1>1. f = [i \in 1 .. n |-> IF i = 1 THEN q[i] ELSE f[i - 1] \o q[i]]
    BY DEF Joins
  <1>2. n # 0 => 1 \in 1 .. n
    OBVIOUS
  <1>3. \A i \in 2 .. n : i \in 1 .. n /\ i # 1
    OBVIOUS
  <1> QED BY <1>1, <1>2, <1>3

\* There is such a function: the least length without one has a shorter one.
LEMMA JoinsExist ==
  ASSUME NEW q, NEW n \in Nat
  PROVE  \E f : Joins(q, n, f)
  <1> DEFINE Lacking == {m \in Nat : ~\E f : Joins(q, m, f)}
  <1>1. SUFFICES ASSUME Lacking # {} PROVE FALSE
    OBVIOUS
  <1>2. PICK m \in Lacking : \A k \in Lacking : m <= k
    BY <1>1, LeastNumber
  <1>3. m # 0
    <2>1. Joins(q, 0, <<>>)
      BY DEF Joins
    <2> QED BY <2>1, <1>2
  <1>4. m - 1 \in Nat /\ ~(m <= m - 1)
    BY <1>2, <1>3
  <1>5. PICK f : Joins(q, m - 1, f)
    BY <1>2, <1>4
  <1> DEFINE g == [i \in 1 .. m |-> IF i = m THEN IF m = 1 THEN q[m] ELSE f[m - 1] \o q[m]
                                             ELSE f[i]]
  <1>6. ASSUME NEW i \in 1 .. m
        PROVE  g[i] = IF i = 1 THEN q[i] ELSE g[i - 1] \o q[i]
    <2>1. CASE i = m
      BY <2>1, <1>4
    <2>2. CASE i # m
      <3>1. /\ i \in 1 .. m - 1 /\ g[i] = f[i]
            /\ (i # 1 => i - 1 \in 1 .. m - 1 /\ g[i - 1] = f[i - 1])
        BY <2>2, <1>4
      <3>2. f[i] = IF i = 1 THEN q[i] ELSE f[i - 1] \o q[i]
        BY <3>1, <1>5 DEF Joins
      <3> QED BY <3>1, <3>2
    <2> QED BY <2>1, <2>2
  <1>7. g = [i \in 1 .. m |-> IF i = 1 THEN q[i] ELSE g[i - 1] \o q[i]]
    <2>1. g = [i \in 1 .. m |-> g[i]]
      OBVIOUS
    <2> HIDE DEF g
    <2> QED BY <2>1, <1>6
  <1>8. Joins(q, m, g)
    BY <1>7 DEF Joins
  <1> QED BY <1>2, <1>8

\* There is only one: look at the least place where two differ.
LEMMA JoinsAgree ==
  ASSUME NEW q, NEW n \in Nat, NEW f, NEW g, Joins(q, n, f), Joins(q, n, g)
  PROVE  f = g
  <1> DEFINE Differ == {i \in 1 .. n : f[i] # g[i]}
  <1>1. /\ f = [i \in 1 .. n |-> IF i = 1 THEN q[i] ELSE f[i - 1] \o q[i]]
        /\ g = [i \in 1 .. n |-> IF i = 1 THEN q[i] ELSE g[i - 1] \o q[i]]
    BY DEF Joins
  <1>2. /\ DOMAIN f = 1 .. n /\ DOMAIN g = 1 .. n
        /\ f = [i \in 1 .. n |-> f[i]] /\ g = [i \in 1 .. n |-> g[i]]
    BY <1>1
  <1>3. ASSUME Differ # {} PROVE FALSE
    <2>1. PICK i \in Differ : \A j \in Differ : i <= j
      <3>1. Differ \subseteq Nat
        OBVIOUS
      <3> HIDE DEF Differ
      <3> QED BY <3>1, <1>3, LeastNumber
    <2>2. i # 1 /\ i - 1 \in 1 .. n /\ ~(i <= i - 1)
      BY <1>1, <2>1
    <2>3. f[i - 1] = g[i - 1]
      BY <2>1, <2>2
    <2>4. f[i] = f[i - 1] \o q[i] /\ g[i] = g[i - 1] \o q[i]
      BY <1>1, <2>1, <2>2
    <2> QED BY <2>1, <2>3, <2>4
  <1> QED BY <1>2, <1>3

\* What is joined is a sequence of the same elements.
LEMMA JoinsSequences ==
  ASSUME NEW S, NEW n \in Nat, NEW q, \A i \in 1 .. n : q[i] \in Seq(S),
         NEW f, Joins(q, n, f)
  PROVE  \A i \in 1 .. n : f[i] \in Seq(S)
  <1> DEFINE Others == {i \in 1 .. n : f[i] \notin Seq(S)}
  <1>1. SUFFICES ASSUME Others # {} PROVE FALSE
    OBVIOUS
  <1>2. PICK i \in Others : \A j \in Others : i <= j
    <2>1. Others \subseteq Nat
      OBVIOUS
    <2> HIDE DEF Others
    <2> QED BY <2>1, <1>1, LeastNumber
  <1>3. f[i] = IF i = 1 THEN q[i] ELSE f[i - 1] \o q[i]
    BY <1>2 DEF Joins
  <1>4. i # 1 /\ i - 1 \in 1 .. n /\ ~(i <= i - 1)
    BY <1>2, <1>3
  <1>5. f[i - 1] \in Seq(S) /\ q[i] \in Seq(S)
    BY <1>2, <1>4
  <1>6. f[i - 1] \o q[i] \in Seq(S)
    BY <1>5, ConcatProperties
  <1> QED BY <1>2, <1>3, <1>4, <1>6

\* FlattenSeq is the last value of such a function.
LEMMA FlattenIs ==
  ASSUME NEW q, Len(q) \in Nat \ {0}
  PROVE  \E f : Joins(q, Len(q), f) /\ FlattenSeq(q) = f[Len(q)]
  <1> DEFINE n == Len(q)
             h == CHOOSE f : f = [i \in 1 .. n |-> IF i = 1 THEN q[i] ELSE f[i - 1] \o q[i]]
  <1>1. PICK f : f = [i \in 1 .. n |-> IF i = 1 THEN q[i] ELSE f[i - 1] \o q[i]]
    BY JoinsExist DEF Joins
  <1>2. h = [i \in 1 .. n |-> IF i = 1 THEN q[i] ELSE h[i - 1] \o q[i]]
    BY <1>1
  <1>3. FlattenSeq(q) = h[n]
    BY DEF FlattenSeq
  <1> HIDE DEF h
  <1> QED BY <1>2, <1>3 DEF Joins

\* Joining nothing, a sequence more, and one sequence before the others.
LEMMA FlattenNone == FlattenSeq(<<>>) = <<>>
  BY DEF FlattenSeq

\* A sequence of buffers that grows at its end.
LEMMA FlattenAppended ==
  ASSUME NEW S, NEW q \in Seq(Seq(S)), NEW b \in Seq(S)
  PROVE  /\ FlattenSeq(q) \in Seq(S)
         /\ FlattenSeq(Append(q, b)) = FlattenSeq(q) \o b
  <1> DEFINE n == Len(q)
             p == Append(q, b)
  <1>1. /\ n \in Nat /\ p \in Seq(Seq(S)) /\ Len(p) = n + 1 /\ p[n + 1] = b
        /\ \A i \in 1 .. n : p[i] = q[i]
    BY AppendProperties, LenProperties
  <1>2. Len(p) \in Nat \ {0}
    BY <1>1
  <1> HIDE DEF p
  <1>3. PICK f : Joins(p, Len(p), f) /\ FlattenSeq(p) = f[Len(p)]
    BY <1>2, FlattenIs
  <1>4. f = [i \in 1 .. n + 1 |-> IF i = 1 THEN p[i] ELSE f[i - 1] \o p[i]]
    BY <1>1, <1>3 DEF Joins
  <1>5. CASE n = 0
    <2>1. q = <<>> /\ FlattenSeq(q) = <<>>
      BY <1>5, EmptySeq, FlattenNone
    <2>2. FlattenSeq(p) = b
      BY <1>1, <1>3, <1>4, <1>5
    <2>3. <<>> \o b = b /\ <<>> \in Seq(S)
      BY ConcatEmptySeq, EmptySeq
    <2> QED BY <2>1, <2>2, <2>3 DEF p
  <1>6. CASE n # 0
    <2>1. n \in Nat \ {0}
      BY <1>1, <1>6
    <2>2. PICK g : Joins(q, n, g) /\ FlattenSeq(q) = g[n]
      BY <2>1, FlattenIs
    <2> DEFINE e == [i \in 1 .. n |-> f[i]]
    <2>3. ASSUME NEW i \in 1 .. n PROVE e[i] = IF i = 1 THEN q[i] ELSE e[i - 1] \o q[i]
      <3>1. i \in 1 .. n + 1 /\ (i # 1 => i - 1 \in 1 .. n)
        BY <1>1
      <3>2. f[i] = IF i = 1 THEN p[i] ELSE f[i - 1] \o p[i]
        BY <3>1, <1>4
      <3> QED BY <3>1, <3>2, <1>1
    <2>4. Joins(q, n, e)
      <3>1. e = [i \in 1 .. n |-> e[i]]
        OBVIOUS
      <3> HIDE DEF e
      <3> QED BY <3>1, <2>3 DEF Joins
    <2>5. e = g
      BY <1>1, <2>2, <2>4, JoinsAgree
    <2>6. f[n] = g[n]
      BY <2>1, <2>5
    <2>7. f[n + 1] = f[n] \o b
      <3>1. n + 1 \in 1 .. n + 1 /\ n + 1 # 1 /\ (n + 1) - 1 = n
        BY <2>1
      <3> QED BY <3>1, <1>1, <1>4
    <2>8. \A i \in 1 .. n : q[i] \in Seq(S)
      BY ElementOfSeq
    <2>9. g[n] \in Seq(S)
      <3>1. \A i \in 1 .. n : g[i] \in Seq(S)
        <4> HIDE DEF n
        <4> QED BY <1>1, <2>2, <2>8, JoinsSequences
      <3> QED BY <3>1, <2>1
    <2> QED BY <1>1, <1>3, <2>2, <2>6, <2>7, <2>9 DEF p
  <1> QED BY <1>5, <1>6

\* A sequence of buffers that shrinks at its front.
LEMMA FlattenTaken ==
  ASSUME NEW S, NEW q \in Seq(Seq(S)), q # <<>>
  PROVE  FlattenSeq(q) = Head(q) \o FlattenSeq(Tail(q))
  <1> DEFINE n == Len(q)
             r == Tail(q)
  <1>1. /\ n \in Nat \ {0} /\ r \in Seq(Seq(S)) /\ Len(r) = n - 1 /\ Head(q) = q[1]
        /\ \A i \in 1 .. n - 1 : r[i] = q[i + 1]
    BY EmptySeq, HeadTailProperties
  <1>2. /\ \A i \in 1 .. n : q[i] \in Seq(S)
        /\ \A i \in 1 .. n - 1 : r[i] \in Seq(S)
    BY <1>1, ElementOfSeq
  <1> HIDE DEF r, n
  <1>3. PICK f : Joins(q, n, f) /\ FlattenSeq(q) = f[n]
    BY <1>1, FlattenIs DEF n
  <1>4. f[1] = q[1] /\ \A i \in 1 .. n : i # 1 => f[i] = f[i - 1] \o q[i]
    <2>1. n # 0 /\ \A i \in 1 .. n : i # 1 => i \in 2 .. n
      BY <1>1
    <2> QED BY ZenonT(30), <2>1, <1>1, <1>3, JoinsEach
  <1>5. CASE n = 1
    <2>1. r = <<>>
      BY <1>1, <1>5, EmptySeq
    <2>2. Head(q) \o <<>> = Head(q)
      BY <1>1, <1>2, ConcatEmptySeq
    <2> QED BY <1>1, <1>3, <1>4, <1>5, <2>1, <2>2, FlattenNone DEF r
  <1>6. CASE n # 1
    <2>1. n - 1 \in Nat \ {0} /\ Len(r) = n - 1
      BY <1>1, <1>6
    <2>2. PICK g : Joins(r, n - 1, g) /\ FlattenSeq(r) = g[n - 1]
      BY <2>1, FlattenIs
    <2>3. g[1] = r[1] /\ \A i \in 1 .. n - 1 : i # 1 => g[i] = g[i - 1] \o r[i]
      <3>1. n - 1 # 0 /\ \A i \in 1 .. n - 1 : i # 1 => i \in 2 .. n - 1
        BY <1>1, <2>1
      <3> QED BY ZenonT(30), <3>1, <2>1, <2>2, JoinsEach
    <2>4. \A i \in 1 .. n - 1 : g[i] \in Seq(S)
      BY <1>2, <2>1, <2>2, JoinsSequences
    <2> DEFINE Differ == {i \in 1 .. n - 1 : f[i + 1] # q[1] \o g[i]}
    <2>5. ASSUME Differ # {} PROVE FALSE
      <3>1. PICK i \in Differ : \A j \in Differ : i <= j
        <4>1. \A i \in 1 .. n - 1 : i \in Nat
          BY <1>1
        <4>2. Differ \subseteq Nat
          BY <4>1
        <4> HIDE DEF Differ
        <4> QED BY <4>2, <2>5, LeastNumber
      <3>2. i \in 1 .. n - 1 /\ f[i + 1] = f[i] \o q[i + 1]
        <4>1. i \in 1 .. n - 1 /\ i + 1 \in 1 .. n /\ i + 1 # 1 /\ (i + 1) - 1 = i
          BY <1>1, <3>1
        <4> QED BY <4>1, <1>4
      <3>3. CASE i = 1
        BY <3>1, <3>2, <3>3, <1>1, <1>4, <2>3
      <3>4. CASE i # 1
        <4>1. i - 1 \in 1 .. n - 1 /\ ~(i <= i - 1) /\ (i - 1) + 1 = i
          BY <3>2, <3>4, <1>1
        <4>2. f[i] = q[1] \o g[i - 1]
          BY <3>1, <4>1
        <4>3. g[i] = g[i - 1] \o q[i + 1]
          BY <1>1, <2>3, <3>2, <3>4
        <4>4. q[1] \in Seq(S) /\ g[i - 1] \in Seq(S) /\ q[i + 1] \in Seq(S)
          BY <1>1, <1>2, <2>4, <3>2, <4>1
        <4>5. (q[1] \o g[i - 1]) \o q[i + 1] = q[1] \o (g[i - 1] \o q[i + 1])
          <5>1. \A a, b, c \in Seq(S) : (a \o b) \o c = a \o (b \o c)
            OBVIOUS
          <5> QED BY <4>4, <5>1, Zenon
        <4> QED BY <3>1, <3>2, <4>2, <4>3, <4>5
      <3> QED BY <3>3, <3>4
    <2>6. f[n] = q[1] \o g[n - 1]
      <3>1. n - 1 \in 1 .. n - 1 /\ (n - 1) + 1 = n
        BY <1>1, <2>1
      <3> QED BY <3>1, <2>5
    <2> QED BY <1>1, <1>3, <2>2, <2>6 DEF r
  <1> QED BY <1>5, <1>6

-----------------------------------------------------------------------------
(* What a sampler has delivered, and what may still happen to it.          *)

\* The samples of q outside e are in the order they were taken; those of a that
\* are outside e were taken before those of b.
InOrder(q, e) ==
  \A i, j \in DOMAIN q : i < j /\ q[i] \notin e /\ q[j] \notin e => q[i] < q[j]
Before(a, b, e) == \A x \in ToSet(a) \ e, y \in ToSet(b) \ e : x < y

\* Two sequences joined: their length and their samples.
LEMMA SetJoined ==
  ASSUME NEW a \in Seq(Nat), NEW b \in Seq(Nat)
  PROVE  /\ a \o b \in Seq(Nat) /\ Len(a \o b) = Len(a) + Len(b)
         /\ Len(a) \in Nat /\ Len(b) \in Nat
         /\ ToSet(a \o b) = ToSet(a) \cup ToSet(b)
  <1>1. /\ Len(a) \in Nat /\ Len(b) \in Nat /\ DOMAIN a = 1 .. Len(a) /\ DOMAIN b = 1 .. Len(b)
        /\ DOMAIN (a \o b) = 1 .. Len(a) + Len(b)
        /\ \A i \in 1 .. Len(a) + Len(b) : (a \o b)[i] = IF i <= Len(a) THEN a[i] ELSE b[i - Len(a)]
    BY LenProperties, ConcatProperties
  <1> DEFINE k == Len(a)
             l == Len(b)
             c == a \o b
  <1> HIDE DEF k, l, c
  <1>2. ASSUME NEW i \in 1 .. k + l PROVE c[i] \in ToSet(a) \cup ToSet(b)
    <2>1. CASE i <= k
      <3>1. i \in DOMAIN a /\ c[i] = a[i]
        BY <1>1, <2>1 DEF k, l, c
      <3> QED BY <3>1 DEF ToSet
    <2>2. CASE ~(i <= k)
      <3>1. i - k \in DOMAIN b /\ c[i] = b[i - k]
        BY <1>1, <2>2 DEF k, l, c
      <3> QED BY <3>1 DEF ToSet
    <2> QED BY <2>1, <2>2
  <1>3. ASSUME NEW i \in DOMAIN a PROVE a[i] \in ToSet(c)
    <2>1. i \in DOMAIN c /\ c[i] = a[i]
      BY <1>1 DEF c
    <2> QED BY <2>1 DEF ToSet
  <1>4. ASSUME NEW i \in DOMAIN b PROVE b[i] \in ToSet(c)
    <2>1. k + i \in DOMAIN c /\ ~(k + i <= k) /\ (k + i) - k = i
      BY <1>1 DEF k, c
    <2>2. c[k + i] = b[i]
      BY <2>1, <1>1 DEF k, c
    <2> QED BY <2>1, <2>2 DEF ToSet
  <1>5. DOMAIN c = 1 .. k + l
    BY <1>1 DEF c, k, l
  <1>6. ToSet(c) = ToSet(a) \cup ToSet(b)
    BY <1>2, <1>3, <1>4, <1>5 DEF ToSet
  <1> QED BY <1>1, <1>6, ConcatProperties DEF c, k, l

\* Two sequences joined: when they are in order.
LEMMA OrderJoined ==
  ASSUME NEW a \in Seq(Nat), NEW b \in Seq(Nat), NEW e
  PROVE  InOrder(a \o b, e) <=> InOrder(a, e) /\ InOrder(b, e) /\ Before(a, b, e)
  <1> DEFINE k == Len(a)
             l == Len(b)
             c == a \o b
  <1>1. /\ k \in Nat /\ l \in Nat /\ DOMAIN a = 1 .. k /\ DOMAIN b = 1 .. l
        /\ DOMAIN c = 1 .. k + l
        /\ \A i \in 1 .. k + l : c[i] = IF i <= k THEN a[i] ELSE b[i - k]
    BY LenProperties, ConcatProperties
  <1> HIDE DEF k, l, c
  <1>2. \A i \in 1 .. k : i \in 1 .. k + l /\ c[i] = a[i]
    BY <1>1
  <1>3. \A i \in 1 .. l : k + i \in 1 .. k + l /\ c[k + i] = b[i]
    <2>1. SUFFICES ASSUME NEW i \in 1 .. l PROVE k + i \in 1 .. k + l /\ c[k + i] = b[i]
      OBVIOUS
    <2>2. k + i \in 1 .. k + l /\ ~(k + i <= k) /\ (k + i) - k = i
      BY <1>1
    <2> QED BY <2>2, <1>1
  <1>4. ASSUME InOrder(c, e) PROVE InOrder(a, e) /\ InOrder(b, e) /\ Before(a, b, e)
    <2>1. InOrder(a, e)
      BY <1>1, <1>2, <1>4 DEF InOrder
    <2>2. InOrder(b, e)
      <3>1. SUFFICES ASSUME NEW i \in 1 .. l, NEW j \in 1 .. l, i < j, b[i] \notin e, b[j] \notin e
                     PROVE  b[i] < b[j]
        BY <1>1 DEF InOrder
      <3>2. k + i < k + j
        BY <1>1, <3>1
      <3> QED BY <1>1, <1>3, <1>4, <3>1, <3>2 DEF InOrder
    <2>3. Before(a, b, e)
      <3>1. SUFFICES ASSUME NEW i \in 1 .. k, NEW j \in 1 .. l, a[i] \notin e, b[j] \notin e
                     PROVE  a[i] < b[j]
        BY <1>1 DEF Before, ToSet
      <3>2. i < k + j
        BY <1>1
      <3> QED BY <1>1, <1>2, <1>3, <1>4, <3>1, <3>2 DEF InOrder
    <2> QED BY <2>1, <2>2, <2>3
  <1>5. ASSUME InOrder(a, e), InOrder(b, e), Before(a, b, e) PROVE InOrder(c, e)
    <2>1. SUFFICES ASSUME NEW i \in 1 .. k + l, NEW j \in 1 .. k + l, i < j,
                          c[i] \notin e, c[j] \notin e
                   PROVE  c[i] < c[j]
      BY <1>1 DEF InOrder
    <2>2. CASE j <= k
      <3>1. i \in 1 .. k /\ j \in 1 .. k
        BY <1>1, <2>1, <2>2
      <3> QED BY <3>1, <2>1, <1>1, <1>2, <1>5 DEF InOrder
    <2>3. CASE i <= k /\ ~(j <= k)
      <3>1. i \in 1 .. k /\ j - k \in 1 .. l /\ c[i] = a[i] /\ c[j] = b[j - k]
        BY <1>1, <2>1, <2>3
      <3>2. a[i] \in ToSet(a) \ e /\ b[j - k] \in ToSet(b) \ e
        BY <3>1, <2>1, <1>1 DEF ToSet
      <3> QED BY <3>1, <3>2, <1>5 DEF Before
    <2>4. CASE ~(i <= k)
      <3>1. i - k \in 1 .. l /\ j - k \in 1 .. l /\ i - k < j - k
            /\ c[i] = b[i - k] /\ c[j] = b[j - k]
        BY <1>1, <2>1, <2>4
      <3> QED BY <3>1, <2>1, <1>1, <1>5 DEF InOrder
    <2> QED BY <2>2, <2>3, <2>4
  <1> QED BY <1>4, <1>5 DEF c

\* q is or will be data and o was offloaded, of the n samples taken: unless the
\* sampler is gone, each sample is in one place, and those outside e are in order.
Delivered(q, o, n, e, isGone) ==
  /\ q \in Seq(Nat) /\ o \in Seq(Nat) /\ n \in Nat
  /\ ToSet(q) \subseteq 1 .. n
  /\ ~isGone => Len(q) + Len(o) = n /\ ToSet(q) \cup ToSet(o) = 1 .. n
  /\ InOrder(q, e)

\* The next sample is taken.
LEMMA NextTaken ==
  ASSUME NEW q, NEW o, NEW n, NEW e, NEW isGone, Delivered(q, o, n, e, isGone)
  PROVE  Delivered(q \o <<n + 1>>, o, n + 1, e, isGone)
  <1> DEFINE x == <<n + 1>>
  <1>1. /\ q \in Seq(Nat) /\ o \in Seq(Nat) /\ n \in Nat /\ Len(q) \in Nat /\ Len(o) \in Nat
        /\ ToSet(q) \subseteq 1 .. n /\ InOrder(q, e)
        /\ ~isGone => Len(q) + Len(o) = n /\ ToSet(q) \cup ToSet(o) = 1 .. n
    BY LenProperties DEF Delivered
  <1>2. x \in Seq(Nat) /\ Len(x) = 1 /\ ToSet(x) = {n + 1} /\ DOMAIN x = 1 .. 1
    BY <1>1 DEF ToSet
  <1>3. InOrder(x, e)
    BY <1>2 DEF InOrder
  <1>4. \A y \in ToSet(q), z \in ToSet(x) : y < z
    BY <1>1, <1>2
  <1> HIDE DEF x
  <1>5. Before(q, x, e)
    BY <1>4 DEF Before
  <1>6. InOrder(q \o x, e)
    BY <1>1, <1>2, <1>3, <1>5, OrderJoined
  <1>7. ToSet(q \o x) = ToSet(q) \cup {n + 1}
    BY <1>1, <1>2, SetJoined
  <1>8. q \o x \in Seq(Nat) /\ Len(q \o x) = Len(q) + 1
    BY <1>1, <1>2, SetJoined
  <1>9. 1 .. n + 1 = (1 .. n) \cup {n + 1}
    BY <1>1
  <1>10. ToSet(q \o x) \subseteq 1 .. n + 1
    BY <1>1, <1>7, <1>9
  <1>11. ~isGone => Len(q \o x) + Len(o) = n + 1
    BY <1>1, <1>8
  <1>12. ~isGone => ToSet(q \o x) \cup ToSet(o) = 1 .. n + 1
    BY <1>1, <1>7, <1>9
  <1>13. Delivered(q \o x, o, n + 1, e, isGone)
    BY <1>1, <1>6, <1>8, <1>10, <1>11, <1>12 DEF Delivered
  <1> QED BY <1>13 DEF x

\* x leaves the stream for the offload function, whatever else becomes early.
LEMMA Offloads ==
  ASSUME NEW p \in Seq(Nat), NEW x \in Seq(Nat), NEW r \in Seq(Nat), NEW o, NEW n,
         NEW e, NEW d, NEW isGone, Delivered(p \o (x \o r), o, n, e, isGone)
  PROVE  Delivered(p \o r, o \o x, n, e \cup d, isGone)
  <1>1. /\ o \in Seq(Nat) /\ n \in Nat /\ InOrder(p \o (x \o r), e)
        /\ ToSet(p \o (x \o r)) \subseteq 1 .. n
        /\ ~isGone => /\ Len(p \o (x \o r)) + Len(o) = n
                      /\ ToSet(p \o (x \o r)) \cup ToSet(o) = 1 .. n
    BY DEF Delivered
  <1>2. x \o r \in Seq(Nat)
    BY ConcatProperties
  <1>3. /\ Len(p \o (x \o r)) = Len(p) + (Len(x) + Len(r)) /\ Len(p \o r) = Len(p) + Len(r)
        /\ Len(o \o x) = Len(o) + Len(x) /\ p \o r \in Seq(Nat) /\ o \o x \in Seq(Nat)
        /\ {Len(p), Len(x), Len(r), Len(o)} \subseteq Nat
    BY <1>1, <1>2, SetJoined
  <1>4. /\ ToSet(p \o (x \o r)) = ToSet(p) \cup (ToSet(x) \cup ToSet(r))
        /\ ToSet(p \o r) = ToSet(p) \cup ToSet(r) /\ ToSet(o \o x) = ToSet(o) \cup ToSet(x)
        /\ ToSet(x \o r) = ToSet(x) \cup ToSet(r)
    <2>1. ToSet(x \o r) = ToSet(x) \cup ToSet(r)
      BY SetJoined
    <2>2. ToSet(p \o (x \o r)) = ToSet(p) \cup ToSet(x \o r)
      BY <1>2, SetJoined
    <2>3. ToSet(p \o r) = ToSet(p) \cup ToSet(r) /\ ToSet(o \o x) = ToSet(o) \cup ToSet(x)
      BY <1>1, SetJoined
    <2> QED BY <2>1, <2>2, <2>3
  <1>5. /\ InOrder(p, e) /\ InOrder(x \o r, e) /\ Before(p, x \o r, e)
    BY <1>1, <1>2, OrderJoined
  <1>6. InOrder(r, e)
    BY <1>5, OrderJoined
  <1>7. Before(p, r, e)
    BY <1>4, <1>5 DEF Before
  <1>8. InOrder(p \o r, e)
    BY <1>5, <1>6, <1>7, OrderJoined
  <1>9. InOrder(p \o r, e \cup d)
    BY <1>8 DEF InOrder
  <1>10. ~isGone => Len(p \o r) + Len(o \o x) = n
    BY <1>1, <1>3
  <1>11. ToSet(p \o r) \subseteq 1 .. n
    BY <1>1, <1>4
  <1>12. ~isGone => ToSet(p \o r) \cup ToSet(o \o x) = 1 .. n
    BY <1>1, <1>4
  <1> QED BY <1>1, <1>3, <1>9, <1>10, <1>11, <1>12 DEF Delivered

\* x overtakes r, and is early.
LEMMA Overtakes ==
  ASSUME NEW p \in Seq(Nat), NEW x \in Seq(Nat), NEW r \in Seq(Nat), NEW o, NEW n,
         NEW e, NEW isGone, Delivered(p \o (r \o x), o, n, e, isGone)
  PROVE  Delivered(p \o (x \o r), o, n, e \cup ToSet(x), isGone)
  <1> DEFINE d == e \cup ToSet(x)
  <1>1. /\ o \in Seq(Nat) /\ n \in Nat /\ InOrder(p \o (r \o x), e)
        /\ ToSet(p \o (r \o x)) \subseteq 1 .. n
        /\ ~isGone => /\ Len(p \o (r \o x)) + Len(o) = n
                      /\ ToSet(p \o (r \o x)) \cup ToSet(o) = 1 .. n
    BY DEF Delivered
  <1>2. x \o r \in Seq(Nat) /\ r \o x \in Seq(Nat)
    BY ConcatProperties
  <1>3. p \o (x \o r) \in Seq(Nat) /\ Len(p \o (x \o r)) = Len(p \o (r \o x))
    <2>1. /\ Len(x \o r) = Len(x) + Len(r) /\ Len(r \o x) = Len(r) + Len(x)
          /\ Len(x) \in Nat /\ Len(r) \in Nat
      BY LenProperties, ConcatProperties
    <2> QED BY <1>2, <2>1, ConcatProperties
  <1>4. /\ ToSet(x \o r) = ToSet(x) \cup ToSet(r) /\ ToSet(r \o x) = ToSet(x) \cup ToSet(r)
        /\ ToSet(p \o (r \o x)) = ToSet(p \o (x \o r))
    <2>1. ToSet(x \o r) = ToSet(x) \cup ToSet(r) /\ ToSet(r \o x) = ToSet(r) \cup ToSet(x)
      BY SetJoined
    <2>2. /\ ToSet(p \o (x \o r)) = ToSet(p) \cup ToSet(x \o r)
          /\ ToSet(p \o (r \o x)) = ToSet(p) \cup ToSet(r \o x)
      BY <1>2, SetJoined
    <2> QED BY <2>1, <2>2
  <1>5. InOrder(p, e) /\ InOrder(r, e) /\ Before(p, r \o x, e)
    BY <1>1, <1>2, OrderJoined
  <1>6. InOrder(p, d) /\ InOrder(r, d)
    BY <1>5 DEF InOrder
  <1>7. InOrder(x, d)
    BY DEF InOrder, ToSet
  <1>8. Before(x, r, d) /\ Before(p, x \o r, d)
    BY <1>4, <1>5 DEF Before
  <1> HIDE DEF d
  <1>9. InOrder(x \o r, d)
    BY <1>6, <1>7, <1>8, OrderJoined
  <1>10. InOrder(p \o (x \o r), d)
    BY <1>2, <1>6, <1>8, <1>9, OrderJoined
  <1> QED BY <1>1, <1>3, <1>4, <1>10 DEF Delivered, d

\* The allocator forgets what it keeps of a sampler.
LEMMA Forgets ==
  ASSUME NEW p \in Seq(Nat), NEW r \in Seq(Nat), NEW o, NEW n, NEW e, NEW isGone,
         Delivered(p \o r, o, n, e, isGone)
  PROVE  Delivered(r, o, n, e, TRUE)
  <1>1. InOrder(r, e)
    BY OrderJoined DEF Delivered
  <1>2. ToSet(r) \subseteq ToSet(p \o r)
    BY SetJoined
  <1> QED BY <1>1, <1>2 DEF Delivered

-----------------------------------------------------------------------------
(* The invariant: shapes, what a handler holds, and what is delivered.     *)

FullBuffer == [from : Samplers, buffer : Seq(Nat)]
SamplerMembers ==
  [phase : {"stopped", "running", "destroyed"}, linked : BOOLEAN,
   pc : {"idle", "lock", "unlock", "post"}, buffer : Seq(Nat), hand : Seq(Nat),
   count : Nat, early : SUBSET Nat]
AllocatorState ==
  [pc : {"check", "wait", "swap", "get", "deliver", "drain", "update", "reset", "dead",
         "terminated"},
   completed : BOOLEAN, taken : Seq(FullBuffer), back : {"check", "drain", "update"}]

DataShape ==
  /\ smp \in [Samplers -> SamplerMembers] /\ stack \in [Threads -> Seq(Samplers)]
  /\ queue \in Seq(FullBuffer) /\ alloc \in AllocatorState
  /\ registry \subseteq Samplers /\ offload \in BOOLEAN
  /\ stored \in [Samplers -> Seq(Seq(Nat))] /\ kept \in [Samplers -> Seq(Nat)]
  /\ offloaded \in [Samplers -> Seq(Nat)]

\* Outside its handler, a sampler holds no full buffer; inside, it has no other.
Handling ==
  \A s \in Samplers :
    /\ smp[s].pc # "lock" => smp[s].hand = <<>>
    /\ smp[s].pc # "idle" => /\ smp[s].buffer = <<>>
                             /\ \E i \in DOMAIN stack[Owner[s]] : stack[Owner[s]][i] = s

\* The thread swaps the queue only when it delivered what it had taken.
Taken == alloc.taken # <<>> <=> alloc.pc \in {"get", "deliver"}

DeliveredOf(s) ==
  Delivered(Stream(s), offloaded[s], smp[s].count, smp[s].early, smp[s].phase = "destroyed")

DeliveryInv == DataShape /\ Handling /\ Taken /\ \A s \in Samplers : DeliveredOf(s)

\* The samples of a sampler among the buffers q.
Parts(q, s) == [i \in DOMAIN q |-> IF q[i].from = s THEN q[i].buffer ELSE <<>>]

\* The buffers of s keep their places.
LEMMA PartsAre ==
  ASSUME NEW q \in Seq(FullBuffer), NEW s
  PROVE  /\ Parts(q, s) \in Seq(Seq(Nat)) /\ Len(Parts(q, s)) = Len(q)
         /\ SamplesIn(q, s) = FlattenSeq(Parts(q, s)) /\ SamplesIn(q, s) \in Seq(Nat)
  <1> DEFINE n == Len(q)
             p == Parts(q, s)
  <1>1. n \in Nat /\ DOMAIN q = 1 .. n /\ \A i \in 1 .. n : q[i] \in FullBuffer
    BY LenProperties, ElementOfSeq
  <1>2. \A i \in 1 .. n : (IF q[i].from = s THEN q[i].buffer ELSE <<>>) \in Seq(Nat)
    BY <1>1, EmptySeq DEF FullBuffer
  <1>3. p \in [1 .. n -> Seq(Nat)]
    BY <1>1, <1>2 DEF Parts
  <1> HIDE DEF n, p
  <1>4. p \in Seq(Seq(Nat)) /\ Len(p) = n
    BY <1>1, <1>3
  <1>5. FlattenSeq(p) \in Seq(Nat)
    BY <1>4, FlattenAppended, EmptySeq
  <1>6. SamplesIn(q, s) = FlattenSeq(p)
    BY DEF SamplesIn, Parts, p
  <1> QED BY <1>4, <1>5, <1>6 DEF p, n

\* No buffer, no sample.
LEMMA NoSamples == \A s : SamplesIn(<<>>, s) = <<>>
  <1>1. \A s : Parts(<<>>, s) = <<>>
    BY DEF Parts
  <1> QED BY <1>1, FlattenNone DEF SamplesIn, Parts

\* One buffer more, and the first one taken.
LEMMA SamplesAppended ==
  ASSUME NEW q \in Seq(FullBuffer), NEW b \in FullBuffer, NEW s
  PROVE  SamplesIn(Append(q, b), s)
           = SamplesIn(q, s) \o (IF b.from = s THEN b.buffer ELSE <<>>)
  <1> DEFINE x == IF b.from = s THEN b.buffer ELSE <<>>
             r == Append(q, b)
             n == Len(q)
  <1>1. x \in Seq(Nat)
    BY EmptySeq DEF FullBuffer
  <1>2. /\ r \in Seq(FullBuffer) /\ Len(r) = n + 1 /\ n \in Nat /\ r[n + 1] = b
        /\ DOMAIN q = 1 .. n /\ DOMAIN r = 1 .. n + 1 /\ \A i \in 1 .. n : r[i] = q[i]
    BY AppendProperties, LenProperties
  <1> HIDE DEF r, n, x
  <1>3. /\ Parts(q, s) \in Seq(Seq(Nat)) /\ Len(Parts(q, s)) = n
        /\ Parts(r, s) \in Seq(Seq(Nat)) /\ Len(Parts(r, s)) = n + 1
    BY <1>2, PartsAre DEF n
  <1>4. \A i \in 1 .. n : Parts(r, s)[i] = Parts(q, s)[i]
    BY <1>2 DEF Parts
  <1>5. Parts(r, s)[n + 1] = x
    BY <1>2 DEF Parts, x
  <1> DEFINE y == Parts(q, s)
             z == Parts(r, s)
  <1> HIDE DEF y, z
  <1>6. z = Append(y, x)
    <2>1. Append(y, x) \in Seq(Seq(Nat)) /\ Len(Append(y, x)) = n + 1 /\ Append(y, x)[n + 1] = x
          /\ \A i \in 1 .. n : Append(y, x)[i] = y[i]
      BY <1>1, <1>3, AppendProperties DEF y
    <2>2. \A i \in 1 .. n + 1 : i \in 1 .. n \/ i = n + 1
      BY <1>2
    <2>3. \A i \in 1 .. n + 1 : z[i] = Append(y, x)[i]
      BY <2>1, <2>2, <1>4, <1>5 DEF y, z
    <2> QED BY <2>1, <2>3, <1>3, SeqEqual DEF y, z
  <1>7. FlattenSeq(z) = FlattenSeq(y) \o x
    BY <1>1, <1>3, <1>6, FlattenAppended DEF y
  <1> QED BY <1>7 DEF SamplesIn, Parts, x, y, z, r

\* The thread is done with the first of its buffers.
LEMMA SamplesTaken ==
  ASSUME NEW q \in Seq(FullBuffer), q # <<>>, NEW s
  PROVE  SamplesIn(q, s)
           = (IF Head(q).from = s THEN Head(q).buffer ELSE <<>>) \o SamplesIn(Tail(q), s)
  <1> DEFINE r == Tail(q)
             n == Len(q)
             b == Head(q)
  <1>1. /\ r \in Seq(FullBuffer) /\ Len(r) = n - 1 /\ n \in Nat \ {0} /\ b = q[1]
        /\ DOMAIN q = 1 .. n /\ DOMAIN r = 1 .. n - 1 /\ \A i \in 1 .. n - 1 : r[i] = q[i + 1]
    BY EmptySeq, HeadTailProperties, LenProperties
  <1> HIDE DEF r, n, b
  <1> DEFINE y == Parts(q, s)
             z == Parts(r, s)
  <1>2. /\ y \in Seq(Seq(Nat)) /\ Len(y) = n /\ z \in Seq(Seq(Nat)) /\ Len(z) = n - 1
    BY <1>1, PartsAre DEF n
  <1>3. \A i \in 1 .. n - 1 : z[i] = y[i + 1]
    <2>1. \A i \in 1 .. n - 1 : i + 1 \in 1 .. n
      BY <1>1
    <2> QED BY <1>1, <2>1 DEF Parts
  <1>4. y[1] = IF b.from = s THEN b.buffer ELSE <<>>
    <2>1. 1 \in 1 .. n
      BY <1>1
    <2> QED BY <1>1, <2>1 DEF Parts
  <1> HIDE DEF y, z
  <1>5. y # <<>>
    BY <1>1, <1>2, EmptySeq
  <1>6. Head(y) = y[1] /\ Tail(y) = z
    <2>1. /\ Tail(y) \in Seq(Seq(Nat)) /\ Len(Tail(y)) = n - 1 /\ Head(y) = y[1]
          /\ \A i \in 1 .. n - 1 : Tail(y)[i] = y[i + 1]
      BY <1>2, <1>5, HeadTailProperties
    <2>2. \A i \in 1 .. n - 1 : Tail(y)[i] = z[i]
      BY <2>1, <1>3
    <2>3. Tail(y) = z
      <3> DEFINE w == Tail(y)
      <3>1. w \in Seq(Seq(Nat)) /\ Len(w) = Len(z) /\ \A i \in 1 .. Len(w) : w[i] = z[i]
        BY <2>1, <2>2, <1>2
      <3> HIDE DEF w
      <3>2. w = z
        BY <3>1, <1>2, SeqEqual
      <3> QED BY <3>2 DEF w
    <2> QED BY <2>1, <2>3
  <1>7. FlattenSeq(y) = Head(y) \o FlattenSeq(Tail(y))
    BY <1>2, <1>5, FlattenTaken
  <1>8. FlattenSeq(y) = y[1] \o FlattenSeq(z)
    BY <1>6, <1>7
  <1>9. SamplesIn(q, s) = FlattenSeq(y) /\ SamplesIn(r, s) = FlattenSeq(z)
    BY <1>1, PartsAre DEF y, z
  <1> QED BY <1>4, <1>8, <1>9 DEF r, b

\* Concatenation in the order that shows a piece move.
LEMMA Associative == \A a, b, c \in Seq(Nat) : (a \o b) \o c = a \o (b \o c)
  OBVIOUS

\* Joining sequences of samples, also an empty one.
LEMMA Joined ==
  /\ <<>> \in Seq(Nat)
  /\ \A a, b \in Seq(Nat) : a \o b \in Seq(Nat)
  /\ \A a \in Seq(Nat) : a \o <<>> = a /\ <<>> \o a = a
  <1>1. \A a, b \in Seq(Nat) : a \o b \in Seq(Nat)
    BY ConcatProperties
  <1>2. \A a \in Seq(Nat) : a \o <<>> = a /\ <<>> \o a = a
    BY ConcatEmptySeq
  <1> QED BY <1>1, <1>2, EmptySeq

\* The parts of a stream, joined from the back.
LEMMA StreamPieces ==
  ASSUME NEW k \in [Samplers -> Seq(Nat)], NEW f \in [Samplers -> Seq(Seq(Nat))],
         NEW t \in Seq(FullBuffer), NEW q \in Seq(FullBuffer),
         NEW m \in [Samplers -> SamplerMembers], NEW s \in Samplers
  PROVE  /\ k[s] \in Seq(Nat) /\ FlattenSeq(f[s]) \in Seq(Nat)
         /\ SamplesIn(t, s) \in Seq(Nat) /\ SamplesIn(q, s) \in Seq(Nat)
         /\ m[s].hand \in Seq(Nat) /\ m[s].buffer \in Seq(Nat)
         /\ k[s] \o FlattenSeq(f[s]) \o SamplesIn(t, s) \o SamplesIn(q, s)
              \o m[s].hand \o m[s].buffer
            = k[s] \o (FlattenSeq(f[s]) \o (SamplesIn(t, s) \o (SamplesIn(q, s)
                \o (m[s].hand \o m[s].buffer))))
  <1> DEFINE K == k[s]
             F == FlattenSeq(f[s])
             T == SamplesIn(t, s)
             Q == SamplesIn(q, s)
             H == m[s].hand
             B == m[s].buffer
  <1>1. K \in Seq(Nat) /\ H \in Seq(Nat) /\ B \in Seq(Nat)
    BY DEF SamplerMembers
  <1>2. F \in Seq(Nat)
    <2>1. f[s] \in Seq(Seq(Nat))
      OBVIOUS
    <2> QED BY <2>1, FlattenAppended, EmptySeq
  <1>3. T \in Seq(Nat) /\ Q \in Seq(Nat)
    BY PartsAre
  <1> HIDE DEF K, F, T, Q, H, B
  <1>4. K \o F \in Seq(Nat) /\ (K \o F) \o T \in Seq(Nat) /\ ((K \o F) \o T) \o Q \in Seq(Nat)
    BY <1>1, <1>2, <1>3, Joined
  <1>5. /\ H \o B \in Seq(Nat) /\ Q \o (H \o B) \in Seq(Nat)
        /\ T \o (Q \o (H \o B)) \in Seq(Nat)
    BY <1>1, <1>3, Joined
  <1>6. ((((K \o F) \o T) \o Q) \o H) \o B = (((K \o F) \o T) \o Q) \o (H \o B)
    BY <1>1, <1>4, Associative, ZenonT(30)
  <1>7. (((K \o F) \o T) \o Q) \o (H \o B) = ((K \o F) \o T) \o (Q \o (H \o B))
    <2> DEFINE a == (K \o F) \o T
               b == H \o B
    <2>1. a \in Seq(Nat) /\ b \in Seq(Nat)
      BY <1>4, <1>5
    <2> HIDE DEF a, b
    <2>2. (a \o Q) \o b = a \o (Q \o b)
      BY <2>1, <1>3, Associative, Zenon
    <2> QED BY <2>2 DEF a, b
  <1>8. ((K \o F) \o T) \o (Q \o (H \o B)) = (K \o F) \o (T \o (Q \o (H \o B)))
    <2> DEFINE a == K \o F
               b == Q \o (H \o B)
    <2>1. a \in Seq(Nat) /\ b \in Seq(Nat)
      BY <1>4, <1>5
    <2> HIDE DEF a, b
    <2>2. (a \o T) \o b = a \o (T \o b)
      BY <2>1, <1>3, Associative, Zenon
    <2> QED BY <2>2 DEF a, b
  <1>9. (K \o F) \o (T \o (Q \o (H \o B))) = K \o (F \o (T \o (Q \o (H \o B))))
    BY <1>1, <1>2, <1>5, Associative, ZenonT(30)
  <1>10. ((((K \o F) \o T) \o Q) \o H) \o B = K \o (F \o (T \o (Q \o (H \o B))))
    BY <1>6, <1>7, <1>8, <1>9, Zenon
  <1> QED BY <1>1, <1>2, <1>3, <1>10 DEF K, F, T, Q, H, B

-----------------------------------------------------------------------------
(* The steps.                                                              *)

\* It holds when no sampler has started.
LEMMA DeliveryInit == Init => DeliveryInv
  <1> SUFFICES ASSUME Init PROVE DeliveryInv
    OBVIOUS
  <1>1. NewSampler \in SamplerMembers
    BY DEF NewSampler, SamplerMembers
  <1>2. DataShape
    <2>1. smp \in [Samplers -> SamplerMembers]
      BY <1>1 DEF Init
    <2>2. alloc \in AllocatorState
      BY DEF Init, AllocatorState
    <2>3. stack \in [Threads -> Seq(Samplers)] /\ queue \in Seq(FullBuffer)
      BY EmptySeq DEF Init
    <2>4. /\ stored \in [Samplers -> Seq(Seq(Nat))] /\ kept \in [Samplers -> Seq(Nat)]
          /\ offloaded \in [Samplers -> Seq(Nat)]
      BY EmptySeq DEF Init
    <2>5. registry = Samplers /\ offload = FALSE
      BY DEF Init
    <2> QED BY <2>1, <2>2, <2>3, <2>4, <2>5 DEF DataShape
  <1>3. Handling
    BY DEF Init, NewSampler, Handling
  <1>4. Taken
    BY DEF Init, Taken
  <1>5. ASSUME NEW s \in Samplers PROVE DeliveredOf(s)
    <2>1. /\ kept[s] = <<>> /\ FlattenSeq(stored[s]) = <<>> /\ SamplesIn(alloc.taken, s) = <<>>
          /\ SamplesIn(queue, s) = <<>> /\ smp[s].hand = <<>> /\ smp[s].buffer = <<>>
      BY FlattenNone, NoSamples DEF Init, NewSampler
    <2>2. Stream(s) = <<>>
      BY <2>1, Joined DEF Stream
    <2>3. offloaded[s] = <<>> /\ smp[s].count = 0 /\ smp[s].phase # "destroyed"
      BY DEF Init, NewSampler
    <2>4. ToSet(<<>>) = {}
      BY DEF ToSet
    <2>5. Delivered(<<>>, <<>>, 0, smp[s].early, FALSE)
      BY <2>4 DEF Delivered, InOrder
    <2> QED BY <2>2, <2>3, <2>5 DEF DeliveredOf
  <1> QED BY <1>2, <1>3, <1>4, <1>5 DEF DeliveryInv

\* What the invariant says of one sampler.
LEMMA OfDelivery ==
  ASSUME DeliveryInv, NEW s \in Samplers
  PROVE  /\ DataShape /\ Taken /\ smp[s] \in SamplerMembers /\ Owner[s] \in Threads
         /\ stack[Owner[s]] \in Seq(Samplers) /\ DeliveredOf(s)
         /\ smp[s].pc # "lock" => smp[s].hand = <<>>
         /\ smp[s].pc # "idle" => /\ smp[s].buffer = <<>>
                                  /\ \E i \in DOMAIN stack[Owner[s]] : stack[Owner[s]][i] = s
  BY SamplerAssumption DEF DeliveryInv, DataShape, Handling

\* Nothing a stream is made of changes.
LEMMA StreamQuiet ==
  ASSUME NEW s \in Samplers, DeliveredOf(s), kept'[s] = kept[s], stored'[s] = stored[s],
         offloaded'[s] = offloaded[s],
         SamplesIn(alloc.taken, s)' = SamplesIn(alloc.taken, s),
         SamplesIn(queue, s)' = SamplesIn(queue, s),
         smp'[s].hand = smp[s].hand, smp'[s].buffer = smp[s].buffer,
         smp'[s].count = smp[s].count, smp'[s].early = smp[s].early,
         smp'[s].phase = "destroyed" <=> smp[s].phase = "destroyed"
  PROVE  DeliveredOf(s)'
  <1>1. Stream(s)' = Stream(s)
    BY DEF Stream
  <1> QED BY <1>1 DEF DeliveredOf, Delivered

\* No handler starts, ends or moves a buffer.
LEMMA HandlingQuiet ==
  ASSUME Handling, UNCHANGED stack,
         \A s \in Samplers : /\ smp'[s].pc = smp[s].pc /\ smp'[s].hand = smp[s].hand
                             /\ smp[s].pc # "idle" => smp'[s].buffer = smp[s].buffer
  PROVE  Handling'
  BY DEF Handling

\* A step of the thread, or one that changes no sample's place.
LEMMA QuietStep ==
  ASSUME DeliveryInv, DataShape', Taken', Handling', UNCHANGED <<queue, stored, kept, offloaded>>,
         alloc'.taken = alloc.taken,
         \A s \in Samplers :
           /\ smp'[s].hand = smp[s].hand /\ smp'[s].buffer = smp[s].buffer
           /\ smp'[s].count = smp[s].count /\ smp'[s].early = smp[s].early
           /\ smp'[s].phase = "destroyed" <=> smp[s].phase = "destroyed"
  PROVE  DeliveryInv'
  <1>1. ASSUME NEW s \in Samplers PROVE DeliveredOf(s)'
    <2>1. DeliveredOf(s)
      BY OfDelivery
    <2>2. /\ SamplesIn(alloc.taken, s)' = SamplesIn(alloc.taken, s)
          /\ SamplesIn(queue, s)' = SamplesIn(queue, s)
      OBVIOUS
    <2> QED BY <2>1, <2>2, StreamQuiet
  <1> QED BY <1>1 DEF DeliveryInv

\* The handler unlocks; the sampler starts.
LEMMA DeliveryMember ==
  ASSUME DeliveryInv, NEW s \in Samplers,
         Unlock(s) \/ Start(s)
  PROVE  DeliveryInv'
  <1>s. DataShape /\ Handling /\ Taken
    BY DEF DeliveryInv
  <1>m. /\ smp \in [Samplers -> SamplerMembers] /\ alloc \in AllocatorState
    BY <1>s DEF DataShape
  <1>1. CASE Unlock(s)
    <2>1. smp' \in [Samplers -> SamplerMembers]
      BY ZenonT(30), <1>1, <1>m DEF Unlock, SamplerMembers
    <2>2. \A u \in Samplers : /\ smp'[u].hand = smp[u].hand /\ smp'[u].buffer = smp[u].buffer
                              /\ smp'[u].count = smp[u].count /\ smp'[u].early = smp[u].early
                              /\ smp'[u].phase = smp[u].phase
      BY <1>1, <1>m DEF Unlock, SamplerMembers
    <2>3. \A u \in Samplers : \/ smp'[u].pc = smp[u].pc
                              \/ smp[u].pc = "unlock" /\ smp'[u].pc = "post"
      BY <1>1, <1>m DEF Unlock, SamplerMembers
    <2>4. UNCHANGED <<stack, queue, alloc, registry, stored, kept, offloaded, offload>>
      BY <1>1 DEF Unlock, data
    <2>5. DataShape' /\ Taken'
      BY <1>s, <2>1, <2>4 DEF DataShape, Taken
    <2>6. Handling'
      BY <1>s, <2>2, <2>3, <2>4 DEF Handling
    <2> QED BY <2>2, <2>4, <2>5, <2>6, QuietStep
  <1>2. CASE Start(s)
    <2>1. smp' \in [Samplers -> SamplerMembers]
      BY ZenonT(30), <1>2, <1>m DEF Start, SamplerMembers
    <2>2. \A u \in Samplers : /\ smp'[u].hand = smp[u].hand /\ smp'[u].buffer = smp[u].buffer
                              /\ smp'[u].count = smp[u].count /\ smp'[u].early = smp[u].early
                              /\ smp'[u].pc = smp[u].pc
      BY <1>2, <1>m DEF Start, SamplerMembers
    <2>3. \A u \in Samplers : smp'[u].phase = "destroyed" <=> smp[u].phase = "destroyed"
      BY <1>2, <1>m DEF Start, SamplerMembers
    <2>4. UNCHANGED <<stack, queue, alloc, registry, stored, kept, offloaded, offload>>
      BY <1>2 DEF Start, data, channel
    <2>5. DataShape' /\ Taken'
      BY <1>s, <2>1, <2>4 DEF DataShape, Taken
    <2>6. Handling'
      BY <1>s, <2>2, <2>4, HandlingQuiet
    <2> QED BY <2>2, <2>3, <2>4, <2>5, <2>6, QuietStep
  <1> QED BY <1>1, <1>2

\* The allocator's thread where it moves no sample, and the offload function.
LEMMA DeliveryQuiet ==
  ASSUME DeliveryInv, SetOffload \/ ExitAllocator \/ Check \/ Wait \/ Get \/ Reset
  PROVE  DeliveryInv'
  <1>s. DataShape /\ Handling /\ Taken
    BY DEF DeliveryInv
  <1>m. /\ smp \in [Samplers -> SamplerMembers] /\ alloc \in AllocatorState
    BY <1>s DEF DataShape
  <1>1. CASE SetOffload
    <2>1. /\ offload' \in BOOLEAN
          /\ UNCHANGED <<smp, stack, queue, alloc, registry, stored, kept, offloaded>>
      BY <1>1 DEF SetOffload, sampling, channel, data
    <2>2. DataShape' /\ Taken' /\ Handling'
      BY <1>s, <2>1 DEF DataShape, Taken, Handling
    <2> QED BY <2>1, <2>2, QuietStep
  <1>2. CASE ExitAllocator \/ Check \/ Wait \/ Get
    <2>1. UNCHANGED <<smp, stack, queue, registry, stored, kept, offloaded, offload>>
      BY <1>2 DEF ExitAllocator, Check, Wait, Get, sampling, channel, data
    <2>2. /\ alloc' \in AllocatorState /\ alloc'.taken = alloc.taken
          /\ alloc'.pc \in {"get", "deliver"} <=> alloc.pc \in {"get", "deliver"}
      <3>1. CASE ExitAllocator
        BY <3>1, <1>m DEF ExitAllocator, AllocatorState
      <3>2. CASE Check
        BY <3>2, <1>m DEF Check, AllocatorState
      <3>3. CASE Wait
        BY <3>3, <1>m DEF Wait, AllocatorState
      <3>4. CASE Get
        BY <3>4, <1>m DEF Get, AllocatorState
      <3> QED BY <1>2, <3>1, <3>2, <3>3, <3>4
    <2>3. DataShape'
      BY <1>s, <2>1, <2>2 DEF DataShape
    <2>4. Taken'
      BY <1>s, <2>2 DEF Taken
    <2>5. Handling'
      BY <1>s, <2>1 DEF Handling
    <2> QED BY <2>1, <2>2, <2>3, <2>4, <2>5, QuietStep
  <1>3. CASE Reset
    <2>1. smp' \in [Samplers -> SamplerMembers]
      <3>1. ASSUME NEW r \in SamplerMembers, NEW b \in BOOLEAN
            PROVE  [r EXCEPT !.linked = b] \in SamplerMembers
        BY DEF SamplerMembers
      <3>2. ASSUME NEW u \in Samplers
            PROVE  [smp[u] EXCEPT !.linked = @ /\ u \notin registry] \in SamplerMembers
        <4> DEFINE b == smp[u].linked /\ u \notin registry
        <4>1. b \in BOOLEAN /\ smp[u] \in SamplerMembers
          BY <1>m
        <4> HIDE DEF b
        <4>2. [smp[u] EXCEPT !.linked = b] \in SamplerMembers
          BY <3>1, <4>1
        <4> QED BY <4>2 DEF b
      <3> QED BY <1>3, <3>2 DEF Reset
    <2>2. \A u \in Samplers : /\ smp'[u].hand = smp[u].hand /\ smp'[u].buffer = smp[u].buffer
                              /\ smp'[u].count = smp[u].count /\ smp'[u].early = smp[u].early
                              /\ smp'[u].pc = smp[u].pc /\ smp'[u].phase = smp[u].phase
      BY <1>3, <1>m DEF Reset, SamplerMembers
    <2>3. UNCHANGED <<stack, queue, registry, stored, kept, offloaded, offload>>
      BY <1>3 DEF Reset, channel, data
    <2>4. /\ alloc' \in AllocatorState /\ alloc'.taken = alloc.taken
          /\ alloc'.pc = "dead" /\ alloc.pc = "reset"
      BY <1>3, <1>m DEF Reset, AllocatorState
    <2>5. DataShape' /\ Taken'
      BY <1>s, <2>1, <2>3, <2>4 DEF DataShape, Taken
    <2>6. Handling'
      BY <1>s, <2>2, <2>3, HandlingQuiet
    <2> QED BY <2>2, <2>3, <2>4, <2>5, <2>6, QuietStep
  <1> QED BY <1>1, <1>2, <1>3

\* The stream of a sampler in a state, and in the next.
Behind(s) == SamplesIn(queue, s) \o (smp[s].hand \o smp[s].buffer)
Nested(s) == kept[s] \o (FlattenSeq(stored[s]) \o (SamplesIn(alloc.taken, s) \o Behind(s)))

\* What a stream is made of ...
LEMMA StreamIs ==
  ASSUME DataShape, NEW s \in Samplers
  PROVE  /\ kept[s] \in Seq(Nat) /\ FlattenSeq(stored[s]) \in Seq(Nat)
         /\ SamplesIn(alloc.taken, s) \in Seq(Nat) /\ SamplesIn(queue, s) \in Seq(Nat)
         /\ smp[s].hand \in Seq(Nat) /\ smp[s].buffer \in Seq(Nat) /\ Behind(s) \in Seq(Nat)
         /\ offloaded[s] \in Seq(Nat) /\ Stream(s) = Nested(s)
  <1>1. /\ kept \in [Samplers -> Seq(Nat)] /\ stored \in [Samplers -> Seq(Seq(Nat))]
        /\ alloc.taken \in Seq(FullBuffer) /\ queue \in Seq(FullBuffer)
        /\ smp \in [Samplers -> SamplerMembers] /\ offloaded[s] \in Seq(Nat)
    BY DEF DataShape, AllocatorState
  <1>2. /\ kept[s] \in Seq(Nat) /\ FlattenSeq(stored[s]) \in Seq(Nat)
        /\ SamplesIn(alloc.taken, s) \in Seq(Nat) /\ SamplesIn(queue, s) \in Seq(Nat)
        /\ smp[s].hand \in Seq(Nat) /\ smp[s].buffer \in Seq(Nat)
        /\ Stream(s) = Nested(s)
    BY <1>1, StreamPieces DEF Stream, Nested, Behind
  <1>3. Behind(s) \in Seq(Nat)
    BY <1>2, Joined DEF Behind
  <1> QED BY <1>1, <1>2, <1>3

\* ... and what it is made of after a step.
LEMMA StreamBecomes ==
  ASSUME DataShape', NEW s \in Samplers
  PROVE  /\ kept'[s] \in Seq(Nat) /\ FlattenSeq(stored'[s]) \in Seq(Nat)
         /\ SamplesIn(alloc.taken, s)' \in Seq(Nat) /\ SamplesIn(queue, s)' \in Seq(Nat)
         /\ smp'[s].hand \in Seq(Nat) /\ smp'[s].buffer \in Seq(Nat) /\ Behind(s)' \in Seq(Nat)
         /\ offloaded'[s] \in Seq(Nat) /\ Stream(s)' = Nested(s)'
  <1>1. /\ kept' \in [Samplers -> Seq(Nat)] /\ stored' \in [Samplers -> Seq(Seq(Nat))]
        /\ alloc'.taken \in Seq(FullBuffer) /\ queue' \in Seq(FullBuffer)
        /\ smp' \in [Samplers -> SamplerMembers] /\ offloaded'[s] \in Seq(Nat)
    BY DEF DataShape, AllocatorState
  <1>2. /\ kept'[s] \in Seq(Nat) /\ FlattenSeq(stored'[s]) \in Seq(Nat)
        /\ SamplesIn(alloc.taken, s)' \in Seq(Nat) /\ SamplesIn(queue, s)' \in Seq(Nat)
        /\ smp'[s].hand \in Seq(Nat) /\ smp'[s].buffer \in Seq(Nat)
        /\ Stream(s)' = Nested(s)'
    BY <1>1, StreamPieces DEF Stream, Nested, Behind
  <1>3. Behind(s)' \in Seq(Nat)
    BY <1>2, Joined DEF Behind
  <1> QED BY <1>1, <1>2, <1>3

\* A stream that stays the same, though its samples move.
LEMMA StreamKept ==
  ASSUME NEW s \in Samplers, DeliveredOf(s), DataShape, DataShape', Nested(s)' = Nested(s),
         offloaded'[s] = offloaded[s], smp'[s].count = smp[s].count,
         smp'[s].early = smp[s].early,
         smp'[s].phase = "destroyed" <=> smp[s].phase = "destroyed"
  PROVE  DeliveredOf(s)'
  <1>1. Stream(s)' = Stream(s)
    BY StreamIs, StreamBecomes
  <1> QED BY <1>1 DEF DeliveredOf, Delivered

\* The samples of s in its handler: nothing behind the queue moves.
LEMMA SampleTaken ==
  ASSUME NEW s \in Samplers, DeliveredOf(s), DataShape, DataShape',
         UNCHANGED <<kept, stored, queue, offloaded>>, alloc'.taken = alloc.taken,
         smp'[s].hand = smp[s].hand, smp'[s].count = smp[s].count + 1,
         smp'[s].buffer = smp[s].buffer \o <<smp[s].count + 1>>,
         smp'[s].early = smp[s].early, smp'[s].phase = smp[s].phase
  PROVE  DeliveredOf(s)'
  <1> DEFINE x == <<smp[s].count + 1>>
             K == kept[s]
             F == FlattenSeq(stored[s])
             T == SamplesIn(alloc.taken, s)
             Q == SamplesIn(queue, s)
             H == smp[s].hand
             B == smp[s].buffer
  <1>1. /\ K \in Seq(Nat) /\ F \in Seq(Nat) /\ T \in Seq(Nat) /\ Q \in Seq(Nat)
        /\ H \in Seq(Nat) /\ B \in Seq(Nat)
    BY StreamIs
  <1>2. smp[s].count \in Nat /\ x \in Seq(Nat)
    <2>1. smp[s].count \in Nat
      BY DEF DataShape, SamplerMembers
    <2> QED BY <2>1
  <1>3. /\ Stream(s) = ((((K \o F) \o T) \o Q) \o H) \o B
        /\ Stream(s)' = ((((K \o F) \o T) \o Q) \o H) \o (B \o x)
    BY DEF Stream
  <1> DEFINE Y == (((K \o F) \o T) \o Q) \o H
  <1>4. Y \in Seq(Nat)
    <2> HIDE DEF K, F, T, Q, H
    <2>1. K \o F \in Seq(Nat)
      BY <1>1, Joined
    <2>2. (K \o F) \o T \in Seq(Nat)
      BY <1>1, <2>1, Joined
    <2>3. ((K \o F) \o T) \o Q \in Seq(Nat)
      BY <1>1, <2>2, Joined
    <2> QED BY <1>1, <2>3, Joined
  <1>5. Stream(s) = Y \o B /\ Stream(s)' = Y \o (B \o x)
    BY <1>3
  <1> HIDE DEF Y, B, x
  <1>6. Stream(s)' = Stream(s) \o x
    <2>1. (Y \o B) \o x = Y \o (B \o x)
      BY <1>1, <1>2, <1>4, Associative, ZenonT(30)
    <2> QED BY <2>1, <1>5
  <1>7. Delivered(Stream(s) \o <<smp[s].count + 1>>, offloaded[s], smp[s].count + 1,
                  smp[s].early, smp[s].phase = "destroyed")
    BY NextTaken DEF DeliveredOf
  <1>8. Delivered(Stream(s)', offloaded[s], smp[s].count + 1,
                  smp[s].early, smp[s].phase = "destroyed")
    BY <1>6, <1>7 DEF x
  <1> QED BY <1>8 DEF DeliveredOf

\* A sample goes to a buffer with room.
LEMMA DeliverySample ==
  ASSUME DeliveryInv, NEW s \in Samplers, Sample(s)
  PROVE  DeliveryInv'
  <1>s. DataShape /\ Handling /\ Taken /\ smp \in [Samplers -> SamplerMembers]
    BY DEF DeliveryInv, DataShape
  <1>1. /\ smp[s].pc = "idle"
        /\ UNCHANGED <<stack, queue, alloc, registry, stored, kept, offloaded, offload>>
    BY DEF Sample, MayEnter, channel, data
  <1> DEFINE n == smp[s].count
             b == smp[s].buffer
  <1>2. smp[s] \in SamplerMembers /\ n \in Nat /\ b \in Seq(Nat)
    BY <1>s DEF SamplerMembers
  <1>3. Append(b, n + 1) \in Seq(Nat) /\ Append(b, n + 1) = b \o <<n + 1>>
    <2>1. n + 1 \in Nat
      BY <1>2
    <2> HIDE DEF b, n
    <2> QED BY <1>2, <2>1
  <1>4. smp' = [smp EXCEPT ![s] = [smp[s] EXCEPT !.buffer = Append(b, n + 1), !.count = n + 1]]
    BY <1>s DEF Sample
  <1> DEFINE r == [smp[s] EXCEPT !.buffer = Append(b, n + 1), !.count = n + 1]
  <1>5. /\ r \in SamplerMembers /\ r.buffer = Append(b, n + 1) /\ r.count = n + 1
        /\ r.pc = smp[s].pc /\ r.hand = smp[s].hand /\ r.early = smp[s].early
        /\ r.phase = smp[s].phase
    <2> DEFINE g == Append(b, n + 1)
               m == n + 1
    <2>1. g \in Seq(Nat) /\ m \in Nat
      BY <1>2, <1>3
    <2> HIDE DEF g, m
    <2>2. LET q == [smp[s] EXCEPT !.buffer = g, !.count = m] IN
          /\ q \in SamplerMembers /\ q.buffer = g /\ q.count = m
          /\ q.pc = smp[s].pc /\ q.hand = smp[s].hand /\ q.early = smp[s].early
          /\ q.phase = smp[s].phase
      BY <1>2, <2>1 DEF SamplerMembers
    <2> QED BY <2>2 DEF g, m
  <1> HIDE DEF r
  <1>6. /\ smp' \in [Samplers -> SamplerMembers] /\ smp'[s] = r
        /\ \A u \in Samplers \ {s} : smp'[u] = smp[u]
    BY <1>s, <1>4, <1>5 DEF r
  <1>7. DataShape' /\ Taken'
    BY <1>s, <1>1, <1>6 DEF DataShape, Taken
  <1>8. Handling'
    BY <1>s, <1>1, <1>5, <1>6, HandlingQuiet
  <1>9. ASSUME NEW u \in Samplers PROVE DeliveredOf(u)'
    <2>1. DeliveredOf(u)
      BY OfDelivery
    <2>2. CASE u = s
      BY <2>1, <2>2, <1>s, <1>1, <1>3, <1>5, <1>6, <1>7, SampleTaken
    <2>3. CASE u # s
      BY <2>1, <2>3, <1>1, <1>6, StreamQuiet
    <2> QED BY <2>2, <2>3
  <1> QED BY <1>7, <1>8, <1>9 DEF DeliveryInv

\* One sampler changes.
LEMMA MembersBecome ==
  ASSUME DataShape, NEW s \in Samplers, NEW r \in SamplerMembers, smp' = [smp EXCEPT ![s] = r]
  PROVE  /\ smp' \in [Samplers -> SamplerMembers] /\ smp'[s] = r
         /\ \A u \in Samplers \ {s} : smp'[u] = smp[u]
  BY DEF DataShape

\* A full buffer goes into the handler's hand, and the handler onto the stack.
LEMMA DeliveryBeginMove ==
  ASSUME DeliveryInv, NEW s \in Samplers, BeginMove(s)
  PROVE  DeliveryInv'
  <1> DEFINE b == smp[s].buffer
             r == [smp[s] EXCEPT !.hand = b, !.buffer = <<>>, !.pc = "lock"]
             t == Owner[s]
             w == stack[t]
  <1>s. DataShape /\ Handling /\ Taken /\ smp[s] \in SamplerMembers /\ smp[s].pc = "idle"
    BY DEF DeliveryInv, DataShape, BeginMove, MayEnter
  <1>1. /\ smp' = [smp EXCEPT ![s] = r] /\ stack' = [stack EXCEPT ![t] = Append(w, s)]
        /\ UNCHANGED <<queue, alloc, registry, stored, kept, offloaded, offload>>
    BY <1>s DEF BeginMove, channel, data, DataShape
  <1>2. /\ r \in SamplerMembers /\ r.hand = b /\ r.buffer = <<>> /\ r.pc = "lock"
        /\ r.count = smp[s].count /\ r.early = smp[s].early /\ r.phase = smp[s].phase
    BY <1>s, EmptySeq DEF SamplerMembers
  <1> HIDE DEF r
  <1>3. /\ smp' \in [Samplers -> SamplerMembers] /\ smp'[s] = r
        /\ \A u \in Samplers \ {s} : smp'[u] = smp[u]
    BY <1>s, <1>1, <1>2, MembersBecome
  <1>4. t \in Threads /\ w \in Seq(Samplers) /\ stack \in [Threads -> Seq(Samplers)]
    BY <1>s, SamplerAssumption DEF DataShape
  <1> HIDE DEF t, w
  <1>5. /\ Append(w, s) \in Seq(Samplers) /\ Len(w) \in Nat /\ DOMAIN w = 1 .. Len(w)
        /\ DOMAIN Append(w, s) = 1 .. Len(w) + 1 /\ Append(w, s)[Len(w) + 1] = s
        /\ \A i \in 1 .. Len(w) : Append(w, s)[i] = w[i]
    BY <1>4, AppendProperties, LenProperties
  <1>6. DataShape' /\ Taken'
    BY <1>s, <1>1, <1>3, <1>4, <1>5 DEF DataShape, Taken
  <1>7. Handling'
    <2>1. SUFFICES ASSUME NEW u \in Samplers
          PROVE  /\ smp'[u].pc # "lock" => smp'[u].hand = <<>>
                 /\ smp'[u].pc # "idle" =>
                      /\ smp'[u].buffer = <<>>
                      /\ \E i \in DOMAIN stack'[Owner[u]] : stack'[Owner[u]][i] = u
      BY DEF Handling
    <2>2. stack'[t] = Append(w, s) /\ \A v \in Threads \ {t} : stack'[v] = stack[v]
      BY <1>1, <1>4
    <2>3. Len(w) + 1 \in 1 .. Len(w) + 1 /\ \A i \in 1 .. Len(w) : i \in 1 .. Len(w) + 1
      BY <1>5
    <2>4. CASE u = s
      BY <2>2, <2>3, <2>4, <1>2, <1>3, <1>5 DEF t
    <2>5. CASE u # s
      <3>1. /\ smp'[u] = smp[u]
            /\ smp[u].pc # "lock" => smp[u].hand = <<>>
            /\ smp[u].pc # "idle" => /\ smp[u].buffer = <<>>
                                     /\ \E i \in DOMAIN stack[Owner[u]] : stack[Owner[u]][i] = u
        BY <2>5, <1>s, <1>3 DEF Handling
      <3>2. ASSUME smp[u].pc # "idle"
            PROVE  \E i \in DOMAIN stack'[Owner[u]] : stack'[Owner[u]][i] = u
        <4>1. PICK i \in DOMAIN stack[Owner[u]] : stack[Owner[u]][i] = u
          BY <3>1, <3>2
        <4>2. CASE Owner[u] = t
          <5>1. stack'[Owner[u]] = Append(w, s) /\ stack[Owner[u]] = w
            BY <4>2, <2>2 DEF w
          <5>2. i \in 1 .. Len(w) /\ w[i] = u
            BY <4>1, <5>1, <1>5
          <5> QED BY <5>1, <5>2, <2>3, <1>5
        <4>3. CASE Owner[u] # t
          <5>1. stack'[Owner[u]] = stack[Owner[u]]
            BY <4>3, <2>2, SamplerAssumption
          <5> QED BY <4>1, <5>1
        <4> QED BY <4>2, <4>3
      <3> QED BY <3>1, <3>2
    <2> QED BY <2>4, <2>5
  <1>8. ASSUME NEW u \in Samplers PROVE DeliveredOf(u)'
    <2>1. DeliveredOf(u)
      BY OfDelivery
    <2>2. CASE u = s
      <3>1. smp[s].hand = <<>> /\ b \in Seq(Nat)
        BY <1>s DEF Handling, SamplerMembers
      <3>2. smp[s].hand \o b = b /\ smp'[s].hand \o smp'[s].buffer = b
        BY <3>1, <1>2, <1>3, Joined
      <3>3. Nested(s)' = Nested(s)
        BY <3>2, <1>1 DEF Nested, Behind
      <3> HIDE DEF b
      <3> QED BY <2>1, <2>2, <3>3, <1>s, <1>1, <1>2, <1>3, <1>6, StreamKept
    <2>3. CASE u # s
      BY <2>1, <2>3, <1>1, <1>3, StreamQuiet
    <2> QED BY <2>2, <2>3
  <1> QED BY <1>6, <1>7, <1>8 DEF DeliveryInv

\* The buffer in hand becomes the last of the queue.
LEMMA DeliveryPush ==
  ASSUME DeliveryInv, NEW s \in Samplers, Push(s)
  PROVE  DeliveryInv'
  <1> DEFINE h == smp[s].hand
             r == [smp[s] EXCEPT !.hand = <<>>, !.pc = "unlock"]
             b == [from |-> s, buffer |-> h]
  <1>s. DataShape /\ Handling /\ Taken /\ smp[s] \in SamplerMembers /\ smp[s].pc = "lock"
    BY DEF DeliveryInv, DataShape, Push
  <1>1. /\ smp' = [smp EXCEPT ![s] = r] /\ queue' = Append(queue, b)
        /\ UNCHANGED <<stack, alloc, registry, stored, kept, offloaded, offload>>
    BY <1>s DEF Push, data, DataShape
  <1>2. /\ r \in SamplerMembers /\ r.hand = <<>> /\ r.buffer = smp[s].buffer /\ r.pc = "unlock"
        /\ r.count = smp[s].count /\ r.early = smp[s].early /\ r.phase = smp[s].phase
    BY <1>s, EmptySeq DEF SamplerMembers
  <1> HIDE DEF r
  <1>3. /\ smp' \in [Samplers -> SamplerMembers] /\ smp'[s] = r
        /\ \A u \in Samplers \ {s} : smp'[u] = smp[u]
    BY <1>s, <1>1, <1>2, MembersBecome
  <1>4. h \in Seq(Nat) /\ queue \in Seq(FullBuffer) /\ smp[s].buffer = <<>>
    BY <1>s DEF DataShape, Handling, SamplerMembers
  <1>5. b \in FullBuffer /\ b.from = s /\ b.buffer = h
    BY <1>4 DEF FullBuffer
  <1> HIDE DEF b, h
  <1>6. queue' \in Seq(FullBuffer)
    BY <1>1, <1>4, <1>5, AppendProperties
  <1>7. DataShape' /\ Taken'
    BY <1>s, <1>1, <1>3, <1>6 DEF DataShape, Taken
  <1>8. Handling'
    BY <1>s, <1>1, <1>2, <1>3 DEF Handling
  <1>9. \A u : SamplesIn(queue', u) = SamplesIn(queue, u) \o (IF s = u THEN h ELSE <<>>)
    BY <1>1, <1>4, <1>5, SamplesAppended
  <1>10. ASSUME NEW u \in Samplers PROVE DeliveredOf(u)'
    <2>1. DeliveredOf(u) /\ SamplesIn(queue, u) \in Seq(Nat)
      BY <1>s, OfDelivery, StreamIs
    <2>2. CASE u = s
      <3> DEFINE Q == SamplesIn(queue, s)
      <3>1. SamplesIn(queue', s) = Q \o h /\ Q \in Seq(Nat)
        BY <1>9, <2>1, <2>2
      <3> HIDE DEF Q
      <3>2. Q \o h \in Seq(Nat) /\ h \o <<>> = h /\ <<>> \o <<>> = <<>>
        BY <3>1, <1>4, Joined
      <3>3. (Q \o h) \o <<>> = Q \o h
        BY <3>2, Joined
      <3>4. Behind(s)' = Behind(s)
        BY <3>1, <3>2, <3>3, <1>2, <1>3, <1>4 DEF Behind, Q, h
      <3>5. Nested(s)' = Nested(s)
        BY <3>4, <1>1 DEF Nested
      <3> QED BY <2>1, <2>2, <3>5, <1>s, <1>1, <1>2, <1>3, <1>7, StreamKept
    <2>3. CASE u # s
      <3>1. SamplesIn(queue', u) = SamplesIn(queue, u)
        BY <1>9, <2>1, <2>3, Joined
      <3> QED BY <2>1, <2>3, <3>1, <1>1, <1>3, StreamQuiet
    <2> QED BY <2>2, <2>3
  <1> QED BY <1>7, <1>8, <1>10 DEF DeliveryInv

\* A stack of handlers without the innermost.
LEMMA WithoutLast ==
  ASSUME NEW w \in Seq(Samplers), w # <<>>
  PROVE  /\ Front(w) \in Seq(Samplers) /\ Len(w) \in Nat \ {0} /\ Last(w) = w[Len(w)]
         /\ DOMAIN w = 1 .. Len(w) /\ DOMAIN Front(w) = 1 .. Len(w) - 1
         /\ \A i \in 1 .. Len(w) - 1 : Front(w)[i] = w[i]
  <1>1. Len(w) \in Nat \ {0} /\ DOMAIN w = 1 .. Len(w) /\ \A i \in 1 .. Len(w) : w[i] \in Samplers
    BY EmptySeq, LenProperties, ElementOfSeq
  <1>2. Front(w) = [i \in 1 .. Len(w) - 1 |-> w[i]]
    BY <1>1 DEF Front
  <1>3. Front(w) \in Seq(Samplers)
    BY <1>1, <1>2
  <1> QED BY <1>1, <1>2, <1>3 DEF Last

\* The handler posts, leaves the stack and goes on with a new buffer.
LEMMA DeliveryPost ==
  ASSUME DeliveryInv, NEW s \in Samplers, Post(s)
  PROVE  DeliveryInv'
  <1> DEFINE n == smp[s].count
             x == <<n + 1>>
             r == [smp[s] EXCEPT !.buffer = x, !.count = n + 1, !.pc = "idle"]
             t == Owner[s]
             w == stack[t]
  <1>s. DataShape /\ Handling /\ Taken /\ smp[s] \in SamplerMembers /\ smp[s].pc = "post"
    BY DEF DeliveryInv, DataShape, Post
  <1>n. n \in Nat /\ x \in Seq(Nat)
    <2>1. n \in Nat
      BY <1>s DEF SamplerMembers
    <2> QED BY <2>1
  <1>1. /\ smp' = [smp EXCEPT ![s] = r] /\ stack' = [stack EXCEPT ![t] = Front(w)]
        /\ UNCHANGED <<queue, alloc, registry, stored, kept, offloaded, offload>>
        /\ w # <<>> /\ Last(w) = s
    BY <1>s DEF Post, Runs, data, DataShape
  <1> HIDE DEF x
  <1>2. /\ r \in SamplerMembers /\ r.buffer = x /\ r.hand = smp[s].hand /\ r.pc = "idle"
        /\ r.count = n + 1 /\ r.early = smp[s].early /\ r.phase = smp[s].phase
    <2> DEFINE m == n + 1
    <2>1. m \in Nat
      BY <1>n
    <2> HIDE DEF m
    <2>2. LET q == [smp[s] EXCEPT !.buffer = x, !.count = m, !.pc = "idle"] IN
          /\ q \in SamplerMembers /\ q.buffer = x /\ q.hand = smp[s].hand /\ q.pc = "idle"
          /\ q.count = m /\ q.early = smp[s].early /\ q.phase = smp[s].phase
      BY <1>s, <1>n, <2>1 DEF SamplerMembers
    <2> QED BY <2>2 DEF m
  <1> HIDE DEF r
  <1>3. /\ smp' \in [Samplers -> SamplerMembers] /\ smp'[s] = r
        /\ \A u \in Samplers \ {s} : smp'[u] = smp[u]
    BY <1>s, <1>1, <1>2, MembersBecome
  <1>4. t \in Threads /\ w \in Seq(Samplers) /\ stack \in [Threads -> Seq(Samplers)]
    BY <1>s, SamplerAssumption DEF DataShape
  <1> HIDE DEF t, w
  <1>5. /\ Front(w) \in Seq(Samplers) /\ Len(w) \in Nat \ {0} /\ w[Len(w)] = s
        /\ DOMAIN w = 1 .. Len(w) /\ DOMAIN Front(w) = 1 .. Len(w) - 1
        /\ \A i \in 1 .. Len(w) - 1 : Front(w)[i] = w[i]
    BY <1>1, <1>4, WithoutLast
  <1>6. DataShape' /\ Taken'
    BY <1>s, <1>1, <1>3, <1>4, <1>5 DEF DataShape, Taken
  <1>7. Handling'
    <2>1. SUFFICES ASSUME NEW u \in Samplers
          PROVE  /\ smp'[u].pc # "lock" => smp'[u].hand = <<>>
                 /\ smp'[u].pc # "idle" =>
                      /\ smp'[u].buffer = <<>>
                      /\ \E i \in DOMAIN stack'[Owner[u]] : stack'[Owner[u]][i] = u
      BY DEF Handling
    <2>2. stack'[t] = Front(w) /\ \A v \in Threads \ {t} : stack'[v] = stack[v]
      BY <1>1, <1>4
    <2>3. CASE u = s
      BY <2>3, <1>s, <1>2, <1>3 DEF Handling
    <2>4. CASE u # s
      <3>1. /\ smp'[u] = smp[u]
            /\ smp[u].pc # "lock" => smp[u].hand = <<>>
            /\ smp[u].pc # "idle" => /\ smp[u].buffer = <<>>
                                     /\ \E i \in DOMAIN stack[Owner[u]] : stack[Owner[u]][i] = u
        BY <2>4, <1>s, <1>3 DEF Handling
      <3>2. ASSUME smp[u].pc # "idle"
            PROVE  \E i \in DOMAIN stack'[Owner[u]] : stack'[Owner[u]][i] = u
        <4>1. PICK i \in DOMAIN stack[Owner[u]] : stack[Owner[u]][i] = u
          BY <3>1, <3>2
        <4>2. CASE Owner[u] = t
          <5>1. stack'[Owner[u]] = Front(w) /\ stack[Owner[u]] = w
            BY <4>2, <2>2 DEF w
          <5>2. i \in 1 .. Len(w) - 1 /\ w[i] = u
            BY <4>1, <5>1, <1>5, <2>4
          <5> QED BY <5>1, <5>2, <1>5
        <4>3. CASE Owner[u] # t
          <5>1. stack'[Owner[u]] = stack[Owner[u]]
            BY <4>3, <2>2, SamplerAssumption
          <5> QED BY <4>1, <5>1
        <4> QED BY <4>2, <4>3
      <3> QED BY <3>1, <3>2
    <2> QED BY <2>3, <2>4
  <1>8. ASSUME NEW u \in Samplers PROVE DeliveredOf(u)'
    <2>1. DeliveredOf(u)
      BY OfDelivery
    <2>2. CASE u = s
      <3>1. smp[s].buffer = <<>>
        BY <1>s DEF Handling
      <3>2. smp'[s].buffer = smp[s].buffer \o <<smp[s].count + 1>>
        <4>1. <<>> \o x = x
          BY <1>n, Joined
        <4> QED BY <3>1, <4>1, <1>2, <1>3 DEF x
      <3> QED BY <2>1, <2>2, <3>2, <1>s, <1>1, <1>2, <1>3, <1>6, SampleTaken
    <2>3. CASE u # s
      BY <2>1, <2>3, <1>1, <1>3, StreamQuiet
    <2> QED BY <2>2, <2>3
  <1> QED BY <1>6, <1>7, <1>8 DEF DeliveryInv

\* The thread swaps the queue out.
LEMMA DeliverySwap ==
  ASSUME DeliveryInv, SwapBuffer \/ Drain
  PROVE  DeliveryInv'
  <1>s. DataShape /\ Handling /\ Taken /\ alloc \in AllocatorState /\ queue \in Seq(FullBuffer)
    BY DEF DeliveryInv, DataShape
  <1>1. PICK next \in {"check", "drain", "update"} : alloc.pc \in {"swap", "drain"} /\ Swap(next)
    BY DEF SwapBuffer, Drain
  <1>2. alloc.taken = <<>>
    BY <1>s, <1>1 DEF Taken
  <1>3. /\ UNCHANGED <<smp, stack, registry, stored, kept, offloaded, offload>> /\ queue' = <<>>
        /\ alloc' = [alloc EXCEPT !.taken = queue, !.back = next,
                                  !.pc = IF queue = <<>> THEN next ELSE "get"]
    BY <1>1 DEF Swap, sampling, data
  <1> DEFINE pc == IF queue = <<>> THEN next ELSE "get"
  <1>4. /\ pc \in {"check", "drain", "update", "get"}
        /\ queue # <<>> <=> pc \in {"get", "deliver"}
    BY <1>1
  <1>5. alloc' = [alloc EXCEPT !.taken = queue, !.back = next, !.pc = pc]
    BY <1>3
  <1> HIDE DEF pc
  <1>6. alloc' \in AllocatorState /\ alloc'.taken = queue /\ alloc'.pc = pc
    BY <1>s, <1>1, <1>4, <1>5 DEF AllocatorState
  <1>7. DataShape' /\ Taken' /\ Handling'
    BY <1>s, <1>3, <1>4, <1>6, EmptySeq DEF DataShape, Taken, Handling
  <1>8. ASSUME NEW u \in Samplers PROVE DeliveredOf(u)'
    <2> DEFINE Q == SamplesIn(queue, u)
               R == smp[u].hand \o smp[u].buffer
    <2>1. /\ SamplesIn(alloc.taken, u) = <<>> /\ SamplesIn(queue, u)' = <<>>
          /\ SamplesIn(alloc.taken, u)' = Q /\ smp'[u] = smp[u]
      BY <1>2, <1>3, <1>6, NoSamples
    <2>2. Q \in Seq(Nat) /\ R \in Seq(Nat)
      BY <1>s, StreamIs, Joined
    <2>3. Behind(u) = Q \o R /\ Behind(u)' = <<>> \o R
      BY <2>1 DEF Behind
    <2> HIDE DEF Q, R
    <2>4. Q \o (<<>> \o R) = <<>> \o (Q \o R)
      <3>1. Q \o R \in Seq(Nat)
        BY <2>2, Joined
      <3> QED BY <2>2, <3>1, Joined
    <2>5. SamplesIn(alloc.taken, u)' \o Behind(u)' = SamplesIn(alloc.taken, u) \o Behind(u)
      BY <2>1, <2>3, <2>4
    <2>6. Nested(u)' = Nested(u)
      BY <2>5, <1>3 DEF Nested
    <2>7. DeliveredOf(u)
      BY OfDelivery
    <2> QED BY <2>1, <2>6, <2>7, <1>s, <1>3, <1>7, StreamKept
  <1> QED BY <1>7, <1>8 DEF DeliveryInv

\* Samples that leave a stream for the offload function.
LEMMA StreamOffloads ==
  ASSUME NEW s \in Samplers, DeliveredOf(s), DataShape', NEW p \in Seq(Nat), NEW x \in Seq(Nat),
         NEW r \in Seq(Nat), NEW d, Stream(s) = p \o (x \o r), Stream(s)' = p \o r,
         offloaded'[s] = offloaded[s] \o x, smp'[s].count = smp[s].count,
         smp'[s].early = smp[s].early \cup d,
         smp'[s].phase = "destroyed" <=> smp[s].phase = "destroyed"
  PROVE  DeliveredOf(s)'
  <1> DEFINE isGone == smp[s].phase = "destroyed"
             o == offloaded[s]
             n == smp[s].count
             e == smp[s].early
  <1>1. Delivered(p \o (x \o r), o, n, e, isGone)
    BY DEF DeliveredOf
  <1> HIDE DEF isGone, o, n, e
  <1>2. Delivered(p \o r, o \o x, n, e \cup d, isGone)
    BY <1>1, Offloads
  <1>3. Delivered(Stream(s)', offloaded'[s], smp'[s].count, smp'[s].early, isGone)
    BY <1>2 DEF o, n, e
  <1> QED BY <1>3 DEF DeliveredOf, Delivered, isGone

\* emplace of a buffer b of v, the first that was taken.
LEMMA DeliveryDeliver ==
  ASSUME DeliveryInv, Deliver
  PROVE  DeliveryInv'
  <1> DEFINE v == Head(alloc.taken).from
             b == Head(alloc.taken).buffer
             rest == Tail(alloc.taken)
             pc == IF Len(alloc.taken) = 1 THEN alloc.back ELSE "get"
  <1>s. /\ DataShape /\ Handling /\ Taken /\ alloc \in AllocatorState
        /\ alloc.taken \in Seq(FullBuffer)
        /\ stored \in [Samplers -> Seq(Seq(Nat))] /\ offloaded \in [Samplers -> Seq(Nat)]
    BY DEF DeliveryInv, DataShape, AllocatorState
  <1>1. alloc.taken # <<>>
    BY <1>s DEF Deliver, Taken
  <1>2. /\ UNCHANGED <<smp, stack, queue, registry, kept, offload>>
        /\ alloc' = [alloc EXCEPT !.taken = rest, !.pc = pc]
        /\ Emplace(v, b)
    BY DEF Deliver, sampling, channel
  <1>3. /\ v \in Samplers /\ b \in Seq(Nat) /\ rest \in Seq(FullBuffer)
        /\ Len(rest) = Len(alloc.taken) - 1 /\ Len(alloc.taken) \in Nat \ {0}
    <2>1. /\ Head(alloc.taken) \in FullBuffer /\ rest \in Seq(FullBuffer)
          /\ Len(rest) = Len(alloc.taken) - 1
      BY <1>s, <1>1, HeadTailProperties
    <2>2. Len(alloc.taken) \in Nat \ {0}
      BY <1>s, <1>1, EmptySeq
    <2> QED BY <2>1, <2>2 DEF FullBuffer
  <1>4. \A u : SamplesIn(alloc.taken, u) = (IF v = u THEN b ELSE <<>>) \o SamplesIn(rest, u)
    BY <1>s, <1>1, SamplesTaken
  <1>5. /\ pc \in {"check", "drain", "update", "get"}
        /\ rest # <<>> <=> pc \in {"get", "deliver"}
    <2>1. alloc.back \in {"check", "drain", "update"}
      BY <1>s DEF AllocatorState
    <2>2. rest = <<>> <=> Len(alloc.taken) = 1
      <3> HIDE DEF rest
      <3>1. rest = <<>> => Len(rest) = 0
        BY EmptySeq
      <3>2. rest # <<>> => Len(rest) # 0
        BY <1>3, EmptySeq
      <3> QED BY <3>1, <3>2, <1>3
    <2> QED BY <2>1, <2>2
  <1> HIDE DEF v, b, rest, pc
  <1>6. alloc' \in AllocatorState /\ alloc'.taken = rest /\ alloc'.pc = pc
    BY <1>s, <1>2, <1>3, <1>5 DEF AllocatorState
  <1>7. /\ stored' \in [Samplers -> Seq(Seq(Nat))] /\ offloaded' \in [Samplers -> Seq(Nat)]
        /\ \A u \in Samplers \ {v} : stored'[u] = stored[u] /\ offloaded'[u] = offloaded[u]
        /\ offload => offloaded'[v] = offloaded[v] \o b /\ stored'[v] = stored[v]
        /\ ~offload => offloaded'[v] = offloaded[v] /\ stored'[v] = Append(stored[v], b)
    <2>1. stored[v] \in Seq(Seq(Nat)) /\ offloaded[v] \in Seq(Nat)
      BY <1>s, <1>3
    <2>2. offloaded[v] \o b \in Seq(Nat) /\ Append(stored[v], b) \in Seq(Seq(Nat))
      <3>1. offloaded[v] \o b \in Seq(Nat)
        BY <2>1, <1>3, Joined
      <3>2. Append(stored[v], b) \in Seq(Seq(Nat))
        BY <2>1, <1>3, AppendProperties
      <3> QED BY <3>1, <3>2
    <2>3. CASE offload
      BY <2>1, <2>2, <2>3, <1>s, <1>2, <1>3 DEF Emplace
    <2>4. CASE ~offload
      BY <2>1, <2>2, <2>4, <1>s, <1>2, <1>3 DEF Emplace
    <2> QED BY <2>3, <2>4
  <1>8. DataShape' /\ Taken' /\ Handling'
    BY <1>s, <1>2, <1>5, <1>6, <1>7 DEF DataShape, Taken, Handling
  <1>9. ASSUME NEW u \in Samplers PROVE DeliveredOf(u)'
    <2> DEFINE K == kept[u]
               F == FlattenSeq(stored[u])
               T == SamplesIn(rest, u)
               R == Behind(u)
    <2>0. DeliveredOf(u) /\ smp'[u] = smp[u]
      BY <1>2, OfDelivery
    <2>1. /\ K \in Seq(Nat) /\ F \in Seq(Nat) /\ T \in Seq(Nat) /\ R \in Seq(Nat)
          /\ Stream(u) = Nested(u) /\ Stream(u)' = Nested(u)' /\ stored[u] \in Seq(Seq(Nat))
      BY <1>s, <1>8, <1>3, StreamIs, StreamBecomes, PartsAre
    <2>2. /\ SamplesIn(alloc.taken, u)' = T /\ Behind(u)' = R /\ kept'[u] = K
      BY <1>2, <1>6 DEF Behind
    <2>3. CASE u # v
      <3>1. SamplesIn(alloc.taken, u) = T
        BY <2>1, <2>3, <1>4, Joined
      <3> QED BY <2>0, <2>2, <2>3, <3>1, <1>2, <1>7, StreamQuiet
    <2>4. CASE u = v
      <3>1. SamplesIn(alloc.taken, u) = b \o T
        BY <2>4, <1>4
      <3>2. Stream(u) = K \o (F \o ((b \o T) \o R))
        BY <2>1, <3>1 DEF Nested
      <3>3. CASE ~offload
        <4>1. FlattenSeq(stored'[u]) = F \o b
          BY <2>1, <2>4, <3>3, <1>3, <1>7, FlattenAppended
        <4>2. Stream(u)' = K \o ((F \o b) \o (T \o R))
          BY <2>1, <2>2, <4>1 DEF Nested
        <4> HIDE DEF K, F, T, R
        <4>3. (F \o b) \o (T \o R) = F \o ((b \o T) \o R)
          <5>1. T \o R \in Seq(Nat) /\ b \o T \in Seq(Nat)
            BY <2>1, <1>3, Joined
          <5>2. (b \o T) \o R = b \o (T \o R)
            BY <2>1, <1>3, Associative, ZenonT(30)
          <5> DEFINE c == T \o R
          <5>c. c \in Seq(Nat)
            BY <5>1
          <5> HIDE DEF c
          <5>3. (F \o b) \o c = F \o (b \o c)
            BY <5>c, <2>1, <1>3, Associative, ZenonT(30)
          <5> QED BY <5>2, <5>3 DEF c
        <4>4. Nested(u)' = Nested(u)
          BY <2>1, <3>2, <4>2, <4>3
        <4> QED BY <2>0, <2>4, <4>4, <1>s, <1>7, <1>8, <3>3, StreamKept
      <3>4. CASE offload
        <4>1. Stream(u)' = K \o (F \o (T \o R))
          BY <2>1, <2>2, <2>4, <3>4, <1>7 DEF Nested
        <4> HIDE DEF K, F, T, R
        <4> DEFINE p == K \o F
                   r == T \o R
        <4>2. p \in Seq(Nat) /\ r \in Seq(Nat) /\ b \o r \in Seq(Nat)
          BY <2>1, <1>3, Joined
        <4>3. (b \o T) \o R = b \o r
          BY <2>1, <1>3, Associative, ZenonT(30)
        <4> HIDE DEF r
        <4>4. K \o (F \o (b \o r)) = p \o (b \o r) /\ K \o (F \o r) = p \o r
          <5> DEFINE c == b \o r
          <5>1. c \in Seq(Nat)
            BY <4>2
          <5> HIDE DEF c
          <5>2. K \o (F \o c) = p \o c
            BY <5>1, <2>1, Associative, ZenonT(30)
          <5>r. r \in Seq(Nat)
            BY <4>2
          <5>3. K \o (F \o r) = p \o r
            BY <5>r, <2>1, Associative, ZenonT(30)
          <5> QED BY <5>2, <5>3 DEF c
        <4> HIDE DEF p
        <4>5. Stream(u) = p \o (b \o r) /\ Stream(u)' = p \o r
          BY <3>2, <4>1, <4>3, <4>4 DEF r
        <4>6. offloaded'[u] = offloaded[u] \o b
          BY <2>4, <3>4, <1>7
        <4>7. smp'[u].early = smp[u].early \cup {}
          BY <2>0
        <4> QED BY <2>0, <4>2, <4>5, <4>6, <4>7, <1>3, <1>8, StreamOffloads
      <3> QED BY <3>3, <3>4
    <2> QED BY <2>3, <2>4
  <1> QED BY <1>8, <1>9 DEF DeliveryInv

\* The buffers of some samplers become data or go to the offload function.
LEMMA DeliveryUpdate ==
  ASSUME DeliveryInv, NEW set, UpdateData(set), alloc' \in AllocatorState,
         alloc'.taken = alloc.taken, Taken',
         UNCHANGED <<smp, stack, queue, registry, offload>>
  PROVE  DeliveryInv'
  <1>s. /\ DataShape /\ Handling /\ kept \in [Samplers -> Seq(Nat)]
        /\ stored \in [Samplers -> Seq(Seq(Nat))] /\ offloaded \in [Samplers -> Seq(Nat)]
    BY DEF DeliveryInv, DataShape
  <1> DEFINE With(f) ==
        [s \in Samplers |-> IF s \in set THEN f[s] \o FlattenSeq(stored[s]) ELSE f[s]]
  <1>1. \A s \in Samplers : FlattenSeq(stored[s]) \in Seq(Nat)
    BY <1>s, StreamIs
  <1>2. /\ With(kept) \in [Samplers -> Seq(Nat)] /\ With(offloaded) \in [Samplers -> Seq(Nat)]
    <2>1. ASSUME NEW f \in [Samplers -> Seq(Nat)], NEW s \in Samplers
          PROVE  (IF s \in set THEN f[s] \o FlattenSeq(stored[s]) ELSE f[s]) \in Seq(Nat)
      <3>1. f[s] \in Seq(Nat)
        OBVIOUS
      <3> QED BY <3>1, <1>1, Joined
    <2> QED BY <2>1, <1>s
  <1>3. /\ stored' = [s \in Samplers |-> IF s \in set THEN <<>> ELSE stored[s]]
        /\ offload => offloaded' = With(offloaded) /\ kept' = kept
        /\ ~offload => kept' = With(kept) /\ offloaded' = offloaded
    BY DEF UpdateData
  <1>4. stored' \in [Samplers -> Seq(Seq(Nat))]
    BY <1>s, <1>3, EmptySeq
  <1>5. kept' \in [Samplers -> Seq(Nat)] /\ offloaded' \in [Samplers -> Seq(Nat)]
    <2> HIDE DEF With
    <2> QED BY <1>s, <1>2, <1>3
  <1>6. DataShape' /\ Handling'
    BY <1>s, <1>4, <1>5 DEF DataShape, Handling
  <1>7. ASSUME NEW u \in Samplers PROVE DeliveredOf(u)'
    <2> DEFINE K == kept[u]
               F == FlattenSeq(stored[u])
               R == SamplesIn(alloc.taken, u) \o Behind(u)
    <2>0. DeliveredOf(u) /\ smp'[u] = smp[u]
      BY OfDelivery
    <2>1. /\ K \in Seq(Nat) /\ F \in Seq(Nat) /\ R \in Seq(Nat)
          /\ Stream(u) = K \o (F \o R)
      BY <1>s, StreamIs, Joined DEF Nested
    <2>2. Stream(u)' = kept'[u] \o (FlattenSeq(stored'[u]) \o R)
      <3>1. Behind(u)' = Behind(u) /\ SamplesIn(alloc.taken, u)' = SamplesIn(alloc.taken, u)
        BY DEF Behind
      <3> QED BY <3>1, <1>6, StreamBecomes DEF Nested
    <2>3. CASE u \notin set
      <3>1. stored'[u] = stored[u] /\ kept'[u] = kept[u] /\ offloaded'[u] = offloaded[u]
        BY <2>3, <1>s, <1>3
      <3> QED BY <2>0, <3>1, StreamQuiet
    <2>4. CASE u \in set
      <3>1. FlattenSeq(stored'[u]) = <<>>
        BY <2>4, <1>3, FlattenNone
      <3>2. CASE offload
        <4>1. kept'[u] = K /\ offloaded'[u] = offloaded[u] \o F
          BY <2>4, <3>2, <1>3
        <4> HIDE DEF K, F, R
        <4>2. Stream(u)' = K \o R
          BY <2>1, <2>2, <3>1, <4>1, Joined
        <4>3. smp'[u].early = smp[u].early \cup {}
          BY <2>0
        <4> QED BY <2>0, <2>1, <4>1, <4>2, <4>3, <1>6, StreamOffloads
      <3>3. CASE ~offload
        <4>1. kept'[u] = K \o F /\ offloaded'[u] = offloaded[u]
          BY <2>4, <3>3, <1>3
        <4> HIDE DEF K, F, R
        <4>2. Stream(u)' = (K \o F) \o R
          BY <2>1, <2>2, <3>1, <4>1, Joined
        <4>3. (K \o F) \o R = K \o (F \o R)
          BY <2>1, Associative, Zenon
        <4>4. Nested(u)' = Nested(u)
          BY <2>1, <4>2, <4>3, <1>s, <1>6, StreamIs, StreamBecomes
        <4> QED BY <2>0, <4>1, <4>4, <1>s, <1>6, StreamKept
      <3> QED BY <3>2, <3>3
    <2> QED BY <2>3, <2>4
  <1> QED BY <1>6, <1>7 DEF DeliveryInv

\* stop(): the residual buffer overtakes the full ones, or is offloaded.
LEMMA DeliveryStop ==
  ASSUME DeliveryInv, NEW s \in Samplers, Stop(s)
  PROVE  DeliveryInv'
  <1> DEFINE b == smp[s].buffer
             r == [smp[s] EXCEPT !.phase = "stopped", !.buffer = <<>>, !.early = @ \cup ToSet(b)]
  <1>s. /\ DataShape /\ Handling /\ Taken /\ smp[s] \in SamplerMembers
        /\ stored \in [Samplers -> Seq(Seq(Nat))] /\ offloaded \in [Samplers -> Seq(Nat)]
    BY DEF DeliveryInv, DataShape
  <1>1. /\ smp' = [smp EXCEPT ![s] = r] /\ smp[s].phase = "running" /\ stack[Owner[s]] = <<>>
        /\ UNCHANGED <<stack, queue, alloc, registry, kept, offload>>
        /\ b # <<>> => Emplace(s, b)
        /\ b = <<>> => UNCHANGED <<stored, offloaded>>
    BY <1>s DEF Stop, OutsideHandler, channel, DataShape
  <1>2. smp[s].pc = "idle" /\ smp[s].hand = <<>>
    BY <1>s, <1>1 DEF Handling
  <1>3. b \in Seq(Nat) /\ ToSet(b) \in SUBSET Nat
    <2>1. b \in Seq(Nat)
      BY <1>s DEF SamplerMembers
    <2> HIDE DEF b
    <2> QED BY <2>1, LenProperties DEF ToSet
  <1> HIDE DEF b
  <1>4. /\ r \in SamplerMembers /\ r.buffer = <<>> /\ r.hand = smp[s].hand /\ r.pc = smp[s].pc
        /\ r.count = smp[s].count /\ r.early = smp[s].early \cup ToSet(b) /\ r.phase = "stopped"
    <2> DEFINE e == smp[s].early \cup ToSet(b)
    <2>1. e \in SUBSET Nat
      BY <1>s, <1>3 DEF SamplerMembers
    <2> HIDE DEF e
    <2>2. LET q == [smp[s] EXCEPT !.phase = "stopped", !.buffer = <<>>, !.early = e] IN
          /\ q \in SamplerMembers /\ q.buffer = <<>> /\ q.hand = smp[s].hand /\ q.pc = smp[s].pc
          /\ q.count = smp[s].count /\ q.early = e /\ q.phase = "stopped"
      BY <1>s, <2>1, EmptySeq DEF SamplerMembers
    <2> QED BY <2>2 DEF e
  <1> HIDE DEF r
  <1>5. /\ smp' \in [Samplers -> SamplerMembers] /\ smp'[s] = r
        /\ \A u \in Samplers \ {s} : smp'[u] = smp[u]
    BY <1>s, <1>1, <1>4, MembersBecome
  <1>6. /\ stored' \in [Samplers -> Seq(Seq(Nat))] /\ offloaded' \in [Samplers -> Seq(Nat)]
        /\ \A u \in Samplers \ {s} : stored'[u] = stored[u] /\ offloaded'[u] = offloaded[u]
        /\ b # <<>> /\ offload => offloaded'[s] = offloaded[s] \o b /\ stored'[s] = stored[s]
        /\ b # <<>> /\ ~offload => offloaded'[s] = offloaded[s] /\ stored'[s] = Append(stored[s], b)
        /\ b = <<>> => offloaded'[s] = offloaded[s] /\ stored'[s] = stored[s]
    <2>1. stored[s] \in Seq(Seq(Nat)) /\ offloaded[s] \in Seq(Nat)
      BY <1>s
    <2>2. offloaded[s] \o b \in Seq(Nat)
      BY <2>1, <1>3, Joined
    <2>3. Append(stored[s], b) \in Seq(Seq(Nat))
      BY <2>1, <1>3, AppendProperties
    <2>4. CASE b # <<>> /\ offload
      BY <2>1, <2>2, <2>4, <1>s, <1>1 DEF Emplace
    <2>5. CASE b # <<>> /\ ~offload
      BY <2>1, <2>3, <2>5, <1>s, <1>1 DEF Emplace
    <2>6. CASE b = <<>>
      BY <2>6, <1>s, <1>1
    <2> QED BY <2>4, <2>5, <2>6
  <1>7. DataShape' /\ Taken'
    BY <1>s, <1>1, <1>5, <1>6 DEF DataShape, Taken
  <1>8. Handling'
    <2>1. \A u \in Samplers : /\ smp'[u].pc = smp[u].pc /\ smp'[u].hand = smp[u].hand
                              /\ smp[u].pc # "idle" => smp'[u].buffer = smp[u].buffer
      BY <1>2, <1>4, <1>5
    <2> QED BY <2>1, <1>s, <1>1, HandlingQuiet
  <1>9. ASSUME NEW u \in Samplers PROVE DeliveredOf(u)'
    <2>0. DeliveredOf(u)
      BY OfDelivery
    <2>1. CASE u # s
      BY <2>0, <2>1, <1>1, <1>5, <1>6, StreamQuiet
    <2>2. CASE u = s
      <3> DEFINE K == kept[s]
                 F == FlattenSeq(stored[s])
                 T == SamplesIn(alloc.taken, s)
                 Q == SamplesIn(queue, s)
                 p == K \o F
                 x == T \o Q
      <3>1. /\ K \in Seq(Nat) /\ F \in Seq(Nat) /\ T \in Seq(Nat) /\ Q \in Seq(Nat)
            /\ stored[s] \in Seq(Seq(Nat)) /\ DeliveredOf(s) /\ Stream(s) = Nested(s)
            /\ Stream(s)' = Nested(s)' /\ offloaded[s] \in Seq(Nat)
        BY <2>0, <2>2, <1>s, <1>7, StreamIs, StreamBecomes
      <3>2. Behind(s) = Q \o b /\ Behind(s)' = Q
        <4>1. smp[s].hand = <<>> /\ <<>> \o b = b /\ <<>> \o <<>> = <<>> /\ Q \o <<>> = Q
          BY <3>1, <1>2, <1>3, Joined
        <4>2. smp'[s].hand = <<>> /\ smp'[s].buffer = <<>> /\ queue' = queue
          BY <1>1, <1>2, <1>4, <1>5
        <4>3. Behind(s) = Q \o b
          BY <4>1 DEF Behind, b
        <4>4. Behind(s)' = Q
          BY <4>1, <4>2 DEF Behind
        <4> QED BY <4>3, <4>4
      <3>3. /\ Stream(s) = K \o (F \o (T \o (Q \o b)))
            /\ Stream(s)' = K \o (FlattenSeq(stored'[s]) \o (T \o Q))
        BY <3>1, <3>2, <1>1 DEF Nested
      <3> HIDE DEF K, F, T, Q
      <3>4. p \in Seq(Nat) /\ x \in Seq(Nat)
        BY <3>1, Joined
      <3>5. T \o (Q \o b) = x \o b
        BY <3>1, <1>3, Associative, ZenonT(30)
      <3>6. \A c \in Seq(Nat) : K \o (F \o c) = p \o c
        BY <3>1, Associative, ZenonT(30)
      <3>14. \A c, d \in Seq(Nat) : (F \o c) \o d = F \o (c \o d)
        BY <3>1, Associative, Zenon
      <3> HIDE DEF p, x
      <3>7. x \o b \in Seq(Nat) /\ b \o x \in Seq(Nat)
        BY <3>4, <1>3, Joined
      <3>8. Stream(s) = p \o (x \o b)
        BY <3>3, <3>5, <3>6, <3>7
      <3>9. CASE b # <<>> /\ ~offload
        <4>1. FlattenSeq(stored'[s]) = F \o b /\ offloaded'[s] = offloaded[s]
          BY <3>1, <3>9, <1>3, <1>6, FlattenAppended DEF F
        <4>2. Stream(s)' = K \o ((F \o b) \o x)
          BY <3>3, <4>1 DEF x
        <4>3. (F \o b) \o x = F \o (b \o x)
          BY <3>4, <1>3, <3>14, Zenon
        <4>4. Stream(s)' = p \o (b \o x)
          BY <4>2, <4>3, <3>6, <3>7
        <4> DEFINE isGone == smp[s].phase = "destroyed"
                   o == offloaded[s]
                   n == smp[s].count
                   e == smp[s].early
        <4>5. Delivered(p \o (x \o b), o, n, e, isGone)
          BY <3>1, <3>8 DEF DeliveredOf
        <4> HIDE DEF isGone, o, n, e
        <4>6. Delivered(p \o (b \o x), o, n, e \cup ToSet(b), isGone)
          BY <4>5, <3>4, <1>3, Overtakes
        <4>7. Delivered(Stream(s)', offloaded'[s], smp'[s].count, smp'[s].early, isGone)
          BY <4>1, <4>4, <4>6, <1>4, <1>5 DEF o, n, e
        <4>8. ~isGone
          BY <1>1 DEF isGone
        <4> QED BY <2>2, <4>7, <4>8, <1>4, <1>5 DEF DeliveredOf, Delivered
      <3>10. CASE b = <<>> \/ offload
        <4>1. FlattenSeq(stored'[s]) = F
          BY <3>10, <1>6 DEF F
        <4>2. offloaded'[s] = offloaded[s] \o b
          BY <3>1, <3>10, <1>6, Joined
        <4> DEFINE y == p \o x
        <4>3. Stream(s)' = y
          BY <3>3, <3>4, <3>6, <4>1 DEF x
        <4>4. y \in Seq(Nat) /\ (p \o x) \o b = p \o (x \o b)
          <5>1. y \in Seq(Nat)
            BY <3>4, Joined
          <5> QED BY <5>1, <3>4, <1>3, Associative, Zenon
        <4>5. Stream(s) = y \o b
          BY <3>8, <4>4
        <4> HIDE DEF y
        <4>6. y \o (b \o <<>>) = y \o b /\ y \o <<>> = y /\ <<>> \in Seq(Nat)
          BY <4>4, <1>3, Joined
        <4>7. smp'[s].phase = "destroyed" <=> smp[s].phase = "destroyed"
          BY <1>1, <1>4, <1>5
        <4>8. Stream(s) = y \o (b \o <<>>) /\ Stream(s)' = y \o <<>>
          BY <4>3, <4>5, <4>6
        <4>9. smp'[s].count = smp[s].count /\ smp'[s].early = smp[s].early \cup ToSet(b)
          BY <1>4, <1>5
        <4> QED BY <2>2, <3>1, <4>2, <4>4, <4>6, <4>7, <4>8, <4>9, <1>3, <1>7, StreamOffloads
      <3> QED BY <3>9, <3>10
    <2> QED BY <2>1, <2>2
  <1> QED BY <1>7, <1>8, <1>9 DEF DeliveryInv


\* A destroyed sampler: what the allocator kept for it goes.
LEMMA DeliveryDestroy ==
  ASSUME DeliveryInv, NEW s \in Samplers, Destroy(s)
  PROVE  DeliveryInv'
  <1> DEFINE r == [smp[s] EXCEPT !.phase = "destroyed", !.linked = FALSE]
  <1>s. /\ DataShape /\ Handling /\ Taken /\ smp[s] \in SamplerMembers
        /\ stored \in [Samplers -> Seq(Seq(Nat))] /\ kept \in [Samplers -> Seq(Nat)]
        /\ registry \subseteq Samplers
    BY DEF DeliveryInv, DataShape
  <1>1. /\ smp' = [smp EXCEPT ![s] = r] /\ registry' = registry \ {s}
        /\ stored' = [stored EXCEPT ![s] = <<>>] /\ kept' = [kept EXCEPT ![s] = <<>>]
        /\ UNCHANGED <<stack, queue, alloc, offload, offloaded>>
    BY DEF Destroy, channel
  <1>2. /\ r \in SamplerMembers /\ r.buffer = smp[s].buffer /\ r.hand = smp[s].hand
        /\ r.pc = smp[s].pc /\ r.count = smp[s].count /\ r.early = smp[s].early
        /\ r.phase = "destroyed"
    BY <1>s DEF SamplerMembers
  <1> HIDE DEF r
  <1>3. /\ smp' \in [Samplers -> SamplerMembers] /\ smp'[s] = r
        /\ \A u \in Samplers \ {s} : smp'[u] = smp[u]
    BY <1>s, <1>1, <1>2, MembersBecome
  <1>4. /\ stored' \in [Samplers -> Seq(Seq(Nat))] /\ kept' \in [Samplers -> Seq(Nat)]
        /\ \A u \in Samplers \ {s} : stored'[u] = stored[u] /\ kept'[u] = kept[u]
        /\ stored'[s] = <<>> /\ kept'[s] = <<>>
    BY <1>s, <1>1, EmptySeq
  <1>5. DataShape' /\ Taken'
    BY <1>s, <1>1, <1>3, <1>4 DEF DataShape, Taken
  <1>6. Handling'
    <2>1. \A u \in Samplers : /\ smp'[u].pc = smp[u].pc /\ smp'[u].hand = smp[u].hand
                              /\ smp[u].pc # "idle" => smp'[u].buffer = smp[u].buffer
      BY <1>2, <1>3
    <2> QED BY <2>1, <1>s, <1>1, HandlingQuiet
  <1>7. ASSUME NEW u \in Samplers PROVE DeliveredOf(u)'
    <2>0. DeliveredOf(u)
      BY OfDelivery
    <2>1. CASE u # s
      BY <2>0, <2>1, <1>1, <1>3, <1>4, StreamQuiet
    <2>2. CASE u = s
      <3> DEFINE K == kept[s]
                 F == FlattenSeq(stored[s])
                 T == SamplesIn(alloc.taken, s)
                 B == Behind(s)
                 p == K \o F
                 x == T \o B
                 isGone == smp[s].phase = "destroyed"
                 o == offloaded[s]
                 n == smp[s].count
                 e == smp[s].early
      <3>1. /\ K \in Seq(Nat) /\ F \in Seq(Nat) /\ T \in Seq(Nat) /\ B \in Seq(Nat)
            /\ DeliveredOf(s) /\ Stream(s) = Nested(s) /\ Stream(s)' = Nested(s)'
        BY <2>0, <2>2, <1>s, <1>5, StreamIs, StreamBecomes
      <3>2. B' = B /\ T' = T
        <4>1. smp'[s].hand = smp[s].hand /\ smp'[s].buffer = smp[s].buffer
          BY <1>2, <1>3
        <4> QED BY <4>1, <1>1 DEF Behind
      <3>3. Stream(s) = K \o (F \o x) /\ Stream(s)' = <<>> \o (<<>> \o x)
        BY <3>1, <3>2, <1>4, FlattenNone DEF Nested
      <3> HIDE DEF K, F, T, B
      <3>4. p \in Seq(Nat) /\ x \in Seq(Nat)
        BY <3>1, Joined
      <3> HIDE DEF x
      <3>5. K \o (F \o x) = p \o x
        BY <3>1, <3>4, Associative, ZenonT(30)
      <3>6. <<>> \o (<<>> \o x) = x
        BY <3>4, Joined
      <3> HIDE DEF p
      <3>7. Delivered(p \o x, o, n, e, isGone)
        BY <3>1, <3>3, <3>5 DEF DeliveredOf
      <3> HIDE DEF isGone, o, n, e
      <3>8. Delivered(x, o, n, e, TRUE)
        BY <3>4, <3>7, Forgets
      <3>9. /\ offloaded'[s] = o /\ smp'[s].count = n /\ smp'[s].early = e
            /\ smp'[s].phase = "destroyed" /\ Stream(s)' = x
        BY <1>1, <1>2, <1>3, <3>3, <3>6 DEF o, n, e
      <3>10. DeliveredOf(s)'
        BY <3>8, <3>9 DEF DeliveredOf, Delivered
      <3> QED BY <2>2, <3>10
    <2> QED BY <2>1, <2>2
  <1> QED BY <1>5, <1>6, <1>7 DEF DeliveryInv

\* Each action of the specification keeps the invariant.
LEMMA DeliveryNext == DeliveryInv /\ [Next]_vars => DeliveryInv'
  <1> SUFFICES ASSUME DeliveryInv, [Next]_vars PROVE DeliveryInv'
    OBVIOUS
  <1>s. DataShape /\ Handling /\ Taken /\ alloc \in AllocatorState
    BY DEF DeliveryInv, DataShape
  <1>1. CASE UNCHANGED vars
    <2>1. UNCHANGED <<smp, stack, queue, alloc, registry, stored, kept, offloaded, offload>>
      BY <1>1 DEF vars
    <2>2. DataShape' /\ Taken' /\ Handling'
      BY <1>s, <2>1 DEF DataShape, Taken, Handling
    <2> QED BY <2>1, <2>2, QuietStep
  <1>2. ASSUME NEW s \in Samplers, Unlock(s) \/ Start(s) PROVE DeliveryInv'
    BY <1>2, DeliveryMember
  <1>3. CASE SetOffload \/ ExitAllocator \/ Check \/ Wait \/ Get \/ Reset
    BY <1>3, DeliveryQuiet
  <1>4. ASSUME NEW s \in Samplers,
               Sample(s) \/ BeginMove(s) \/ Push(s) \/ Post(s) \/ Stop(s) \/ Destroy(s)
        PROVE  DeliveryInv'
    BY <1>4, DeliverySample, DeliveryBeginMove, DeliveryPush, DeliveryPost, DeliveryStop,
       DeliveryDestroy
  <1>5. ASSUME NEW s \in Samplers, GetData(s) PROVE DeliveryInv'
    <2>1. UpdateData({s}) /\ UNCHANGED <<smp, stack, queue, alloc, registry, offload>>
      BY <1>5 DEF GetData, sampling, channel
    <2>2. alloc' \in AllocatorState /\ alloc'.taken = alloc.taken /\ Taken'
      BY <1>s, <2>1 DEF Taken
    <2> QED BY <2>1, <2>2, DeliveryUpdate
  <1>6. CASE UpdateAll
    <2>1. /\ UpdateData(registry) /\ UNCHANGED <<smp, stack, queue, registry, offload>>
          /\ alloc.pc = "update" /\ alloc' = [alloc EXCEPT !.pc = "reset"]
      BY <1>6 DEF UpdateAll, sampling, channel
    <2>2. alloc' \in AllocatorState /\ alloc'.taken = alloc.taken /\ alloc'.pc = "reset"
      BY <1>s, <2>1 DEF AllocatorState
    <2>3. Taken'
      BY <1>s, <2>1, <2>2 DEF Taken
    <2> QED BY <2>1, <2>2, <2>3, DeliveryUpdate
  <1>7. CASE SwapBuffer \/ Drain
    BY <1>7, DeliverySwap
  <1>8. CASE Deliver
    BY <1>8, DeliveryDeliver
  <1>9. CASE Next
    <2>1. CASE Use
      BY <2>1, <1>2, <1>3, <1>4, <1>5, <1>6, <1>7, <1>8 DEF Use, Handler, Thread
    <2>2. CASE \E s \in Samplers : ~InFlight(s) /\ Destroy(s)
      BY <2>2, <1>4
    <2> QED BY <1>9, <2>1, <2>2 DEF Next
  <1> QED BY <1>1, <1>9

\* Hence every state of a behaviour satisfies it.
LEMMA DeliveryAlways == Spec => []DeliveryInv
  BY DeliveryInit, DeliveryNext, PTL DEF Spec

\* As long as a sampler lives, each sample its handler took is in exactly one
\* place: in its buffer, in the handler's hand, in the queue, with the allocator's
\* thread, in the data, or given to the offload function.
THEOREM NoSampleLost == Spec => []NothingLost
  <1>1. DeliveryInv => NothingLost
    <2> SUFFICES ASSUME DeliveryInv, NEW s \in Samplers, smp[s].phase # "destroyed"
                 PROVE  LET all == Stream(s) \o offloaded[s]
                        IN  Len(all) = smp[s].count /\ ToSet(all) = 1 .. smp[s].count
      BY DEF NothingLost
    <2> DEFINE a == Stream(s)
               b == offloaded[s]
               n == smp[s].count
    <2>1. /\ a \in Seq(Nat) /\ b \in Seq(Nat) /\ Len(a) + Len(b) = n
          /\ ToSet(a) \cup ToSet(b) = 1 .. n
      BY OfDelivery DEF DeliveredOf, Delivered
    <2> HIDE DEF a, b, n
    <2>2. Len(a \o b) = Len(a) + Len(b) /\ ToSet(a \o b) = ToSet(a) \cup ToSet(b)
      BY <2>1, SetJoined
    <2>3. Len(a \o b) = n /\ ToSet(a \o b) = 1 .. n
      BY <2>1, <2>2
    <2> QED BY <2>3 DEF a, b, n
  <1> QED BY <1>1, DeliveryAlways, PTL

\* The samples of full buffers become data in the order they were taken, however
\* the handlers, the allocator's thread, get_data and stop interleave; only what
\* stop() hands over itself may overtake them.
THEOREM FullBuffersInOrder == Spec => []FullInOrder
  <1>1. DeliveryInv => FullInOrder
    <2> SUFFICES ASSUME DeliveryInv, NEW s \in Samplers PROVE InOrder(Stream(s), smp[s].early)
      BY DEF FullInOrder, InOrder
    <2> QED BY OfDelivery DEF DeliveredOf, Delivered
  <1> QED BY <1>1, DeliveryAlways, PTL
=============================================================================

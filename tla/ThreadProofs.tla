---------------------------- MODULE ThreadProofs ----------------------------
(***************************************************************************)
(* Proofs about what a thread takes and gives back: its number (ThreadIds, *)
(* the first part) and its storage, registrations and records (Lifecycle,  *)
(* the second part).  The two specifications share no state; each part     *)
(* proves its own, for any number of threads.                              *)
(*                                                                         *)
(* First part, for any MaxThreads, any reserved set and any number of      *)
(* starts.  LiveIdsDistinct and NoIdLost are not inductive: the first      *)
(* needs that a list never holds a number somebody has, nor one number     *)
(* twice, and that what a thread is about to write back is what the list   *)
(* still is.  The last is what the two locks give, each on its side, and   *)
(* why the properties end when a taker meets a returner.                   *)
(*                                                                         *)
(* Second part, for any number of measurements: what existed when the      *)
(* finalization began is printed, only an overlapping worker meets the     *)
(* deleted master storage, and callbacks belong to storages that exist.    *)
(***************************************************************************)
EXTENDS ThreadIds, Lifecycle, TLAPS

\* Each lock has one holder, and at a list that did not race the two sides
\* are never busy together.
OneHolder ==
  \A s, t \in Threads, k \in Kinds :
    /\ Taking(s, k) /\ Taking(t, k) => s = t
    /\ Returning(s, k) /\ Returning(t, k) => s = t
    /\ k \notin raced => ~(Taking(s, k) /\ Returning(t, k))

\* What a thread will write back is derived from the list as it is, and a
\* taker's list is not empty.
CopyFresh ==
  \A t \in Threads :
    /\ pc[t] = "take" => copy[t] # <<>>
    /\ kind[t] \notin raced /\ pc[t] \in {"take", "return"} => copy[t] = list[kind[t]]

\* n was counted for this kind.
WasCounted(n, k) ==
  IF k = "offset" THEN offset_counter <= n /\ n < MaxThreads
          ELSE 0 <= n /\ n < global_counter

\* Numbers of a kind are held once, or listed once, and were counted.
Apart ==
  \A k \in Kinds \ raced :
    /\ \A s, t \in Threads :
         Holds(s) /\ Holds(t) /\ kind[s] = k /\ kind[t] = k /\ id[s] = id[t] => s = t
    /\ \A i, j \in DOMAIN list[k] : list[k][i] = list[k][j] => i = j
    /\ \A t \in Threads : Holds(t) /\ kind[t] = k =>
         WasCounted(id[t], k) /\ \A i \in DOMAIN list[k] : list[k][i] # id[t]
    /\ \A i \in DOMAIN list[k] : WasCounted(list[k][i], k)

Inv == TypeOK /\ OneHolder /\ CopyFresh /\ Apart

-----------------------------------------------------------------------------
\* A list without its front.
LEMMA TailOf ==
  ASSUME NEW s \in Seq(Int), s # <<>>
  PROVE  /\ Head(s) = s[1] /\ Head(s) \in Int
         /\ Tail(s) \in Seq(Int)
         /\ 1 \in DOMAIN s
         /\ \A i \in DOMAIN Tail(s) :
              i \in Nat /\ i + 1 \in DOMAIN s /\ Tail(s)[i] = s[i + 1]
         /\ \A j \in DOMAIN s :
              j # 1 => j - 1 \in DOMAIN Tail(s) /\ Tail(s)[j - 1] = s[j]
<1>1. Len(s) \in Nat /\ Len(s) # 0 /\ DOMAIN s = 1..Len(s)
  OBVIOUS
<1>2. \A i \in 1..Len(s) : s[i] \in Int
  OBVIOUS
<1>3. DOMAIN Tail(s) = 1..Len(s) - 1 /\ Tail(s) \in Seq(Int)
  OBVIOUS
<1>4. \A i \in 1..Len(s) - 1 : Tail(s)[i] = s[i + 1]
  OBVIOUS
<1> QED
  BY <1>1, <1>2, <1>3, <1>4

\* A list with one number more.
LEMMA AppendOf ==
  ASSUME NEW s \in Seq(Int), NEW n \in Int
  PROVE  /\ Append(s, n) \in Seq(Int)
         /\ \A i \in DOMAIN Append(s, n) :
              \/ i \in DOMAIN s /\ Append(s, n)[i] = s[i]
              \/ i = Len(s) + 1 /\ Append(s, n)[i] = n
         /\ \A i \in DOMAIN s : i \in DOMAIN Append(s, n) /\ Append(s, n)[i] = s[i]
         /\ Len(s) + 1 \in DOMAIN Append(s, n) /\ Append(s, n)[Len(s) + 1] = n
         /\ Len(s) + 1 \notin DOMAIN s
OBVIOUS

\* It holds before any thread has a number.
LEMMA InitInv == Init => Inv
<1> SUFFICES ASSUME Init PROVE Inv
  OBVIOUS
<1> USE DEF Init, Kinds, Locations
<1>1. TypeOK
  <2>1. <<>> \in Seq(Int)
    OBVIOUS
  <2>2. list \in [Kinds -> Seq(Int)] /\ copy \in [Threads -> Seq(Int)]
    BY <2>1
  <2>3. id \in [Threads -> Int] /\ seen \in [Threads -> Nat]
    OBVIOUS
  <2>4. pc \in [Threads -> Locations] /\ kind \in [Threads -> Kinds]
    OBVIOUS
  <2> QED
    BY <2>2, <2>3, <2>4, MaxThreadsAssumption, StartsAssumption DEF TypeOK
<1>2. OneHolder /\ CopyFresh
  BY DEF OneHolder, CopyFresh, Taking, Returning
<1>3. Apart
  BY DEF Apart, Holds
<1> QED
  BY <1>1, <1>2, <1>3 DEF Inv

\* Each step keeps the types.
LEMMA TypeStep ==
  ASSUME TypeOK, CopyFresh, NEW t \in Threads, Step(t)
  PROVE  TypeOK'
<1> USE DEF TypeOK, Locations, Kinds, counters
<1>1. CASE Ask(t)
  BY <1>1, StartsAssumption DEF Ask
<1>2. CASE Choose(t)
  BY <1>2 DEF Choose
<1>3. CASE Compare(t)
  BY <1>3 DEF Compare
<1>4. CASE Look(t)
  <2>1. pc' \in [Threads -> Locations] /\ copy' \in [Threads -> Seq(Int)]
        /\ raced' \subseteq Kinds
    <3>1. raced' \subseteq Kinds
      <4>1. raced' \in {raced, raced \cup {kind[t]}}
        BY <1>4 DEF Look
      <4> QED
        BY <4>1
    <3>2. CASE list[kind[t]] = <<>>
      BY <1>4, <3>1, <3>2 DEF Look
    <3>3. CASE list[kind[t]] # <<>>
      <4>1. /\ pc' = [pc EXCEPT ![t] = "take"]
            /\ copy' = [copy EXCEPT ![t] = list[kind[t]]]
        BY <1>4, <3>3, Zenon DEF Look
      <4>2. list[kind[t]] \in Seq(Int)
        OBVIOUS
      <4> QED
        BY <3>1, <4>1, <4>2
    <3> QED
      BY <3>2, <3>3
  <2> QED
    BY <1>4, <2>1 DEF Look
<1>5. CASE Take(t)
  <2>1. copy[t] \in Seq(Int) /\ copy[t] # <<>>
    BY <1>5 DEF Take, CopyFresh
  <2>2. Head(copy[t]) \in Int /\ Tail(copy[t]) \in Seq(Int)
    BY <2>1, TailOf
  <2>3. id' \in [Threads -> Int] /\ pc' \in [Threads -> Locations]
    BY <1>5, <2>2 DEF Take
  <2> QED
    BY <1>5, <2>2, <2>3 DEF Take
<1>6. CASE Count(t)
  BY SMTT(30), <1>6, MaxThreadsAssumption DEF Count
<1>7. CASE End(t)
  <2>1. CASE Returns(t)
    BY <1>7, <2>1 DEF End
  <2>2. CASE ~Returns(t)
    <3>1. /\ pc' = [pc EXCEPT ![t] = "absent"] /\ id' = [id EXCEPT ![t] = -1]
          /\ UNCHANGED <<recycle, counters, list, kind, seen, copy, started, raced>>
      BY <1>7, <2>2, Zenon DEF End, Forget
    <3> QED
      BY <3>1
  <2> QED
    BY <2>1, <2>2
<1>8. CASE ReadForReturn(t)
  BY <1>8 DEF ReadForReturn
<1>9. CASE Return(t)
  <2>1. Append(copy[t], id[t]) \in Seq(Int)
    BY AppendOf
  <2> QED
    BY <1>9, <2>1 DEF Return, Forget
<1> QED
  BY <1>1, <1>2, <1>3, <1>4, <1>5, <1>6, <1>7, <1>8, <1>9 DEF Step

\* Only Look and ReadForReturn begin to use a list, under its lock.
LEMMA HolderStep ==
  ASSUME TypeOK, OneHolder, NEW t \in Threads, Step(t)
  PROVE  OneHolder'
<1> SUFFICES ASSUME NEW s \in Threads, NEW u \in Threads, NEW k \in Kinds
             PROVE  /\ Taking(s, k)' /\ Taking(u, k)' => s = u
                    /\ Returning(s, k)' /\ Returning(u, k)' => s = u
                    /\ k \notin raced' => ~(Taking(s, k)' /\ Returning(u, k)')
  BY DEF OneHolder
<1> USE DEF TypeOK, Locations, Kinds, counters, Taking, Returning
<1>1. /\ Taking(s, k) /\ Taking(u, k) => s = u
      /\ Returning(s, k) /\ Returning(u, k) => s = u
      /\ k \notin raced => ~(Taking(s, k) /\ Returning(u, k))
  BY DEF OneHolder
<1>2. CASE /\ pc'[t] \notin {"take", "return"}
           /\ \A v \in Threads \ {t} : pc'[v] = pc[v] /\ kind'[v] = kind[v]
           /\ raced' = raced
  BY <1>1, <1>2
<1>3. CASE Ask(t)
  BY <1>2, <1>3 DEF Ask
<1>4. CASE Choose(t)
  BY <1>2, <1>4 DEF Choose
<1>5. CASE Compare(t)
  BY <1>2, <1>5 DEF Compare
<1>6. CASE Look(t)
  <2>1. CASE list[kind[t]] = <<>>
    BY <1>2, <1>6, <2>1 DEF Look
  <2>2. CASE list[kind[t]] # <<>>
    <3>1. /\ pc' = [pc EXCEPT ![t] = "take"] /\ kind' = kind
          /\ \A v \in Threads : ~Taking(v, kind[t])
          /\ raced \subseteq raced'
          /\ kind[t] \notin raced' => \A v \in Threads : ~Returning(v, kind[t])
      BY <1>6, <2>2 DEF Look
    <3> QED
      BY <1>1, <3>1
  <2> QED
    BY <2>1, <2>2
<1>7. CASE Take(t)
  BY <1>2, <1>7 DEF Take
<1>8. CASE Count(t)
  BY <1>2, <1>8 DEF Count
<1>9. CASE End(t)
  <2>1. pc'[t] \in {"end", "absent"} /\ raced' = raced /\ kind' = kind
        /\ \A v \in Threads : v # t => pc'[v] = pc[v]
    BY <1>9 DEF End
  <2> QED
    BY <1>2, <2>1
<1>10. CASE ReadForReturn(t)
  <2>1. /\ pc' = [pc EXCEPT ![t] = "return"] /\ kind' = kind
        /\ \A v \in Threads : ~Returning(v, kind[t])
        /\ raced \subseteq raced'
        /\ kind[t] \notin raced' => \A v \in Threads : ~Taking(v, kind[t])
    BY <1>10 DEF ReadForReturn
  <2> QED
    BY <1>1, <2>1
<1>11. CASE Return(t)
  BY <1>2, <1>11 DEF Return
<1> QED
  BY <1>3, <1>4, <1>5, <1>6, <1>7, <1>8, <1>9, <1>10, <1>11 DEF Step

\* The lists that raced stay raced.
LEMMA RacedStays ==
  ASSUME TypeOK, NEW t \in Threads, Step(t)
  PROVE  raced \subseteq raced'
<1> USE DEF TypeOK
<1>1. CASE Look(t)
  <2>1. CASE list[kind[t]] = <<>>
    BY <1>1, <2>1 DEF Look
  <2>2. CASE list[kind[t]] # <<>>
    BY <1>1, <2>2 DEF Look
  <2> QED
    BY <2>1, <2>2
<1>2. CASE ReadForReturn(t)
  BY <1>2 DEF ReadForReturn
<1>3. CASE Ask(t) \/ Choose(t) \/ Compare(t)
  <2>1. raced' = raced
    BY <1>3 DEF Ask, Choose, Compare
  <2> QED
    BY <2>1
<1>4. CASE Take(t) \/ Count(t) \/ End(t) \/ Return(t)
  <2>1. raced' = raced
    BY <1>4 DEF Take, Count, End, Return
  <2> QED
    BY <2>1
<1> QED
  BY <1>1, <1>2, <1>3, <1>4 DEF Step

\* A list changes only by the one thread that holds its copy.
LEMMA CopyStep ==
  ASSUME TypeOK, OneHolder, CopyFresh, NEW t \in Threads, Step(t)
  PROVE  CopyFresh'
<1> USE DEF TypeOK, Locations, Kinds, counters, CopyFresh
<1>1. CASE Ask(t)
  BY <1>1 DEF Ask
<1>2. CASE Choose(t) \/ Compare(t)
  BY ZenonT(30), <1>2 DEF Choose, Compare
<1>4. CASE Look(t)
  <2>1. CASE list[kind[t]] = <<>>
    BY <1>4, <2>1 DEF Look
  <2>2. CASE list[kind[t]] # <<>>
    <3>1. /\ pc' = [pc EXCEPT ![t] = "take"] /\ copy' = [copy EXCEPT ![t] = list[kind[t]]]
          /\ kind' = kind /\ list' = list
      BY <1>4, <2>2 DEF Look
    <3> QED
      BY <2>2, <3>1, RacedStays
  <2> QED
    BY <2>1, <2>2
<1>5. CASE Take(t)
  BY <1>5 DEF Take, OneHolder, Taking, Returning
<1>6. CASE Count(t)
  BY <1>6 DEF Count
<1>7. CASE End(t)
  <2>1. pc'[t] \in {"end", "absent"} /\ raced' = raced /\ kind' = kind
        /\ copy' = copy /\ list' = list
        /\ \A s \in Threads : s # t => pc'[s] = pc[s]
    BY <1>7 DEF End
  <2> QED
    BY <2>1
<1>8. CASE ReadForReturn(t)
  BY <1>8 DEF ReadForReturn
<1>9. CASE Return(t)
  BY <1>9 DEF Return, OneHolder, Taking, Returning
<1> QED
  BY <1>1, <1>2, <1>4, <1>5, <1>6, <1>7, <1>8, <1>9 DEF Step

\* What Apart says of one list.
ApartIn(k) ==
  /\ \A s, u \in Threads :
       Holds(s) /\ Holds(u) /\ kind[s] = k /\ kind[u] = k /\ id[s] = id[u] => s = u
  /\ \A i, j \in DOMAIN list[k] : list[k][i] = list[k][j] => i = j
  /\ \A u \in Threads : Holds(u) /\ kind[u] = k =>
       WasCounted(id[u], k) /\ \A i \in DOMAIN list[k] : list[k][i] # id[u]
  /\ \A i \in DOMAIN list[k] : WasCounted(list[k][i], k)

\* A step that gives t no number and changes no list keeps the numbers apart.
LEMMA ApartKept ==
  ASSUME TypeOK, NEW t \in Threads, NEW k \in Kinds, ApartIn(k),
         counters' = counters, list' = list,
         Holds(t)' => Holds(t) /\ id'[t] = id[t] /\ kind'[t] = kind[t],
         \A u \in Threads \ {t} : pc'[u] = pc[u] /\ kind'[u] = kind[u] /\ id'[u] = id[u]
  PROVE  ApartIn(k)'
<1>1. \A u \in Threads : Holds(u)' =>
        Holds(u) /\ id'[u] = id[u] /\ kind'[u] = kind[u]
  BY DEF Holds
<1>2. \A n : WasCounted(n, k)' <=> WasCounted(n, k)
  BY DEF WasCounted, counters
<1>3. \A s, u \in Threads :
        (Holds(s) /\ Holds(u) /\ kind[s] = k /\ kind[u] = k /\ id[s] = id[u])' => s = u
  BY <1>1 DEF ApartIn
<1>4. \A u \in Threads : Holds(u)' /\ kind'[u] = k =>
        WasCounted(id[u], k)' /\ \A i \in DOMAIN list'[k] : list'[k][i] # id'[u]
  BY <1>1, <1>2 DEF ApartIn
<1>5. /\ \A i, j \in DOMAIN list'[k] : list'[k][i] = list'[k][j] => i = j
      /\ \A i \in DOMAIN list'[k] : WasCounted(list[k][i], k)'
  BY <1>2 DEF ApartIn
<1> QED
  BY <1>3, <1>4, <1>5 DEF ApartIn

\* Numbers are moved between threads and lists, or counted anew: never copied.
LEMMA ApartStep ==
  ASSUME TypeOK, OneHolder, CopyFresh, Apart, NEW t \in Threads, Step(t)
  PROVE  Apart'
<1> SUFFICES ASSUME NEW k \in Kinds, k \notin raced'
             PROVE  ApartIn(k)'
  BY DEF Apart, ApartIn
<1>1. k \notin raced /\ ApartIn(k)
  BY RacedStays DEF Apart, ApartIn
<1> USE DEF TypeOK, Locations, Kinds, counters
<1>2. CASE Ask(t)
  <2>1. ~Holds(t)'
    BY <1>2 DEF Ask, Holds
  <2> QED
    BY <1>1, <1>2, <2>1, ApartKept DEF Ask
<1>3. CASE Choose(t)
  <2>1. ~Holds(t)'
    BY <1>3 DEF Choose, Holds
  <2> QED
    BY <1>1, <1>3, <2>1, ApartKept DEF Choose
<1>4. CASE Compare(t)
  <2>1. ~Holds(t)'
    BY <1>4 DEF Compare, Holds
  <2> QED
    BY <1>1, <1>4, <2>1, ApartKept DEF Compare
<1>5. CASE Look(t)
  <2>1. pc'[t] \in {"count", "take"} /\ \A u \in Threads \ {t} : pc'[u] = pc[u]
    BY <1>5 DEF Look
  <2>2. ~Holds(t)'
    BY <2>1 DEF Holds
  <2> QED
    BY <1>1, <1>5, <2>1, <2>2, ApartKept DEF Look
<1>6. CASE Take(t)
  <2>1. copy[t] \in Seq(Int) /\ copy[t] # <<>> /\ ~Holds(t)
    BY <1>6 DEF Take, CopyFresh, Holds
  <2>2. CASE kind[t] = k
    <3> DEFINE old == list[k]
    <3>1. copy[t] = old /\ old \in Seq(Int) /\ old # <<>>
      BY <1>1, <1>6, <2>1, <2>2 DEF Take, CopyFresh
    <3>2. /\ list'[k] = Tail(old) /\ kind' = kind
          /\ \A u \in Threads \ {t} : id'[u] = id[u] /\ pc'[u] = pc[u]
          /\ \/ pc'[t] = "live" /\ id'[t] = old[1]
             \/ pc'[t] = "count"
          /\ global_counter' = global_counter /\ offset_counter' = offset_counter
      BY <1>6, <2>2, <3>1, TailOf DEF Take
    <3>3. /\ 1 \in DOMAIN old
          /\ \A i \in DOMAIN Tail(old) :
               i \in Nat /\ i + 1 \in DOMAIN old /\ i + 1 # 1 /\ Tail(old)[i] = old[i + 1]
      BY <3>1, TailOf
    <3> HIDE DEF old
    <3>4. /\ \A s, u \in Threads :
               Holds(s) /\ Holds(u) /\ kind[s] = k /\ kind[u] = k /\ id[s] = id[u] => s = u
          /\ \A i, j \in DOMAIN old : old[i] = old[j] => i = j
          /\ \A u \in Threads : Holds(u) /\ kind[u] = k =>
               WasCounted(id[u], k) /\ \A i \in DOMAIN old : old[i] # id[u]
          /\ \A i \in DOMAIN old : WasCounted(old[i], k)
      BY <1>1 DEF ApartIn, old
    <3>5. ASSUME NEW u \in Threads, Holds(u)', kind'[u] = k
          PROVE  \/ u = t /\ id'[u] = old[1]
                 \/ /\ u # t /\ Holds(u) /\ kind[u] = k
                    /\ id'[u] = id[u] /\ id[u] # old[1]
      <4>1. CASE u = t
        BY <3>2, <3>5, <4>1 DEF Holds
      <4>2. CASE u # t
        <5>1. Holds(u) /\ kind[u] = k /\ id'[u] = id[u]
          BY <3>2, <3>5, <4>2 DEF Holds
        <5> QED
          BY <3>3, <3>4, <4>2, <5>1
      <4> QED
        BY <4>1, <4>2
    <3>6. \A n : WasCounted(n, k)' <=> WasCounted(n, k)
      BY <3>2 DEF WasCounted
    <3>7. \A s, u \in Threads :
            (Holds(s) /\ Holds(u) /\ kind[s] = k /\ kind[u] = k /\ id[s] = id[u])' => s = u
      BY <3>4, <3>5
    <3>8. \A i, j \in DOMAIN list'[k] : list'[k][i] = list'[k][j] => i = j
      BY <3>2, <3>3, <3>4
    <3>9. \A u \in Threads : Holds(u)' /\ kind'[u] = k =>
            WasCounted(id[u], k)' /\ \A i \in DOMAIN list'[k] : list'[k][i] # id'[u]
      <4> SUFFICES ASSUME NEW u \in Threads, Holds(u)', kind'[u] = k
                   PROVE  WasCounted(id[u], k)' /\ \A i \in DOMAIN Tail(old) : Tail(old)[i] # id'[u]
        BY <3>2
      <4>1. CASE u = t /\ id'[u] = old[1]
        <5>1. WasCounted(old[1], k) /\ \A i \in DOMAIN Tail(old) : Tail(old)[i] # old[1]
          BY <3>3, <3>4
        <5> QED
          BY <3>2, <4>1, <5>1 DEF WasCounted
      <4>2. CASE Holds(u) /\ kind[u] = k /\ id'[u] = id[u]
        <5>1. WasCounted(id[u], k) /\ \A i \in DOMAIN Tail(old) : Tail(old)[i] # id[u]
          BY <3>3, <3>4, <4>2
        <5> QED
          BY <3>2, <4>2, <5>1 DEF WasCounted
      <4> QED
        BY <3>5, <4>1, <4>2
    <3>10. \A i \in DOMAIN list'[k] : WasCounted(list[k][i], k)'
      BY <3>2, <3>3, <3>4, <3>6
    <3> QED
      BY <3>7, <3>8, <3>9, <3>10 DEF ApartIn
  <2>3. CASE kind[t] # k
    <3>1. /\ list'[k] = list[k] /\ kind' = kind
          /\ \A u \in Threads \ {t} : id'[u] = id[u] /\ pc'[u] = pc[u]
          /\ global_counter' = global_counter /\ offset_counter' = offset_counter
      BY <1>6, <2>3 DEF Take
    <3>2. ASSUME NEW u \in Threads, Holds(u)', kind'[u] = k
          PROVE  Holds(u) /\ kind[u] = k /\ id'[u] = id[u]
      BY <2>3, <3>1, <3>2 DEF Holds
    <3>3. \A n : WasCounted(n, k)' <=> WasCounted(n, k)
      BY <3>1 DEF WasCounted
    <3> QED
      BY <1>1, <3>1, <3>2, <3>3 DEF ApartIn
  <2> QED
    BY <2>2, <2>3
<1>7. CASE Count(t)
  <2>1. CASE kind[t] = "offset"
    <3>1. /\ offset_counter' = offset_counter - 1 /\ global_counter' = global_counter
          /\ id' = [id EXCEPT ![t] = offset_counter - 1]
      BY <1>7, <2>1 DEF Count
    <3> QED
      BY SMTT(30), <1>1, <1>7, <2>1, <3>1, MaxThreadsAssumption
         DEF Count, ApartIn, Holds, WasCounted
  <2>2. CASE kind[t] = "available"
    BY SMTT(30), <1>1, <1>7, <2>2 DEF Count, ApartIn, Holds, WasCounted
  <2> QED
    BY <2>1, <2>2
<1>8. CASE End(t)
  <2>1. /\ pc[t] = "live" /\ pc' \in {[pc EXCEPT ![t] = "end"], [pc EXCEPT ![t] = "absent"]}
        /\ pc'[t] = "end" => id' = id
        /\ \A u \in Threads \ {t} : id'[u] = id[u]
        /\ kind' = kind /\ list' = list /\ counters' = counters
    <3>1. CASE Returns(t)
      BY <1>8, <3>1 DEF End
    <3>2. CASE ~Returns(t)
      <4>1. /\ pc[t] = "live" /\ pc' = [pc EXCEPT ![t] = "absent"]
            /\ id' = [id EXCEPT ![t] = -1]
            /\ kind' = kind /\ list' = list /\ counters' = counters
        BY <1>8, <3>2, Zenon DEF End, Forget, counters
      <4> QED
        BY <4>1
    <3> QED
      BY <3>1, <3>2
  <2> QED
    BY ZenonT(30), <1>1, <2>1, ApartKept DEF Holds
<1>9. CASE ReadForReturn(t)
  <2>1. /\ pc[t] = "end" /\ pc' = [pc EXCEPT ![t] = "return"] /\ id' = id /\ kind' = kind
        /\ list' = list /\ counters' = counters
    BY <1>9 DEF ReadForReturn
  <2> QED
    BY <1>1, <2>1, ApartKept DEF Holds
<1>10. CASE Return(t)
  <2>1. pc[t] = "return" /\ Holds(t) /\ ~Holds(t)'
    BY <1>10 DEF Return, Holds
  <2>2. CASE kind[t] = k
    <3> DEFINE old == list[k]
               n == id[t]
    <3>1. copy[t] = old /\ old \in Seq(Int) /\ n \in Int
      BY <1>1, <1>10, <2>1, <2>2 DEF CopyFresh
    <3>2. /\ list'[k] = Append(old, n) /\ \A u \in Threads \ {t} : id'[u] = id[u]
          /\ pc' = [pc EXCEPT ![t] = "absent"] /\ kind' = kind
          /\ global_counter' = global_counter /\ offset_counter' = offset_counter
      BY <1>10, <2>2, <3>1 DEF Return, Forget
    <3>3. \A i \in DOMAIN Append(old, n) :
            \/ i \in DOMAIN old /\ Append(old, n)[i] = old[i]
            \/ i = Len(old) + 1 /\ Append(old, n)[i] = n
      BY <3>1, AppendOf
    <3> HIDE DEF old, n
    <3>4. /\ \A s, u \in Threads :
               Holds(s) /\ Holds(u) /\ kind[s] = k /\ kind[u] = k /\ id[s] = id[u] => s = u
          /\ \A i, j \in DOMAIN old : old[i] = old[j] => i = j
          /\ \A u \in Threads : Holds(u) /\ kind[u] = k =>
               WasCounted(id[u], k) /\ \A i \in DOMAIN old : old[i] # id[u]
          /\ \A i \in DOMAIN old : WasCounted(old[i], k)
      BY <1>1 DEF ApartIn, old
    <3>5. \A u \in Threads : Holds(u)' <=> Holds(u) /\ u # t
      BY <2>1, <3>2 DEF Holds
    <3>6. \A x : WasCounted(x, k)' <=> WasCounted(x, k)
      BY <3>2 DEF WasCounted
    <3>7. WasCounted(n, k) /\ (\A i \in DOMAIN old : old[i] # n)
          /\ \A u \in Threads : Holds(u) /\ kind[u] = k /\ u # t => id[u] # n
      BY <2>1, <2>2, <3>4 DEF n
    <3>8. \A i, j \in DOMAIN list'[k] : list'[k][i] = list'[k][j] => i = j
      BY <3>2, <3>3, <3>4, <3>7
    <3>9. \A u \in Threads : Holds(u)' /\ kind'[u] = k =>
            WasCounted(id[u], k)' /\ \A i \in DOMAIN list'[k] : list'[k][i] # id'[u]
      BY <3>2, <3>3, <3>4, <3>5, <3>6, <3>7
    <3>10. \A i \in DOMAIN list'[k] : WasCounted(list[k][i], k)'
      BY <3>2, <3>3, <3>4, <3>6, <3>7
    <3>11. \A s, u \in Threads :
             (Holds(s) /\ Holds(u) /\ kind[s] = k /\ kind[u] = k /\ id[s] = id[u])' => s = u
      BY <3>2, <3>4, <3>5
    <3> QED
      BY <3>8, <3>9, <3>10, <3>11 DEF ApartIn
  <2>3. CASE kind[t] # k
    <3>1. list'[k] = list[k] /\ \A u \in Threads \ {t} : id'[u] = id[u] /\ pc'[u] = pc[u]
      BY <1>10, <2>3 DEF Return, Forget
    <3> QED
      BY SMTT(30), <1>1, <1>10, <2>1, <2>3, <3>1 DEF Return, ApartIn, Holds, WasCounted
  <2> QED
    BY <2>2, <2>3
<1> QED
  BY <1>2, <1>3, <1>4, <1>5, <1>6, <1>7, <1>8, <1>9, <1>10 DEF Step

\* Each step keeps the invariant.
LEMMA InvInductive == Inv /\ [Next]_vars => Inv'
<1> SUFFICES ASSUME Inv, [Next]_vars PROVE Inv'
  OBVIOUS
<1>1. CASE UNCHANGED vars
  BY <1>1 DEF Inv, TypeOK, OneHolder, CopyFresh, Apart, Taking, Returning, Holds,
              WasCounted, vars, counters
<1>2. CASE Quiet
  BY <1>1, <1>2 DEF Quiet
<1>3. ASSUME NEW t \in Threads, Step(t) PROVE Inv'
  BY <1>3, TypeStep, HolderStep, CopyStep, ApartStep DEF Inv
<1> QED
  BY <1>1, <1>2, <1>3 DEF Next

\* The inductive invariant holds.
THEOREM Invariance == Spec => []Inv
BY InitInv, InvInductive, PTL DEF Spec

\* The variables of the id manager keep their types, for any number of threads.
THEOREM TypeCorrect == Spec => []TypeOK
<1>1. Inv => TypeOK
  BY DEF Inv
<1> QED
  BY <1>1, Invariance, PTL

\* No two living threads have one number unless the counters passed each other or
\* a taker met a returner: numbers of one kind are never copied, and those of the
\* two kinds lie on different sides of the counters.
THEOREM IdsDistinct == Spec => []LiveIdsDistinct
<1>1. Inv => LiveIdsDistinct
  <2> SUFFICES ASSUME Inv, raced = {}, global_counter <= offset_counter,
                      NEW s \in Threads, NEW t \in Threads,
                      Holds(s), Holds(t), id[s] = id[t]
               PROVE  s = t
    BY DEF LiveIdsDistinct
  <2>1. WasCounted(id[s], kind[s]) /\ WasCounted(id[t], kind[t])
    BY DEF Inv, Apart, TypeOK
  <2>2. kind[s] = kind[t]
    BY <2>1 DEF WasCounted, Inv, TypeOK, Kinds
  <2> QED
    BY <2>2 DEF Inv, Apart, TypeOK
<1> QED
  BY <1>1, Invariance, PTL

-----------------------------------------------------------------------------
\* NoIdLost of one number: somebody has it or it is listed.
Kept(n, k) ==
  \/ \E u \in Threads : Holds(u) /\ kind[u] = k /\ id[u] = n
  \/ \E i \in DOMAIN list[k] : list[k][i] = n

\* The property, number by number.
LEMMA NoIdLostByNumber ==
  NoIdLost <=> \A k \in Kinds \ raced : \A n \in Counted(k) : Kept(n, k)
BY DEF NoIdLost, Kept, HeldAs, Range

\* A step that takes no number from t and changes no list loses none.
LEMMA KeptAnyway ==
  ASSUME NEW t \in Threads, NEW k \in Kinds, NEW n, Kept(n, k),
         list' = list,
         Holds(t) => Holds(t)' /\ id'[t] = id[t] /\ kind'[t] = kind[t],
         \A u \in Threads \ {t} : pc'[u] = pc[u] /\ kind'[u] = kind[u] /\ id'[u] = id[u]
  PROVE  Kept(n, k)'
<1>1. \A u \in Threads : Holds(u) => Holds(u)' /\ id'[u] = id[u] /\ kind'[u] = kind[u]
  BY DEF Holds
<1> QED
  BY <1>1 DEF Kept

\* No step loses a number of a list that did not race: what a thread writes back
\* is the list with its own number out or in.  The number taken out is the thread's,
\* since the numbers meant to come back are not negative.
LEMMA NoIdLostStep ==
  ASSUME Inv, NoIdLost, NEW t \in Threads, Step(t)
  PROVE  NoIdLost'
<1> SUFFICES ASSUME NEW k \in Kinds, k \notin raced', NEW n \in Counted(k)'
             PROVE  Kept(n, k)'
  BY DEF NoIdLost, Kept, HeldAs, Range
<1>1. n \in Counted(k) => Kept(n, k)
  BY RacedStays, NoIdLostByNumber DEF Inv
<1> USE DEF Inv, TypeOK, Locations, Kinds, counters
<1>2. CASE Ask(t) \/ Choose(t) \/ Compare(t) \/ Look(t) \/ ReadForReturn(t)
  <2>1. list' = list /\ id' = id /\ n \in Counted(k)
    BY <1>2 DEF Ask, Choose, Compare, Look, ReadForReturn, Counted
  <2>2. \A u \in Threads \ {t} : pc'[u] = pc[u] /\ kind'[u] = kind[u]
    <3>1. CASE Ask(t) \/ Choose(t) \/ Compare(t)
      BY <3>1 DEF Ask, Choose, Compare
    <3>2. CASE Look(t) \/ ReadForReturn(t)
      BY <3>2 DEF Look, ReadForReturn
    <3> QED
      BY <1>2, <3>1, <3>2
  <2>3. Holds(t) => Holds(t)' /\ kind'[t] = kind[t]
    BY <1>2 DEF Ask, Choose, Compare, Look, ReadForReturn, Holds
  <2> QED
    BY <1>1, <2>1, <2>2, <2>3, KeptAnyway
<1>3. CASE Take(t)
  <2>1. n \in Counted(k) /\ Kept(n, k) /\ ~Holds(t)
    BY <1>1, <1>3 DEF Take, Counted, Holds
  <2>2. \A u \in Threads : Holds(u) =>
          Holds(u)' /\ u # t /\ id'[u] = id[u] /\ kind'[u] = kind[u]
    BY <1>3, <2>1 DEF Take, Holds
  <2>3. CASE \E u \in Threads : Holds(u) /\ kind[u] = k /\ id[u] = n
    BY <2>2, <2>3 DEF Kept
  <2>4. ASSUME NEW i \in DOMAIN list[k], list[k][i] = n PROVE Kept(n, k)'
    <3>1. CASE kind[t] = k
      <4> DEFINE old == list[k]
      <4>1. copy[t] = old /\ old \in Seq(Int) /\ old # <<>>
        BY <1>3, <3>1, RacedStays DEF Take, CopyFresh
      <4>2. /\ list'[k] = Tail(old) /\ kind'[t] = k
            /\ old[1] >= 0 => id'[t] = old[1] /\ Holds(t)'
        BY <1>3, <3>1, <4>1, TailOf DEF Take, Holds
      <4>3. CASE i = 1
        <5>1. n \in Int /\ n >= 0
          BY <2>1, ReservedAssumption DEF Counted
        <5> QED
          BY <2>4, <4>2, <4>3, <5>1 DEF Kept
      <4>4. CASE i # 1
        <5>1. i - 1 \in DOMAIN Tail(old) /\ Tail(old)[i - 1] = n
          BY <2>4, <4>1, <4>4, TailOf
        <5> QED
          BY <4>2, <5>1 DEF Kept
      <4> QED
        BY <4>3, <4>4
    <3>2. CASE kind[t] # k
      <4>1. list'[k] = list[k]
        BY <1>3, <3>2 DEF Take
      <4> QED
        BY <2>4, <4>1 DEF Kept
    <3> QED
      BY <3>1, <3>2
  <2> QED
    BY <2>1, <2>3, <2>4 DEF Kept
<1>4. CASE Count(t)
  <2>1. list' = list /\ kind' = kind /\ Holds(t)' /\ ~Holds(t)
        /\ \A u \in Threads \ {t} : pc'[u] = pc[u] /\ id'[u] = id[u]
    BY <1>4 DEF Count, Holds
  <2>2. n \in Counted(k) \/ (kind[t] = k /\ id'[t] = n)
    <3>1. CASE kind[t] = "offset"
      <4>1. offset_counter' = offset_counter - 1 /\ global_counter' = global_counter
            /\ id'[t] = offset_counter - 1
        BY <1>4, <3>1 DEF Count
      <4> QED
        BY <3>1, <4>1, MaxThreadsAssumption DEF Counted
    <3>2. CASE kind[t] = "available"
      <4>1. offset_counter' = offset_counter /\ global_counter' = global_counter + 1
            /\ id'[t] = global_counter
        BY <1>4, <3>2 DEF Count
      <4> QED
        BY <3>2, <4>1 DEF Counted
    <3> QED
      BY <3>1, <3>2
  <2>3. CASE n \in Counted(k)
    BY <1>1, <2>1, <2>3, KeptAnyway
  <2>4. CASE kind[t] = k /\ id'[t] = n
    BY <2>1, <2>4 DEF Kept
  <2> QED
    BY <2>2, <2>3, <2>4
<1>5. CASE End(t)
  <2>1. list' = list /\ kind' = kind /\ counters' = counters
        /\ \A u \in Threads \ {t} : pc'[u] = pc[u] /\ id'[u] = id[u]
    BY <1>5, Zenon DEF End, Forget, counters
  <2>2. n \in Counted(k) /\ Kept(n, k)
    BY <1>1, <2>1 DEF Counted
  <2>3. CASE Returns(t)
    <3>1. Holds(t)' /\ id' = id
      BY <1>5, <2>3 DEF End, Holds
    <3> QED
      BY <2>1, <2>2, <3>1, KeptAnyway
  <2>4. CASE ~Returns(t)
    <3>1. kind[t] = k => id[t] # n
      BY <2>2, <2>4, ReservedAssumption DEF Returns, Counted
    <3>2. \A u \in Threads : Holds(u) /\ u # t => Holds(u)'
      BY <2>1 DEF Holds
    <3> QED
      BY <2>1, <2>2, <3>1, <3>2 DEF Kept
  <2> QED
    BY <2>3, <2>4
<1>6. CASE Return(t)
  <2>1. n \in Counted(k) /\ Kept(n, k)
    BY <1>1, <1>6 DEF Return, Counted
  <2>2. kind' = kind /\ \A u \in Threads : Holds(u) /\ u # t => Holds(u)' /\ id'[u] = id[u]
    BY <1>6 DEF Return, Forget, Holds
  <2>3. CASE kind[t] = k
    <3>1. copy[t] = list[k] /\ list[k] \in Seq(Int) /\ id[t] \in Int
      BY <1>6, <2>3, RacedStays DEF Return, CopyFresh
    <3>2. list'[k] = Append(list[k], id[t])
      BY <1>6, <2>3, <3>1 DEF Return
    <3>3. /\ \A i \in DOMAIN list[k] : i \in DOMAIN list'[k] /\ list'[k][i] = list[k][i]
          /\ \E i \in DOMAIN list'[k] : list'[k][i] = id[t]
      <4> HIDE DEF Inv, TypeOK
      <4> DEFINE old == list[k]
                 x == id[t]
      <4>1. old \in Seq(Int) /\ x \in Int /\ list'[k] = Append(old, x)
        BY <3>1, <3>2
      <4> HIDE DEF old, x
      <4>2. /\ \A i \in DOMAIN old : i \in DOMAIN list'[k] /\ list'[k][i] = old[i]
            /\ Len(old) + 1 \in DOMAIN list'[k] /\ list'[k][Len(old) + 1] = x
        BY <4>1, AppendOf
      <4> QED
        BY <4>2 DEF old, x
    <3> QED
      BY <2>1, <2>2, <3>3 DEF Kept
  <2>4. CASE kind[t] # k
    <3>1. list'[k] = list[k]
      BY <1>6, <2>4 DEF Return
    <3> QED
      BY <2>1, <2>2, <2>4, <3>1 DEF Kept
  <2> QED
    BY <2>3, <2>4
<1> QED
  BY <1>2, <1>3, <1>4, <1>5, <1>6 DEF Step

\* A positive number that was given out is held, or listed, for ever, at a list where
\* no taker met a returner, whether or not the counters have passed each other; a
\* negative one is dropped by get_id (threading.cpp:173), without a race.
THEOREM IdsKept == Spec => []NoIdLost
<1>1. Init => NoIdLost
  <2> SUFFICES ASSUME Init PROVE \A k \in Kinds : Counted(k) = {}
    BY DEF NoIdLost
  <2> QED
    BY MaxThreadsAssumption DEF Init, Counted
<1>2. Inv /\ NoIdLost /\ [Next]_vars => NoIdLost'
  <2> SUFFICES ASSUME Inv, NoIdLost, [Next]_vars PROVE NoIdLost'
    OBVIOUS
  <2>1. CASE UNCHANGED vars
    BY <2>1 DEF NoIdLost, HeldAs, Holds, Counted, vars, counters
  <2>2. CASE Quiet
    BY <2>1, <2>2 DEF Quiet
  <2> QED
    BY <2>1, <2>2, NoIdLostStep DEF Next
<1> QED
  BY <1>1, <1>2, Invariance, PTL DEF Spec

-----------------------------------------------------------------------------
Records == Storers \X Nat

FollowerStages == {"running", "entering", "joining", "ending", "waiting", "merging",
                   "leaving", "gone"}
LeaderStages == {"running", "entering", "finalizing", "walking", "merging child", "printing",
                 "disabling", "deleting", "returning", "over"}

LifeTypeOK ==
  /\ stage \in [Storers -> FollowerStages \cup LeaderStages]
  /\ storage \in [Storers -> {"none", "live", "deleted"}]
  /\ held \in [Storers -> SUBSET Records]
  /\ pushed \in [Storers -> Nat]
  /\ callbacks \cup children \cup unmerged \subseteq Followers

\* What is true of a worker wherever it is: storage, registrations and records
\* come and go together.
Course(t) ==
  /\ stage[t] \in FollowerStages
  /\ t \in registered \cup callbacks \cup children => storage[t] = "live"
  /\ stage[t] \in {"joining", "ending", "waiting", "merging", "leaving"} =>
       storage[t] = "live"
  /\ stage[t] \in {"waiting", "merging", "leaving"} => t \notin callbacks
  /\ storage[t] = "live" /\ stage[t] # "joining" => t \in children
  /\ held[t] # {} => storage[t] = "live" /\ stage[t] \notin {"joining", "leaving"}

\* The main thread, by the stage of finalization it has come to.
LeaderCourse ==
  /\ stage[Leader] \in LeaderStages
  /\ storage[Leader] = IF stage[Leader] \in {"returning", "over"} THEN "deleted" ELSE "live"
  /\ stage[Leader] \in {"deleting", "returning", "over"} => ~enabled
  /\ stage[Leader] = "over" => finalized
  /\ stage[Leader] \in {"walking", "merging child"} => unmerged \subseteq children

\* Early records are in the master's graph or in one it has still to merge.
Carried ==
  /\ stage[Leader] = "finalizing" => \A r \in early : \E t \in Storers : r \in held[t]
  /\ stage[Leader] \in {"walking", "merging child"} =>
       \A r \in early : \E t \in unmerged \cup {Leader} : r \in held[t]
  /\ stage[Leader] = "printing" => early \subseteq held[Leader]
  /\ EarlierArePrinted

\* Since finalization began, whoever is in a measurement or an end is known to
\* overlap it.
Known ==
  /\ stage[Leader] \in {"running", "entering"} => misused = {}
  /\ stage[Leader] \notin {"running", "entering"} =>
       \A t \in Followers : stage[t] \notin {"running", "gone"} => t \in overlapping
  /\ OnlyOverlappingMisuse

LifeInv ==
  LifeTypeOK /\ (\A t \in Followers : Course(t)) /\ LeaderCourse /\ Carried /\ Known

-----------------------------------------------------------------------------
\* The steps, one thread at a time.
LEMMA Steps ==
  ASSUME LifeNext
  PROVE  \/ Enter(Leader) \/ Measure(Leader)
         \/ \E t \in Followers :
              \/ Enter(t) \/ Measure(t) \/ Construct(t) \/ AddChild(t)
              \/ Retire(t) \/ Destroy(t) \/ Acquire(t, "waiting", "merging")
              \/ MergeOwn(t) \/ Leave(t)
         \/ BeginFinalize \/ BeginWalk \/ Acquire(Leader, "walking", "merging child")
         \/ MergeChild \/ EndWalk \/ Output \/ Disable \/ DeleteMaster \/ SetFinalized
BY Zenon, LifecycleAssumption DEF LifeNext, MeasureStep, EndStep, FinalizeStep, Storers

\* It holds before the first measurement.
LEMMA InitLifeInv == LifeInit => LifeInv
BY LifecycleAssumption DEF LifeInit, LifeInv, LifeTypeOK, Course, LeaderCourse, Carried,
   Known, EarlierArePrinted, OnlyOverlappingMisuse, Storers, Records, FollowerStages,
   LeaderStages

\* What a merge of s's graph does to the records.
LEMMA AbsorbedHolds ==
  ASSUME LifeTypeOK, NEW s \in Followers, held' = Absorbed(s), NEW t \in Storers
  PROVE  held'[t] = IF t = s THEN {} ELSE IF t = Leader THEN held[Leader] \cup held[s]
                    ELSE held[t]
BY LifecycleAssumption DEF LifeTypeOK, Absorbed, Storers

\* The main thread merges a child that worker s has registered.
LEMMA MergedChild ==
  ASSUME LifeTypeOK, MergeChild
  PROVE  \E s \in unmerged :
           /\ s \in Followers
           /\ stage[Leader] = "merging child" /\ stage' = [stage EXCEPT ![Leader] = "walking"]
           /\ unmerged' = unmerged \ {s} /\ held' = Absorbed(s) /\ Uses(Leader, s)
           /\ UNCHANGED <<storage, pushed, registered, callbacks, children, flags, printed,
                           early, overlapping>>
BY DEF MergeChild, LifeTypeOK, Goes

\* Records are made by Measure and moved by the merges.
LEMMA MeasureType ==
  ASSUME LifeTypeOK, NEW t \in Storers, Measure(t)
  PROVE  LifeTypeOK'
<1>1. pushed'[t] \in Nat /\ pushed' \in [Storers -> Nat]
  BY DEF Measure, LifeTypeOK
<1>2. {<<t, pushed'[t]>>} \subseteq Records
  BY <1>1 DEF Records
<1>3. held' \in [Storers -> SUBSET Records]
  BY <1>2 DEF Measure, LifeTypeOK
<1>4. stage' \in [Storers -> FollowerStages \cup LeaderStages]
  BY DEF Measure, LifeTypeOK, Goes, FollowerStages
<1> QED
  BY <1>1, <1>3, <1>4 DEF Measure, LifeTypeOK

\* Each step keeps the types.
LEMMA LifeTypeStep ==
  ASSUME LifeInv, LifeNext
  PROVE  LifeTypeOK'
<1> USE LifecycleAssumption DEF LifeInv, LifeTypeOK, Goes, Storers, Absorbed, Records,
                                FollowerStages, LeaderStages
<1>1. CASE Enter(Leader)
  BY <1>1 DEF Enter
<1>2. CASE Measure(Leader)
  BY <1>2, MeasureType DEF LifeInv
<1>3. ASSUME NEW t \in Followers,
             Enter(t) \/ Measure(t) \/ Construct(t) \/ AddChild(t) \/ Retire(t) \/ Destroy(t)
             \/ Acquire(t, "waiting", "merging") \/ MergeOwn(t) \/ Leave(t)
      PROVE  LifeTypeOK'
  <2>1. CASE Enter(t)
    BY <2>1 DEF Enter
  <2>2. CASE Measure(t)
    BY <2>2, MeasureType DEF LifeInv
  <2>3. CASE Construct(t)
    BY <2>3 DEF Construct
  <2>4. CASE AddChild(t)
    BY <2>4 DEF AddChild
  <2>5. CASE Retire(t)
    BY <2>5 DEF Retire
  <2>6. CASE Destroy(t)
    BY <2>6 DEF Destroy
  <2>7. CASE Acquire(t, "waiting", "merging")
    BY <2>7 DEF Acquire
  <2>8. CASE MergeOwn(t)
    BY <2>8 DEF MergeOwn
  <2>9. CASE Leave(t)
    BY <2>9 DEF Leave
  <2> QED
    BY <1>3, <2>1, <2>2, <2>3, <2>4, <2>5, <2>6, <2>7, <2>8, <2>9
<1>4. CASE BeginFinalize
  BY <1>4 DEF BeginFinalize
<1>5. CASE BeginWalk
  BY <1>5 DEF BeginWalk
<1>6. CASE Acquire(Leader, "walking", "merging child")
  BY <1>6 DEF Acquire
<1>7. CASE MergeChild
  <2>1. PICK s \in Followers : held' = Absorbed(s) /\ unmerged' \subseteq unmerged
    BY <1>7, MergedChild
  <2>2. held' \in [Storers -> SUBSET Records]
    BY <2>1
  <2> QED
    BY <1>7, <2>1, <2>2 DEF MergeChild
<1>8. CASE EndWalk
  BY <1>8 DEF EndWalk
<1>9. CASE Output
  BY <1>9 DEF Output
<1>10. CASE Disable
  BY <1>10 DEF Disable
<1>11. CASE DeleteMaster
  BY <1>11 DEF DeleteMaster
<1>12. CASE SetFinalized
  BY <1>12 DEF SetFinalized
<1> QED
  BY Steps, <1>1, <1>2, <1>3, <1>4, <1>5, <1>6, <1>7, <1>8, <1>9, <1>10, <1>11, <1>12

\* A worker's registrations follow its storage.
LEMMA CourseStep ==
  ASSUME LifeInv, LifeNext
  PROVE  \A s \in Followers : Course(s)'
<1> USE LifecycleAssumption DEF LifeInv, LifeTypeOK, Course, Goes, Storers, Absorbed,
                                FollowerStages, LeaderStages
<1>1. CASE Enter(Leader)
  BY <1>1 DEF Enter
<1>2. CASE Measure(Leader)
  BY <1>2 DEF Measure
<1>3. ASSUME NEW t \in Followers,
             Enter(t) \/ Measure(t) \/ Construct(t) \/ AddChild(t) \/ Retire(t) \/ Destroy(t)
             \/ Acquire(t, "waiting", "merging") \/ MergeOwn(t) \/ Leave(t)
      PROVE  \A s \in Followers : Course(s)'
  <2>1. CASE Enter(t)
    BY <2>1 DEF Enter
  <2>2. CASE Measure(t)
    BY <2>2 DEF Measure
  <2>3. CASE Construct(t)
    <3>1. /\ stage[t] = "entering" /\ storage[t] = "none"
          /\ stage' = [stage EXCEPT ![t] = "joining"]
          /\ storage' = [storage EXCEPT ![t] = "live"]
          /\ UNCHANGED <<held, children>>
      BY <2>3 DEF Construct
    <3>2. Course(t)'
      BY <3>1
    <3>3. ASSUME NEW s \in Followers \ {t} PROVE Course(s)'
      <4>1. /\ s \in registered' => s \in registered
            /\ s \in callbacks' => s \in callbacks
        BY ZenonT(30), <2>3 DEF Construct
      <4> QED
        BY <3>1, <4>1
    <3> HIDE DEF Course
    <3> QED
      BY <3>2, <3>3
  <2>4. CASE AddChild(t)
    BY <2>4 DEF AddChild
  <2>5. CASE Retire(t)
    BY <2>5 DEF Retire
  <2>6. CASE Destroy(t)
    BY <2>6 DEF Destroy
  <2>7. CASE Acquire(t, "waiting", "merging")
    BY <2>7 DEF Acquire
  <2>8. CASE MergeOwn(t)
    BY ZenonT(30), <2>8 DEF MergeOwn
  <2>9. CASE Leave(t)
    BY <2>9 DEF Leave
  <2> QED
    BY <1>3, <2>1, <2>2, <2>3, <2>4, <2>5, <2>6, <2>7, <2>8, <2>9
<1>4. CASE BeginFinalize
  BY ZenonT(30), <1>4 DEF BeginFinalize
<1>5. CASE BeginWalk
  BY <1>5 DEF BeginWalk
<1>6. CASE Acquire(Leader, "walking", "merging child")
  BY <1>6 DEF Acquire
<1>7. CASE MergeChild
  <2>1. PICK s \in Followers :
          /\ stage' = [stage EXCEPT ![Leader] = "walking"] /\ held' = Absorbed(s)
          /\ UNCHANGED <<storage, registered, callbacks, children>>
    BY <1>7, MergedChild
  <2>2. \A t \in Followers : stage'[t] = stage[t] /\ held'[t] \subseteq held[t]
    BY <2>1
  <2> QED
    BY <2>1, <2>2
<1>8. CASE EndWalk
  BY <1>8 DEF EndWalk
<1>9. CASE Output
  BY <1>9 DEF Output
<1>10. CASE Disable
  BY <1>10 DEF Disable
<1>11. CASE DeleteMaster
  BY <1>11 DEF DeleteMaster
<1>12. CASE SetFinalized
  BY <1>12 DEF SetFinalized
<1> QED
  BY Steps, <1>1, <1>2, <1>3, <1>4, <1>5, <1>6, <1>7, <1>8, <1>9, <1>10, <1>11, <1>12

\* The main thread goes through the stages of finalization in their order.
LEMMA LeaderStep ==
  ASSUME LifeInv, LifeNext
  PROVE  LeaderCourse'
<1> USE LifecycleAssumption DEF LifeInv, LifeTypeOK, LeaderCourse, Goes, Storers, FollowerStages,
                                LeaderStages, flags, ends, MasterUnlocked
<1>1. CASE Enter(Leader)
  BY <1>1 DEF Enter
<1>2. CASE Measure(Leader)
  BY <1>2 DEF Measure
<1>3. ASSUME NEW t \in Followers,
             Enter(t) \/ Measure(t) \/ Construct(t) \/ AddChild(t) \/ Retire(t) \/ Destroy(t)
             \/ Acquire(t, "waiting", "merging") \/ MergeOwn(t) \/ Leave(t)
      PROVE  LeaderCourse'
  <2>1. CASE Enter(t)
    BY <2>1 DEF Enter
  <2>2. CASE Measure(t)
    BY <2>2 DEF Measure
  <2>3. CASE Construct(t)
    BY <2>3 DEF Construct
  <2>4. CASE AddChild(t)
    BY <2>4 DEF AddChild
  <2>5. CASE Retire(t)
    BY <2>5 DEF Retire
  <2>6. CASE Destroy(t)
    BY <2>6 DEF Destroy
  <2>7. CASE Acquire(t, "waiting", "merging")
    BY <2>7 DEF Acquire
  <2>8. CASE MergeOwn(t)
    BY <2>8 DEF MergeOwn
  <2>9. CASE Leave(t)
    BY <2>9 DEF Leave
  <2> QED
    BY <1>3, <2>1, <2>2, <2>3, <2>4, <2>5, <2>6, <2>7, <2>8, <2>9
<1>4. CASE BeginFinalize
  BY <1>4 DEF BeginFinalize
<1>5. CASE BeginWalk
  BY <1>5 DEF BeginWalk
<1>6. CASE Acquire(Leader, "walking", "merging child")
  BY <1>6 DEF Acquire
<1>7. CASE MergeChild
  BY <1>7 DEF MergeChild
<1>8. CASE EndWalk
  BY <1>8 DEF EndWalk
<1>9. CASE Output
  BY <1>9 DEF Output
<1>10. CASE Disable
  BY <1>10 DEF Disable
<1>11. CASE DeleteMaster
  BY <1>11 DEF DeleteMaster
<1>12. CASE SetFinalized
  BY <1>12 DEF SetFinalized
<1> QED
  BY Steps, <1>1, <1>2, <1>3, <1>4, <1>5, <1>6, <1>7, <1>8, <1>9, <1>10, <1>11, <1>12

\* A step that only adds to the graphs and leaves the finalization alone.
LEMMA CarriedAlong ==
  ASSUME LifeInv, stage'[Leader] = stage[Leader],
         UNCHANGED <<early, printed, unmerged>>,
         \A t \in Storers : held[t] \subseteq held'[t]
  PROVE  Carried'
<1> USE DEF LifeInv, Carried, EarlierArePrinted
<1>1. unmerged \cup {Leader} \subseteq Storers
  BY DEF LifeTypeOK, Storers
<1> QED
  BY <1>1

\* No early record is lost on its way to the output.
LEMMA CarriedStep ==
  ASSUME LifeInv, LifeNext
  PROVE  Carried'
<1> USE LifecycleAssumption DEF LifeInv, Goes, Storers
<1>1. CASE Enter(Leader)
  BY <1>1 DEF Enter, LifeTypeOK, Carried, EarlierArePrinted
<1>2. ASSUME NEW t \in Storers, Measure(t) PROVE Carried'
  <2>1. stage'[Leader] \in {stage[Leader], "running"} /\ UNCHANGED <<early, printed, unmerged>>
    BY <1>2 DEF Measure, LifeTypeOK
  <2>2. \A s \in Storers : held[s] \subseteq held'[s]
    BY <1>2 DEF Measure, LifeTypeOK
  <2>3. CASE stage'[Leader] = stage[Leader]
    BY <2>1, <2>2, <2>3, CarriedAlong
  <2>4. CASE stage'[Leader] = "running"
    BY <2>4 DEF Carried, EarlierArePrinted
  <2> QED
    BY <2>1, <2>3, <2>4
<1>3. ASSUME NEW t \in Followers,
             \/ Enter(t) \/ Construct(t) \/ AddChild(t) \/ Retire(t) \/ Destroy(t)
             \/ Acquire(t, "waiting", "merging") \/ Leave(t)
      PROVE  Carried'
  <2>1. stage'[Leader] = stage[Leader] /\ UNCHANGED <<early, printed, unmerged, held>>
    BY <1>3 DEF Enter, Construct, AddChild, Retire, Destroy, Acquire, Leave, ends, LifeTypeOK
  <2> QED
    BY <2>1, CarriedAlong
<1>4. ASSUME NEW t \in Followers, MergeOwn(t) PROVE Carried'
  <2>1. stage'[Leader] = stage[Leader] /\ UNCHANGED <<early, printed, unmerged>>
    BY <1>4 DEF MergeOwn, LifeTypeOK
  <2>2. \A s \in Storers : held'[s] = IF s = t THEN {} ELSE
           IF s = Leader THEN held[Leader] \cup held[t] ELSE held[s]
    BY <1>4, AbsorbedHolds DEF MergeOwn
  <2>3. \A r, s : s \in Storers /\ r \in held[s] => r \in held'[s] \/ r \in held'[Leader]
    BY <2>2
  <2>4. unmerged \cup {Leader} \subseteq Storers
    BY DEF LifeTypeOK
  <2>5. held[Leader] \subseteq held'[Leader]
    BY <2>2
  <2> QED
    BY <2>1, <2>3, <2>4, <2>5 DEF Carried, EarlierArePrinted
<1>5. CASE BeginFinalize
  BY <1>5 DEF BeginFinalize, LifeTypeOK, Carried, EarlierArePrinted
<1>6. CASE BeginWalk
  <2>1. /\ stage'[Leader] = "walking" /\ stage[Leader] = "finalizing"
        /\ unmerged' = children /\ UNCHANGED <<early, held>>
    BY <1>6 DEF BeginWalk, ends, LifeTypeOK
  <2>2. \A t \in Storers : held[t] # {} => t \in children \cup {Leader}
    BY DEF Course
  <2> QED
    BY <2>1, <2>2 DEF Carried, EarlierArePrinted
<1>7. CASE Acquire(Leader, "walking", "merging child")
  BY <1>7 DEF Acquire, LifeTypeOK, Carried, EarlierArePrinted, ends
<1>8. CASE MergeChild
  <2>1. PICK s \in unmerged :
          /\ Goes(Leader, "merging child", "walking")
          /\ unmerged' = unmerged \ {s}
          /\ held' = Absorbed(s) /\ early' = early
    BY <1>8 DEF MergeChild
  <2>2. s \in Followers /\ unmerged \subseteq Followers
    BY DEF LifeTypeOK
  <2>3. /\ held'[Leader] = held[Leader] \cup held[s]
        /\ \A t \in unmerged' : held'[t] = held[t]
    BY <2>1, <2>2, AbsorbedHolds
  <2>4. stage'[Leader] = "walking" /\ stage[Leader] = "merging child"
    BY <2>1 DEF LifeTypeOK
  <2> QED
    BY <2>1, <2>3, <2>4 DEF Carried, EarlierArePrinted
<1>9. CASE EndWalk
  BY <1>9 DEF EndWalk, LifeTypeOK, Carried, EarlierArePrinted, ends
<1>10. CASE Output
  BY <1>10 DEF Output, LifeTypeOK, Carried, EarlierArePrinted, ends
<1>11. CASE Disable
  BY <1>11 DEF Disable, LifeTypeOK, Carried, EarlierArePrinted, ends
<1>12. CASE DeleteMaster
  BY <1>12 DEF DeleteMaster, LifeTypeOK, Carried, EarlierArePrinted, ends
<1>13. CASE SetFinalized
  BY <1>13 DEF SetFinalized, LifeTypeOK, Carried, EarlierArePrinted, ends
<1> QED
  BY Steps, <1>1, <1>2, <1>3, <1>4, <1>5, <1>6, <1>7, <1>8, <1>9, <1>10, <1>11, <1>12, <1>13

\* Nobody begins a measurement or an end unseen, or meets a deleted storage unseen.
LEMMA KnownStep ==
  ASSUME LifeInv, LifeNext
  PROVE  Known'
<1> USE LifecycleAssumption DEF LifeInv, LifeTypeOK, LeaderCourse, Course, Known,
                                OnlyOverlappingMisuse, Goes, Storers, flags, ends, Relies, Uses,
                                InWindow
<1>1. CASE Enter(Leader)
  BY <1>1 DEF Enter
<1>2. CASE Measure(Leader)
  BY <1>2 DEF Measure
<1>3. ASSUME NEW t \in Followers,
             Enter(t) \/ Measure(t) \/ Construct(t) \/ AddChild(t) \/ Retire(t) \/ Destroy(t)
             \/ Acquire(t, "waiting", "merging") \/ MergeOwn(t) \/ Leave(t)
      PROVE  Known'
  <2>1. CASE Enter(t)
    BY <2>1 DEF Enter
  <2>2. CASE Measure(t)
    BY <2>2 DEF Measure
  <2>3. CASE Construct(t)
    BY <2>3 DEF Construct
  <2>4. CASE AddChild(t)
    BY <2>4 DEF AddChild
  <2>5. CASE Retire(t)
    BY <2>5 DEF Retire
  <2>6. CASE Destroy(t)
    BY <2>6 DEF Destroy
  <2>7. CASE Acquire(t, "waiting", "merging")
    BY <2>7 DEF Acquire
  <2>8. CASE MergeOwn(t)
    BY <2>8 DEF MergeOwn
  <2>9. CASE Leave(t)
    BY <2>9 DEF Leave
  <2> QED
    BY <1>3, <2>1, <2>2, <2>3, <2>4, <2>5, <2>6, <2>7, <2>8, <2>9
<1>4. CASE BeginFinalize
  BY <1>4 DEF BeginFinalize
<1>5. CASE BeginWalk
  BY <1>5 DEF BeginWalk
<1>6. CASE Acquire(Leader, "walking", "merging child")
  BY <1>6 DEF Acquire
<1>7. CASE MergeChild
  BY <1>7 DEF MergeChild
<1>8. CASE EndWalk
  BY <1>8 DEF EndWalk
<1>9. CASE Output
  BY <1>9 DEF Output
<1>10. CASE Disable
  BY <1>10 DEF Disable
<1>11. CASE DeleteMaster
  BY <1>11 DEF DeleteMaster
<1>12. CASE SetFinalized
  BY <1>12 DEF SetFinalized
<1> QED
  BY Steps, <1>1, <1>2, <1>3, <1>4, <1>5, <1>6, <1>7, <1>8, <1>9, <1>10, <1>11, <1>12

-----------------------------------------------------------------------------
\* So it holds in every reachable state.
LEMMA LifeInvariant == LifeSpec => []LifeInv
<1>1. LifeInv /\ [LifeNext]_lifeVars => LifeInv'
  <2> SUFFICES ASSUME LifeInv, [LifeNext]_lifeVars PROVE LifeInv'
    OBVIOUS
  <2>1. CASE LifeNext
    BY <2>1, LifeTypeStep, CourseStep, LeaderStep, CarriedStep, KnownStep DEF LifeInv
  <2>2. CASE UNCHANGED lifeVars
    BY <2>2 DEF lifeVars, flags, ends, LifeInv, LifeTypeOK, Course, LeaderCourse, Carried,
                Known, EarlierArePrinted, OnlyOverlappingMisuse
  <2> QED
    BY <2>1, <2>2
<1> QED
  BY <1>1, InitLifeInv, PTL DEF LifeSpec

\* Whatever existed in any thread's graph when the main thread began to finalize
\* is in its output, whichever workers end, merge and leave meanwhile
\* (storage::destroy, internal_print).
THEOREM EarlierRecordsPrinted == LifeSpec => []EarlierArePrinted
BY LifeInvariant, PTL DEF LifeInv, Carried

\* Only a worker in the middle of a measurement or of its end while the main thread
\* finalized meets the deleted master storage; the main thread never merges a
\* deleted child (runtime_enabled, settings finalized, ~storage).
THEOREM MisuseOnlyByOverlap == LifeSpec => []OnlyOverlappingMisuse
BY LifeInvariant, PTL DEF LifeInv, Known

\* A synchronisation callback never outlives its storage (storage::destroy
\* removes it before the storage is deleted).
THEOREM CallbacksOfLiveStorages == LifeSpec => []CallbacksLive
<1>1. LifeInv => CallbacksLive
  BY DEF LifeInv, LifeTypeOK, Course, CallbacksLive
<1> QED
  BY <1>1, LifeInvariant, PTL
=============================================================================

---------------------------- MODULE LibraryProofs ----------------------------
(* Proofs about the three parts of the C interface for any number of       *)
(* threads and any bounds: the stacks of component sets, the traces of     *)
(* instrumented functions and the records of regions.                      *)
EXTENDS Tracing, Records, ComponentStacks, SequenceTheorems, FiniteSetTheorems, TLAPS

-----------------------------------------------------------------------------
(* Stacks of component sets.                                               *)

\* A stack s and the documented one m: the same, or, if s began with a push on
\* the missing default set, m is one set longer at the bottom until the last set
\* but one is popped. Above the lowest set of s the two agree.
Agree(s, m, isBare) ==
  IF isBare
  THEN /\ s # <<>> /\ Len(m) \in {Len(s), Len(s) + 1}
       /\ \A k \in 0 .. Len(s) - 2 : s[Len(s) - k] = m[Len(m) - k]
  ELSE s = m

Sets == SUBSET Components

StacksShape ==
  /\ leader \in Users \cup {Nobody}
  /\ stack \in [Users -> Seq(Sets)] /\ meant \in [Users -> Seq(Sets)]
  /\ default \in Sets /\ bare \subseteq Users

StacksInv == StacksShape /\ \A t \in Users : Agree(stack[t], meant[t], t \in bare)

\* A stack without its last set.
LEMMA DropLast ==
  ASSUME NEW S, NEW s \in Seq(S), s # <<>>
  PROVE  /\ Front(s) \in Seq(S) /\ Len(Front(s)) = Len(s) - 1
         /\ \A k \in 1 .. Len(s) - 1 : Front(s)[k] = s[k]
         /\ Last(s) \in S /\ Last(s) = s[Len(s)] /\ Len(s) \in Nat \ {0}
<1>1. Len(s) \in Nat \ {0} /\ s[Len(s)] \in S
  BY EmptySeq, ElementOfSeq
<1>2. Front(s) = [k \in 1 .. Len(s) - 1 |-> s[k]]
  BY <1>1 DEF Front
<1>3. Front(s) \in Seq(S) /\ Len(Front(s)) = Len(s) - 1
  BY <1>1, <1>2
<1>4. QED  BY <1>1, <1>2, <1>3 DEF Last

\* The stack an operation finds agrees with the documented one it finds.
LEMMA FoundAgree ==
  ASSUME StacksInv, NEW t \in Users
  PROVE  /\ Found(t, stack) \in Seq(Sets) /\ Found(t, meant) \in Seq(Sets)
         /\ Agree(Found(t, stack), Found(t, meant), FoundBare(t))
  BY DEF StacksInv, StacksShape, Found, FoundBare

\* An operation that leaves stacks that agree keeps the invariant.
LEMMA UsesAgree ==
  ASSUME StacksInv, NEW t \in Users, NEW s \in Seq(Sets), NEW m \in Seq(Sets),
         NEW isBare \in BOOLEAN, Agree(s, m, isBare), Uses(t, s, m, isBare), default' \in Sets
  PROVE  StacksInv'
<1>1. StacksShape'
  BY DEF StacksInv, StacksShape, Uses
<1>2. ASSUME NEW u \in Users PROVE Agree(stack'[u], meant'[u], u \in bare')
  <2>1. CASE u = t
    <3>1. stack'[u] = s /\ meant'[u] = m
      BY <2>1 DEF StacksInv, StacksShape, Uses
    <3>2. (u \in bare') <=> isBare
      BY <2>1 DEF Uses
    <3>3. CASE isBare
      BY <3>1, <3>2, <3>3 DEF Agree
    <3>4. CASE ~isBare
      BY <3>1, <3>2, <3>4 DEF Agree
    <3>5. QED  BY <3>3, <3>4
  <2>2. CASE u # t
    <3>1. stack'[u] = stack[u] /\ meant'[u] = meant[u]
      BY <2>2 DEF StacksInv, StacksShape, Uses
    <3>2. (u \in bare') <=> (u \in bare)
      BY <2>2 DEF Uses
    <3>3. Agree(stack[u], meant[u], u \in bare)
      BY DEF StacksInv
    <3>4. QED  BY <3>1, <3>2, <3>3 DEF Agree
  <2>3. QED  BY <2>1, <2>2
<1>3. QED  BY <1>1, <1>2 DEF StacksInv

\* The current set is looked up, set, and pushed on.
LEMMA DefaultAgree ==
  ASSUME NEW s \in Seq(Sets), NEW m \in Seq(Sets), NEW isBare \in BOOLEAN,
         Agree(s, m, isBare), default \in Sets
  PROVE  /\ OrDefault(s) \in Seq(Sets) /\ OrDefault(m) \in Seq(Sets)
         /\ OrDefault(s) # <<>> /\ OrDefault(m) # <<>>
         /\ Agree(OrDefault(s), OrDefault(m), isBare)
<1>1. \A q \in Seq(Sets) : OrDefault(q) \in Seq(Sets) /\ OrDefault(q) # <<>>
  BY DEF OrDefault
<1>2. CASE isBare
  <2>1. m # <<>> /\ s # <<>>
    BY <1>2, EmptySeq DEF Agree
  <2>2. QED  BY <1>1, <2>1 DEF OrDefault
<1>3. CASE ~isBare
  BY <1>1, <1>3 DEF Agree, OrDefault
<1>4. QED  BY <1>2, <1>3

\* The last set of both stacks is replaced.
LEMMA TopAgree ==
  ASSUME NEW s \in Seq(Sets), NEW m \in Seq(Sets), NEW isBare \in BOOLEAN,
         Agree(s, m, isBare), s # <<>>, m # <<>>, NEW x \in Sets, NEW y \in Sets,
         (Len(s) > 1 \/ ~isBare) => x = y
  PROVE  /\ ReplaceTop(s, x) \in Seq(Sets) /\ ReplaceTop(m, y) \in Seq(Sets)
         /\ Agree(ReplaceTop(s, x), ReplaceTop(m, y), isBare)
<1> DEFINE r(q, z) == Append(Front(q), z)
<1>1. ASSUME NEW q \in Seq(Sets), q # <<>>, NEW z \in Sets
      PROVE  /\ r(q, z) \in Seq(Sets) /\ Len(r(q, z)) = Len(q) /\ Len(q) \in Nat \ {0}
             /\ r(q, z)[Len(q)] = z /\ \A k \in 1 .. Len(q) - 1 : r(q, z)[k] = q[k]
  BY SMTT(30), <1>1, DropLast
<1> HIDE DEF r
<1>2. r(s, x) = ReplaceTop(s, x) /\ r(m, y) = ReplaceTop(m, y)
  BY DEF r, ReplaceTop
<1>3. CASE isBare
  <2>1. ASSUME NEW k \in 0 .. Len(s) - 2 PROVE r(s, x)[Len(s) - k] = r(m, y)[Len(m) - k]
    <3>1. Len(m) \in {Len(s), Len(s) + 1} /\ s[Len(s) - k] = m[Len(m) - k]
      BY <1>3 DEF Agree
    <3>a. Len(s) \in Nat \ {0} /\ Len(m) \in Nat \ {0} /\ Len(m) >= Len(s) /\ Len(s) > 1
      <4>1. Len(s) \in Nat \ {0} /\ Len(m) \in Nat \ {0}
        BY DropLast
      <4>2. QED  BY <4>1, <3>1
    <3>2. CASE k = 0
      <4>1. r(s, x)[Len(s)] = x /\ r(m, y)[Len(m)] = y /\ x = y
        BY <1>1, <3>a
      <4>2. QED  BY <4>1, <3>2, <3>a
    <3>3. CASE k # 0
      <4>1. Len(s) - k \in 1 .. Len(s) - 1 /\ Len(m) - k \in 1 .. Len(m) - 1
        BY <3>a, <3>3
      <4>2. r(s, x)[Len(s) - k] = s[Len(s) - k] /\ r(m, y)[Len(m) - k] = m[Len(m) - k]
        BY ZenonT(30), <4>1, <1>1
      <4>3. QED  BY <4>2, <3>1
    <3>4. QED  BY <3>2, <3>3
  <2>2. r(s, x) # <<>> /\ Len(r(s, x)) = Len(s) /\ Len(r(m, y)) = Len(m)
    BY <1>1, EmptySeq
  <2>3. Agree(r(s, x), r(m, y), isBare)
    BY <1>3, <2>1, <2>2 DEF Agree
  <2>4. QED  BY <1>1, <1>2, <2>3
<1>4. CASE ~isBare
  BY <1>1, <1>2, <1>4 DEF Agree
<1>5. QED  BY <1>3, <1>4

\* The current sets agree unless the stack is down to its bare bottom.
LEMMA LastAgree ==
  ASSUME NEW s \in Seq(Sets), NEW m \in Seq(Sets), NEW isBare \in BOOLEAN,
         Agree(s, m, isBare), s # <<>>, Len(s) > 1 \/ ~isBare
  PROVE  Last(s) = Last(m)
<1>1. Len(s) \in Nat \ {0}
  BY DropLast
<1>2. CASE isBare
  <2>1. 0 \in 0 .. Len(s) - 2
    BY <1>1, <1>2
  <2>2. s[Len(s) - 0] = m[Len(m) - 0]
    BY <2>1, <1>2 DEF Agree
  <2>3. QED  BY <2>2 DEF Last
<1>3. CASE ~isBare
  BY <1>3 DEF Agree
<1>4. QED  BY <1>2, <1>3

\* The last set is popped off both, but never off a single one.
LEMMA PopAgree ==
  ASSUME NEW s \in Seq(Sets), NEW m \in Seq(Sets), NEW isBare \in BOOLEAN, Agree(s, m, isBare)
  PROVE  LET n == IF Len(m) > 1 THEN Front(m) ELSE m IN
         Popped(s) \in Seq(Sets) /\ n \in Seq(Sets) /\ Agree(Popped(s), n, isBare)
<1> DEFINE f(q) == IF Len(q) > 1 THEN Front(q) ELSE q
<1>1. ASSUME NEW q \in Seq(Sets)
      PROVE  /\ f(q) \in Seq(Sets) /\ Len(q) \in Nat /\ (q # <<>> <=> Len(q) > 0)
             /\ Len(f(q)) = IF Len(q) > 1 THEN Len(q) - 1 ELSE Len(q)
             /\ \A k \in 1 .. Len(q) - 1 : f(q)[k] = q[k]
  <2>1. Len(q) \in Nat /\ (q # <<>> <=> Len(q) > 0)
    BY EmptySeq
  <2>2. CASE Len(q) > 1
    BY SMTT(30), <2>1, <2>2, DropLast
  <2>3. CASE ~(Len(q) > 1)
    BY <2>1, <2>3
  <2>4. QED  BY <2>2, <2>3
<1> HIDE DEF f
<1>2. Popped(s) = f(s) /\ f(m) = (IF Len(m) > 1 THEN Front(m) ELSE m)
  BY DEF f, Popped
<1>3. CASE isBare
  <2>1. /\ s # <<>> /\ Len(m) \in {Len(s), Len(s) + 1} /\ Len(s) \in Nat \ {0}
        /\ \A k \in 0 .. Len(s) - 2 : s[Len(s) - k] = m[Len(m) - k]
    BY <1>3, <1>1 DEF Agree
  <2>a. /\ Len(f(s)) = IF Len(s) > 1 THEN Len(s) - 1 ELSE Len(s)
        /\ Len(f(m)) = IF Len(m) > 1 THEN Len(m) - 1 ELSE Len(m)
        /\ Len(m) \in Nat /\ f(s) \in Seq(Sets)
    BY <1>1
  <2>b. Len(f(s)) > 0 /\ Len(f(m)) \in {Len(f(s)), Len(f(s)) + 1}
    BY <2>1, <2>a
  <2>2. f(s) # <<>> /\ Len(f(m)) \in {Len(f(s)), Len(f(s)) + 1}
    BY <2>a, <2>b, EmptySeq
  <2>3. ASSUME NEW k \in 0 .. Len(f(s)) - 2 PROVE f(s)[Len(f(s)) - k] = f(m)[Len(f(m)) - k]
    <3>1. Len(s) > 2 /\ Len(m) > 2 /\ Len(m) \in Nat /\ k \in Nat /\ k <= Len(s) - 3
      BY <2>1, <2>a
    <3>2. Len(f(s)) = Len(s) - 1 /\ Len(f(m)) = Len(m) - 1
      BY <3>1, <1>1
    <3>3. /\ Len(s) - 1 - k \in 1 .. Len(s) - 1 /\ Len(m) - 1 - k \in 1 .. Len(m) - 1
          /\ k + 1 \in 0 .. Len(s) - 2 /\ Len(s) - 1 - k = Len(s) - (k + 1)
          /\ Len(m) - 1 - k = Len(m) - (k + 1)
      BY <3>1, <2>1
    <3>4. s[Len(s) - 1 - k] = m[Len(m) - 1 - k]
      BY <3>3, <2>1
    <3>5. /\ f(s)[Len(s) - 1 - k] = s[Len(s) - 1 - k] /\ f(m)[Len(m) - 1 - k] = m[Len(m) - 1 - k]
      BY <3>3, <1>1
    <3>6. QED  BY <3>2, <3>4, <3>5
  <2>4. Agree(f(s), f(m), isBare)
    BY <1>3, <2>2, <2>3 DEF Agree
  <2>5. QED  BY <1>1, <1>2, <2>4
<1>4. CASE ~isBare
  BY <1>1, <1>2, <1>4 DEF Agree
<1>5. QED  BY <1>3, <1>4

\* A set is pushed on both. An empty stack begins bare.
LEMMA PushAgree ==
  ASSUME NEW s \in Seq(Sets), NEW m \in Seq(Sets), NEW isBare \in BOOLEAN,
         Agree(s, m, isBare), default \in Sets, NEW set \in Sets
  PROVE  /\ Pushed(s, set) \in Seq(Sets) /\ Append(OrDefault(m), set) \in Seq(Sets)
         /\ Agree(Pushed(s, set), Append(OrDefault(m), set), isBare \/ s = <<>>)
<1> DEFINE n == OrDefault(m)
           a(q) == Append(q, set)
<1>1. n \in Seq(Sets) /\ n # <<>>
  BY DEF OrDefault
<1>2. ASSUME NEW q \in Seq(Sets)
      PROVE  /\ a(q) \in Seq(Sets) /\ Len(q) \in Nat /\ (q # <<>> <=> Len(q) > 0)
             /\ Len(a(q)) = Len(q) + 1 /\ a(q)[Len(q) + 1] = set
             /\ \A k \in 1 .. Len(q) : a(q)[k] = q[k]
  BY EmptySeq
<1>3. Pushed(s, set) = a(s)
  BY DEF Pushed
<1>4. a(s) \in Seq(Sets) /\ a(n) \in Seq(Sets) /\ a(s) # <<>>
  <2>1. a(s) \in Seq(Sets) /\ a(n) \in Seq(Sets) /\ Len(a(s)) = Len(s) + 1 /\ Len(s) \in Nat
    BY <1>1, <1>2
  <2>2. QED  BY <2>1, EmptySeq
<1>5. CASE isBare
  <2>1. /\ s # <<>> /\ Len(m) \in {Len(s), Len(s) + 1} /\ Len(s) \in Nat \ {0}
        /\ \A k \in 0 .. Len(s) - 2 : s[Len(s) - k] = m[Len(m) - k]
    BY <1>5, <1>2 DEF Agree
  <2>2. n = m /\ Len(m) \in Nat \ {0}
    BY <2>1, <1>2 DEF OrDefault
  <2> HIDE DEF n, a
  <2>3. Len(a(n)) \in {Len(a(s)), Len(a(s)) + 1}
    BY <2>1, <2>2, <1>2
  <2>4. ASSUME NEW k \in 0 .. Len(a(s)) - 2 PROVE a(s)[Len(a(s)) - k] = a(n)[Len(a(n)) - k]
    <3>1. Len(a(s)) = Len(s) + 1 /\ Len(a(n)) = Len(m) + 1 /\ k \in Nat /\ k <= Len(s) - 1
      BY <2>1, <2>2, <1>2
    <3>2. CASE k = 0
      <4>1. a(s)[Len(s) + 1] = set /\ a(n)[Len(m) + 1] = set
        BY <1>2, <2>2
      <4>2. QED  BY <3>1, <3>2, <4>1
    <3>3. CASE k # 0
      <4>1. /\ Len(s) + 1 - k \in 1 .. Len(s) /\ Len(m) + 1 - k \in 1 .. Len(m)
            /\ k - 1 \in 0 .. Len(s) - 2 /\ Len(s) + 1 - k = Len(s) - (k - 1)
            /\ Len(m) + 1 - k = Len(m) - (k - 1)
        BY <3>1, <3>3, <2>1, <2>2
      <4>2. s[Len(s) + 1 - k] = m[Len(m) + 1 - k]
        BY <4>1, <2>1
      <4>3. a(s)[Len(s) + 1 - k] = s[Len(s) + 1 - k] /\ a(n)[Len(m) + 1 - k] = m[Len(m) + 1 - k]
        BY <4>1, <1>2, <2>2
      <4>4. QED  BY <3>1, <4>2, <4>3
    <3>4. QED  BY <3>2, <3>3
  <2>5. Agree(a(s), a(n), TRUE)
    BY <1>4, <2>3, <2>4 DEF Agree
  <2>6. QED  BY <1>3, <1>4, <1>5, <2>5 DEF n, a
<1>6. CASE ~isBare /\ s = <<>>
  <2>1. m = s /\ n = <<default>>
    BY <1>6 DEF Agree, OrDefault
  <2>2. Len(a(s)) = 1 /\ Len(a(n)) = 2
    BY <2>1, <1>6
  <2>3. Agree(a(s), a(n), TRUE)
    BY <2>2, <1>4 DEF Agree
  <2>4. QED  BY <1>3, <1>4, <1>6, <2>3
<1>7. CASE ~isBare /\ s # <<>>
  <2>1. m = s /\ n = m
    BY <1>7 DEF Agree, OrDefault
  <2>2. Agree(a(s), a(n), FALSE)
    BY <2>1 DEF Agree
  <2>3. QED  BY <1>3, <1>4, <1>7, <2>2
<1>8. QED  BY <1>5, <1>6, <1>7

\* It holds when no thread has a stack.
LEMMA StacksInitially == StacksInit => StacksInv
<1> SUFFICES ASSUME StacksInit PROVE StacksInv
  OBVIOUS
<1>1. StacksShape
  BY StacksAssumption DEF StacksInit, StacksShape, Sets
<1>2. QED  BY <1>1 DEF StacksInit, StacksInv, Agree

\* Each call of the interface keeps it.
LEMMA StacksStep == StacksInv /\ [StacksNext]_stackVars => StacksInv'
<1> SUFFICES ASSUME StacksInv, [StacksNext]_stackVars PROVE StacksInv'
  OBVIOUS
<1>1. CASE UNCHANGED stackVars
  BY <1>1 DEF stackVars, StacksInv, StacksShape
<1>2. CASE StacksNext
  <2> PICK t \in Users :
        \/ Current(t) \/ PopComponents(t)
        \/ \E set \in Sets : SetDefault(t, set) \/ AddComponents(t, set)
                             \/ RemoveComponents(t, set) \/ PushComponents(t, set)
    BY <1>2 DEF StacksNext, Sets
  <2> DEFINE s == Found(t, stack)
             m == Found(t, meant)
             b == FoundBare(t)
  <2>1. s \in Seq(Sets) /\ m \in Seq(Sets) /\ Agree(s, m, b)
    BY FoundAgree
  <2>2. b \in BOOLEAN /\ default \in Sets
    <3>1. b \in BOOLEAN
      <4> DEFINE mine == t \in asked \/ leader = Nobody
      <4>1. b = IF mine THEN t \in bare ELSE leader \in bare
        BY ZenonT(40) DEF FoundBare
      <4>2. (t \in bare) \in BOOLEAN /\ (leader \in bare) \in BOOLEAN
        OBVIOUS
      <4> HIDE DEF mine, b
      <4>3. QED  BY <4>1, <4>2
    <3>2. QED  BY <3>1 DEF StacksInv, StacksShape
  <2> HIDE DEF s, m, b
  <2>3. /\ OrDefault(s) \in Seq(Sets) /\ OrDefault(m) \in Seq(Sets)
        /\ OrDefault(s) # <<>> /\ OrDefault(m) # <<>>
        /\ Agree(OrDefault(s), OrDefault(m), b)
    BY <2>1, <2>2, DefaultAgree
  <2>4. CASE Current(t)
    <3>1. Uses(t, OrDefault(s), OrDefault(m), b) /\ default' = default
      BY <2>4 DEF Current, s, m, b
    <3>2. QED  BY <2>2, <2>3, <3>1, UsesAgree
  <2>5. CASE PopComponents(t)
    <3> DEFINE n == IF Len(m) > 1 THEN Front(m) ELSE m
    <3>1. Uses(t, Popped(s), n, b) /\ default' = default
      BY <2>5 DEF PopComponents, s, m, b
    <3>2. Popped(s) \in Seq(Sets) /\ n \in Seq(Sets) /\ Agree(Popped(s), n, b)
      BY <2>1, <2>2, PopAgree
    <3> HIDE DEF n
    <3>3. QED  BY <2>2, <3>1, <3>2, UsesAgree
  <2>6. ASSUME NEW set \in Sets, SetDefault(t, set) PROVE StacksInv'
    <3> DEFINE from(q) == IF q = <<>> THEN <<set>> ELSE q
    <3>1. Uses(t, from(s), from(m), b) /\ default' = set
      BY <2>6 DEF SetDefault, s, m, b
    <3>2. from(s) \in Seq(Sets) /\ from(m) \in Seq(Sets)
      BY <2>1
    <3>3. Agree(from(s), from(m), b)
      <4>1. CASE b
        <5>1. m # <<>> /\ s # <<>>
          BY <2>1, <4>1, EmptySeq DEF Agree
        <5>2. QED  BY <2>1, <5>1
      <4>2. CASE ~b
        BY <2>1, <4>2 DEF Agree
      <4>3. QED  BY <4>1, <4>2
    <3> HIDE DEF from
    <3>4. QED  BY <2>2, <3>1, <3>2, <3>3, UsesAgree
  <2>7. ASSUME NEW set \in Sets,
               NEW x \in Sets, NEW y \in Sets, (Len(OrDefault(s)) > 1 \/ ~b) => x = y,
               Uses(t, ReplaceTop(OrDefault(s), x), ReplaceTop(OrDefault(m), y), b),
               default' = default
        PROVE  StacksInv'
    <3>1. /\ ReplaceTop(OrDefault(s), x) \in Seq(Sets) /\ ReplaceTop(OrDefault(m), y) \in Seq(Sets)
          /\ Agree(ReplaceTop(OrDefault(s), x), ReplaceTop(OrDefault(m), y), b)
      BY <2>2, <2>3, <2>7, TopAgree
    <3>2. QED  BY <2>2, <2>7, <3>1, UsesAgree
  <2>8. /\ Last(OrDefault(s)) \in Sets /\ Last(OrDefault(m)) \in Sets
        /\ (Len(OrDefault(s)) > 1 \/ ~b) => Last(OrDefault(s)) = Last(OrDefault(m))
    <3>1. Last(OrDefault(s)) \in Sets /\ Last(OrDefault(m)) \in Sets
      BY <2>3, DropLast
    <3>2. (Len(OrDefault(s)) > 1 \/ ~b) => Last(OrDefault(s)) = Last(OrDefault(m))
      BY <2>2, <2>3, LastAgree
    <3>3. QED  BY <3>1, <3>2
  <2>9. ASSUME NEW set \in Sets, AddComponents(t, set) PROVE StacksInv'
    <3>1. /\ Uses(t, ReplaceTop(OrDefault(s), Last(OrDefault(s)) \cup set),
                     ReplaceTop(OrDefault(m), Last(OrDefault(m)) \cup set), b)
          /\ default' = default
      BY <2>9 DEF AddComponents, s, m, b
    <3>2. Last(OrDefault(s)) \cup set \in Sets /\ Last(OrDefault(m)) \cup set \in Sets
      BY <2>8 DEF Sets
    <3>3. QED  BY <2>7, <2>8, <3>1, <3>2
  <2>10. ASSUME NEW set \in Sets, RemoveComponents(t, set) PROVE StacksInv'
    <3>1. /\ Uses(t, ReplaceTop(OrDefault(s), Last(OrDefault(s)) \ set),
                     ReplaceTop(OrDefault(m), Last(OrDefault(m)) \ set), b)
          /\ default' = default
      BY <2>10 DEF RemoveComponents, s, m, b
    <3>2. Last(OrDefault(s)) \ set \in Sets /\ Last(OrDefault(m)) \ set \in Sets
      BY <2>8 DEF Sets
    <3>3. QED  BY <2>7, <2>8, <3>1, <3>2
  <2>11. ASSUME NEW set \in Sets, PushComponents(t, set) PROVE StacksInv'
    <3>1. /\ Uses(t, Pushed(s, set), Append(OrDefault(m), set), b \/ s = <<>>)
          /\ default' = default
      BY <2>11 DEF PushComponents, s, m, b
    <3>2. /\ Pushed(s, set) \in Seq(Sets) /\ Append(OrDefault(m), set) \in Seq(Sets)
          /\ Agree(Pushed(s, set), Append(OrDefault(m), set), b \/ s = <<>>)
      BY <2>1, <2>2, PushAgree
    <3>3. QED  BY <2>2, <3>1, <3>2, UsesAgree
  <2>12. QED  BY <2>4, <2>5, <2>6, <2>9, <2>10, <2>11
<1>3. QED  BY <1>1, <1>2

\* For any number of threads and sets: the current set of a thread is the
\* documented one, unless its stack began with a push and is back at that push.
THEOREM CurrentSetDocumented == StacksSpec => []CurrentAsDocumented
<1>1. StacksInv => CurrentAsDocumented
  <2> SUFFICES ASSUME StacksInv, NEW t \in Users,
                      stack[t] # <<>>, ~(t \in bare /\ Len(stack[t]) = 1)
               PROVE  Last(stack[t]) = Last(meant[t])
    BY DEF CurrentAsDocumented
  <2>1. /\ stack[t] \in Seq(Sets) /\ meant[t] \in Seq(Sets) /\ (t \in bare) \in BOOLEAN
        /\ Agree(stack[t], meant[t], t \in bare)
    BY DEF StacksInv, StacksShape
  <2>2. Len(stack[t]) > 1 \/ ~(t \in bare)
    <3> DEFINE n == Len(stack[t])
    <3>1. n \in Nat \ {0}
      BY <2>1, DropLast
    <3>2. t \in bare => n # 1
      OBVIOUS
    <3> HIDE DEF n
    <3>3. n = 1 \/ n > 1
      BY <3>1
    <3>4. n > 1 \/ ~(t \in bare)
      BY <3>2, <3>3
    <3>5. QED  BY <3>4 DEF n
  <2>3. QED  BY <2>1, <2>2, LastAgree
<1>2. QED  BY <1>1, StacksInitially, StacksStep, PTL DEF StacksSpec

-----------------------------------------------------------------------------
(* Traces.                                                                 *)

Frames == [id : TraceIds, traced : BOOLEAN]
Pushing == {"count", "configure", "check", "open"}

TraceShape ==
  /\ traceCount \in Nat
  /\ calls \in [Threads -> Seq(Frames)]
  /\ open \in [Threads -> [TraceIds -> Seq(Nat)]]
  /\ inside \in [Threads -> SUBSET TraceIds]
  /\ at \in [Threads -> Pushing \cup {"program", "starting"}]
  /\ \A t \in Threads : at[t] # "program" => calls[t] # <<>>
  /\ initializers \subseteq Threads /\ IsFiniteSet(initializers)
  /\ emptied \subseteq Threads

\* What the calls c say of the traces of i, and how the open traces o of a thread
\* at `a' lie within its calls: in their order, all of them unless a call inside
\* was refused, and then its function is among `ins'. A call whose push has not
\* ended is not traced yet.
TracedIn(c, i) == {d \in DOMAIN c : c[d] = [id |-> i, traced |-> TRUE]}
InOrder(s) == \A j, k \in DOMAIN s : j < k => s[j] < s[k]

Nested(c, o, ins, a) ==
  /\ \A i \in TraceIds :
       /\ Range(o[i]) \subseteq TracedIn(c, i) /\ InOrder(o[i])
       /\ i \notin ins => TracedIn(c, i) \subseteq Range(o[i])
  /\ \A d, e \in DOMAIN c :
       /\ e < d /\ c[e].traced /\ ~c[d].traced /\ c[d].id = c[e].id
       /\ d < Len(c) \/ a \notin Pushing
       => c[d].id \in ins
  /\ a \in Pushing => ~c[Len(c)].traced

\* Who counted itself, until the library is finalised: nobody; one, which is
\* configuring or has done so; or two.
Counted ==
  \/ initializers = {} /\ traceCount = 0
  \/ \E t \in Threads :
       /\ initializers = {t} /\ traceCount = 1
       /\ at[t] = "configure" \/ (initialized /\ at[t] # "count")
  \/ \E s, t \in initializers : s # t

TracingInv ==
  /\ TraceShape
  /\ ~finalized => Counted /\ \A t \in Threads : Nested(calls[t], open[t], inside[t], at[t])
  /\ managers # {} /\ ~finalized => \E s, t \in initializers : s # t
  /\ \A t \in Threads :
       /\ at[t] = "open" => initialized
       /\ \A i \in TraceIds : open[t][i] # <<>> => initialized
       /\ t \in emptied =>
            finalized /\ at[t] # "open" /\ \A i \in TraceIds : open[t][i] = <<>>

\* The newest of the open traces leaves, ...
LEMMA NewestLeaves ==
  ASSUME NEW s \in Seq(Nat), s # <<>>, InOrder(s)
  PROVE  /\ Front(s) \in Seq(Nat) /\ InOrder(Front(s))
         /\ Range(Front(s)) = Range(s) \ {Last(s)} /\ Last(s) \in Range(s)
         /\ \A x \in Range(s) : x <= Last(s)
<1> DEFINE n == Len(s)
<1>1. n \in Nat \ {0} /\ Front(s) \in Seq(Nat) /\ Len(Front(s)) = n - 1 /\ Last(s) = s[n]
      /\ \A k \in 1 .. n - 1 : Front(s)[k] = s[k]
  BY DropLast
<1>2. DOMAIN s = 1 .. n /\ DOMAIN Front(s) = 1 .. n - 1 /\ \A k \in 1 .. n : s[k] \in Nat
  BY <1>1, ElementOfSeq, LenProperties
<1>3. Range(s) = {s[k] : k \in 1 .. n} /\ Range(Front(s)) = {s[k] : k \in 1 .. n - 1}
  BY <1>1, <1>2 DEF Range
<1>4. \A j, k \in 1 .. n : j < k => s[j] < s[k]
  BY <1>2 DEF InOrder
<1> HIDE DEF n
<1>6. \A k \in 1 .. n : k \in 1 .. n - 1 \/ k = n
  BY <1>1
<1>7. n \in 1 .. n /\ \A k \in 1 .. n - 1 : k \in 1 .. n /\ k < n
  BY <1>1
<1>5. InOrder(Front(s))
  BY <1>1, <1>2, <1>4, <1>7 DEF InOrder
<1>8. \A k \in 1 .. n - 1 : s[k] < s[n] /\ s[k] # s[n]
  BY <1>2, <1>4, <1>7
<1>9. Range(Front(s)) = Range(s) \ {s[n]}
  BY <1>3, <1>6, <1>7, <1>8
<1>10. \A k \in 1 .. n : s[k] <= s[n]
  BY <1>2, <1>6, <1>7, <1>8
<1>11. QED  BY <1>1, <1>3, <1>5, <1>7, <1>9, <1>10

\* ... and a new one enters.
LEMMA NewEnters ==
  ASSUME NEW s \in Seq(Nat), InOrder(s), NEW x \in Nat, \A y \in Range(s) : y < x
  PROVE  /\ Append(s, x) \in Seq(Nat) /\ InOrder(Append(s, x))
         /\ Range(Append(s, x)) = Range(s) \cup {x}
<1> DEFINE n == Len(s)
           r == Append(s, x)
<1>1. /\ n \in Nat /\ r \in Seq(Nat) /\ Len(r) = n + 1 /\ r[n + 1] = x
      /\ \A k \in 1 .. n : r[k] = s[k]
  OBVIOUS
<1>2. DOMAIN s = 1 .. n /\ DOMAIN r = 1 .. n + 1 /\ \A k \in 1 .. n : s[k] \in Nat
  BY <1>1, ElementOfSeq, LenProperties
<1>3. Range(s) = {s[k] : k \in 1 .. n} /\ Range(r) = {r[k] : k \in 1 .. n + 1}
  BY <1>2 DEF Range
<1>4. \A j, k \in 1 .. n : j < k => s[j] < s[k]
  BY <1>2 DEF InOrder
<1> HIDE DEF n, r
<1>5. \A k \in 1 .. n + 1 : k \in 1 .. n \/ k = n + 1
  BY <1>1
<1>6. n + 1 \in 1 .. n + 1 /\ \A k \in 1 .. n : k \in 1 .. n + 1 /\ k < n + 1
  BY <1>1
<1>7. Range(r) = Range(s) \cup {x}
  BY <1>1, <1>3, <1>5, <1>6
<1>8. ASSUME NEW j \in 1 .. n + 1, NEW k \in 1 .. n + 1, j < k PROVE r[j] < r[k]
  <2>1. j \in 1 .. n
    BY <1>1, <1>8
  <2>2. CASE k \in 1 .. n
    BY <2>1, <2>2, <1>1, <1>4, <1>8
  <2>3. CASE k = n + 1
    BY <2>1, <2>3, <1>1, <1>3
  <2>4. QED  BY <1>5, <2>2, <2>3
<1>9. InOrder(r)
  BY <1>2, <1>8 DEF InOrder
<1>10. QED  BY <1>1, <1>7, <1>9 DEF r

\* Calls: one more, one less, and the last one traced.
LEMMA CallsGrow ==
  ASSUME NEW c \in Seq(Frames), NEW i \in TraceIds
  PROVE  LET b == Append(c, [id |-> i, traced |-> FALSE]) IN
         /\ b \in Seq(Frames) /\ Len(b) = Len(c) + 1 /\ DOMAIN b = 1 .. Len(c) + 1
         /\ b # <<>> /\ b[Len(c) + 1] = [id |-> i, traced |-> FALSE]
         /\ Len(c) \in Nat /\ DOMAIN c = 1 .. Len(c)
         /\ \A d \in DOMAIN c : d \in DOMAIN b /\ b[d] = c[d] /\ d # Len(b)
         /\ \A j \in TraceIds : TracedIn(b, j) = TracedIn(c, j)
<1> DEFINE f == [id |-> i, traced |-> FALSE]
           b == Append(c, f)
           n == Len(c)
<1>1. f \in Frames
  BY DEF Frames
<1>2. /\ b \in Seq(Frames) /\ n \in Nat /\ Len(b) = n + 1 /\ b[n + 1] = f
      /\ \A d \in 1 .. n : b[d] = c[d]
  BY <1>1
<1>3. DOMAIN c = 1 .. n /\ DOMAIN b = 1 .. n + 1
  BY <1>2, LenProperties
<1>4. \A j \in TraceIds : f # [id |-> j, traced |-> TRUE]
  OBVIOUS
<1>5. b # <<>>
  BY <1>2, EmptySeq
<1> HIDE DEF f, b, n
<1>6. \A d \in 1 .. n + 1 : d \in 1 .. n \/ d = n + 1
  BY <1>2
<1>7. n + 1 \in 1 .. n + 1 /\ \A d \in 1 .. n : d \in 1 .. n + 1 /\ d # n + 1
  BY <1>2
<1>8. \A j \in TraceIds : TracedIn(b, j) = TracedIn(c, j)
  BY <1>2, <1>3, <1>4, <1>6, <1>7 DEF TracedIn
<1>9. QED  BY <1>2, <1>3, <1>5, <1>7, <1>8 DEF f, b, n

\* The program's stack when the innermost call returns.
LEMMA CallsShrink ==
  ASSUME NEW c \in Seq(Frames), c # <<>>
  PROVE  /\ Front(c) \in Seq(Frames) /\ Len(c) \in Nat \ {0} /\ Len(Front(c)) = Len(c) - 1
         /\ DOMAIN c = 1 .. Len(c) /\ DOMAIN Front(c) = DOMAIN c \ {Len(c)}
         /\ Last(c) = c[Len(c)] /\ Last(c) \in Frames
         /\ \A d \in DOMAIN Front(c) : Front(c)[d] = c[d] /\ d < Len(c)
         /\ \A j \in TraceIds : TracedIn(Front(c), j) = TracedIn(c, j) \ {Len(c)}
<1> DEFINE n == Len(c)
           b == Front(c)
<1>1. n \in Nat \ {0} /\ b \in Seq(Frames) /\ Len(b) = n - 1 /\ Last(c) = c[n]
      /\ \A k \in 1 .. n - 1 : b[k] = c[k]
  BY DropLast
<1>2. Last(c) \in Frames
  BY DropLast
<1>3. DOMAIN c = 1 .. n /\ DOMAIN b = 1 .. n - 1
  BY <1>1, LenProperties
<1> HIDE DEF n, b
<1>4. 1 .. n - 1 = (1 .. n) \ {n}
  BY <1>1
<1>5. \A j \in TraceIds : TracedIn(b, j) = TracedIn(c, j) \ {n}
  BY <1>1, <1>3, <1>4 DEF TracedIn
<1>6. \A d \in 1 .. n - 1 : d < n
  BY <1>1
<1>7. QED  BY <1>1, <1>2, <1>3, <1>4, <1>5, <1>6 DEF n, b

\* The program's stack when the innermost call becomes a traced one.
LEMMA CallsTraced ==
  ASSUME NEW c \in Seq(Frames), c # <<>>, ~c[Len(c)].traced
  PROVE  LET b == [c EXCEPT ![Len(c)].traced = TRUE]
             n == Len(c)
         IN
         /\ b \in Seq(Frames) /\ Len(b) = n /\ DOMAIN b = DOMAIN c /\ n \in DOMAIN c
         /\ DOMAIN c = 1 .. n /\ n \in Nat
         /\ b[n].traced /\ b[n].id = c[n].id /\ \A d \in DOMAIN c \ {n} : b[d] = c[d]
         /\ c[n].id \in TraceIds
         /\ n \in TracedIn(b, c[n].id)
         /\ \A j \in TraceIds :
              TracedIn(b, j) = IF j = c[n].id THEN TracedIn(c, j) \cup {n} ELSE TracedIn(c, j)
<1> DEFINE n == Len(c)
           b == [c EXCEPT ![n].traced = TRUE]
           f == [id |-> c[n].id, traced |-> TRUE]
<1>1. n \in Nat \ {0} /\ DOMAIN c = 1 .. n /\ c[n] \in Frames
  BY CallsShrink
<1>2. c[n].id \in TraceIds /\ f \in Frames /\ [c[n] EXCEPT !.traced = TRUE] = f
  <2> DEFINE g == c[n]
  <2>1. g \in Frames
    BY <1>1
  <2> HIDE DEF g, n
  <2>2. g.id \in TraceIds /\ [g EXCEPT !.traced = TRUE] = [id |-> g.id, traced |-> TRUE]
    <3> DEFINE h == [g EXCEPT !.traced = TRUE]
    <3>1. h \in Frames /\ h.id = g.id /\ h.traced = TRUE /\ g.id \in TraceIds
      BY <2>1 DEF Frames
    <3> HIDE DEF h
    <3>2. h = [id |-> h.id, traced |-> TRUE]
      BY <3>1 DEF Frames
    <3>3. QED  BY <3>1, <3>2 DEF h
  <2>3. [id |-> g.id, traced |-> TRUE] \in Frames
    BY <2>2 DEF Frames
  <2>4. QED  BY <2>2, <2>3 DEF g
<1>3. b = [d \in 1 .. n |-> IF d = n THEN f ELSE c[d]]
  BY <1>1, <1>2
<1>4. \A d \in 1 .. n : c[d] \in Frames
  BY <1>1, ElementOfSeq
<1>5. b \in Seq(Frames) /\ Len(b) = n /\ DOMAIN b = 1 .. n
  <2>1. \A d \in 1 .. n : (IF d = n THEN f ELSE c[d]) \in Frames
    BY <1>2, <1>4
  <2>2. b \in [1 .. n -> Frames]
    BY <1>3, <2>1
  <2>3. QED  BY <1>1, <2>2, IsASeq, LenProperties
<1>6. n \in 1 .. n /\ b[n] = f /\ \A d \in (1 .. n) \ {n} : b[d] = c[d]
  <2>1. n \in 1 .. n
    BY <1>1
  <2> HIDE DEF b, n, f
  <2>2. QED  BY <1>3, <2>1
<1>7. ~c[n].traced
  OBVIOUS
<1>a. /\ f.id = c[n].id /\ f.traced
      /\ \A j \in TraceIds : f = [id |-> j, traced |-> TRUE] <=> j = c[n].id
  OBVIOUS
<1> HIDE DEF n, b, f
<1>8. ASSUME NEW j \in TraceIds
      PROVE  TracedIn(b, j) = IF j = c[n].id THEN TracedIn(c, j) \cup {n} ELSE TracedIn(c, j)
  <2>1. TracedIn(b, j) = {d \in 1 .. n : b[d] = [id |-> j, traced |-> TRUE]}
    BY <1>5 DEF TracedIn
  <2>2. TracedIn(c, j) = {d \in 1 .. n : c[d] = [id |-> j, traced |-> TRUE]}
    BY <1>1 DEF TracedIn
  <2>3. c[n] # [id |-> j, traced |-> TRUE]
    BY <1>7
  <2>4. (b[n] = [id |-> j, traced |-> TRUE]) <=> j = c[n].id
    BY <1>6, <1>a
  <2>5. QED  BY <2>1, <2>2, <2>3, <2>4, <1>6
<1>9. n \in TracedIn(b, c[n].id)
  BY <1>2, <1>5, <1>6, <1>a DEF TracedIn
<1>10. QED  BY <1>1, <1>2, <1>5, <1>6, <1>8, <1>9, <1>a DEF n, b

OpenTraces == [TraceIds -> Seq(Nat)]

\* A call begins, its push yet to run.
LEMMA EnterNested ==
  ASSUME NEW c \in Seq(Frames), NEW o \in OpenTraces, NEW ins, NEW i \in TraceIds, NEW a,
         Nested(c, o, ins, "program"), a \in Pushing
  PROVE  Nested(Append(c, [id |-> i, traced |-> FALSE]), o, ins, a)
<1> DEFINE b == Append(c, [id |-> i, traced |-> FALSE])
<1>1. /\ Len(b) = Len(c) + 1 /\ DOMAIN b = 1 .. Len(c) + 1
      /\ b # <<>> /\ b[Len(c) + 1] = [id |-> i, traced |-> FALSE]
      /\ Len(c) \in Nat /\ DOMAIN c = 1 .. Len(c)
      /\ \A d \in DOMAIN c : d \in DOMAIN b /\ b[d] = c[d] /\ d # Len(b)
      /\ \A j \in TraceIds : TracedIn(b, j) = TracedIn(c, j)
  BY CallsGrow
<1> HIDE DEF b
<1>2. ASSUME NEW d \in DOMAIN b, NEW e \in DOMAIN b, e < d, b[e].traced, ~b[d].traced,
             b[d].id = b[e].id, d < Len(b) \/ a \notin Pushing
      PROVE  b[d].id \in ins
  <2>1. d \in DOMAIN c /\ e \in DOMAIN c
    BY <1>1, <1>2
  <2>2. "program" \notin Pushing
    BY DEF Pushing
  <2>3. QED  BY <1>1, <1>2, <2>1, <2>2 DEF Nested
<1>3. b # <<>> /\ ~b[Len(b)].traced
  BY <1>1
<1>4. QED  BY <1>1, <1>2, <1>3 DEF Nested, b

\* The push goes on, or its components are started.
LEMMA GoOnNested ==
  ASSUME NEW c, NEW o, NEW ins, NEW a, NEW b, Nested(c, o, ins, a),
         (a \in Pushing /\ b \in Pushing) \/ (a = "starting" /\ b = "program")
  PROVE  Nested(c, o, ins, b)
<1>1. "program" \notin Pushing /\ "starting" \notin Pushing
  BY DEF Pushing
<1>2. (a \in Pushing <=> b \in Pushing) /\ (a # "program")
  BY <1>1
<1>3. QED  BY <1>2 DEF Nested

\* The push is refused, and says so if it was inside a trace of its id.
LEMMA RefuseNested ==
  ASSUME NEW c \in Seq(Frames), NEW o, NEW ins \in SUBSET TraceIds, NEW a,
         c # <<>>, Nested(c, o, ins, a), a \in Pushing, NEW more,
         more = (IF TracedIn(c, Last(c).id) = {} THEN ins ELSE ins \cup {Last(c).id})
  PROVE  Nested(c, o, more, "program")
<1>1. c # <<>>
  OBVIOUS
<1>2. Last(c) = c[Len(c)] /\ Len(c) \in Nat /\ DOMAIN c = 1 .. Len(c)
  BY <1>1, CallsShrink
<1>3. ASSUME NEW d \in DOMAIN c, NEW e \in DOMAIN c, e < d, c[e].traced, ~c[d].traced,
             c[d].id = c[e].id
      PROVE  c[d].id \in more
  <2>1. CASE d < Len(c)
    BY <2>1, <1>3 DEF Nested
  <2>2. CASE ~(d < Len(c))
    <3>1. d = Len(c)
      BY <2>2, <1>2
    <3>2. c[e] = [id |-> Last(c).id, traced |-> TRUE]
      <4>1. c[e] \in Frames /\ c[e].traced = TRUE /\ c[e].id = Last(c).id
        <5>1. c[e] \in Frames
          BY <1>2, ElementOfSeq
        <5>2. c[e].traced \in BOOLEAN
          BY <5>1 DEF Frames
        <5>3. QED  BY <5>1, <5>2, <1>2, <1>3, <3>1
      <4>2. QED  BY <4>1 DEF Frames
    <3>3. TracedIn(c, Last(c).id) # {}
      BY <3>2 DEF TracedIn
    <3>4. QED  BY <3>1, <3>3, <1>2
  <2>3. QED  BY <2>1, <2>2
<1>4. ins \subseteq more
  OBVIOUS
<1>5. QED  BY <1>3, <1>4 DEF Nested

\* A trace is opened for the last call.
LEMMA OpenNested ==
  ASSUME NEW c \in Seq(Frames), NEW o \in OpenTraces, NEW ins, c # <<>>,
         Nested(c, o, ins, "open")
  PROVE  LET i == Last(c).id
             p == [o EXCEPT ![i] = Append(@, Len(c))]
         IN  p \in OpenTraces /\ Nested([c EXCEPT ![Len(c)].traced = TRUE], p, ins, "starting")
<1> DEFINE n == Len(c)
           i == Last(c).id
           p == [o EXCEPT ![i] = Append(@, n)]
           b == [c EXCEPT ![n].traced = TRUE]
<1>1. c # <<>> /\ ~c[n].traced
  BY DEF Nested, Pushing
<1>2. /\ Len(b) = n /\ DOMAIN b = DOMAIN c /\ n \in DOMAIN c
      /\ DOMAIN c = 1 .. n /\ n \in Nat
      /\ b[n].traced /\ b[n].id = c[n].id /\ \A d \in DOMAIN c \ {n} : b[d] = c[d]
      /\ c[n].id \in TraceIds
      /\ \A j \in TraceIds :
           TracedIn(b, j) = IF j = c[n].id THEN TracedIn(c, j) \cup {n} ELSE TracedIn(c, j)
  BY <1>1, CallsTraced
<1>3. i = c[n].id
  BY <1>1, CallsShrink
<1>4. ASSUME NEW j \in TraceIds
      PROVE  Range(o[j]) \subseteq TracedIn(c, j) /\ InOrder(o[j]) /\ o[j] \in Seq(Nat)
             /\ (j \notin ins => TracedIn(c, j) \subseteq Range(o[j]))
  BY DEF Nested, OpenTraces
<1> HIDE DEF n, i, b
<1>5. \A x \in Range(o[i]) : x < n
  <2>1. SUFFICES ASSUME NEW x \in TracedIn(c, i) PROVE x < n
    BY <1>2, <1>3, <1>4
  <2>2. x \in 1 .. n /\ c[x] = [id |-> i, traced |-> TRUE]
    BY <1>2 DEF TracedIn
  <2>3. x # n
    BY <1>1, <2>2
  <2>4. QED  BY <1>2, <2>2, <2>3
<1>6. /\ Append(o[i], n) \in Seq(Nat) /\ InOrder(Append(o[i], n))
      /\ Range(Append(o[i], n)) = Range(o[i]) \cup {n}
  BY <1>2, <1>3, <1>4, <1>5, NewEnters
<1>7. p \in OpenTraces /\ p[i] = Append(o[i], n) /\ \A j \in TraceIds \ {i} : p[j] = o[j]
  <2>1. o \in [TraceIds -> Seq(Nat)] /\ i \in TraceIds
    BY <1>2, <1>3 DEF OpenTraces
  <2>2. QED  BY <2>1, <1>6 DEF OpenTraces
<1> HIDE DEF p
<1>8. ASSUME NEW j \in TraceIds
      PROVE  Range(p[j]) \subseteq TracedIn(b, j) /\ InOrder(p[j])
             /\ (j \notin ins => TracedIn(b, j) \subseteq Range(p[j]))
  <2>1. CASE j = i
    BY <2>1, <1>2, <1>3, <1>4, <1>6, <1>7
  <2>2. CASE j # i
    BY <2>2, <1>2, <1>3, <1>4, <1>7
  <2>3. QED  BY <2>1, <2>2
<1>9. ASSUME NEW d \in DOMAIN b, NEW e \in DOMAIN b, e < d, b[e].traced, ~b[d].traced,
             b[d].id = b[e].id
      PROVE  b[d].id \in ins
  <2>1. d \in 1 .. n /\ e \in 1 .. n /\ d # n /\ e # n /\ d < n
    BY <1>2, <1>9
  <2>2. b[d] = c[d] /\ b[e] = c[e]
    BY <1>2, <2>1
  <2>3. QED  BY <1>2, <1>9, <2>1, <2>2 DEF Nested, n
<1>10. "starting" \notin Pushing /\ b # <<>>
  <2>1. "starting" \notin Pushing
    BY DEF Pushing
  <2>2. QED  BY <2>1, <1>2
<1>11. Nested(b, p, ins, "starting")
  BY <1>8, <1>9, <1>10 DEF Nested
<1>12. QED  BY <1>7, <1>11 DEF n, i, b, p

\* The last open trace of i, if there is one, is closed.
ClosedLast(o, i) == IF o[i] # <<>> THEN [o EXCEPT ![i] = Front(@)] ELSE o

\* The last open trace of i is closed.
LEMMA CloseLast ==
  ASSUME NEW o \in OpenTraces, NEW i \in TraceIds, InOrder(o[i])
  PROVE  /\ ClosedLast(o, i) \in OpenTraces /\ InOrder(ClosedLast(o, i)[i])
         /\ \A j \in TraceIds \ {i} : ClosedLast(o, i)[j] = o[j]
         /\ Range(ClosedLast(o, i)[i]) =
              IF o[i] # <<>> THEN Range(o[i]) \ {Last(o[i])} ELSE {}
         /\ o[i] = <<>> => Range(o[i]) = {}
         /\ o[i] # <<>> => /\ Last(o[i]) \in Range(o[i])
                           /\ \A x \in Range(o[i]) : x <= Last(o[i])
<1>1. o \in [TraceIds -> Seq(Nat)] /\ o[i] \in Seq(Nat)
  BY DEF OpenTraces
<1>2. CASE o[i] # <<>>
  <2>1. /\ Front(o[i]) \in Seq(Nat) /\ InOrder(Front(o[i]))
        /\ Range(Front(o[i])) = Range(o[i]) \ {Last(o[i])} /\ Last(o[i]) \in Range(o[i])
        /\ \A x \in Range(o[i]) : x <= Last(o[i])
    BY <1>1, <1>2, NewestLeaves
  <2>2. ClosedLast(o, i) = [o EXCEPT ![i] = Front(@)]
    BY <1>2 DEF ClosedLast
  <2>3. ClosedLast(o, i) \in OpenTraces
    BY <1>1, <2>1, <2>2 DEF OpenTraces
  <2>4. ClosedLast(o, i)[i] = Front(o[i]) /\ \A j \in TraceIds \ {i} : ClosedLast(o, i)[j] = o[j]
    BY <1>1, <2>2
  <2>5. QED  BY <1>2, <2>1, <2>3, <2>4
<1>3. CASE o[i] = <<>>
  <2>1. Range(o[i]) = {}
    BY <1>3 DEF Range
  <2>2. ClosedLast(o, i) = o
    BY <1>3 DEF ClosedLast
  <2>3. QED  BY <1>3, <2>1, <2>2
<1>4. QED  BY <1>2, <1>3

\* A call returns: its pop closes the last trace of its function. If that was the
\* trace of an outer call, the call was refused inside it.
LEMMA LeaveNested ==
  ASSUME NEW c \in Seq(Frames), c # <<>>, NEW o \in OpenTraces, NEW ins \in SUBSET TraceIds,
         Nested(c, o, ins, "program")
  PROVE  LET p == ClosedLast(o, Last(c).id)
             b == Front(c)
         IN  p \in OpenTraces /\ Nested(b, p, ins \cap {b[d].id : d \in DOMAIN b}, "program")
<1> DEFINE n == Len(c)
           i == Last(c).id
           p == ClosedLast(o, i)
           b == Front(c)
           less == ins \cap {b[d].id : d \in DOMAIN b}
<1>1. /\ n \in Nat \ {0} /\ Len(b) = n - 1
      /\ DOMAIN c = 1 .. n /\ DOMAIN b = DOMAIN c \ {n}
      /\ Last(c) = c[n] /\ Last(c) \in Frames
      /\ \A d \in DOMAIN b : b[d] = c[d] /\ d < n
      /\ \A j \in TraceIds : TracedIn(b, j) = TracedIn(c, j) \ {n}
  BY CallsShrink
<1>2. i \in TraceIds /\ c[n].id = i
  BY <1>1 DEF Frames
<1>3. ASSUME NEW j \in TraceIds
      PROVE  Range(o[j]) \subseteq TracedIn(c, j) /\ InOrder(o[j])
             /\ (j \notin ins => TracedIn(c, j) \subseteq Range(o[j]))
  BY DEF Nested
<1>4. /\ p \in OpenTraces /\ InOrder(p[i]) /\ \A j \in TraceIds \ {i} : p[j] = o[j]
      /\ Range(p[i]) = IF o[i] # <<>> THEN Range(o[i]) \ {Last(o[i])} ELSE {}
      /\ o[i] = <<>> => Range(o[i]) = {}
      /\ o[i] # <<>> => Last(o[i]) \in Range(o[i]) /\ \A x \in Range(o[i]) : x <= Last(o[i])
  BY <1>2, <1>3, CloseLast
<1> HIDE DEF n, i, p, b
<1>5. ASSUME NEW j \in TraceIds, j \in ins, j \notin less PROVE TracedIn(b, j) = {}
  BY <1>5 DEF TracedIn
<1> HIDE DEF less
<1>6. ASSUME NEW j \in TraceIds
      PROVE  Range(p[j]) \subseteq TracedIn(b, j) /\ InOrder(p[j])
             /\ (j \notin less => TracedIn(b, j) \subseteq Range(p[j]))
  <2>1. CASE j # i
    <3>1. n \notin TracedIn(c, j)
      BY <2>1, <1>2 DEF TracedIn
    <3>2. TracedIn(b, j) = TracedIn(c, j) /\ p[j] = o[j]
      BY <3>1, <2>1, <1>1, <1>4
    <3>3. QED  BY <3>2, <1>3, <1>5
  <2>2. CASE j = i /\ o[i] = <<>>
    BY <2>2, <1>1, <1>3, <1>4, <1>5
  <2>3. CASE j = i /\ o[i] # <<>>
    <3> DEFINE m == Last(o[i])
    <3>1. /\ Range(p[i]) = Range(o[i]) \ {m} /\ m \in Range(o[i])
          /\ \A x \in Range(o[i]) : x <= m
      BY <2>3, <1>4
    <3> HIDE DEF m
    <3>2. m \in 1 .. n /\ c[m] = [id |-> i, traced |-> TRUE]
      BY <1>1, <1>2, <1>3, <3>1 DEF TracedIn
    <3>3. n \in Range(o[i]) => m = n
      BY <3>1, <3>2, <1>1
    <3>4. Range(p[i]) \subseteq TracedIn(b, i)
      BY <3>1, <3>3, <1>1, <1>2, <1>3
    <3>5. ASSUME i \notin less PROVE TracedIn(b, i) \subseteq Range(p[i])
      <4>1. CASE i \in ins
        BY <4>1, <3>5, <1>2, <1>5
      <4>2. CASE i \notin ins
        <5>1. m = n
          <6>1. CASE n \in TracedIn(c, i)
            BY <6>1, <3>3, <4>2, <1>2, <1>3
          <6>2. CASE n \notin TracedIn(c, i)
            <7>1. SUFFICES ASSUME m # n PROVE FALSE
              OBVIOUS
            <7>2. m < n /\ n \in 1 .. n
              BY <7>1, <3>2, <1>1
            <7>3. c[n] # [id |-> i, traced |-> TRUE] /\ c[n] \in Frames /\ c[n].id = i
              BY <6>2, <7>2, <1>1, <1>2 DEF TracedIn
            <7>4. ~c[n].traced
              <8>1. SUFFICES ASSUME c[n].traced = TRUE PROVE FALSE
                BY <7>3 DEF Frames
              <8>2. c[n] = [id |-> c[n].id, traced |-> TRUE]
                BY <7>3, <8>1 DEF Frames
              <8>3. QED  BY <7>3, <8>2
            <7>5. c[m].traced /\ c[m].id = c[n].id
              BY <3>2, <7>3
            <7>6. "program" \notin Pushing
              BY DEF Pushing
            <7>7. c[n].id \in ins
              BY <7>2, <7>4, <7>5, <7>6, <3>2, <1>1 DEF Nested
            <7>8. QED  BY <7>3, <7>7, <4>2
          <6>3. QED  BY <6>1, <6>2
        <5>2. QED  BY <5>1, <4>2, <3>1, <1>1, <1>2, <1>3
      <4>3. QED  BY <4>1, <4>2
    <3>6. QED  BY <2>3, <3>4, <3>5, <1>4
  <2>4. QED  BY <2>1, <2>2, <2>3
<1>7. ASSUME NEW d \in DOMAIN b, NEW e \in DOMAIN b, e < d, b[e].traced, ~b[d].traced,
             b[d].id = b[e].id
      PROVE  b[d].id \in less
  <2>1. d \in DOMAIN c /\ e \in DOMAIN c /\ d < Len(c) /\ b[d] = c[d] /\ b[e] = c[e]
    BY <1>1 DEF n
  <2>2. b[d].id \in ins
    BY <1>7, <2>1 DEF Nested
  <2>3. QED  BY <2>2 DEF less
<1>8. "program" \notin Pushing
  BY DEF Pushing
<1>9. Nested(b, p, less, "program")
  BY <1>6, <1>7, <1>8 DEF Nested
<1>10. QED  BY <1>4, <1>9 DEF p, i, b, less

\* While a component is started a call is refused and its pop closes a trace of i:
\* no open trace is lost but those of the ids refused.
LEMMA ReenterNested ==
  ASSUME NEW c \in Seq(Frames), NEW o \in OpenTraces, NEW ins \in SUBSET TraceIds,
         NEW i \in TraceIds, NEW a, Nested(c, o, ins, a), NEW more,
         more = (IF TracedIn(c, i) = {} THEN ins ELSE ins \cup {i})
  PROVE  ClosedLast(o, i) \in OpenTraces /\ Nested(c, ClosedLast(o, i), more, a)
<1> DEFINE p == ClosedLast(o, i)
<1>1. ASSUME NEW j \in TraceIds
      PROVE  Range(o[j]) \subseteq TracedIn(c, j) /\ InOrder(o[j])
             /\ (j \notin ins => TracedIn(c, j) \subseteq Range(o[j]))
  BY DEF Nested
<1>2. /\ p \in OpenTraces /\ InOrder(p[i]) /\ \A j \in TraceIds \ {i} : p[j] = o[j]
      /\ Range(p[i]) = IF o[i] # <<>> THEN Range(o[i]) \ {Last(o[i])} ELSE {}
  BY <1>1, CloseLast
<1> HIDE DEF p
<1>3. ins \subseteq more /\ (i \notin more => TracedIn(c, i) = {})
  OBVIOUS
<1>4. ASSUME NEW j \in TraceIds
      PROVE  Range(p[j]) \subseteq TracedIn(c, j) /\ InOrder(p[j])
             /\ (j \notin more => TracedIn(c, j) \subseteq Range(p[j]))
  <2>1. CASE j # i
    BY <2>1, <1>1, <1>2, <1>3
  <2>2. CASE j = i
    BY <2>2, <1>1, <1>2, <1>3
  <2>3. QED  BY <2>1, <2>2
<1>5. ASSUME NEW d \in DOMAIN c, NEW e \in DOMAIN c, e < d, c[e].traced, ~c[d].traced,
             c[d].id = c[e].id, d < Len(c) \/ a \notin Pushing
      PROVE  c[d].id \in more
  BY <1>3, <1>5 DEF Nested
<1>6. Nested(c, p, more, a)
  BY <1>4, <1>5 DEF Nested
<1>7. QED  BY <1>2, <1>6 DEF p

Places == Pushing \cup {"program", "starting"}

\* A thread that follows where it stands in the first push of the process.
StillCounted(a, b) ==
  a = "configure" \/ (initialized /\ a # "count") =>
    b = "configure" \/ (initialized' /\ b # "count")

\* A thread moves on and keeps what it counted.
LEMMA CountedKept ==
  ASSUME Counted, NEW t \in Threads, NEW a \in Places, at \in [Threads -> Places],
         at' = [at EXCEPT ![t] = a], StillCounted(at[t], a), initialized => initialized',
         UNCHANGED <<traceCount, initializers>>
  PROVE  Counted'
<1>1. CASE \E u \in Threads : /\ initializers = {u} /\ traceCount = 1
                              /\ at[u] = "configure" \/ (initialized /\ at[u] # "count")
  <2>1. PICK u \in Threads : /\ initializers = {u} /\ traceCount = 1
                             /\ at[u] = "configure" \/ (initialized /\ at[u] # "count")
    BY <1>1
  <2>2. at'[u] = "configure" \/ (initialized' /\ at'[u] # "count")
    BY <2>1 DEF StillCounted
  <2>3. QED  BY <2>1, <2>2 DEF Counted
<1>2. QED  BY <1>1 DEF Counted

\* A step of one thread, which leaves it with the calls c, the open traces o, the
\* ids `ins' refused inside a trace and at the place a.
LEMMA ThreadSteps ==
  ASSUME TracingInv, NEW t \in Threads, NEW c \in Seq(Frames), NEW o \in OpenTraces,
         NEW ins \in SUBSET TraceIds, NEW a \in Places,
         calls' = [calls EXCEPT ![t] = c], open' = [open EXCEPT ![t] = o],
         inside' = [inside EXCEPT ![t] = ins], at' = [at EXCEPT ![t] = a],
         ~finalized => Nested(c, o, ins, a), a # "program" => c # <<>>,
         ~finalized => Counted', traceCount' \in Nat,
         initializers \subseteq initializers',
         initializers' \subseteq Threads /\ IsFiniteSet(initializers'),
         initialized => initialized', finalized' = finalized,
         UNCHANGED <<managers, emptied>>,
         a = "open" => initialized',
         \A i \in TraceIds : o[i] # <<>> => initialized' \/ open[t][i] # <<>>,
         finalized /\ a = "open" => at[t] = "open",
         finalized => \A i \in TraceIds : o[i] # <<>> => open[t][i] # <<>> \/ at[t] = "open"
  PROVE  TracingInv'
<1>1. /\ calls \in [Threads -> Seq(Frames)] /\ open \in [Threads -> [TraceIds -> Seq(Nat)]]
      /\ inside \in [Threads -> SUBSET TraceIds] /\ at \in [Threads -> Places]
  BY DEF TracingInv, TraceShape, Places
<1>2. /\ calls'[t] = c /\ open'[t] = o /\ inside'[t] = ins /\ at'[t] = a
      /\ \A u \in Threads \ {t} : /\ calls'[u] = calls[u] /\ open'[u] = open[u]
                                  /\ inside'[u] = inside[u] /\ at'[u] = at[u]
  BY <1>1
<1>3. TraceShape'
  <2>1. calls' \in [Threads -> Seq(Frames)] /\ inside' \in [Threads -> SUBSET TraceIds]
    BY <1>1
  <2>2. open' \in [Threads -> [TraceIds -> Seq(Nat)]]
    BY <1>1 DEF OpenTraces
  <2>3. at' \in [Threads -> Pushing \cup {"program", "starting"}]
    BY <1>1 DEF Places
  <2>4. ASSUME NEW u \in Threads, at'[u] # "program" PROVE calls'[u] # <<>>
    BY <1>2, <2>4 DEF TracingInv, TraceShape
  <2>5. QED  BY <2>1, <2>2, <2>3, <2>4 DEF TracingInv, TraceShape
<1>4. ASSUME ~finalized', NEW u \in Threads
      PROVE  Nested(calls'[u], open'[u], inside'[u], at'[u])
  <2>1. CASE u = t
    BY <2>1, <1>2, <1>4
  <2>2. CASE u # t
    BY <2>2, <1>2, <1>4 DEF TracingInv
  <2>3. QED  BY <2>1, <2>2
<1>5. ~finalized' => Counted'
  OBVIOUS
<1>6. (managers # {} /\ ~finalized => \E s, u \in initializers : s # u)'
  BY DEF TracingInv
<1>7. ASSUME NEW u \in Threads
      PROVE  /\ at'[u] = "open" => initialized'
             /\ \A i \in TraceIds : open'[u][i] # <<>> => initialized'
             /\ u \in emptied =>
                  finalized' /\ at'[u] # "open" /\ \A i \in TraceIds : open'[u][i] = <<>>
  <2>1. /\ at[u] = "open" => initialized
        /\ \A i \in TraceIds : open[u][i] # <<>> => initialized
        /\ u \in emptied =>
             finalized /\ at[u] # "open" /\ \A i \in TraceIds : open[u][i] = <<>>
    BY DEF TracingInv
  <2>2. CASE u = t
    BY <2>1, <2>2, <1>2
  <2>3. CASE u # t
    BY <2>1, <2>3, <1>2
  <2>4. QED  BY <2>2, <2>3
<1>8. emptied' = emptied
  OBVIOUS
<1>9. QED  BY <1>3, <1>4, <1>5, <1>6, <1>7, <1>8 DEF TracingInv

\* The same when nothing of the process changes.
LEMMA CallSteps ==
  ASSUME TracingInv, NEW t \in Threads, NEW c \in Seq(Frames), NEW o \in OpenTraces,
         NEW ins \in SUBSET TraceIds, NEW a \in Places,
         calls' = [calls EXCEPT ![t] = c], open' = [open EXCEPT ![t] = o],
         inside' = [inside EXCEPT ![t] = ins], at' = [at EXCEPT ![t] = a],
         ~finalized => Nested(c, o, ins, a), a # "program" => c # <<>>,
         StillCounted(at[t], a),
         UNCHANGED <<libraryVars, traceCount, managers, initializers, emptied>>,
         a = "open" => Collecting,
         \A i \in TraceIds : o[i] # <<>> => open[t][i] # <<>> \/ at[t] = "open"
  PROVE  TracingInv'
<1>1. initialized' = initialized /\ finalized' = finalized
  BY DEF libraryVars
<1>2. at \in [Threads -> Places] /\ (at[t] = "open" => initialized)
  BY DEF TracingInv, TraceShape, Places
<1>3. ~finalized => Counted'
  BY <1>1, <1>2, CountedKept DEF TracingInv
<1>4. traceCount' \in Nat /\ initializers \subseteq initializers'
      /\ initializers' \subseteq Threads /\ IsFiniteSet(initializers')
  BY DEF TracingInv, TraceShape
<1>5. (a = "open" => initialized') /\ (finalized /\ a = "open" => at[t] = "open")
  BY <1>1 DEF Collecting
<1>6. \A i \in TraceIds : o[i] # <<>> => initialized' \/ open[t][i] # <<>>
  BY <1>1, <1>2
<1>7. QED  BY <1>1, <1>3, <1>4, <1>5, <1>6, ThreadSteps

\* What the steps of a thread start from.
LEMMA OfThread ==
  ASSUME TracingInv, NEW t \in Threads
  PROVE  /\ calls[t] \in Seq(Frames) /\ open[t] \in OpenTraces
         /\ inside[t] \in SUBSET TraceIds /\ at[t] \in Places
         /\ calls = [calls EXCEPT ![t] = calls[t]] /\ open = [open EXCEPT ![t] = open[t]]
         /\ inside = [inside EXCEPT ![t] = inside[t]] /\ at = [at EXCEPT ![t] = at[t]]
         /\ ~finalized => Nested(calls[t], open[t], inside[t], at[t])
         /\ \A i \in TraceIds : open[t][i] # <<>> => initialized
         /\ at[t] = "open" => initialized
         /\ at[t] # "program" => calls[t] # <<>>
<1>1. /\ calls \in [Threads -> Seq(Frames)] /\ open \in [Threads -> OpenTraces]
      /\ inside \in [Threads -> SUBSET TraceIds] /\ at \in [Threads -> Places]
  BY DEF TracingInv, TraceShape, Places, OpenTraces
<1>2. at[t] # "program" => calls[t] # <<>>
  BY DEF TracingInv, TraceShape
<1>3. QED  BY <1>1, <1>2 DEF TracingInv

\* An instrumented function is entered.
LEMMA EnterStep ==
  ASSUME TracingInv, NEW t \in Threads, NEW i \in TraceIds, Enter(t, i)
  PROVE  TracingInv'
<1> DEFINE c == Append(calls[t], [id |-> i, traced |-> FALSE])
           a == IF initialized \/ t \in managers THEN "check" ELSE "count"
<1>1. a \in Pushing /\ a \in Places /\ a # "open" /\ at[t] = "program"
  BY DEF Enter, Pushing, Places
<1>2. c \in Seq(Frames) /\ c # <<>>
  BY OfThread, CallsGrow
<1>3. ~finalized => Nested(c, open[t], inside[t], a)
  BY <1>1, OfThread, EnterNested
<1>4. calls' = [calls EXCEPT ![t] = c] /\ at' = [at EXCEPT ![t] = a]
  BY DEF Enter
<1>5. UNCHANGED <<libraryVars, traceCount, managers, initializers, emptied, open, inside>>
  BY DEF Enter, processVars
<1>6. StillCounted(at[t], a)
  <2>1. initialized' = initialized
    BY <1>5 DEF libraryVars
  <2>2. initialized => a = "check"
    OBVIOUS
  <2>3. QED  BY <1>1, <2>1, <2>2 DEF StillCounted
<1> HIDE DEF a, c
<1>7. QED  BY <1>1, <1>2, <1>3, <1>4, <1>5, <1>6, OfThread, CallSteps

\* The first push counts itself.
LEMMA CountInitStep ==
  ASSUME TracingInv, NEW t \in Threads, CountInit(t)
  PROVE  TracingInv'
<1> DEFINE a == IF traceCount = 0 THEN "configure" ELSE "check"
<1>1. a \in Pushing /\ a \in Places /\ a # "open" /\ at[t] = "count" /\ "count" \in Pushing
  BY DEF CountInit, Pushing, Places
<1>2. ~finalized => Nested(calls[t], open[t], inside[t], a)
  <2> SUFFICES ASSUME ~finalized PROVE Nested(calls[t], open[t], inside[t], a)
    OBVIOUS
  <2>1. Nested(calls[t], open[t], inside[t], at[t]) /\ at[t] \in Pushing /\ a \in Pushing
    BY <1>1, OfThread
  <2> HIDE DEF a
  <2>2. QED  BY <2>1, GoOnNested
<1>3. /\ at' = [at EXCEPT ![t] = a] /\ traceCount' = traceCount + 1
      /\ initializers' = initializers \cup {t}
      /\ UNCHANGED <<managers, emptied, calls, open, inside>>
      /\ initialized' = initialized /\ finalized' = finalized
  BY DEF CountInit, libraryVars
<1>4. /\ traceCount \in Nat /\ initializers \subseteq Threads /\ IsFiniteSet(initializers)
      /\ at \in [Threads -> Places]
  BY DEF TracingInv, TraceShape, Places
<1>5. IsFiniteSet(initializers')
  BY <1>3, <1>4, FS_AddElement
<1>6. ASSUME ~finalized PROVE Counted'
  <2>1. Counted
    BY <1>6 DEF TracingInv
  <2>2. CASE initializers = {} /\ traceCount = 0
    <3>1. at'[t] = "configure" /\ initializers' = {t} /\ traceCount' = 1
      BY <2>2, <1>3, <1>4
    <3>2. QED  BY <3>1 DEF Counted
  <2>3. CASE \E u \in Threads : /\ initializers = {u} /\ traceCount = 1
                                /\ at[u] = "configure" \/ (initialized /\ at[u] # "count")
    <3>1. PICK u \in Threads : /\ initializers = {u} /\ traceCount = 1
                               /\ at[u] = "configure" \/ (initialized /\ at[u] # "count")
      BY <2>3
    <3>2. u # t
      BY <3>1, <1>1
    <3>3. u \in initializers' /\ t \in initializers'
      BY <3>1, <1>3
    <3>4. QED  BY <3>2, <3>3 DEF Counted
  <2>4. CASE \E s, u \in initializers : s # u
    <3>1. \E s, u \in initializers' : s # u
      BY <2>4, <1>3
    <3>2. QED  BY <3>1 DEF Counted
  <2>5. QED  BY <2>1, <2>2, <2>3, <2>4 DEF Counted
<1>7. /\ traceCount' \in Nat /\ initializers \subseteq initializers'
      /\ initializers' \subseteq Threads
  BY <1>3, <1>4
<1> HIDE DEF a
<1>8. QED
  <2>1. /\ calls[t] \in Seq(Frames) /\ open[t] \in OpenTraces /\ inside[t] \in SUBSET TraceIds
        /\ \A i \in TraceIds : open[t][i] # <<>> => initialized
        /\ calls[t] # <<>>
    BY <1>1, OfThread
  <2>2. /\ calls' = [calls EXCEPT ![t] = calls[t]] /\ open' = [open EXCEPT ![t] = open[t]]
        /\ inside' = [inside EXCEPT ![t] = inside[t]]
    BY <1>3, OfThread
  <2>3. UNCHANGED <<managers, emptied>> /\ finalized' = finalized /\ (initialized => initialized')
    BY <1>3
  <2>4. /\ a = "open" => initialized'
        /\ \A i \in TraceIds : open[t][i] # <<>> => initialized' \/ open[t][i] # <<>>
        /\ finalized /\ a = "open" => at[t] = "open"
        /\ finalized => \A i \in TraceIds : open[t][i] # <<>> => open[t][i] # <<>> \/ at[t] = "open"
    BY <1>1
  <2>5. QED  BY <1>1, <1>2, <1>3, <1>5, <1>6, <1>7, <2>1, <2>2, <2>3, <2>4, ThreadSteps

\* The library is configured.
LEMMA ConfigureStep ==
  ASSUME TracingInv, NEW t \in Threads, Configure(t)
  PROVE  TracingInv'
<1> DEFINE a == "check"
<1>1. a \in Pushing /\ a \in Places /\ a # "open" /\ at[t] = "configure" /\ "configure" \in Pushing
  BY DEF Configure, Pushing, Places
<1>2. ~finalized => Nested(calls[t], open[t], inside[t], a)
  <2> SUFFICES ASSUME ~finalized PROVE Nested(calls[t], open[t], inside[t], a)
    OBVIOUS
  <2>1. Nested(calls[t], open[t], inside[t], at[t]) /\ at[t] \in Pushing
    BY <1>1, OfThread
  <2>2. QED  BY <1>1, <2>1, GoOnNested
<1>3. /\ at' = [at EXCEPT ![t] = a] /\ initialized' = TRUE /\ finalized' = finalized
      /\ UNCHANGED <<traceCount, initializers, managers, emptied, calls, open, inside>>
  BY DEF Configure, processVars
<1>4. /\ traceCount' \in Nat /\ initializers \subseteq initializers'
      /\ initializers' \subseteq Threads /\ IsFiniteSet(initializers')
      /\ at \in [Threads -> Places]
  BY <1>3 DEF TracingInv, TraceShape, Places
<1>5. StillCounted(at[t], a)
  BY <1>3 DEF StillCounted
<1>6. ~finalized => Counted'
  BY <1>1, <1>3, <1>4, <1>5, CountedKept DEF TracingInv
<1> HIDE DEF a
<1>7. QED
  <2>1. /\ calls[t] \in Seq(Frames) /\ open[t] \in OpenTraces /\ inside[t] \in SUBSET TraceIds
        /\ \A i \in TraceIds : open[t][i] # <<>> => initialized
        /\ calls[t] # <<>>
    BY <1>1, OfThread
  <2>2. /\ calls' = [calls EXCEPT ![t] = calls[t]] /\ open' = [open EXCEPT ![t] = open[t]]
        /\ inside' = [inside EXCEPT ![t] = inside[t]]
    BY <1>3, OfThread
  <2>3. UNCHANGED <<managers, emptied>> /\ finalized' = finalized /\ (initialized => initialized')
    BY <1>3
  <2>4. /\ a = "open" => initialized'
        /\ \A i \in TraceIds : open[t][i] # <<>> => initialized' \/ open[t][i] # <<>>
        /\ finalized /\ a = "open" => at[t] = "open"
        /\ finalized => \A i \in TraceIds : open[t][i] # <<>> => open[t][i] # <<>> \/ at[t] = "open"
    BY <1>1
  <2>5. QED  BY ZenonT(30), <1>1, <1>2, <1>3, <1>4, <1>6, <2>1, <2>2, <2>3, <2>4, ThreadSteps

\* A push is accepted or refused.
LEMMA CheckStep ==
  ASSUME TracingInv, NEW t \in Threads, Check(t)
  PROVE  TracingInv'
<1> DEFINE i == Callee(t)
           ok == Accepts(t, i)
           a == IF ok THEN "open" ELSE "program"
           ins == IF ok THEN inside[t] ELSE Refused(t, i)
<1>1. /\ at[t] = "check" /\ "check" \in Pushing /\ "open" \in Pushing /\ "check" # "program"
      /\ a \in Places /\ a # "count"
  BY DEF Check, Pushing, Places
<1>2. /\ calls[t] \in Seq(Frames) /\ open[t] \in OpenTraces /\ inside[t] \in SUBSET TraceIds
      /\ calls[t] # <<>>
      /\ ~finalized => Nested(calls[t], open[t], inside[t], at[t])
  BY <1>1, OfThread
<1>3. i = Last(calls[t]).id /\ i \in TraceIds
  <2>1. Last(calls[t]) \in Frames
    BY <1>2, CallsShrink
  <2>2. Last(calls[t]).id \in TraceIds
    BY <2>1 DEF Frames
  <2>3. QED  BY <2>2 DEF Callee
<1>4. TracedCalls(t, i) = TracedIn(calls[t], i)
  BY DEF TracedCalls, TracedIn
<1>5. Refused(t, i) = IF TracedIn(calls[t], i) = {} THEN inside[t] ELSE inside[t] \cup {i}
  BY <1>4 DEF Refused
<1> HIDE DEF i
<1>6. ins \in SUBSET TraceIds
  BY <1>2, <1>3, <1>5
<1>7. ASSUME ~finalized PROVE Nested(calls[t], open[t], ins, a)
  <2>1. CASE ok
    BY <2>1, <1>1, <1>2, <1>7, GoOnNested
  <2>2. CASE ~ok
    <3>1. Nested(calls[t], open[t], Refused(t, i), "program")
      BY <1>1, <1>2, <1>3, <1>5, <1>7, RefuseNested
    <3>2. QED  BY <3>1, <2>2
  <2>3. QED  BY <2>1, <2>2
<1>8. ok => Collecting
  BY DEF Accepts
<1>9. /\ at' = [at EXCEPT ![t] = a] /\ inside' = [inside EXCEPT ![t] = ins]
      /\ UNCHANGED <<libraryVars, traceCount, managers, initializers, emptied, calls, open>>
  <2>1. at' = [at EXCEPT ![t] = a]
    BY DEF Check, i
  <2>2. inside' = [inside EXCEPT ![t] = IF Accepts(t, i) THEN @ ELSE Refused(t, i)]
    BY DEF Check, i
  <2>3. UNCHANGED <<libraryVars, traceCount, managers, initializers, emptied, calls, open>>
    BY DEF Check, processVars
  <2>4. QED  BY <2>1, <2>2, <2>3
<1>10. a = "open" => Collecting
  BY <1>8
<1>11. StillCounted(at[t], a)
  <2>1. initialized' = initialized
    BY <1>9 DEF libraryVars
  <2>2. QED  BY <2>1, <1>1 DEF StillCounted
<1> HIDE DEF ok, a, ins
<1>12. calls' = [calls EXCEPT ![t] = calls[t]] /\ open' = [open EXCEPT ![t] = open[t]]
  BY <1>9, OfThread
<1>13. UNCHANGED <<libraryVars, traceCount, managers, initializers, emptied>>
  BY <1>9
<1>14. QED  BY <1>1, <1>2, <1>6, <1>7, <1>9, <1>10, <1>11, <1>12, <1>13, CallSteps

\* The trace is opened.
LEMMA OpenStep ==
  ASSUME TracingInv, NEW t \in Threads, Open(t)
  PROVE  TracingInv'
<1> DEFINE c == [calls[t] EXCEPT ![Len(calls[t])].traced = TRUE]
           i == Last(calls[t]).id
           o == [open[t] EXCEPT ![i] = Append(@, Len(calls[t]))]
           a == "starting"
<1>1. at[t] = "open" /\ "open" \in Pushing /\ a \in Places /\ a # "open"
  BY DEF Open, Pushing, Places
<1>2. /\ calls[t] \in Seq(Frames) /\ open[t] \in OpenTraces /\ inside[t] \in SUBSET TraceIds
      /\ calls[t] # <<>> /\ initialized
      /\ ~finalized => Nested(calls[t], open[t], inside[t], at[t])
  BY <1>1, OfThread
<1>3. /\ calls' = [calls EXCEPT ![t] = c] /\ open' = [open EXCEPT ![t] = o]
      /\ at' = [at EXCEPT ![t] = a]
      /\ UNCHANGED <<libraryVars, traceCount, managers, initializers, emptied, inside>>
  <2>1. /\ calls \in [Threads -> Seq(Frames)] /\ open \in [Threads -> [TraceIds -> Seq(Nat)]]
    BY DEF TracingInv, TraceShape
  <2>2. calls' = [calls EXCEPT ![t] = c]
    BY <2>1 DEF Open
  <2>3. open' = [open EXCEPT ![t] = o]
    BY <2>1 DEF Open, Callee
  <2>4. QED  BY <2>2, <2>3 DEF Open, processVars
<1>4. c \in Seq(Frames) /\ c # <<>> /\ o \in OpenTraces
  <2> DEFINE n == Len(calls[t])
  <2>1. n \in Nat \ {0} /\ DOMAIN calls[t] = 1 .. n /\ calls[t][n] \in Frames /\ i = calls[t][n].id
    BY <1>2, CallsShrink
  <2> HIDE DEF n
  <2>2. [calls[t][n] EXCEPT !.traced = TRUE] \in Frames /\ i \in TraceIds
    BY <2>1 DEF Frames
  <2>3. c = [calls[t] EXCEPT ![n] = [calls[t][n] EXCEPT !.traced = TRUE]]
    BY DEF n
  <2>4. c \in Seq(Frames) /\ Len(c) = n
    BY <1>2, <2>1, <2>2, <2>3, ExceptSeq DEF n
  <2>5. Append(open[t][i], n) \in Seq(Nat)
    BY <1>2, <2>1, <2>2 DEF OpenTraces
  <2>6. o \in OpenTraces
    BY <1>2, <2>2, <2>5 DEF OpenTraces, n
  <2>7. QED  BY <2>1, <2>4, <2>6, EmptySeq
<1>5. ASSUME ~finalized PROVE Nested(c, o, inside[t], a)
  BY <1>1, <1>2, <1>5, OpenNested
<1> HIDE DEF c, o, i, a
<1>6. StillCounted(at[t], a)
  <2>1. initialized' = initialized
    BY <1>3 DEF libraryVars
  <2>2. QED  BY <2>1, <1>2 DEF StillCounted, a
<1>7. inside' = [inside EXCEPT ![t] = inside[t]]
  BY <1>3, OfThread
<1>8. UNCHANGED <<libraryVars, traceCount, managers, initializers, emptied>>
  BY <1>3
<1>9. QED  BY <1>1, <1>2, <1>3, <1>4, <1>5, <1>6, <1>7, <1>8, CallSteps

\* The trace has started.
LEMMA StartedStep ==
  ASSUME TracingInv, NEW t \in Threads, Started(t)
  PROVE  TracingInv'
<1> DEFINE a == "program"
<1>1. at[t] = "starting" /\ a \in Places /\ a # "open"
  BY DEF Started, Places
<1>2. /\ calls[t] \in Seq(Frames) /\ open[t] \in OpenTraces /\ inside[t] \in SUBSET TraceIds
      /\ ~finalized => Nested(calls[t], open[t], inside[t], at[t])
  BY OfThread
<1>3. ASSUME ~finalized PROVE Nested(calls[t], open[t], inside[t], a)
  BY <1>1, <1>2, <1>3, GoOnNested
<1>4. /\ at' = [at EXCEPT ![t] = a]
      /\ UNCHANGED <<libraryVars, traceCount, managers, initializers, emptied>>
      /\ UNCHANGED <<calls, open, inside>>
  BY DEF Started, processVars
<1>5. StillCounted(at[t], a)
  <2>1. initialized' = initialized
    BY <1>4 DEF libraryVars
  <2>2. QED  BY <2>1, <1>1 DEF StillCounted
<1>6. a = "program"
  OBVIOUS
<1> HIDE DEF a
<1>7. /\ calls' = [calls EXCEPT ![t] = calls[t]] /\ open' = [open EXCEPT ![t] = open[t]]
      /\ inside' = [inside EXCEPT ![t] = inside[t]]
  BY <1>4, OfThread
<1>8. /\ a # "program" => calls[t] # <<>>
      /\ a = "open" => Collecting
      /\ \A i \in TraceIds : open[t][i] # <<>> => open[t][i] # <<>> \/ at[t] = "open"
  BY <1>1, <1>6
<1>9. ~finalized => Nested(calls[t], open[t], inside[t], a)
  BY <1>3
<1>10. QED  BY <1>1, <1>2, <1>9, <1>4, <1>5, <1>7, <1>8, CallSteps

\* A pop closes the last open trace of i: collection is on if there is one, unless
\* the library is finalised.
LEMMA PopTraces ==
  ASSUME TracingInv, NEW t \in Threads, NEW i \in TraceIds, PopTrace(t, i)
  PROVE  \E o \in OpenTraces :
           /\ open' = [open EXCEPT ![t] = o]
           /\ ~finalized => o = ClosedLast(open[t], i)
           /\ \A j \in TraceIds : o[j] # <<>> => open[t][j] # <<>>
<1>1. /\ open[t] \in OpenTraces /\ open = [open EXCEPT ![t] = open[t]]
      /\ open[t][i] # <<>> => initialized
      /\ ~finalized => Nested(calls[t], open[t], inside[t], at[t])
  BY OfThread
<1>2. open \in [Threads -> [TraceIds -> Seq(Nat)]]
  BY DEF TracingInv, TraceShape
<1>3. CASE Collecting /\ open[t][i] # <<>>
  <2> DEFINE o == [open[t] EXCEPT ![i] = Front(@)]
  <2>1. open' = [open EXCEPT ![t] = o]
    BY <1>2, <1>3 DEF PopTrace, Close
  <2>2. ~finalized /\ o = ClosedLast(open[t], i)
    BY <1>3 DEF Collecting, ClosedLast
  <2>3. InOrder(open[t][i])
    BY <1>1, <2>2 DEF Nested
  <2> HIDE DEF o
  <2>4. o \in OpenTraces /\ \A j \in TraceIds \ {i} : o[j] = open[t][j]
    <3> DEFINE q == open[t]
    <3>1. q \in OpenTraces /\ InOrder(q[i])
      BY <1>1, <2>3
    <3> HIDE DEF q
    <3>2. ClosedLast(q, i) \in OpenTraces /\ \A j \in TraceIds \ {i} : ClosedLast(q, i)[j] = q[j]
      BY <3>1, CloseLast
    <3>3. QED  BY <2>2, <3>2 DEF q
  <2>5. \A j \in TraceIds : o[j] # <<>> => open[t][j] # <<>>
    BY <1>3, <2>4
  <2>6. QED  BY <2>1, <2>2, <2>4, <2>5
<1>4. CASE ~(Collecting /\ open[t][i] # <<>>)
  <2>1. open' = open
    BY <1>4 DEF PopTrace
  <2>2. ~finalized => open[t] = ClosedLast(open[t], i)
    BY <1>1, <1>4 DEF Collecting, ClosedLast
  <2>3. QED  BY <1>1, <2>1, <2>2
<1>5. QED  BY <1>3, <1>4

\* The innermost call returns.
LEMMA LeaveStep ==
  ASSUME TracingInv, NEW t \in Threads, Leave(t)
  PROVE  TracingInv'
<1> DEFINE c == Front(calls[t])
           i == Last(calls[t]).id
           ins == inside[t] \cap {c[d].id : d \in DOMAIN c}
           a == "program"
<1>1. at[t] = a /\ calls[t] # <<>> /\ a \in Places /\ a # "open" /\ a = "program"
  BY DEF Leave, Places
<1>2. /\ calls[t] \in Seq(Frames) /\ open[t] \in OpenTraces /\ inside[t] \in SUBSET TraceIds
      /\ ~finalized => Nested(calls[t], open[t], inside[t], at[t])
  BY OfThread
<1>3. c \in Seq(Frames) /\ i \in TraceIds
  <2>1. c \in Seq(Frames) /\ Last(calls[t]) \in Frames
    BY <1>1, <1>2, CallsShrink
  <2>2. QED  BY <2>1 DEF Frames
<1>4. PopTrace(t, i)
  BY DEF Leave, Callee
<1>5. PICK o \in OpenTraces :
           /\ open' = [open EXCEPT ![t] = o]
           /\ ~finalized => o = ClosedLast(open[t], i)
           /\ \A j \in TraceIds : o[j] # <<>> => open[t][j] # <<>>
  BY <1>3, <1>4, PopTraces
<1>6. ins \in SUBSET TraceIds
  BY <1>2
<1>7. ASSUME ~finalized PROVE Nested(c, o, ins, a)
  BY <1>1, <1>2, <1>5, <1>7, LeaveNested
<1>8. /\ calls' = [calls EXCEPT ![t] = c] /\ inside' = [inside EXCEPT ![t] = ins] /\ at' = at
      /\ UNCHANGED <<libraryVars, traceCount, managers, initializers, emptied>>
  BY DEF Leave, processVars
<1> HIDE DEF a, c, i, ins
<1>9. at' = [at EXCEPT ![t] = a]
  BY <1>1, <1>8, OfThread
<1>10. StillCounted(at[t], a)
  <2>1. initialized' = initialized
    BY <1>8 DEF libraryVars
  <2>2. QED  BY <2>1, <1>1 DEF StillCounted
<1>11. /\ a # "program" => c # <<>>
       /\ a = "open" => Collecting
       /\ \A j \in TraceIds : o[j] # <<>> => open[t][j] # <<>> \/ at[t] = "open"
  BY <1>1, <1>5
<1>12. ~finalized => Nested(c, o, ins, a)
  BY <1>7
<1>13. UNCHANGED <<libraryVars, traceCount, managers, initializers, emptied>>
  BY <1>8
<1>14. calls' = [calls EXCEPT ![t] = c] /\ inside' = [inside EXCEPT ![t] = ins]
  BY <1>8
<1>15. a \in Places /\ open' = [open EXCEPT ![t] = o]
  BY <1>1, <1>5
<1>16. QED  BY <1>3, <1>6, <1>9, <1>10, <1>11, <1>12, <1>13, <1>14, <1>15, CallSteps

\* timemory calls an instrumented function itself.
LEMMA ReenterStep ==
  ASSUME TracingInv, NEW t \in Threads, NEW i \in TraceIds, Reenter(t, i)
  PROVE  TracingInv'
<1> DEFINE ins == Refused(t, i)
<1>1. at[t] = "starting" /\ at[t] \in Places /\ at[t] # "open"
  BY DEF Reenter, Places
<1>2. /\ calls[t] \in Seq(Frames) /\ open[t] \in OpenTraces /\ inside[t] \in SUBSET TraceIds
      /\ ~finalized => Nested(calls[t], open[t], inside[t], at[t])
      /\ calls[t] # <<>>
  BY <1>1, OfThread
<1>3. ins = IF TracedIn(calls[t], i) = {} THEN inside[t] ELSE inside[t] \cup {i}
  BY DEF Refused, TracedCalls, TracedIn
<1>4. ins \in SUBSET TraceIds
  BY <1>2, <1>3
<1>5. PICK o \in OpenTraces :
           /\ open' = [open EXCEPT ![t] = o]
           /\ ~finalized => o = ClosedLast(open[t], i)
           /\ \A j \in TraceIds : o[j] # <<>> => open[t][j] # <<>>
  BY PopTraces DEF Reenter
<1>6. inside' = [inside EXCEPT ![t] = ins]
  BY DEF Reenter
<1> HIDE DEF ins
<1>7. ASSUME ~finalized PROVE Nested(calls[t], o, ins, at[t])
  BY <1>2, <1>3, <1>5, <1>7, ReenterNested
<1>8. UNCHANGED <<libraryVars, traceCount, managers, initializers, emptied>>
  BY DEF Reenter, processVars
<1>9. calls' = [calls EXCEPT ![t] = calls[t]] /\ at' = [at EXCEPT ![t] = at[t]]
  BY OfThread DEF Reenter
<1>10. StillCounted(at[t], at[t])
  <2>1. initialized' = initialized
    BY <1>8 DEF libraryVars
  <2>2. QED  BY <2>1 DEF StillCounted
<1>11. /\ at[t] # "program" => calls[t] # <<>>
       /\ at[t] = "open" => Collecting
       /\ \A j \in TraceIds : o[j] # <<>> => open[t][j] # <<>> \/ at[t] = "open"
  BY <1>1, <1>2, <1>5
<1>12. ~finalized => Nested(calls[t], o, ins, at[t])
  BY <1>7
<1>13. at[t] \in Places /\ open' = [open EXCEPT ![t] = o] /\ calls[t] \in Seq(Frames)
  BY <1>1, <1>2, <1>5
<1>14. QED  BY <1>4, <1>6, <1>8, <1>9, <1>10, <1>11, <1>12, <1>13, CallSteps

\* It holds before the first call.
LEMMA TracingInitially == TracingInit => TracingInv
<1> SUFFICES ASSUME TracingInit PROVE TracingInv
  OBVIOUS
<1>1. TraceShape
  BY FS_EmptySet DEF TracingInit, TraceShape
<1>2. Counted
  BY DEF TracingInit, Counted
<1>3. ASSUME NEW t \in Threads PROVE Nested(calls[t], open[t], inside[t], at[t])
  <2>1. calls[t] = <<>> /\ at[t] = "program" /\ \A i \in TraceIds : open[t][i] = <<>>
    BY <1>3 DEF TracingInit
  <2>2. \A i \in TraceIds : Range(open[t][i]) = {} /\ TracedIn(calls[t], i) = {}
    BY <2>1 DEF Range, TracedIn
  <2>3. \A i \in TraceIds : InOrder(open[t][i])
    BY <2>1 DEF InOrder
  <2>4. DOMAIN calls[t] = {} /\ "program" \notin Pushing
    BY <2>1 DEF Pushing
  <2>5. QED  BY <2>1, <2>2, <2>3, <2>4 DEF Nested
<1>4. \A t \in Threads : /\ at[t] = "program" /\ t \notin emptied
                         /\ \A i \in TraceIds : open[t][i] = <<>>
  BY DEF TracingInit
<1>5. managers = {}
  BY DEF TracingInit
<1>6. QED  BY <1>1, <1>2, <1>3, <1>4, <1>5 DEF TracingInv

\* A step that touches no trace.
LEMMA OtherSteps ==
  ASSUME TracingInv, initialized => initialized',
         UNCHANGED <<finalized, calls, open, inside, at, traceCount, managers, initializers,
                     emptied>>
  PROVE  TracingInv'
<1>1. TraceShape'
  BY DEF TracingInv, TraceShape
<1>2. Counted => Counted'
  BY DEF Counted
<1>3. ASSUME NEW t \in Threads, Nested(calls[t], open[t], inside[t], at[t])
      PROVE  Nested(calls'[t], open'[t], inside'[t], at'[t])
  BY <1>3
<1>4. QED  BY <1>1, <1>2, <1>3 DEF TracingInv

\* The first to finalise of several that counted themselves.
LEMMA FinalizeEarlyStep ==
  ASSUME TracingInv, NEW t \in Threads, FinalizeEarly(t)
  PROVE  TracingInv'
<1>1. /\ traceCount > 1 /\ traceCount' = traceCount - 1
      /\ UNCHANGED <<initialized, finalized, calls, open, inside, at, initializers, emptied>>
  BY DEF FinalizeEarly, libraryVars, threadVars
<1>2. traceCount \in Nat
  BY DEF TracingInv, TraceShape
<1>3. TraceShape'
  BY <1>1, <1>2 DEF TracingInv, TraceShape
<1>4. ASSUME ~finalized PROVE \E s, u \in initializers : s # u
  <2>1. Counted /\ traceCount # 0 /\ traceCount # 1
    BY <1>1, <1>2, <1>4 DEF TracingInv
  <2>2. QED  BY <2>1 DEF Counted
<1>5. ~finalized' => Counted'
  BY <1>1, <1>4 DEF Counted
<1>6. ASSUME ~finalized', NEW u \in Threads PROVE Nested(calls'[u], open'[u], inside'[u], at'[u])
  BY <1>1, <1>6 DEF TracingInv
<1>7. ~finalized' => \E s, u \in initializers' : s # u
  BY <1>1, <1>4
<1>8. \A u \in Threads :
        /\ at'[u] = "open" => initialized'
        /\ \A i \in TraceIds : open'[u][i] # <<>> => initialized'
        /\ u \in emptied' =>
             finalized' /\ at'[u] # "open" /\ \A i \in TraceIds : open'[u][i] = <<>>
  BY <1>1 DEF TracingInv
<1>9. QED  BY <1>3, <1>5, <1>6, <1>7, <1>8 DEF TracingInv

\* The end of the library, the traces of the calling thread emptied or not.
LEMMA EndStep ==
  ASSUME TracingInv, NEW t \in Threads, finalized', at[t] = "program", traceCount' \in Nat,
         UNCHANGED <<initialized, calls, inside, at, initializers>>,
         \/ UNCHANGED <<open, emptied>>
         \/ /\ open' = [open EXCEPT ![t] = [i \in TraceIds |-> <<>>]]
            /\ emptied' = emptied \cup {t}
  PROVE  TracingInv'
<1>1. open \in [Threads -> [TraceIds -> Seq(Nat)]]
  BY DEF TracingInv, TraceShape
<1>2. [i \in TraceIds |-> <<>>] \in [TraceIds -> Seq(Nat)]
  OBVIOUS
<1>3. open' \in [Threads -> [TraceIds -> Seq(Nat)]]
  BY <1>1, <1>2
<1>4. TraceShape'
  BY <1>3 DEF TracingInv, TraceShape
<1>5. ASSUME NEW u \in Threads
      PROVE  /\ at'[u] = "open" => initialized'
             /\ \A i \in TraceIds : open'[u][i] # <<>> => initialized'
             /\ u \in emptied' => at'[u] # "open" /\ \A i \in TraceIds : open'[u][i] = <<>>
  <2>1. /\ at[u] = "open" => initialized
        /\ \A i \in TraceIds : open[u][i] # <<>> => initialized
        /\ u \in emptied => at[u] # "open" /\ \A i \in TraceIds : open[u][i] = <<>>
    BY DEF TracingInv
  <2>2. CASE UNCHANGED <<open, emptied>>
    BY <2>1, <2>2
  <2>3. CASE /\ open' = [open EXCEPT ![t] = [i \in TraceIds |-> <<>>]]
             /\ emptied' = emptied \cup {t}
    <3>1. CASE u = t
      <4>1. \A i \in TraceIds : open'[u][i] = <<>>
        BY <2>3, <3>1, <1>1
      <4>2. QED  BY <4>1, <3>1
    <3>2. CASE u # t
      <4>1. open'[u] = open[u] /\ (u \in emptied' <=> u \in emptied)
        BY <2>3, <3>2, <1>1
      <4>2. QED  BY <4>1, <2>1
    <3>3. QED  BY <3>1, <3>2
  <2>4. QED  BY <2>2, <2>3
<1>6. QED  BY <1>4, <1>5 DEF TracingInv

\* Each step of each thread keeps it.
LEMMA TracingStep == TracingInv /\ [TracingNext]_<<libraryVars, traceVars>> => TracingInv'
<1> SUFFICES ASSUME TracingInv, [TracingNext]_<<libraryVars, traceVars>> PROVE TracingInv'
  OBVIOUS
<1>1. CASE UNCHANGED <<libraryVars, traceVars>>
  BY <1>1, OtherSteps DEF libraryVars, traceVars, processVars, threadVars
<1>2. CASE (Toggle \/ InitLibrary) /\ UNCHANGED traceVars
  BY <1>2, OtherSteps DEF Toggle, InitLibrary, traceVars, processVars, threadVars
<1>3. ASSUME NEW t \in Threads, NEW i \in TraceIds, Enter(t, i) PROVE TracingInv'
  BY <1>3, EnterStep
<1>4. ASSUME NEW t \in Threads, NEW i \in TraceIds, Reenter(t, i) PROVE TracingInv'
  BY <1>4, ReenterStep
<1>5. ASSUME NEW t \in Threads, NEW i \in TraceIds, ResetThrottle(t, i) PROVE TracingInv'
  BY <1>5, OtherSteps DEF ResetThrottle, libraryVars, processVars
<1>6. ASSUME NEW t \in Threads, NEW i \in Numbered, AddHashId(t, i) PROVE TracingInv'
  BY <1>6, OtherSteps DEF AddHashId, libraryVars
<1>7. ASSUME NEW t \in Threads,
             CountInit(t) \/ Configure(t) \/ Check(t) \/ Open(t) \/ Started(t) \/ Leave(t)
      PROVE  TracingInv'
  BY <1>7, CountInitStep, ConfigureStep, CheckStep, OpenStep, StartedStep, LeaveStep
<1>8. ASSUME NEW t \in Threads, FinalizeEarly(t) PROVE TracingInv'
  BY <1>8, FinalizeEarlyStep
<1>9. ASSUME NEW t \in Threads, FinalizeLast(t) PROVE TracingInv'
  <2>1. /\ finalized' /\ at[t] = "program" /\ traceCount' \in Nat
        /\ UNCHANGED <<initialized, calls, inside, at, initializers>>
    BY <1>9 DEF FinalizeLast, EndLibrary, FinalizeLibrary
  <2>2. \/ UNCHANGED <<open, emptied>>
        \/ /\ open' = [open EXCEPT ![t] = [i \in TraceIds |-> <<>>]]
           /\ emptied' = emptied \cup {t}
    BY <1>9 DEF FinalizeLast
  <2>3. QED  BY <2>1, <2>2, EndStep
<1>10. ASSUME NEW t \in Threads, FinalizeDirect(t) PROVE TracingInv'
  <2>1. /\ finalized' /\ at[t] = "program" /\ UNCHANGED <<open, emptied, traceCount>>
        /\ UNCHANGED <<initialized, calls, inside, at, initializers>>
    BY <1>10 DEF FinalizeDirect, EndLibrary, FinalizeLibrary
  <2>2. traceCount' \in Nat
    BY <2>1 DEF TracingInv, TraceShape
  <2>3. QED  BY <2>1, <2>2, EndStep
<1>11. CASE TracingNext
  BY <1>11, <1>2, <1>3, <1>4, <1>5, <1>6, <1>7, <1>8, <1>9, <1>10 DEF TracingNext
<1>12. QED  BY <1>1, <1>11

\* So it holds in every reachable state.
LEMMA TracingAlways == TracingSpec => []TracingInv
BY TracingInitially, TracingStep, PTL DEF TracingSpec

\* For any threads, functions and depth of calls: until the library is finalised
\* every open trace belongs to a traced call that has not returned, in the order
\* of the calls.
THEOREM OpenTracesAreCalled == TracingSpec => []OpenIsCalled
<1>1. TracingInv => OpenIsCalled
  <2> SUFFICES ASSUME TracingInv, ~finalized, NEW t \in Threads, NEW i \in TraceIds
               PROVE  /\ Range(open[t][i]) \subseteq TracedCalls(t, i)
                      /\ \A j, k \in DOMAIN open[t][i] : j < k => open[t][i][j] < open[t][i][k]
    BY DEF OpenIsCalled
  <2>1. Range(open[t][i]) \subseteq TracedIn(calls[t], i) /\ InOrder(open[t][i])
    BY DEF TracingInv, Nested
  <2>2. QED  BY <2>1 DEF InOrder, TracedIn, TracedCalls
<1>2. QED  BY <1>1, TracingAlways, PTL

\* A traced call is measured until it returns, unless a call of its function was
\* refused inside it.
THEOREM TracedUntilReturn == TracingSpec => []MeasuredToTheEnd
<1>1. TracingInv => MeasuredToTheEnd
  <2> SUFFICES ASSUME TracingInv, ~finalized, NEW t \in Threads, NEW i \in TraceIds,
                      i \notin inside[t]
               PROVE  TracedCalls(t, i) \subseteq Range(open[t][i])
    BY DEF MeasuredToTheEnd
  <2>1. TracedIn(calls[t], i) \subseteq Range(open[t][i])
    BY DEF TracingInv, Nested
  <2>2. QED  BY <2>1 DEF TracedIn, TracedCalls
<1>2. QED  BY <1>1, TracingAlways, PTL

\* Output is written early only if two threads counted themselves.
THEOREM EarlyOutputNeedsTwo == TracingSpec => []EarlyOnlyAfterRace
<1>1. TracingInv => EarlyOnlyAfterRace
  <2> SUFFICES ASSUME TracingInv, managers # {}, ~finalized
               PROVE  Cardinality(initializers) > 1
    BY DEF EarlyOnlyAfterRace
  <2>1. PICK s \in initializers, u \in initializers : s # u
    BY DEF TracingInv
  <2>2. IsFiniteSet(initializers)
    BY DEF TracingInv, TraceShape
  <2>3. Cardinality({s, u}) = 2 /\ {s, u} \subseteq initializers
    <3>1. Cardinality({s}) = 1 /\ IsFiniteSet({s})
      BY FS_Singleton
    <3>2. Cardinality({s} \cup {u}) = Cardinality({s}) + 1
      BY <2>1, <3>1, FS_AddElement
    <3>3. {s} \cup {u} = {s, u}
      OBVIOUS
    <3>4. QED  BY <3>1, <3>2, <3>3
  <2>4. Cardinality({s, u}) <= Cardinality(initializers) /\ Cardinality(initializers) \in Nat
    BY <2>2, <2>3, FS_Subset, FS_CardinalityType
  <2>5. QED  BY <2>3, <2>4
<1>2. QED  BY <1>1, TracingAlways, PTL

\* A thread that emptied its traces never opens one again.
THEOREM EmptiedForGood == TracingSpec => []EmptiedStaysEmpty
<1>1. TracingInv => EmptiedStaysEmpty
  <2> SUFFICES ASSUME TracingInv, NEW t \in emptied, NEW i \in TraceIds PROVE open[t][i] = <<>>
    BY DEF EmptiedStaysEmpty
  <2>1. t \in Threads
    BY DEF TracingInv, TraceShape
  <2>2. QED  BY <2>1 DEF TracingInv
<1>2. QED  BY <1>1, TracingAlways, PTL

-----------------------------------------------------------------------------
(* Records.                                                                *)

RegionMap == [Names -> Seq(Nat \cup {NoRecord})]
Creation == [number : Nat \cup {NoRecord}, purpose : Purposes]

\* What a thread with the numbers h of its own and the regions r may end, ...
EndsOf(h, r) ==
  {<<Own, j, h[j]>> : j \in DOMAIN h} \cup
  UNION {{<<n, j, r[n][j]>> : j \in {k \in DOMAIN r[n] : r[n][k] # NoRecord}} : n \in Names}
NumbersOf(E) == {e[3] : e \in E}

\* ... which are finitely many, with distinct numbers, and the records s of the
\* thread among them.
Distinct(E) == IsFiniteSet(E) /\ \A e, f \in E : e[3] = f[3] => e = f
Paired(E, s, isEnded) ==
  Distinct(E) /\ s \subseteq NumbersOf(E) /\ (~isEnded => s = NumbersOf(E))

RecordsShape ==
  /\ uniqID \in Nat /\ overtaken \in BOOLEAN
  /\ records \in [Threads -> SUBSET Nat] /\ issued \in [Threads -> SUBSET Nat]
  /\ regions \in [Threads -> RegionMap] /\ handles \in [Threads -> Seq(Nat)]
  /\ creating \in [Threads -> Creation]
  /\ \A t \in Threads : creating[t] # Idle => creating[t].number \in Nat

\* While no older counter was written over a newer one, the numbers given out are
\* below the counter, and those given to a thread below the one it is creating.
Increasing ==
  \A t \in Threads :
    /\ \A k \in issued[t] : k < uniqID
    /\ creating[t] # Idle => /\ creating[t].number <= uniqID
                             /\ \A k \in issued[t] : k < creating[t].number

RecordsInv ==
  /\ RecordsShape
  /\ ~overtaken =>
       /\ Increasing
       /\ \A t \in Threads : LET E == EndsOf(handles[t], regions[t]) IN
            NumbersOf(E) \subseteq issued[t] /\ Paired(E, records[t], t \in ended)

\* The ends of a thread, one by one.
LEMMA EndsAre ==
  ASSUME NEW h, NEW r
  PROVE  \A e : e \in EndsOf(h, r) <=>
           \/ \E j \in DOMAIN h : e = <<Own, j, h[j]>>
           \/ \E n \in Names : \E j \in DOMAIN r[n] : r[n][j] # NoRecord /\ e = <<n, j, r[n][j]>>
  BY DEF EndsOf

\* One end more, one less.
LEMMA EndAdded ==
  ASSUME NEW E, NEW e, Distinct(E), e[3] \notin NumbersOf(E)
  PROVE  Distinct(E \cup {e}) /\ NumbersOf(E \cup {e}) = NumbersOf(E) \cup {e[3]}
<1>1. IsFiniteSet(E \cup {e})
  BY FS_AddElement DEF Distinct
<1>2. \A f \in E : f[3] # e[3]
  BY DEF NumbersOf
<1>3. \A f, g \in E : f[3] = g[3] => f = g
  BY DEF Distinct
<1>4. \A f, g \in E \cup {e} : f[3] = g[3] => f = g
  BY <1>2, <1>3
<1>5. NumbersOf(E \cup {e}) = NumbersOf(E) \cup {e[3]}
  BY DEF NumbersOf
<1>6. QED  BY <1>1, <1>4, <1>5 DEF Distinct

\* One of the distinct ends is used.
LEMMA EndDropped ==
  ASSUME NEW E, NEW e \in E, Distinct(E)
  PROVE  Distinct(E \ {e}) /\ NumbersOf(E \ {e}) = NumbersOf(E) \ {e[3]}
<1>1. IsFiniteSet(E \ {e})
  BY FS_RemoveElement DEF Distinct
<1>2. \A f, g \in E : f[3] = g[3] => f = g
  BY DEF Distinct
<1>3. NumbersOf(E \ {e}) = NumbersOf(E) \ {e[3]}
  BY <1>2 DEF NumbersOf
<1>4. QED  BY <1>1, <1>2, <1>3 DEF Distinct

\* A number is begun by the thread itself, ...
LEMMA HandleAdded ==
  ASSUME NEW h \in Seq(Nat), NEW r \in RegionMap, NEW k \in Nat
  PROVE  \E e : e[3] = k /\ EndsOf(Append(h, k), r) = EndsOf(h, r) \cup {e}
<1> DEFINE n == Len(h)
           g == Append(h, k)
<1>1. /\ n \in Nat /\ DOMAIN h = 1 .. n /\ DOMAIN g = 1 .. n + 1
      /\ g[n + 1] = k /\ \A j \in 1 .. n : g[j] = h[j]
  OBVIOUS
<1> HIDE DEF g, n
<1>2. \A j \in 1 .. n + 1 : j \in 1 .. n \/ j = n + 1
  BY <1>1
<1>3. n + 1 \in 1 .. n + 1 /\ \A j \in 1 .. n : j \in 1 .. n + 1
  BY <1>1
<1>4. \A e : (\E j \in DOMAIN g : e = <<Own, j, g[j]>>) <=>
             (\E j \in DOMAIN h : e = <<Own, j, h[j]>>) \/ e = <<Own, n + 1, k>>
  BY <1>1, <1>2, <1>3
<1>5. \A e : e \in EndsOf(g, r) <=> e \in EndsOf(h, r) \/ e = <<Own, n + 1, k>>
  BY <1>4, EndsAre
<1>6. EndsOf(g, r) = EndsOf(h, r) \cup {<<Own, n + 1, k>>}
  BY <1>5
<1>7. <<Own, n + 1, k>>[3] = k
  OBVIOUS
<1>8. QED  BY <1>6, <1>7 DEF g

WithNumber(r, p, k) == [r EXCEPT ![p] = Append(@, k)]

\* ... or for a region, which may have been pushed without a record.
LEMMA RegionAdded ==
  ASSUME NEW h \in Seq(Nat), NEW r \in RegionMap, NEW p \in Names,
         NEW k \in Nat \cup {NoRecord}
  PROVE  /\ WithNumber(r, p, k) \in RegionMap
         /\ k = NoRecord => EndsOf(h, WithNumber(r, p, k)) = EndsOf(h, r)
         /\ k # NoRecord =>
              \E e : e[3] = k /\ EndsOf(h, WithNumber(r, p, k)) = EndsOf(h, r) \cup {e}
<1> DEFINE T == Nat \cup {NoRecord}
           q == r[p]
           n == Len(q)
           g == Append(q, k)
           s == WithNumber(r, p, k)
<1>1. r \in [Names -> Seq(T)] /\ q \in Seq(T)
  BY DEF RegionMap
<1> HIDE DEF T, q
<1>2. k \in T
  BY DEF T
<1>3. /\ n \in Nat /\ DOMAIN q = 1 .. n /\ DOMAIN g = 1 .. n + 1 /\ g \in Seq(T)
      /\ g[n + 1] = k /\ \A j \in 1 .. n : g[j] = q[j]
  BY <1>1, <1>2
<1> HIDE DEF g
<1>4. s \in [Names -> Seq(T)] /\ s[p] = g /\ \A m \in Names \ {p} : s[m] = r[m]
  <2>1. s = [r EXCEPT ![p] = g]
    BY DEF WithNumber, g, q
  <2> HIDE DEF s
  <2>2. QED  BY <1>1, <1>3, <2>1
<1> HIDE DEF s, n
<1>5. \A j \in 1 .. n + 1 : j \in 1 .. n \/ j = n + 1
  BY <1>3
<1>6. n + 1 \in 1 .. n + 1 /\ \A j \in 1 .. n : j \in 1 .. n + 1
  BY <1>3
<1> DEFINE In(e, u, m) == \E j \in DOMAIN u[m] : u[m][j] # NoRecord /\ e = <<m, j, u[m][j]>>
<1>7. \A e : In(e, s, p) <=> In(e, r, p) \/ (k # NoRecord /\ e = <<p, n + 1, k>>)
  BY <1>3, <1>4, <1>5, <1>6 DEF q
<1>8. \A e : \A m \in Names \ {p} : In(e, s, m) <=> In(e, r, m)
  BY <1>4
<1>9. /\ \A e : e \in EndsOf(h, s) <=>
            (\E j \in DOMAIN h : e = <<Own, j, h[j]>>) \/ \E m \in Names : In(e, s, m)
      /\ \A e : e \in EndsOf(h, r) <=>
            (\E j \in DOMAIN h : e = <<Own, j, h[j]>>) \/ \E m \in Names : In(e, r, m)
  BY EndsAre
<1> HIDE DEF In
<1>10. \A e : e \in EndsOf(h, s) <=> e \in EndsOf(h, r) \/ (k # NoRecord /\ e = <<p, n + 1, k>>)
  BY <1>7, <1>8, <1>9
<1>11. k = NoRecord => EndsOf(h, s) = EndsOf(h, r)
  BY <1>10
<1>12. k # NoRecord => EndsOf(h, s) = EndsOf(h, r) \cup {<<p, n + 1, k>>}
  BY <1>10
<1>13. <<p, n + 1, k>>[3] = k
  OBVIOUS
<1>14. s \in RegionMap
  BY <1>4 DEF T, RegionMap
<1>15. QED  BY <1>11, <1>12, <1>13, <1>14 DEF s

\* The last number of a region leaves.
LEMMA RegionDropped ==
  ASSUME NEW h \in Seq(Nat), NEW r \in RegionMap, NEW p \in Names, r[p] # <<>>
  PROVE  LET s == [r EXCEPT ![p] = Front(@)]
             e == <<p, Len(r[p]), Last(r[p])>>
         IN
         /\ s \in RegionMap /\ Last(r[p]) \in Nat \cup {NoRecord}
         /\ EndsOf(h, s) = EndsOf(h, r) \ {e}
         /\ e \in EndsOf(h, r) <=> Last(r[p]) # NoRecord
<1> DEFINE T == Nat \cup {NoRecord}
           q == r[p]
           n == Len(q)
           k == Last(q)
           g == Front(q)
           s == [r EXCEPT ![p] = g]
<1>1. r \in [Names -> Seq(T)] /\ q \in Seq(T)
  BY DEF RegionMap
<1> HIDE DEF T
<1>2. /\ n \in Nat \ {0} /\ g \in Seq(T) /\ Len(g) = n - 1 /\ k = q[n] /\ k \in T
      /\ \A j \in 1 .. n - 1 : g[j] = q[j]
  BY <1>1, DropLast
<1>3. DOMAIN q = 1 .. n /\ DOMAIN g = 1 .. n - 1
  BY <1>1, <1>2, LenProperties
<1> HIDE DEF g, n, k, q
<1>4. s \in [Names -> Seq(T)] /\ s[p] = g /\ \A m \in Names \ {p} : s[m] = r[m]
  BY <1>1, <1>2
<1> HIDE DEF s
<1>5. n \in 1 .. n /\ \A j \in 1 .. n : j \in 1 .. n - 1 <=> j # n
  BY <1>2
<1>6. \A j \in 1 .. n - 1 : j \in 1 .. n
  BY <1>2
<1> DEFINE In(e, u, m) == \E j \in DOMAIN u[m] : u[m][j] # NoRecord /\ e = <<m, j, u[m][j]>>
<1>7. \A e : In(e, s, p) <=> In(e, r, p) /\ e # <<p, n, k>>
  BY <1>2, <1>3, <1>4, <1>5, <1>6 DEF q
<1>8. \A e : \A m \in Names \ {p} : /\ In(e, s, m) <=> In(e, r, m)
                                    /\ In(e, r, m) => e # <<p, n, k>>
  BY <1>4
<1>9. In(<<p, n, k>>, r, p) <=> k # NoRecord
  BY <1>2, <1>3, <1>5 DEF q
<1>10. /\ \A e : e \in EndsOf(h, s) <=>
             (\E j \in DOMAIN h : e = <<Own, j, h[j]>>) \/ \E m \in Names : In(e, s, m)
       /\ \A e : e \in EndsOf(h, r) <=>
             (\E j \in DOMAIN h : e = <<Own, j, h[j]>>) \/ \E m \in Names : In(e, r, m)
  BY EndsAre
<1>11. \A e : (\E j \in DOMAIN h : e = <<Own, j, h[j]>>) => e # <<p, n, k>>
  BY RecordsAssumption
<1> HIDE DEF In
<1>12. \A e : e \in EndsOf(h, s) <=> e \in EndsOf(h, r) /\ e # <<p, n, k>>
  BY <1>7, <1>8, <1>10, <1>11
<1>13. <<p, n, k>> \in EndsOf(h, r) <=> k # NoRecord
  BY <1>8, <1>9, <1>10, <1>11
<1>14. EndsOf(h, s) = EndsOf(h, r) \ {<<p, n, k>>}
  BY <1>12
<1>15. QED  BY <1>2, <1>4, <1>13, <1>14 DEF s, g, n, k, q, T, RegionMap

\* A list without its entry j.
LEMMA EntryRemoved ==
  ASSUME NEW h \in Seq(Nat), NEW j \in DOMAIN h
  PROVE  /\ RemoveAt(h, j) \in Seq(Nat) /\ Len(h) \in Nat \ {0} /\ DOMAIN h = 1 .. Len(h)
         /\ DOMAIN RemoveAt(h, j) = 1 .. Len(h) - 1
         /\ \A k \in 1 .. Len(h) - 1 : RemoveAt(h, j)[k] = IF k < j THEN h[k] ELSE h[k + 1]
<1> DEFINE n == Len(h)
           a == SubSeq(h, 1, j - 1)
           b == SubSeq(h, j + 1, n)
<1>1. n \in Nat /\ DOMAIN h = 1 .. n /\ j \in 1 .. n /\ \A k \in 1 .. n : h[k] \in Nat
  BY LenProperties, ElementOfSeq
<1>2. a = [k \in 1 .. j - 1 |-> h[k]]
  BY <1>1
<1>3. a \in Seq(Nat) /\ Len(a) = j - 1 /\ \A k \in 1 .. j - 1 : a[k] = h[k]
  BY <1>1, <1>2
<1>4. b = [k \in 1 .. n - j |-> h[j + k]]
  <2>1. b = [k \in 1 .. (1 + n) - (j + 1) |-> h[(k + (j + 1)) - 1]]
    BY SMTT(30), <1>1
  <2>2. (1 + n) - (j + 1) = n - j /\ \A k \in 1 .. n - j : (k + (j + 1)) - 1 = j + k
    BY <1>1
  <2>3. QED  BY <2>1, <2>2
<1>5. \A k \in 1 .. n - j : j + k \in 1 .. n
  BY <1>1
<1>6. b \in Seq(Nat) /\ Len(b) = n - j /\ \A k \in 1 .. n - j : b[k] = h[j + k]
  <2>1. n - j \in Nat
    BY <1>1
  <2>2. b \in [1 .. n - j -> Nat]
    BY <1>1, <1>4, <1>5
  <2>3. b \in Seq(Nat) /\ Len(b) = n - j
    BY <2>1, <2>2, IsASeq, LenProperties
  <2>4. QED  BY <2>3, <1>4
<1> HIDE DEF a, b, n
<1>7. /\ a \o b \in Seq(Nat) /\ Len(a \o b) = n - 1
      /\ \A k \in 1 .. n - 1 : (a \o b)[k] = IF k < j THEN h[k] ELSE h[k + 1]
  <2>1. /\ a \o b \in Seq(Nat) /\ Len(a \o b) = Len(a) + Len(b)
        /\ \A k \in 1 .. Len(a) + Len(b) :
             (a \o b)[k] = IF k <= Len(a) THEN a[k] ELSE b[k - Len(a)]
    BY <1>3, <1>6, ConcatProperties
  <2>2. Len(a) + Len(b) = n - 1
    BY <1>1, <1>3, <1>6
  <2>3. ASSUME NEW k \in 1 .. n - 1 PROVE (a \o b)[k] = IF k < j THEN h[k] ELSE h[k + 1]
    <3>1. CASE k < j
      <4>1. k <= Len(a) /\ k \in 1 .. j - 1
        BY <3>1, <1>1, <1>3
      <4>2. QED  BY <4>1, <3>1, <2>1, <2>2, <1>3
    <3>2. CASE ~(k < j)
      <4>1. ~(k <= Len(a)) /\ k - Len(a) \in 1 .. n - j /\ j + (k - Len(a)) = k + 1
        BY <3>2, <1>1, <1>3
      <4>2. QED  BY <4>1, <3>2, <2>1, <2>2, <1>6
    <3>3. QED  BY <3>1, <3>2
  <2>4. QED  BY <2>1, <2>2, <2>3
<1>8. RemoveAt(h, j) = a \o b
  BY DEF RemoveAt, a, b, n
<1>9. DOMAIN (a \o b) = 1 .. n - 1 /\ n # 0
  BY <1>1, <1>7, LenProperties
<1>10. QED  BY <1>1, <1>7, <1>8, <1>9 DEF n

\* A number of the thread's own is ended, the later ones move up.
LEMMA HandleDropped ==
  ASSUME NEW h \in Seq(Nat), NEW r \in RegionMap, NEW j \in DOMAIN h, Distinct(EndsOf(h, r))
  PROVE  /\ Distinct(EndsOf(RemoveAt(h, j), r))
         /\ NumbersOf(EndsOf(RemoveAt(h, j), r)) = NumbersOf(EndsOf(h, r)) \ {h[j]}
<1> DEFINE n == Len(h)
           g == RemoveAt(h, j)
           E == EndsOf(h, r)
           F == EndsOf(g, r)
           old(k) == IF k < j THEN k ELSE k + 1
           InRegion(e) == \E m \in Names : \E k \in DOMAIN r[m] :
                            r[m][k] # NoRecord /\ e = <<m, k, r[m][k]>>
<1>1. n \in Nat \ {0} /\ DOMAIN h = 1 .. n /\ DOMAIN g = 1 .. n - 1 /\ j \in 1 .. n
      /\ \A k \in 1 .. n - 1 : g[k] = IF k < j THEN h[k] ELSE h[k + 1]
  BY EntryRemoved
<1>2. \A e : e \in E <=> (\E k \in DOMAIN h : e = <<Own, k, h[k]>>) \/ InRegion(e)
  BY EndsAre
<1>3. \A e : e \in F <=> (\E k \in DOMAIN g : e = <<Own, k, g[k]>>) \/ InRegion(e)
  BY EndsAre
<1>4. \A e, f \in E : e[3] = f[3] => e = f
  BY DEF Distinct
<1>5. \A e : InRegion(e) => e[1] # Own
  BY RecordsAssumption
<1> HIDE DEF n, g, E, F, InRegion
<1>6. /\ \A k \in 1 .. n - 1 : old(k) \in 1 .. n /\ old(k) # j /\ g[k] = h[old(k)]
      /\ \A k, l \in 1 .. n - 1 : old(k) = old(l) => k = l
      /\ \A i \in (1 .. n) \ {j} : \E k \in 1 .. n - 1 : old(k) = i
  <2>1. \A k \in 1 .. n - 1 : old(k) \in 1 .. n /\ old(k) # j
    BY <1>1
  <2>2. \A k \in 1 .. n - 1 : g[k] = h[old(k)]
    BY <1>1
  <2>3. \A k, l \in 1 .. n - 1 : old(k) = old(l) => k = l
    BY <1>1
  <2>4. ASSUME NEW i \in (1 .. n) \ {j} PROVE \E k \in 1 .. n - 1 : old(k) = i
    <3>1. CASE i < j
      <4>1. i \in 1 .. n - 1 /\ old(i) = i
        BY <3>1, <1>1
      <4>2. QED  BY <4>1
    <3>2. CASE ~(i < j)
      <4>1. i - 1 \in 1 .. n - 1 /\ old(i - 1) = i
        BY <3>2, <1>1
      <4>2. QED  BY <4>1
    <3>3. QED  BY <3>1, <3>2
  <2>5. QED  BY <2>1, <2>2, <2>3, <2>4
<1> HIDE DEF old
<1>7. \A i \in 1 .. n : <<Own, i, h[i]>> \in E
  BY <1>1, <1>2
<1>8. \A i, k \in 1 .. n : h[i] = h[k] => i = k
  <2>1. SUFFICES ASSUME NEW i \in 1 .. n, NEW k \in 1 .. n, h[i] = h[k] PROVE i = k
    OBVIOUS
  <2>2. <<Own, i, h[i]>> = <<Own, k, h[k]>>
    BY <2>1, <1>4, <1>7
  <2>3. QED  BY <2>2
<1>9. \A e : InRegion(e) => \A i \in 1 .. n : e[3] # h[i]
  <2>1. SUFFICES ASSUME NEW e, InRegion(e), NEW i \in 1 .. n, e[3] = h[i] PROVE FALSE
    OBVIOUS
  <2>2. e \in E
    BY <2>1, <1>2
  <2>3. e = <<Own, i, h[i]>>
    BY <2>1, <2>2, <1>4, <1>7
  <2>4. QED  BY <2>1, <2>3, <1>5
<1>10. \A e, f \in F : e[3] = f[3] => e = f
  <2>1. SUFFICES ASSUME NEW e \in F, NEW f \in F, e[3] = f[3] PROVE e = f
    OBVIOUS
  <2>2. CASE InRegion(e) /\ InRegion(f)
    BY <2>1, <2>2, <1>2, <1>4
  <2>3. CASE ~InRegion(e)
    <3>1. PICK k \in 1 .. n - 1 : e = <<Own, k, g[k]>>
      BY <2>1, <2>3, <1>1, <1>3
    <3>2. e[3] = h[old(k)] /\ old(k) \in 1 .. n
      BY <3>1, <1>6
    <3>3. ~InRegion(f)
      BY <2>1, <3>2, <1>9
    <3>4. PICK l \in 1 .. n - 1 : f = <<Own, l, g[l]>>
      BY <2>1, <3>3, <1>1, <1>3
    <3>5. k = l
      BY <2>1, <3>1, <3>2, <3>4, <1>6, <1>8
    <3>6. QED  BY <3>1, <3>4, <3>5
  <2>4. CASE ~InRegion(f)
    <3>1. PICK k \in 1 .. n - 1 : f = <<Own, k, g[k]>>
      BY <2>1, <2>4, <1>1, <1>3
    <3>2. f[3] = h[old(k)] /\ old(k) \in 1 .. n
      BY <3>1, <1>6
    <3>3. ~InRegion(e)
      BY <2>1, <3>2, <1>9
    <3>4. QED  BY <3>3, <2>3
  <2>5. QED  BY <2>2, <2>3, <2>4
<1>11. IsFiniteSet(F)
  <2> DEFINE D == 1 .. n - 1
             T == {<<Own, k, g[k]>> : k \in D}
             f == [k \in D |-> <<Own, k, g[k]>>]
  <2>1. IsFiniteSet(D)
    BY <1>1, FS_Interval
  <2>2. f \in Surjection(D, T)
    BY DEF Surjection
  <2>3. IsFiniteSet(T)
    BY <2>1, <2>2, FS_Surjection
  <2>4. IsFiniteSet(E)
    BY DEF Distinct, E
  <2>5. IsFiniteSet(T \cup E)
    BY <2>3, <2>4, FS_Union
  <2>6. F \subseteq T \cup E
    BY <1>1, <1>2, <1>3
  <2>7. QED  BY <2>5, <2>6, FS_Subset
<1>12. NumbersOf(F) = NumbersOf(E) \ {h[j]}
  <2>1. ASSUME NEW e \in F PROVE e[3] \in NumbersOf(E) \ {h[j]}
    <3>1. CASE InRegion(e)
      BY <3>1, <1>1, <1>2, <1>9 DEF NumbersOf
    <3>2. CASE ~InRegion(e)
      <4>1. PICK k \in 1 .. n - 1 : e = <<Own, k, g[k]>>
        BY <3>2, <1>1, <1>3
      <4>2. e[3] = h[old(k)] /\ old(k) \in 1 .. n /\ old(k) # j
        BY <4>1, <1>6
      <4>3. h[old(k)] # h[j]
        BY <4>2, <1>1, <1>8
      <4>4. <<Own, old(k), h[old(k)]>> \in E
        BY <4>2, <1>7
      <4>5. h[old(k)] \in NumbersOf(E)
        BY <4>4 DEF NumbersOf
      <4>6. QED  BY <4>2, <4>3, <4>5
    <3>3. QED  BY <3>1, <3>2
  <2>2. ASSUME NEW e \in E, e[3] # h[j] PROVE e[3] \in NumbersOf(F)
    <3>1. CASE InRegion(e)
      BY <3>1, <1>3 DEF NumbersOf
    <3>2. CASE ~InRegion(e)
      <4>1. PICK i \in 1 .. n : e = <<Own, i, h[i]>>
        BY <3>2, <1>1, <1>2
      <4>2. i # j /\ e[3] = h[i]
        BY <4>1, <2>2
      <4>3. PICK k \in 1 .. n - 1 : old(k) = i
        BY <4>2, <1>6
      <4>4. <<Own, k, g[k]>> \in F /\ g[k] = h[i]
        BY <4>3, <1>1, <1>3, <1>6
      <4>5. QED  BY <4>2, <4>4 DEF NumbersOf
    <3>3. QED  BY <3>1, <3>2
  <2>3. QED  BY <2>1, <2>2 DEF NumbersOf
<1>13. QED  BY <1>10, <1>11, <1>12 DEF Distinct, E, F, g

\* A step that leaves thread t with the numbers h, the regions r and the records s.
LEMMA RecordSteps ==
  ASSUME RecordsInv, NEW t \in Threads, NEW h \in Seq(Nat), NEW r \in RegionMap,
         NEW s \in SUBSET Nat,
         handles' = [handles EXCEPT ![t] = h], regions' = [regions EXCEPT ![t] = r],
         records' = [records EXCEPT ![t] = s],
         \A u \in Threads \ {t} : u \in ended' <=> u \in ended,
         UNCHANGED <<uniqID, overtaken, creating, issued>>,
         ~overtaken => /\ NumbersOf(EndsOf(h, r)) \subseteq issued[t]
                       /\ Paired(EndsOf(h, r), s, t \in ended')
  PROVE  RecordsInv'
<1>1. /\ handles \in [Threads -> Seq(Nat)] /\ regions \in [Threads -> RegionMap]
      /\ records \in [Threads -> SUBSET Nat]
  BY DEF RecordsInv, RecordsShape
<1>2. RecordsShape'
  <2>1. handles' \in [Threads -> Seq(Nat)] /\ regions' \in [Threads -> RegionMap]
    BY <1>1
  <2>2. records' \in [Threads -> SUBSET Nat]
    BY <1>1
  <2>3. QED  BY <2>1, <2>2 DEF RecordsInv, RecordsShape
<1>3. ~overtaken' => Increasing'
  BY DEF RecordsInv, Increasing
<1>4. ASSUME ~overtaken', NEW u \in Threads
      PROVE  LET E == EndsOf(handles'[u], regions'[u]) IN
             NumbersOf(E) \subseteq issued'[u] /\ Paired(E, records'[u], u \in ended')
  <2>1. CASE u = t
    <3>1. handles'[u] = h /\ regions'[u] = r /\ records'[u] = s
      BY <2>1, <1>1
    <3>2. QED  BY <2>1, <3>1, <1>4
  <2>2. CASE u # t
    <3>1. /\ handles'[u] = handles[u] /\ regions'[u] = regions[u] /\ records'[u] = records[u]
          /\ u \in ended' <=> u \in ended
      BY <2>2, <1>1
    <3>2. /\ NumbersOf(EndsOf(handles[u], regions[u])) \subseteq issued[u]
          /\ Paired(EndsOf(handles[u], regions[u]), records[u], u \in ended)
      BY <1>4 DEF RecordsInv
    <3>3. QED  BY <3>1, <3>2 DEF Paired
  <2>3. QED  BY <2>1, <2>2
<1>5. QED  BY <1>2, <1>3, <1>4 DEF RecordsInv

\* What the invariant says of one thread.
LEMMA OfRecords ==
  ASSUME RecordsInv, NEW t \in Threads
  PROVE  /\ handles[t] \in Seq(Nat) /\ regions[t] \in RegionMap
         /\ records[t] \in SUBSET Nat /\ issued[t] \in SUBSET Nat
         /\ handles = [handles EXCEPT ![t] = handles[t]]
         /\ regions = [regions EXCEPT ![t] = regions[t]]
         /\ records = [records EXCEPT ![t] = records[t]]
         /\ ~overtaken => LET E == EndsOf(handles[t], regions[t]) IN
              NumbersOf(E) \subseteq issued[t] /\ Paired(E, records[t], t \in ended)
<1>1. /\ handles \in [Threads -> Seq(Nat)] /\ regions \in [Threads -> RegionMap]
      /\ records \in [Threads -> SUBSET Nat] /\ issued \in [Threads -> SUBSET Nat]
  BY DEF RecordsInv, RecordsShape
<1>2. QED  BY <1>1 DEF RecordsInv

\* An end leaves, and its record with it.
LEMMA PairDropped ==
  ASSUME NEW E, NEW F, NEW s, NEW isEnded, NEW k, Paired(E, s, isEnded),
         Distinct(F), NumbersOf(F) = NumbersOf(E) \ {k}
  PROVE  Paired(F, s \ {k}, isEnded)
BY DEF Paired

\* A record is ended by its number.
LEMMA EndRecordStep ==
  ASSUME RecordsInv, NEW t \in Threads, NEW j, EndRecord(t, j)
  PROVE  RecordsInv'
<1> DEFINE h == RemoveAt(handles[t], j)
           r == regions[t]
           k == handles[t][j]
           s == records[t] \ {k}
<1>1. /\ handles[t] \in Seq(Nat) /\ r \in RegionMap /\ records[t] \in SUBSET Nat
      /\ ~overtaken => /\ NumbersOf(EndsOf(handles[t], r)) \subseteq issued[t]
                       /\ Paired(EndsOf(handles[t], r), records[t], t \in ended)
  BY OfRecords
<1>2. j \in DOMAIN handles[t]
  BY DEF EndRecord
<1>3. h \in Seq(Nat)
  BY <1>1, <1>2, EntryRemoved
<1>4. ASSUME ~overtaken
      PROVE  /\ NumbersOf(EndsOf(h, r)) \subseteq issued[t]
             /\ Paired(EndsOf(h, r), s, t \in ended)
  <2>1. Distinct(EndsOf(handles[t], r))
    BY <1>1, <1>4 DEF Paired
  <2>2. /\ Distinct(EndsOf(h, r))
        /\ NumbersOf(EndsOf(h, r)) = NumbersOf(EndsOf(handles[t], r)) \ {k}
    BY <1>1, <1>2, <2>1, HandleDropped
  <2> HIDE DEF h, k, r
  <2>3. Paired(EndsOf(h, r), s, t \in ended)
    BY <1>1, <1>4, <2>2, PairDropped
  <2>4. QED  BY <1>1, <1>4, <2>2, <2>3
<1>5. /\ handles' = [handles EXCEPT ![t] = h] /\ records' = [records EXCEPT ![t] = s]
      /\ regions' = regions /\ ended' = ended /\ UNCHANGED <<uniqID, overtaken, creating, issued>>
  <2>1. handles \in [Threads -> Seq(Nat)] /\ records \in [Threads -> SUBSET Nat]
    BY DEF RecordsInv, RecordsShape
  <2>2. QED  BY <2>1 DEF EndRecord, DeleteRecord
<1>6. regions' = [regions EXCEPT ![t] = r]
  BY <1>5, OfRecords
<1>7. s \in SUBSET Nat
  BY <1>1
<1> HIDE DEF h, r, s
<1>8. QED  BY <1>1, <1>3, <1>4, <1>5, <1>6, <1>7, RecordSteps

\* The newest record of a region is ended.
LEMMA PopRegionStep ==
  ASSUME RecordsInv, NEW t \in Threads, NEW n \in Names, PopRegion(t, n)
  PROVE  RecordsInv'
<1> DEFINE h == handles[t]
           q == regions[t]
           r == [q EXCEPT ![n] = Front(@)]
           k == Last(q[n])
           s == records[t] \ {k}
           e == <<n, Len(q[n]), k>>
<1>1. /\ h \in Seq(Nat) /\ q \in RegionMap /\ records[t] \in SUBSET Nat
      /\ issued[t] \in SUBSET Nat
      /\ ~overtaken => /\ NumbersOf(EndsOf(h, q)) \subseteq issued[t]
                       /\ Paired(EndsOf(h, q), records[t], t \in ended)
  BY OfRecords
<1>2. q[n] # <<>>
  BY DEF PopRegion
<1>3. /\ r \in RegionMap /\ EndsOf(h, r) = EndsOf(h, q) \ {e}
      /\ e \in EndsOf(h, q) <=> k # NoRecord
  BY <1>1, <1>2, RegionDropped
<1>4. /\ regions' = [regions EXCEPT ![t] = r] /\ records' = [records EXCEPT ![t] = s]
      /\ handles' = handles /\ ended' = ended /\ UNCHANGED <<uniqID, overtaken, creating, issued>>
  <2>1. regions \in [Threads -> RegionMap] /\ records \in [Threads -> SUBSET Nat]
    BY DEF RecordsInv, RecordsShape
  <2>2. regions' = [regions EXCEPT ![t] = r]
    BY <2>1 DEF PopRegion
  <2>3. QED  BY <2>2 DEF PopRegion, DeleteRecord
<1>5. e[3] = k
  OBVIOUS
<1>6. handles' = [handles EXCEPT ![t] = h]
  BY <1>4, OfRecords
<1>7. s \in SUBSET Nat
  BY <1>1
<1> HIDE DEF h, q, r, e, k
<1>8. ASSUME ~overtaken
      PROVE  /\ NumbersOf(EndsOf(h, r)) \subseteq issued[t]
             /\ Paired(EndsOf(h, r), s, t \in ended)
  <2>1. Distinct(EndsOf(h, q))
    BY <1>1, <1>8 DEF Paired
  <2>2. CASE k # NoRecord
    <3>1. Distinct(EndsOf(h, r)) /\ NumbersOf(EndsOf(h, r)) = NumbersOf(EndsOf(h, q)) \ {k}
      BY <1>3, <1>5, <2>1, <2>2, EndDropped
    <3>2. Paired(EndsOf(h, r), s, t \in ended)
      BY <1>1, <1>8, <3>1, PairDropped
    <3>3. QED  BY <1>1, <1>8, <3>1, <3>2
  <2>3. CASE k = NoRecord
    <3>1. EndsOf(h, r) = EndsOf(h, q)
      BY <1>3, <2>3
    <3>2. s = records[t]
      BY <1>1, <2>3, RecordsAssumption
    <3>3. QED  BY <1>1, <1>8, <3>1, <3>2
  <2>4. QED  BY <2>2, <2>3
<1> HIDE DEF s
<1>9. QED  BY <1>1, <1>3, <1>4, <1>6, <1>7, <1>8, RecordSteps

\* A region is pushed while paused.
LEMMA PushPausedStep ==
  ASSUME RecordsInv, NEW t \in Threads, NEW n \in Names, PushRegionPaused(t, n)
  PROVE  RecordsInv'
<1> DEFINE h == handles[t]
           q == regions[t]
           r == [q EXCEPT ![n] = Append(@, NoRecord)]
           s == records[t]
<1>1. /\ h \in Seq(Nat) /\ q \in RegionMap /\ s \in SUBSET Nat
      /\ ~overtaken => /\ NumbersOf(EndsOf(h, q)) \subseteq issued[t]
                       /\ Paired(EndsOf(h, q), s, t \in ended)
  BY OfRecords
<1>2. r \in RegionMap /\ EndsOf(h, r) = EndsOf(h, q)
  <2> DEFINE k == NoRecord
  <2>1. k \in Nat \cup {NoRecord} /\ k = NoRecord /\ r = WithNumber(q, n, k)
    BY DEF WithNumber
  <2> HIDE DEF h, q, r, k
  <2>2. QED  BY <1>1, <2>1, RegionAdded
<1>3. /\ regions' = [regions EXCEPT ![t] = r]
      /\ handles' = handles /\ records' = records /\ ended' = ended
      /\ UNCHANGED <<uniqID, overtaken, creating, issued>>
  <2>1. regions \in [Threads -> RegionMap]
    BY DEF RecordsInv, RecordsShape
  <2>2. regions' = [regions EXCEPT ![t] = r]
    BY <2>1 DEF PushRegionPaused
  <2>3. QED  BY <2>2 DEF PushRegionPaused
<1>4. handles' = [handles EXCEPT ![t] = h] /\ records' = [records EXCEPT ![t] = s]
  BY <1>3, OfRecords
<1> HIDE DEF h, q, r, s
<1>5. QED  BY <1>1, <1>2, <1>3, <1>4, RecordSteps

\* A thread finalises the library.
LEMMA FinalizeStep ==
  ASSUME RecordsInv, NEW t \in Threads, Finalize(t)
  PROVE  RecordsInv'
<1> DEFINE h == handles[t]
           r == regions[t]
           reaches == FinalizeReaches(records[t] = {})
           s == IF reaches THEN {} ELSE records[t]
<1>1. /\ h \in Seq(Nat) /\ r \in RegionMap /\ records[t] \in SUBSET Nat
      /\ ~overtaken => /\ NumbersOf(EndsOf(h, r)) \subseteq issued[t]
                       /\ Paired(EndsOf(h, r), records[t], t \in ended)
  BY OfRecords
<1>2. /\ records' = (IF reaches THEN [records EXCEPT ![t] = {}] ELSE records)
      /\ ended' = (IF reaches THEN ended \cup {t} ELSE ended)
      /\ handles' = handles /\ regions' = regions
      /\ UNCHANGED <<uniqID, overtaken, creating, issued>>
  BY DEF Finalize
<1>3. /\ handles' = [handles EXCEPT ![t] = h] /\ regions' = [regions EXCEPT ![t] = r]
      /\ records = [records EXCEPT ![t] = records[t]]
  BY <1>2, OfRecords
<1> HIDE DEF h, r, reaches
<1>4. records' = [records EXCEPT ![t] = s] /\ s \in SUBSET Nat
  BY <1>1, <1>2, <1>3
<1>5. /\ \A u \in Threads \ {t} : u \in ended' <=> u \in ended
      /\ reaches => t \in ended'
      /\ ~reaches => ended' = ended
  BY <1>2
<1>6. ~overtaken => /\ NumbersOf(EndsOf(h, r)) \subseteq issued[t]
                    /\ Paired(EndsOf(h, r), s, t \in ended')
  <2>1. CASE reaches
    BY <2>1, <1>1, <1>5 DEF Paired
  <2>2. CASE ~reaches
    BY <2>2, <1>1, <1>5
  <2>3. QED  BY <2>1, <2>2
<1> HIDE DEF s
<1>7. QED  BY <1>1, <1>2, <1>3, <1>4, <1>5, <1>6, RecordSteps

\* The counter is read: the number is above those the thread was given.
LEMMA BeginStep ==
  ASSUME RecordsInv, NEW t \in Threads, NEW p \in Purposes, Begin(t, p)
  PROVE  RecordsInv'
<1> DEFINE c == [number |-> uniqID, purpose |-> p]
<1>1. /\ creating' = [creating EXCEPT ![t] = c]
      /\ UNCHANGED <<uniqID, records, regions, handles, issued, overtaken, ended>>
  BY DEF Begin
<1>2. uniqID \in Nat /\ creating \in [Threads -> Creation] /\ issued \in [Threads -> SUBSET Nat]
  BY DEF RecordsInv, RecordsShape
<1>3. c \in Creation /\ c.number = uniqID
  BY <1>2 DEF Creation
<1> HIDE DEF c
<1>4. /\ creating' \in [Threads -> Creation] /\ creating'[t] = c
      /\ \A u \in Threads \ {t} : creating'[u] = creating[u]
  BY <1>1, <1>2, <1>3
<1>5. \A u \in Threads : creating'[u] # Idle => creating'[u].number \in Nat
  BY <1>2, <1>3, <1>4 DEF RecordsInv, RecordsShape
<1>6. RecordsShape'
  BY <1>1, <1>4, <1>5 DEF RecordsInv, RecordsShape
<1>7. ASSUME ~overtaken' PROVE Increasing'
  <2>1. ~overtaken /\ Increasing
    BY <1>1, <1>7 DEF RecordsInv
  <2>2. ASSUME NEW u \in Threads
        PROVE  /\ \A k \in issued[u] : k < uniqID
               /\ creating'[u] # Idle => /\ creating'[u].number <= uniqID
                                         /\ \A k \in issued[u] : k < creating'[u].number
    <3>1. CASE u = t
      BY <3>1, <2>1, <1>2, <1>3, <1>4 DEF Increasing
    <3>2. CASE u # t
      BY <3>2, <2>1, <1>4 DEF Increasing
    <3>3. QED  BY <3>1, <3>2
  <2>3. QED  BY <2>2, <1>1 DEF Increasing
<1>8. ~overtaken' => \A u \in Threads : LET E == EndsOf(handles'[u], regions'[u]) IN
        NumbersOf(E) \subseteq issued'[u] /\ Paired(E, records'[u], u \in ended')
  BY <1>1 DEF RecordsInv
<1>9. QED  BY <1>6, <1>7, <1>8 DEF RecordsInv

\* A number that was not among them is paired with its record.
LEMMA PairAdded ==
  ASSUME NEW E, NEW s, NEW isEnded, NEW e, Paired(E, s, isEnded), e[3] \notin NumbersOf(E)
  PROVE  /\ Paired(E \cup {e}, s \cup {e[3]}, isEnded)
         /\ NumbersOf(E \cup {e}) = NumbersOf(E) \cup {e[3]}
<1>1. Distinct(E)
  BY DEF Paired
<1>2. Distinct(E \cup {e}) /\ NumbersOf(E \cup {e}) = NumbersOf(E) \cup {e[3]}
  BY <1>1, EndAdded
<1>3. QED  BY <1>2 DEF Paired

\* The counter is written: unless it falls back, the number given is the largest.
LEMMA CreateKeepsIncreasing ==
  ASSUME RecordsInv, NEW t \in Threads, CreateRecord(t)
  PROVE  ~overtaken' => /\ ~overtaken /\ Increasing'
                        /\ creating[t].number \notin issued[t]
<1> DEFINE k == creating[t].number
<1>1. /\ creating[t] # Idle /\ uniqID' = k + 1 /\ overtaken' = (overtaken \/ uniqID > k + 1)
      /\ issued' = [issued EXCEPT ![t] = @ \cup {k}]
      /\ creating' = [creating EXCEPT ![t] = Idle]
  BY DEF CreateRecord, Free
<1>2. /\ uniqID \in Nat /\ creating \in [Threads -> Creation] /\ k \in Nat
      /\ issued \in [Threads -> SUBSET Nat]
      /\ \A u \in Threads : creating[u] # Idle => creating[u].number \in Nat
  BY <1>1 DEF RecordsInv, RecordsShape
<1>3. ASSUME ~overtaken' PROVE ~overtaken /\ Increasing' /\ k \notin issued[t]
  <2>1. ~overtaken /\ ~(uniqID > k + 1)
    BY <1>1, <1>3
  <2>2. Increasing
    BY <2>1 DEF RecordsInv
  <2>3. k <= uniqID /\ \A l \in issued[t] : l < k
    BY <2>2, <1>1 DEF Increasing
  <2>4. uniqID <= k + 1
    BY <2>1, <1>2
  <2>5. k \notin issued[t]
    BY <2>3, <1>2
  <2>6. ASSUME NEW u \in Threads
        PROVE  /\ \A l \in issued'[u] : l < uniqID'
               /\ creating'[u] # Idle => /\ creating'[u].number <= uniqID'
                                         /\ \A l \in issued'[u] : l < creating'[u].number
    <3>1. CASE u = t
      <4>1. issued'[u] = issued[t] \cup {k} /\ creating'[u] = Idle
        BY <3>1, <1>1, <1>2
      <4>2. \A l \in issued[t] : l \in Nat
        BY <1>2
      <4> HIDE DEF k
      <4>3. QED  BY <4>1, <4>2, <2>3, <1>1, <1>2
    <3>2. CASE u # t
      <4>1. issued'[u] = issued[u] /\ creating'[u] = creating[u]
        BY <3>2, <1>1, <1>2
      <4>2. \A l \in issued[u] : l \in Nat /\ l < uniqID
        BY <2>2, <1>2 DEF Increasing
      <4>3. creating[u] # Idle => /\ creating[u].number <= uniqID /\ creating[u].number \in Nat
                                  /\ \A l \in issued[u] : l < creating[u].number
        BY <2>2, <1>2 DEF Increasing
      <4> HIDE DEF k
      <4>4. QED  BY <4>1, <4>2, <4>3, <2>4, <1>1, <1>2
    <3>3. QED  BY <3>1, <3>2
  <2>7. Increasing'
    BY <2>6 DEF Increasing
  <2>8. QED  BY <2>1, <2>5, <2>7
<1>4. QED  BY <1>3

\* Whether for the thread itself or for a region, one pair is added.
LEMMA CreateRecordStep ==
  ASSUME RecordsInv, NEW t \in Threads, CreateRecord(t)
  PROVE  RecordsInv'
<1> DEFINE k == creating[t].number
           p == creating[t].purpose
           h == handles[t]
           q == regions[t]
           s == records[t] \cup {k}
           g == IF p = Own THEN Append(h, k) ELSE h
           r == IF p = Own THEN q ELSE [q EXCEPT ![p] = Append(@, k)]
<1>1. /\ h \in Seq(Nat) /\ q \in RegionMap /\ records[t] \in SUBSET Nat
      /\ handles = [handles EXCEPT ![t] = h] /\ regions = [regions EXCEPT ![t] = q]
      /\ ~overtaken => /\ NumbersOf(EndsOf(h, q)) \subseteq issued[t]
                       /\ Paired(EndsOf(h, q), records[t], t \in ended)
  BY OfRecords
<1>2. /\ uniqID \in Nat /\ creating \in [Threads -> Creation] /\ overtaken \in BOOLEAN
      /\ issued \in [Threads -> SUBSET Nat] /\ records \in [Threads -> SUBSET Nat]
      /\ regions \in [Threads -> RegionMap] /\ handles \in [Threads -> Seq(Nat)]
      /\ \A u \in Threads : creating[u] # Idle => creating[u].number \in Nat
  BY DEF RecordsInv, RecordsShape
<1>3. k \in Nat /\ p \in Purposes
  BY <1>2 DEF CreateRecord, Free, Creation
<1>4. k # NoRecord
  BY <1>3, RecordsAssumption
<1>5. /\ uniqID' = k + 1 /\ overtaken' \in BOOLEAN /\ ended' = ended
      /\ records' = [records EXCEPT ![t] = s]
      /\ issued' = [issued EXCEPT ![t] = @ \cup {k}]
      /\ creating' = [creating EXCEPT ![t] = Idle]
  BY <1>2 DEF CreateRecord
<1>6. handles' = [handles EXCEPT ![t] = g] /\ regions' = [regions EXCEPT ![t] = r]
  <2>1. CASE p = Own
    <3>1. handles' = [handles EXCEPT ![t] = Append(h, k)] /\ regions' = regions
      BY <2>1, <1>2 DEF CreateRecord
    <3>2. QED  BY <3>1, <2>1, <1>1
  <2>2. CASE p # Own
    <3>1. handles' = handles /\ regions' = [regions EXCEPT ![t][p] = Append(@, k)]
      BY <2>2 DEF CreateRecord
    <3>2. regions' = [regions EXCEPT ![t] = [q EXCEPT ![p] = Append(@, k)]]
      BY <3>1, <1>2
    <3>3. QED  BY <3>1, <3>2, <2>2, <1>1
  <2>3. QED  BY <2>1, <2>2
<1>7. ~overtaken' => ~overtaken /\ Increasing' /\ k \notin issued[t]
  BY CreateKeepsIncreasing
<1> HIDE DEF k, p, h, q
<1>8. /\ g \in Seq(Nat) /\ r \in RegionMap
      /\ \E e : e[3] = k /\ EndsOf(g, r) = EndsOf(h, q) \cup {e}
  <2>1. CASE p = Own
    <3>1. g = Append(h, k) /\ r = q
      BY <2>1
    <3>2. \E e : e[3] = k /\ EndsOf(Append(h, k), q) = EndsOf(h, q) \cup {e}
      BY <1>1, <1>3, HandleAdded
    <3>3. Append(h, k) \in Seq(Nat)
      BY <1>1, <1>3
    <3> HIDE DEF g, r
    <3>4. QED  BY <3>1, <3>2, <3>3, <1>1
  <2>2. CASE p # Own
    <3>1. p \in Names /\ k \in Nat \cup {NoRecord}
      BY <2>2, <1>3 DEF Purposes
    <3>2. g = h /\ r = WithNumber(q, p, k)
      BY <2>2 DEF WithNumber
    <3> HIDE DEF g, r
    <3>3. r \in RegionMap /\ \E e : e[3] = k /\ EndsOf(h, r) = EndsOf(h, q) \cup {e}
      BY <3>1, <3>2, <1>1, <1>4, RegionAdded
    <3>4. QED  BY <3>2, <3>3, <1>1
  <2>3. QED  BY <2>1, <2>2
<1>9. s \in SUBSET Nat
  BY <1>1, <1>3
<1> HIDE DEF g, r
<1>10. RecordsShape'
  <2>1. handles' \in [Threads -> Seq(Nat)] /\ regions' \in [Threads -> RegionMap]
    BY <1>2, <1>6, <1>8
  <2>2. records' \in [Threads -> SUBSET Nat]
    BY <1>2, <1>5, <1>9
  <2>3. issued' \in [Threads -> SUBSET Nat]
    BY <1>2, <1>3, <1>5
  <2>4. Idle \in Creation
    BY DEF Idle, Creation, Purposes
  <2>5. /\ creating' \in [Threads -> Creation]
        /\ \A u \in Threads : creating'[u] # Idle => creating'[u].number \in Nat
    BY <1>2, <1>5, <2>4
  <2>6. uniqID' \in Nat
    BY <1>3, <1>5
  <2>7. QED  BY <1>5, <2>1, <2>2, <2>3, <2>5, <2>6 DEF RecordsShape
<1>11. ASSUME ~overtaken', NEW u \in Threads
       PROVE  LET E == EndsOf(handles'[u], regions'[u]) IN
              NumbersOf(E) \subseteq issued'[u] /\ Paired(E, records'[u], u \in ended')
  <2>1. CASE u = t
    <3>1. /\ handles'[u] = g /\ regions'[u] = r /\ records'[u] = s
          /\ issued'[u] = issued[t] \cup {k}
      BY <2>1, <1>2, <1>5, <1>6
    <3>2. PICK e : e[3] = k /\ EndsOf(g, r) = EndsOf(h, q) \cup {e}
      BY <1>8
    <3>3. k \notin NumbersOf(EndsOf(h, q)) /\ Paired(EndsOf(h, q), records[t], t \in ended)
      BY <1>1, <1>7, <1>11
    <3> DEFINE D == EndsOf(h, q)
               isEnded == t \in ended
    <3>4. Paired(D, records[t], isEnded) /\ e[3] = k /\ e[3] \notin NumbersOf(D)
      BY <3>2, <3>3
    <3> HIDE DEF D, isEnded
    <3>5. /\ Paired(D \cup {e}, records[t] \cup {e[3]}, isEnded)
          /\ NumbersOf(D \cup {e}) = NumbersOf(D) \cup {e[3]}
      BY ZenonT(30), <3>4, PairAdded
    <3>6. /\ Paired(EndsOf(g, r), s, t \in ended)
          /\ NumbersOf(EndsOf(g, r)) = NumbersOf(EndsOf(h, q)) \cup {k}
      BY <3>2, <3>4, <3>5 DEF D, isEnded, s
    <3>7. QED  BY <2>1, <3>1, <3>6, <1>1, <1>5, <1>7, <1>11
  <2>2. CASE u # t
    <3>1. /\ handles'[u] = handles[u] /\ regions'[u] = regions[u] /\ records'[u] = records[u]
          /\ issued'[u] = issued[u] /\ ended' = ended
      BY <2>2, <1>2, <1>5, <1>6
    <3>2. /\ NumbersOf(EndsOf(handles[u], regions[u])) \subseteq issued[u]
          /\ Paired(EndsOf(handles[u], regions[u]), records[u], u \in ended)
      BY <1>7, <1>11 DEF RecordsInv
    <3>3. QED  BY <3>1, <3>2
  <2>3. QED  BY <2>1, <2>2
<1>12. QED  BY <1>7, <1>10, <1>11 DEF RecordsInv

\* At first no thread has numbers, regions or records.
LEMMA RecordsInitially == RecordsInit => RecordsInv
<1> DEFINE none == [n \in Names |-> <<>>]
<1> SUFFICES ASSUME RecordsInit PROVE RecordsInv
  OBVIOUS
<1>1. /\ uniqID = 0 /\ records = [t \in Threads |-> {}] /\ regions = [t \in Threads |-> none]
      /\ handles = [t \in Threads |-> <<>>] /\ creating = [t \in Threads |-> Idle]
      /\ issued = [t \in Threads |-> {}] /\ overtaken = FALSE /\ ended = {}
  BY DEF RecordsInit
<1>2. none \in RegionMap /\ <<>> \in Seq(Nat)
  BY DEF RegionMap
<1>3. Idle \in Creation
  BY DEF Idle, Creation, Purposes
<1>4. EndsOf(<<>>, none) = {}
  BY DEF EndsOf
<1> HIDE DEF none
<1>5. RecordsShape
  BY <1>1, <1>2, <1>3 DEF RecordsShape
<1>6. Increasing
  BY <1>1 DEF Increasing
<1>7. Paired({}, {}, FALSE) /\ NumbersOf({}) = {}
  BY FS_EmptySet DEF Paired, Distinct, NumbersOf
<1>8. ASSUME NEW t \in Threads
      PROVE  LET E == EndsOf(handles[t], regions[t]) IN
             NumbersOf(E) \subseteq issued[t] /\ Paired(E, records[t], t \in ended)
  <2>1. handles[t] = <<>> /\ regions[t] = none /\ issued[t] = {} /\ records[t] = {}
    BY <1>1
  <2>2. Paired({}, {}, t \in ended)
    BY <1>7 DEF Paired
  <2>3. QED  BY <2>1, <2>2, <1>4, <1>7
<1>9. QED  BY <1>5, <1>6, <1>8 DEF RecordsInv

\* Every step of the library keeps the records paired.
LEMMA RecordsStep == RecordsInv /\ [RecordsNext]_<<libraryVars, recordVars>> => RecordsInv'
<1> SUFFICES ASSUME RecordsInv, [RecordsNext]_<<libraryVars, recordVars>> PROVE RecordsInv'
  OBVIOUS
<1>1. CASE UNCHANGED recordVars
  BY <1>1 DEF RecordsInv, RecordsShape, Increasing, recordVars
<1>2. CASE \E t \in Threads : \E p \in Purposes : Begin(t, p)
  BY <1>2, BeginStep
<1>3. CASE \E t \in Threads : \E n \in Names : PushRegionPaused(t, n)
  BY <1>3, PushPausedStep
<1>4. CASE \E t \in Threads : \E n \in Names : PopRegion(t, n)
  BY <1>4, PopRegionStep
<1>5. CASE \E t \in Threads : \E j \in 1 .. MaxRegions : EndRecord(t, j)
  BY <1>5, EndRecordStep
<1>6. CASE \E t \in Threads : CreateRecord(t)
  BY <1>6, CreateRecordStep
<1>7. CASE \E t \in Threads : Finalize(t)
  BY <1>7, FinalizeStep
<1>8. CASE UNCHANGED <<libraryVars, recordVars>>
  BY <1>8, <1>1
<1>9. QED  BY <1>1, <1>2, <1>3, <1>4, <1>5, <1>6, <1>7, <1>8 DEF RecordsNext

\* So it holds in every reachable state.
LEMMA RecordsAlways == RecordsSpec => []RecordsInv
<1>1. RecordsInit => RecordsInv
  BY RecordsInitially
<1>2. RecordsInv /\ [RecordsNext]_<<libraryVars, recordVars>> => RecordsInv'
  BY RecordsStep
<1>3. QED  BY <1>1, <1>2, PTL DEF RecordsSpec

\* As many ends as numbers: two ends have two numbers.
LEMMA DistinctCount ==
  ASSUME NEW E, Distinct(E)
  PROVE  Cardinality(E) = Cardinality(NumbersOf(E))
<1> DEFINE f == [e \in E |-> e[3]]
<1>1. f \in Bijection(E, NumbersOf(E))
  BY DEF Bijection, Injection, Surjection, IsInjective, Distinct, NumbersOf
<1>2. IsFiniteSet(E)
  BY DEF Distinct
<1>3. ExistsBijection(E, NumbersOf(E))
  BY <1>1 DEF ExistsBijection
<1> HIDE DEF f
<1>4. QED  BY <1>2, <1>3, FS_Bijection

\* Unless an older counter overwrote a newer one, what a thread may still end are
\* distinct numbers, and its records are exactly these until it finalises the
\* library: no end is lost or meets another record, for any number of threads,
\* region names, and nested or paused calls (library.cpp:150, 208, 489, 520).
THEOREM RecordsAlwaysPaired == RecordsSpec => []RecordsPaired
<1>1. RecordsInv => RecordsPaired
  <2> SUFFICES ASSUME RecordsInv, ~overtaken, NEW t \in Threads
               PROVE  LET numbers == {e[3] : e \in Ends(t)} IN
                      /\ Cardinality(Ends(t)) = Cardinality(numbers)
                      /\ records[t] \subseteq numbers
                      /\ t \notin ended => records[t] = numbers
    BY DEF RecordsPaired
  <2>1. Ends(t) = EndsOf(handles[t], regions[t])
    BY DEF Ends, EndsOf
  <2>2. {e[3] : e \in Ends(t)} = NumbersOf(Ends(t))
    BY DEF NumbersOf
  <2>3. Paired(Ends(t), records[t], t \in ended)
    BY <2>1 DEF RecordsInv
  <2>4. Cardinality(Ends(t)) = Cardinality(NumbersOf(Ends(t)))
    BY <2>3, DistinctCount DEF Paired
  <2>5. QED  BY <2>2, <2>3, <2>4 DEF Paired
<1>2. QED  BY <1>1, RecordsAlways, PTL
=============================================================================

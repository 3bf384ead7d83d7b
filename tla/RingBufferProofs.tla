--------------------------- MODULE RingBufferProofs ---------------------------
(***************************************************************************)
(* Proofs about RingBuffer for every page size, record length, number of   *)
(* buffers and values: type correctness, the bound on the two counters     *)
(* (WithinCapacity) and the safety of writes (UnreadIntact), for the       *)
(* wrapper with all its operations but rewind, and that without direct     *)
(* copies it is the queue of RingFifo; and about AtomicRingBuffer, for     *)
(* every size and block length and any number of threads: what is held     *)
(* stays within the size (HeldWithinSize).                                 *)
(***************************************************************************)
EXTENDS RingBuffer, AtomicRingBuffer, SequenceTheorems, TLAPS

S == RecordLength

-------------------------------------------------------------------------------
(* Division.                                                               *)

\* Every position is a lap and an offset in it.
LEMMA LapAndOffset ==
    ASSUME NEW M \in Nat \ {0}, NEW x \in Nat
    PROVE  /\ x % M \in 0 .. M - 1
           /\ x \div M \in Nat
           /\ x = M * (x \div M) + (x % M)
  BY SMT

\* ... in one way only.
LEMMA OffsetOf ==
    ASSUME NEW M \in Nat \ {0}, NEW c \in Nat, NEW o \in 0 .. M - 1
    PROVE  (M * c + o) % M = o
  BY SMT

\* Distinct multiples of M are at least M apart.
LEMMA LapsApart ==
    ASSUME NEW M \in Nat \ {0}, NEW a \in Nat, NEW b \in Nat, a < b
    PROVE  M * a + M <= M * b
  <1>1. M * (a + 1) = M * a + M
    BY SMT
  <1>2. M * (b - (a + 1)) >= 0
    BY SMT
  <1>3. M * (b - (a + 1)) = M * b - M * (a + 1)
    BY SMT
  <1> QED BY <1>1, <1>2, <1>3, SMT

\* A positive multiple of a length is at least that length.
LEMMA WholeMultiple ==
    ASSUME NEW L \in Nat \ {0}, NEW o \in Nat, o % L = 0, o > 0
    PROVE  L <= o
  <1>1. o < L => o % L = o
    BY SMT
  <1> QED BY <1>1, SMT

\* The length added to a multiple of it is another.
LEMMA NextMultiple ==
    ASSUME NEW L \in Nat \ {0}, NEW o \in Nat, o % L = 0
    PROVE  (o + L) % L = 0
  <1>1. o = L * (o \div L) /\ o \div L \in Nat
    BY LapAndOffset, SMT
  <1>2. o + L = L * ((o \div L) + 1) + 0
    BY <1>1, SMT
  <1> DEFINE c == (o \div L) + 1
  <1>3. c \in Nat /\ 0 \in 0 .. L - 1
    BY <1>1, SMT
  <1>4. (L * c + 0) % L = 0
    BY <1>3, OffsetOf
  <1> QED BY <1>2, <1>4

\* A remainder of whole records has room for one.
LEMMA WholeRecord ==
    ASSUME NEW o \in Nat, o % S = 0, o > 0
    PROVE  S <= o
  <1>1. S \in Nat \ {0}
    BY LengthAssumption DEF S
  <1> QED BY <1>1, WholeMultiple

\* The place after a record is on a boundary.
LEMMA NextRecord ==
    ASSUME NEW o \in Nat, o % S = 0
    PROVE  (o + S) % S = 0
  <1>1. S \in Nat \ {0}
    BY LengthAssumption DEF S
  <1> HIDE DEF S
  <1> QED BY <1>1, NextMultiple, Zenon

-------------------------------------------------------------------------------
(* One record, at the place request() and retrieve() give it.              *)

\* The place fits into the lap, on the grid, and so does the position after it.
LEMMA PlaceOfRecord ==
    ASSUME NEW M \in Nat, NEW pos \in Nat, S <= M, OnGrid(pos, M),
           NEW at, at = Bumped(pos, M, S)
    PROVE  /\ at \in Nat /\ pos <= at
           /\ (at % M) + S <= M
           /\ OnGrid(at + S, M)
           /\ \/ at = pos
              \/ /\ at = M * (pos \div M) + M
                 /\ (pos % M) + S > M
  <1> DEFINE c == pos \div M
             o == pos % M
  <1>1. S \in Nat \ {0} /\ M \in Nat \ {0}
    BY LengthAssumption, SMT DEF S
  <1>2. /\ o \in 0 .. M - 1 /\ c \in Nat /\ pos = M * c + o
    BY <1>1, LapAndOffset
  <1>3. o % S = 0
    BY <1>1, SMT DEF OnGrid, S
  <1>4. at = IF M - o < S THEN pos + (M - o) ELSE pos
    BY DEF Bumped
  <1> HIDE DEF c, o
  <1>5. CASE M - o < S
    <2>1. at = M * c + M /\ at = M * (c + 1) + 0
      BY <1>1, <1>2, <1>4, <1>5, SMT
    <2>2. c + 1 \in Nat /\ 0 \in 0 .. M - 1
      BY <1>1, <1>2, SMT
    <2>3. at % M = 0
      BY <1>1, <2>1, <2>2, OffsetOf
    <2>4. at \in Nat /\ pos <= at
      BY <1>1, <1>2, <1>4, <1>5, SMT
    <2>5. (at + S) % M \in {0, S}
      <3>1. CASE S < M
        <4>1. S \in 0 .. M - 1
          BY <1>1, <3>1, SMT
        <4>2. (M * (c + 1) + S) % M = S
          BY <1>1, <2>2, <4>1, OffsetOf
        <4> QED BY <1>1, <1>2, <2>1, <4>2, SMT
      <3>2. CASE S = M
        <4>1. at + S = M * (c + 2) + 0 /\ c + 2 \in Nat
          BY <1>1, <1>2, <2>1, <3>2, SMT
        <4>2. (M * (c + 2) + 0) % M = 0
          BY <1>1, <2>2, <4>1, OffsetOf
        <4> QED BY <4>1, <4>2
      <3> QED BY <1>1, <3>1, <3>2, SMT
    <2>6. 0 % S = 0 /\ S % S = 0
      BY <1>1, SMT
    <2>7. OnGrid(at + S, M)
      BY <1>1, <2>5, <2>6, SMT DEF OnGrid, S
    <2>8. (pos % M) + S > M /\ at = M * (pos \div M) + M
      BY <1>1, <1>2, <1>5, <2>1, SMT DEF c, o
    <2> QED BY <1>1, <2>3, <2>4, <2>7, <2>8, SMT
  <1>6. CASE ~(M - o < S)
    <2>1. at = pos /\ at % M = o
      BY <1>4, <1>6 DEF o
    <2>2. o + S <= M
      BY <1>1, <1>2, <1>6, SMT
    <2>3. (at + S) % M \in {0, o + S}
      <3>1. CASE o + S < M
        <4>1. o + S \in 0 .. M - 1 /\ at + S = M * c + (o + S)
          BY <1>1, <1>2, <2>1, <3>1, SMT
        <4>2. (M * c + (o + S)) % M = o + S
          BY <1>1, <1>2, <4>1, OffsetOf
        <4> QED BY <4>1, <4>2
      <3>2. CASE o + S = M
        <4>1. at + S = M * (c + 1) + 0 /\ c + 1 \in Nat /\ 0 \in 0 .. M - 1
          BY <1>1, <1>2, <2>1, <3>2, SMT
        <4>2. (M * (c + 1) + 0) % M = 0
          BY <1>1, <4>1, OffsetOf
        <4> QED BY <4>1, <4>2
      <3> QED BY <1>1, <1>2, <2>2, <3>1, <3>2, SMT
    <2>4. 0 % S = 0 /\ (o + S) % S = 0
      <3>1. o \in Nat
        BY <1>1, <1>2, SMT
      <3>2. 0 % S = 0
        BY <1>1, SMT
      <3>3. (o + S) % S = 0
        BY <1>3, <3>1, NextRecord
      <3> QED BY <3>2, <3>3
    <2>5. OnGrid(at + S, M)
      BY <1>1, <2>3, <2>4, SMT DEF OnGrid, S
    <2> QED BY <1>1, <1>2, <2>1, <2>2, <2>5, SMT
  <1> QED BY <1>5, <1>6

-------------------------------------------------------------------------------
(* A buffer whose counters are in order, and what the operations make of it*)

GoodBuffer(B) == BufferOK(B) /\ CountersOK(B)

\* On a good buffer the size_t subtractions do not wrap.
LEMMA CountAndFree ==
    ASSUME NEW B, GoodBuffer(B)
    PROVE  /\ Count(B) = B.wr - B.rd /\ Count(B) \in Nat
           /\ Free(B) = B.size - (B.wr - B.rd) /\ Free(B) \in Nat
           /\ B.size \in Nat /\ B.rd \in Nat /\ B.wr \in Nat
  <1>1. B.size \in Nat /\ B.rd \in Nat /\ B.wr \in Nat
    BY DEF GoodBuffer, BufferOK
  <1>2. B.rd <= B.wr /\ B.wr <= B.rd + B.size
    BY DEF GoodBuffer, CountersOK
  <1> QED BY <1>1, <1>2, SMT DEF Count, Free, Minus

\* request(): room for one record before the gap is room after it.
LEMMA RoomIncludesGap ==
    ASSUME NEW B, GoodBuffer(B), HasRoom(B, S),
           NEW at, at = Bumped(B.wr, B.size, S)
    PROVE  /\ at \in Nat /\ B.wr <= at
           /\ (at % B.size) + S <= B.size
           /\ OnGrid(at + S, B.size)
           /\ at + S <= B.rd + B.size
  <1> DEFINE M == B.size
             c == B.wr \div M
             o == B.wr % M
             d == B.rd \div M
             p == B.rd % M
  <1>1. /\ M \in Nat /\ B.rd \in Nat /\ B.wr \in Nat /\ S \in Nat \ {0}
        /\ S <= M - (B.wr - B.rd) /\ B.rd <= B.wr /\ S <= M /\ M \in Nat \ {0}
    <2>1. /\ M \in Nat /\ B.rd \in Nat /\ B.wr \in Nat /\ S \in Nat \ {0}
          /\ S <= M - (B.wr - B.rd)
      BY CountAndFree, LengthAssumption DEF HasRoom, S
    <2>2. B.rd <= B.wr
      BY DEF GoodBuffer, CountersOK
    <2> QED BY <2>1, <2>2, SMT
  <1>2. OnGrid(B.wr, M) /\ p % S = 0
    BY <1>1, SMT DEF GoodBuffer, CountersOK, OnGrid, S
  <1>3. /\ at \in Nat /\ B.wr <= at /\ (at % M) + S <= M /\ OnGrid(at + S, M)
        /\ \/ at = B.wr
           \/ at = M * c + M /\ o + S > M
    <2>1. M \in Nat /\ B.wr \in Nat /\ S <= M /\ OnGrid(B.wr, M) /\ at = Bumped(B.wr, M, S)
      BY <1>1, <1>2
    <2> HIDE DEF M
    <2> QED BY <2>1, PlaceOfRecord
  <1>4. /\ o \in 0 .. M - 1 /\ c \in Nat /\ B.wr = M * c + o
        /\ p \in 0 .. M - 1 /\ d \in Nat /\ B.rd = M * d + p
    BY <1>1, LapAndOffset
  <1> HIDE DEF M, c, o, d, p
  <1>5. CASE at = B.wr
    BY <1>1, <1>3, <1>5, SMT DEF M
  <1>6. CASE at = M * c + M /\ o + S > M
    <2>1. B.rd > M * c
      BY <1>1, <1>4, <1>6, SMT
    <2>2. ~(d < c)
      <3>1. d < c => M * d + M <= M * c
        BY <1>1, <1>4, LapsApart
      <3> QED BY <1>1, <1>4, <2>1, <3>1, SMT
    <2>3. ~(c < d)
      <3>1. c < d => M * c + M <= M * d
        BY <1>1, <1>4, LapsApart
      <3> QED BY <1>1, <1>4, <3>1, SMT
    <2>4. c = d
      BY <1>4, <2>2, <2>3, SMT
    <2>5. p > 0 /\ p \in Nat
      BY <1>1, <1>4, <2>1, <2>4, SMT
    <2>6. S <= p
      BY <1>2, <2>5, WholeRecord
    <2>7. at + S <= B.rd + M
      BY <1>1, <1>4, <1>6, <2>4, <2>6, SMT
    <2> QED BY <1>3, <2>7 DEF M
  <1> QED BY <1>3, <1>5, <1>6

\* retrieve(): a buffer that is not empty holds a whole record after the gap.
LEMMA RecordAfterGap ==
    ASSUME NEW B, GoodBuffer(B), S <= Count(B),
           NEW at, at = Bumped(B.rd, B.size, S)
    PROVE  /\ at \in Nat /\ B.rd <= at
           /\ (at % B.size) + S <= B.size
           /\ OnGrid(at + S, B.size)
           /\ at + S <= B.wr
  <1> DEFINE M == B.size
             c == B.wr \div M
             o == B.wr % M
             d == B.rd \div M
             p == B.rd % M
  <1>1. /\ M \in Nat /\ B.rd \in Nat /\ B.wr \in Nat /\ S \in Nat \ {0}
        /\ S <= B.wr - B.rd /\ B.wr <= B.rd + M /\ S <= M /\ M \in Nat \ {0}
    <2>1. /\ M \in Nat /\ B.rd \in Nat /\ B.wr \in Nat /\ S \in Nat \ {0}
          /\ S <= B.wr - B.rd
      BY CountAndFree, LengthAssumption DEF S
    <2>2. B.wr <= B.rd + M
      BY DEF GoodBuffer, CountersOK
    <2> QED BY <2>1, <2>2, SMT
  <1>2. OnGrid(B.rd, M) /\ o % S = 0
    BY <1>1, SMT DEF GoodBuffer, CountersOK, OnGrid, S
  <1>3. /\ at \in Nat /\ B.rd <= at /\ (at % M) + S <= M /\ OnGrid(at + S, M)
        /\ \/ at = B.rd
           \/ at = M * d + M /\ p + S > M
    <2>1. M \in Nat /\ B.rd \in Nat /\ S <= M /\ OnGrid(B.rd, M) /\ at = Bumped(B.rd, M, S)
      BY <1>1, <1>2
    <2> HIDE DEF M
    <2> QED BY <2>1, PlaceOfRecord
  <1>4. /\ o \in 0 .. M - 1 /\ c \in Nat /\ B.wr = M * c + o
        /\ p \in 0 .. M - 1 /\ d \in Nat /\ B.rd = M * d + p
    BY <1>1, LapAndOffset
  <1> HIDE DEF M, c, o, d, p
  <1>5. CASE at = B.rd
    BY <1>1, <1>3, <1>5, SMT DEF M
  <1>6. CASE at = M * d + M /\ p + S > M
    <2>1. B.wr > at
      BY <1>1, <1>4, <1>6, SMT
    <2>2. ~(c < d + 1)
      <3>1. c < d + 1 => M * c + M <= M * (d + 1)
        BY <1>1, <1>4, LapsApart
      <3>2. M * (d + 1) = M * d + M
        BY <1>1, <1>4, SMT
      <3>3. c < d + 1 => B.wr < M * c + M
        BY <1>1, <1>4, SMT
      <3> QED BY <1>1, <1>4, <1>6, <2>1, <3>1, <3>2, <3>3, SMT
    <2>3. CASE c = d + 1
      <3>1. M * c = M * d + M
        BY <1>1, <1>4, <2>3, SMT
      <3>2. o > 0 /\ o \in Nat
        BY <1>1, <1>4, <1>6, <2>1, <3>1, SMT
      <3>3. S <= o
        BY <1>2, <3>2, WholeRecord
      <3>4. at + S <= B.wr
        BY <1>1, <1>4, <1>6, <3>1, <3>3, SMT
      <3> QED BY <1>3, <3>4 DEF M
    <2>4. CASE d + 1 < c
      <3>1. M * (d + 1) + M <= M * c
        BY <1>1, <1>4, <2>4, LapsApart
      <3>2. M * (d + 1) = M * d + M
        BY <1>1, <1>4, SMT
      <3>3. at + S <= B.wr
        BY <1>1, <1>4, <1>6, <3>1, <3>2, SMT
      <3> QED BY <1>3, <3>3 DEF M
    <2> QED BY <1>4, <2>2, <2>3, <2>4, SMT
  <1> QED BY <1>3, <1>5, <1>6

\* A buffer before init is good.
LEMMA NoBufferGood ==
    ASSUME NEW mmap \in BOOLEAN
    PROVE  GoodBuffer(NoBuffer(mmap))
  <1>1. NoBuffer(mmap).mem \in Memory(0)
    BY SMT DEF NoBuffer, Memory, Records
  <1> QED BY <1>1, SMT DEF GoodBuffer, BufferOK, CountersOK, OnGrid, NoBuffer

\* Rounding up to pages.
LEMMA RoundUpNat ==
    ASSUME NEW n \in Nat
    PROVE  RoundUp(n) \in Nat
  <1>1. n % Page \in 0 .. Page - 1
    BY PageAssumption, LapAndOffset
  <1> QED BY <1>1, PageAssumption, SMT DEF RoundUp

\* So is a fresh one,
LEMMA AllocatedGood ==
    ASSUME NEW mmap \in BOOLEAN, NEW n \in Nat
    PROVE  GoodBuffer(Allocated(mmap, n))
  <1> DEFINE B == Allocated(mmap, n)
  <1>1. RoundUp(n) \in Nat
    BY RoundUpNat
  <1>2. B.mem \in Memory(RoundUp(n))
    BY DEF Allocated, Memory, Records
  <1>3. BufferOK(B)
    BY <1>1, <1>2 DEF Allocated, BufferOK
  <1>4. OnGrid(0, RoundUp(n))
    BY <1>1, LengthAssumption, SMT DEF OnGrid
  <1>5. CountersOK(B)
    BY <1>1, <1>4, SMT DEF Allocated, CountersOK
  <1> QED BY <1>3, <1>5 DEF GoodBuffer

\* Only a buffer that owns memory has room for a record.
LEMMA RoomMeansMemory ==
    ASSUME NEW B, GoodBuffer(B), HasRoom(B, S) \/ S <= Count(B)
    PROVE  B.init /\ S <= B.size /\ B.size \in Nat \ {0}
  <1>1. S \in Nat \ {0}
    BY LengthAssumption DEF S
  <1>2. S <= B.size /\ B.size \in Nat
    BY <1>1, CountAndFree, SMT DEF HasRoom, GoodBuffer, CountersOK
  <1> QED BY <1>1, <1>2, SMT DEF GoodBuffer, BufferOK

\* one in which a record was reserved,
LEMMA ReservedGood ==
    ASSUME NEW B, GoodBuffer(B), HasRoom(B, S)
    PROVE  GoodBuffer(Reserved(B, S))
  <1> DEFINE at == Bumped(B.wr, B.size, S)
             C == Reserved(B, S)
  <1>1. /\ at \in Nat /\ B.wr <= at
        /\ OnGrid(at + S, B.size) /\ at + S <= B.rd + B.size
    BY RoomIncludesGap
  <1>2. S \in Nat /\ B.rd \in Nat /\ B.wr \in Nat /\ B.size \in Nat /\ B.rd <= B.wr
    BY LengthAssumption, CountAndFree DEF S, GoodBuffer, CountersOK
  <1>3. at + S \in Nat /\ B.rd <= at + S
    BY <1>1, <1>2, SMT
  <1>4. /\ B \in [init : BOOLEAN, mmap : BOOLEAN, size : Nat, rd : Nat, wr : Nat,
                  mem : {B.mem}]
        /\ B.mem \in Memory(B.size)
        /\ B.init
    BY RoomMeansMemory DEF GoodBuffer, BufferOK
  <1> HIDE DEF at
  <1>5. C = [B EXCEPT !.wr = at + S]
    BY DEF Reserved, at
  <1> HIDE DEF C
  <1>6. C.rd = B.rd /\ C.wr = at + S /\ C.size = B.size
    BY <1>4, <1>5
  <1>7. BufferOK(C)
    BY <1>3, <1>4, <1>5 DEF BufferOK
  <1>8. CountersOK(C)
    BY <1>1, <1>3, <1>6 DEF CountersOK, GoodBuffer
  <1> QED BY <1>7, <1>8 DEF GoodBuffer, C

\* one into which a record was written,
LEMMA StoredGood ==
    ASSUME NEW B, GoodBuffer(B), HasRoom(B, S), NEW v \in Values
    PROVE  GoodBuffer(Stored(B, S, v))
  <1> DEFINE R == Reserved(B, S)
             C == Stored(B, S, v)
  <1>1. GoodBuffer(R)
    BY ReservedGood
  <1>2. B.mem \in Memory(B.size)
    BY DEF GoodBuffer, BufferOK
  <1>3. C.mem \in Memory(B.size)
    BY <1>2 DEF Stored, Memory, Records, GoodBuffer, BufferOK
  <1>4. C = [R EXCEPT !.mem = C.mem]
    BY DEF Stored, Reserved, GoodBuffer, BufferOK
  <1> HIDE DEF C
  <1>5. /\ C.init = R.init /\ C.size = R.size /\ C.rd = R.rd /\ C.wr = R.wr
        /\ C.mmap = R.mmap /\ R.size = B.size
    BY <1>1, <1>4 DEF GoodBuffer, BufferOK, Reserved
  <1>6. C \in [init : BOOLEAN, mmap : BOOLEAN, size : Nat, rd : Nat, wr : Nat,
               mem : {C.mem}]
    BY <1>1, <1>4 DEF GoodBuffer, BufferOK
  <1> QED BY <1>1, <1>3, <1>5, <1>6 DEF GoodBuffer, BufferOK, CountersOK, C

\* and one from which a record was read.
LEMMA ConsumedGood ==
    ASSUME NEW B, GoodBuffer(B), S <= Count(B)
    PROVE  GoodBuffer(Consumed(B, S))
  <1> DEFINE at == Bumped(B.rd, B.size, S)
             C == Consumed(B, S)
  <1>1. /\ at \in Nat /\ B.rd <= at
        /\ OnGrid(at + S, B.size) /\ at + S <= B.wr
    BY RecordAfterGap
  <1>2. /\ S \in Nat /\ B.rd \in Nat /\ B.wr \in Nat /\ B.size \in Nat
        /\ B.wr <= B.rd + B.size
    BY LengthAssumption, CountAndFree DEF S, GoodBuffer, CountersOK
  <1>3. at + S \in Nat /\ B.wr <= at + S + B.size
    BY <1>1, <1>2, SMT
  <1>4. /\ B \in [init : BOOLEAN, mmap : BOOLEAN, size : Nat, rd : Nat, wr : Nat,
                  mem : {B.mem}]
        /\ B.mem \in Memory(B.size)
        /\ B.init
    BY RoomMeansMemory DEF GoodBuffer, BufferOK
  <1> HIDE DEF at
  <1>5. C = [B EXCEPT !.rd = at + S]
    BY DEF Consumed, at
  <1> HIDE DEF C
  <1>6. C.rd = at + S /\ C.wr = B.wr /\ C.size = B.size
    BY <1>4, <1>5
  <1>7. BufferOK(C)
    BY <1>3, <1>4, <1>5 DEF BufferOK
  <1>8. CountersOK(C)
    BY <1>1, <1>3, <1>6 DEF CountersOK, GoodBuffer
  <1> QED BY <1>7, <1>8 DEF GoodBuffer, C

\* The copy starts at zero with as many records as fit.
LEMMA CopiedGood ==
    ASSUME NEW B, GoodBuffer(B)
    PROVE  GoodBuffer(Copied(B))
  <1> DEFINE K == B.size \div S
             n == Smaller(Items(B), K)
             C == Copied(B)
  <1>1. /\ S \in Nat \ {0} /\ B.size \in Nat /\ B.mmap \in BOOLEAN
        /\ B.mem \in Memory(B.size)
    BY LengthAssumption DEF S, GoodBuffer, BufferOK
  <1>2. K \in Nat /\ S * K <= B.size
    <2>1. K \in Nat /\ B.size % S \in 0 .. S - 1 /\ B.size = S * K + (B.size % S)
      BY <1>1, LapAndOffset
    <2> QED BY <1>1, <2>1, SMT
  <1>3. Items(B) \in Nat
    BY <1>1, CountAndFree, LapAndOffset DEF Items, S
  <1>4. n \in Nat /\ n <= K
    BY <1>2, <1>3, SMT DEF Smaller
  <1> HIDE DEF K, n
  <1>5. n * S \in Nat /\ n * S <= B.size
    <2>1. n * S = S * n /\ S * n \in Nat
      BY <1>1, <1>4, SMT
    <2>2. S * (K - n) >= 0
      BY <1>1, <1>2, <1>4, SMT
    <2>3. S * (K - n) = S * K - S * n
      BY <1>1, <1>2, <1>4, SMT
    <2> QED BY <1>1, <1>2, <2>1, <2>2, <2>3, SMT
  <1>6. /\ C.init = TRUE /\ C.mmap = B.mmap /\ C.size = B.size
        /\ C.rd = 0 /\ C.wr = n * S
        /\ C.mem = [k \in 0 .. B.size - 1 |->
                      IF k < n * S
                      THEN B.mem[SourceOffset(B, k \div S) + (k % S)]
                      ELSE Garbage]
    BY DEF Copied, n, K, S
  <1>7. C \in [init : BOOLEAN, mmap : BOOLEAN, size : Nat, rd : Nat, wr : Nat,
               mem : {C.mem}]
    BY <1>1, <1>5 DEF Copied, n, K, S
  <1> HIDE DEF C
  <1>8. C.mem \in Memory(B.size)
    <2> SUFFICES ASSUME NEW k \in 0 .. B.size - 1, k < n * S
                 PROVE  B.mem[SourceOffset(B, k \div S) + (k % S)] \in Records
      BY <1>6 DEF Memory, Records
    <2> DEFINE off == (B.rd % B.size) + (k \div S) * S
    <2>1. k \in Nat /\ B.size \in Nat \ {0} /\ B.rd \in Nat
      BY <1>1, CountAndFree, SMT
    <2>2. k % S \in 0 .. S - 1 /\ k \div S \in Nat /\ B.rd % B.size \in Nat
      <3>1. /\ k % S \in 0 .. S - 1 /\ k \div S \in Nat
            /\ B.rd % B.size \in 0 .. B.size - 1
        BY <1>1, <2>1, LapAndOffset
      <3> QED BY <2>1, <3>1, SMT
    <2>3. off \in Nat
      BY <1>1, <2>2, SMT
    <2>4. S <= B.size
      <3>1. K # 0 => S <= S * K
        BY <1>1, <1>2, SMT
      <3>2. n # 0
        BY <1>1, <2>1, SMT
      <3> QED BY <1>1, <1>2, <1>4, <3>1, <3>2, SMT
    <2>5. SourceOffset(B, k \div S) = IF off + S > B.size THEN 0 ELSE off
      BY DEF SourceOffset, S
    <2> HIDE DEF off
    <2>6. SourceOffset(B, k \div S) + (k % S) \in 0 .. B.size - 1
      BY <1>1, <2>1, <2>2, <2>3, <2>4, <2>5, SMT
    <2> QED BY <1>1, <2>6 DEF Memory
  <1>9. OnGrid(0, B.size) /\ OnGrid(n * S, B.size)
    <2>1. B.size > 0 => B.size \in Nat \ {0}
      BY <1>1, SMT
    <2>2. (n * S) % S = 0
      <3>1. n * S = S * n + 0 /\ 0 \in 0 .. S - 1
        BY <1>1, <1>4, SMT
      <3>2. (S * n + 0) % S = 0
        BY <1>1, <1>4, <3>1, OffsetOf
      <3> QED BY <3>1, <3>2
    <2>3. ASSUME B.size > 0, n * S < B.size PROVE (n * S) % B.size = n * S
      <3>1. n * S = B.size * 0 + n * S /\ n * S \in 0 .. B.size - 1 /\ 0 \in Nat
        BY <1>1, <1>5, <2>3, SMT
      <3> QED BY <2>1, <2>3, <3>1, OffsetOf
    <2>4. ASSUME B.size > 0 PROVE B.size % B.size = 0 /\ 0 % B.size = 0 /\ 0 % S = 0
      BY <1>1, <2>4, SMT
    <2> QED BY <1>1, <1>5, <2>2, <2>3, <2>4, SMT DEF OnGrid, S
  <1>10. BufferOK(C)
    BY <1>6, <1>7, <1>8 DEF BufferOK
  <1>11. CountersOK(C)
    BY <1>1, <1>5, <1>6, <1>9, SMT DEF CountersOK
  <1> QED BY <1>10, <1>11 DEF GoodBuffer, C

-------------------------------------------------------------------------------
(* The invariant                                                           *)

IInv == TypeOK /\ WithinCapacity

\* The invariant says that every buffer is good.
LEMMA IInvIsGood ==
    IInv <=> /\ DOMAIN buf = Buffers
             /\ result \in Results
             /\ \A b \in Buffers : GoodBuffer(buf[b])
  BY DEF IInv, TypeOK, WithinCapacity, GoodBuffer

\* Replacing one buffer by a good one keeps the invariant.
LEMMA OneBuffer ==
    ASSUME IInv, NEW b \in Buffers, NEW B, GoodBuffer(B),
           buf' = [buf EXCEPT ![b] = B], result' \in Results
    PROVE  IInv'
  <1>1. DOMAIN buf' = Buffers
    BY IInvIsGood
  <1>2. \A a \in Buffers : buf'[a] = B \/ buf'[a] = buf[a]
    BY IInvIsGood
  <1>3. \A a \in Buffers : GoodBuffer(buf'[a])
    BY <1>2, IInvIsGood
  <1> QED BY <1>1, <1>3 DEF IInv, TypeOK, WithinCapacity, GoodBuffer

\* It holds before any call.
LEMMA InitKeeps == Init => IInv
  <1> SUFFICES ASSUME Init PROVE IInv
    OBVIOUS
  <1>1. DOMAIN buf = Buffers
    BY DEF Init
  <1>2. \A b \in Buffers : GoodBuffer(buf[b])
    BY NoBufferGood DEF Init
  <1>3. result \in Results
    BY DEF Init, Results
  <1> QED BY <1>1, <1>2, <1>3, IInvIsGood

\* A refused call changes no buffer.
LEMMA RefuseKeeps ==
    ASSUME IInv, NEW why \in {"null", "full", "empty"}, Refuse(why)
    PROVE  IInv'
  BY DEF IInv, TypeOK, WithinCapacity, Refuse, Results

\* Requests and writes keep it.
LEMMA AppendKeeps ==
    ASSUME IInv, NEW b \in Buffers,
           Request(b, S) \/ \E v \in Values : Write(b, S, v)
    PROVE  IInv'
  <1> PICK new : /\ Append_(b, S, new)
                 /\ \/ new = Reserved(buf[b], S)
                    \/ \E v \in Values : new = Stored(buf[b], S, v)
    BY DEF Request, Write
  <1>1. CASE Refuse("null") \/ Refuse("full")
    BY <1>1, RefuseKeeps
  <1>2. CASE /\ HasRoom(buf[b], S)
             /\ buf' = [buf EXCEPT ![b] = new]
             /\ result' = "stored"
    <2>1. GoodBuffer(new)
      BY <1>2, IInvIsGood, ReservedGood, StoredGood
    <2>2. result' \in Results
      BY <1>2 DEF Results
    <2> QED BY <1>2, <2>1, <2>2, OneBuffer
  <1> QED BY <1>1, <1>2 DEF Append_

\* What a read hands back is a record or the mark of a torn one.
LEMMA ContentIsResult ==
    ASSUME NEW B, BufferOK(B), NEW off \in Nat
    PROVE  Content(B, off, S) \in Results
  <1>1. off \in off .. off + S - 1
    BY LengthAssumption, SMT DEF S
  <1>2. \A k \in DOMAIN B.mem : B.mem[k] \in Records
    BY DEF BufferOK, Memory
  <1> QED BY <1>1, <1>2 DEF Content, Results

\* Reads and retrievals keep it.
LEMMA TakeKeeps ==
    ASSUME IInv, NEW b \in Buffers, Read(b, S) \/ Retrieve(b, S)
    PROVE  IInv'
  <1>1. CASE Refuse("null") \/ Refuse("empty")
    BY <1>1, RefuseKeeps
  <1>2. CASE Take(b, S) /\ ~(S > Count(buf[b]))
    <2> DEFINE B == buf[b]
               at == Bumped(B.rd, B.size, S)
    <2>1. GoodBuffer(B) /\ S <= Count(B)
      BY <1>2, IInvIsGood, CountAndFree, LengthAssumption, SMT DEF S
    <2>2. GoodBuffer(Consumed(B, S))
      BY <2>1, ConsumedGood
    <2>3. at % B.size \in Nat
      <3>1. at \in Nat
        BY <2>1, RecordAfterGap
      <3>2. B.size \in Nat \ {0}
        BY <2>1, RoomMeansMemory
      <3> HIDE DEF at
      <3> QED BY <3>1, <3>2, LapAndOffset, SMT
    <2>4. buf' = [buf EXCEPT ![b] = Consumed(B, S)] /\ result' = Content(B, at % B.size, S)
      BY <1>2 DEF Take
    <2>5. result' \in Results
      BY <2>1, <2>3, <2>4, ContentIsResult DEF GoodBuffer
    <2> QED BY <2>2, <2>4, <2>5, OneBuffer
  <1> QED BY <1>1, <1>2 DEF Read, Retrieve, Take

\* So do moves and all other calls of LocalSpec,
LEMMA LocalKeeps ==
    ASSUME IInv, LocalNext
    PROVE  IInv'
  <1> PICK b \in Buffers :
         \/ InitBuffer(b)
         \/ DestroyBuffer(b)
         \/ SetUseMmap(b)
         \/ \E v \in Values : Write(b, S, v)
         \/ Request(b, S)
         \/ Read(b, S)
         \/ Retrieve(b, S)
         \/ \E src \in Buffers : MoveAssign(b, src)
    BY DEF LocalNext, NextOf, S
  <1>1. GoodBuffer(buf[b]) /\ buf[b].mmap \in BOOLEAN
    BY IInvIsGood DEF GoodBuffer, BufferOK
  <1>2. CASE InitBuffer(b)
    <2> PICK n \in Requested :
          \/ buf' = [buf EXCEPT ![b] = Allocated(@.mmap, n)] /\ result' = "none"
          \/ buf' = [buf EXCEPT ![b] = NoBuffer(@.mmap)] /\ result' = "badalloc"
      BY <1>2 DEF InitBuffer
    <2>1. n \in Nat
      BY SizeAssumption
    <2>2. GoodBuffer(Allocated(buf[b].mmap, n)) /\ GoodBuffer(NoBuffer(buf[b].mmap))
      BY <1>1, <2>1, AllocatedGood, NoBufferGood
    <2>3. result' \in Results
      BY DEF Results
    <2> QED BY <2>2, <2>3, OneBuffer
  <1>3. CASE DestroyBuffer(b)
    <2>1. GoodBuffer(NoBuffer(buf[b].mmap)) /\ result' \in Results
      BY <1>1, <1>3, NoBufferGood DEF DestroyBuffer, Results
    <2> QED BY <1>3, <2>1, OneBuffer DEF DestroyBuffer
  <1>4. CASE Request(b, S) \/ \E v \in Values : Write(b, S, v)
    BY <1>4, AppendKeeps
  <1>5. CASE Read(b, S) \/ Retrieve(b, S)
    BY <1>5, TakeKeeps
  <1>6. ASSUME NEW src \in Buffers, MoveAssign(b, src) PROVE IInv'
    <2>1. GoodBuffer(buf[src]) /\ GoodBuffer(NoBuffer(buf[src].mmap))
      BY IInvIsGood, NoBufferGood DEF GoodBuffer, BufferOK
    <2>2. /\ DOMAIN buf' = Buffers
          /\ \A a \in Buffers : \/ buf'[a] = buf[a]
                                \/ buf'[a] = buf[src]
                                \/ buf'[a] = NoBuffer(buf[src].mmap)
      BY <1>6, IInvIsGood DEF MoveAssign
    <2>3. \A a \in Buffers : GoodBuffer(buf'[a])
      BY <2>1, <2>2, IInvIsGood
    <2>4. result' \in Results
      BY <1>6 DEF MoveAssign, Results
    <2> QED BY <2>2, <2>3, <2>4 DEF IInv, TypeOK, WithinCapacity, GoodBuffer
  <1>7. CASE SetUseMmap(b)
    <2> PICK v \in BOOLEAN : buf' = [buf EXCEPT ![b] = [@ EXCEPT !.mmap = v]]
      BY <1>7 DEF SetUseMmap
    <2>1. GoodBuffer([buf[b] EXCEPT !.mmap = v])
      BY <1>1 DEF GoodBuffer, BufferOK, CountersOK
    <2>2. result' \in Results
      BY <1>7 DEF SetUseMmap, Results
    <2> QED BY <2>1, <2>2, OneBuffer
  <1> QED BY <1>2, <1>3, <1>4, <1>5, <1>6, <1>7

\* and copies.
LEMMA NextKeeps ==
    ASSUME IInv, [Next]_vars
    PROVE  IInv'
  <1>1. CASE LocalNext
    BY <1>1, LocalKeeps
  <1>2. ASSUME NEW dst \in Buffers, NEW src \in Buffers, CopyAssign(dst, src)
        PROVE  IInv'
    <2>1. GoodBuffer(buf[src]) /\ buf[src].mmap \in BOOLEAN
      BY IInvIsGood DEF GoodBuffer, BufferOK
    <2>2. GoodBuffer(Copied(buf[src])) /\ GoodBuffer(NoBuffer(buf[src].mmap))
      BY <2>1, CopiedGood, NoBufferGood
    <2>3. result' \in Results
      BY <1>2 DEF CopyAssign, Results
    <2> QED BY <1>2, <2>2, <2>3, OneBuffer DEF CopyAssign
  <1>3. ASSUME NEW dst \in Buffers, NEW src \in Buffers, Load(dst, src)
        PROVE  IInv'
    <2>1. GoodBuffer(buf[src]) /\ buf[src].mmap \in BOOLEAN
      BY IInvIsGood DEF GoodBuffer, BufferOK
    <2>2. GoodBuffer([buf[src] EXCEPT !.init = TRUE])
      BY <2>1 DEF GoodBuffer, BufferOK, CountersOK
    <2>3. GoodBuffer(NoBuffer(buf[src].mmap))
      BY <2>1, NoBufferGood
    <2>4. result' \in Results
      BY <1>3 DEF Load, Results
    <2> QED BY <1>3, <2>2, <2>3, <2>4, OneBuffer DEF Load
  <1>4. CASE UNCHANGED vars
    BY <1>4 DEF vars, IInv, TypeOK, WithinCapacity
  <1> QED BY <1>1, <1>2, <1>3, <1>4 DEF Next

\* The members of every buffer keep their types and their block its length,
\* and the two counters stay on record boundaries at most m_size apart, for
\* every page size, record length and number of buffers: base count() and
\* free() never underflow.
THEOREM CountersWithinCapacity == Spec => [](TypeOK /\ WithinCapacity)
  <1>1. Spec => []IInv
    BY InitKeeps, NextKeeps, PTL DEF Spec
  <1> QED BY <1>1, PTL DEF IInv

-------------------------------------------------------------------------------
(* Writes spare unread records                                             *)

\* Positions less than one lap apart lie at different offsets.
LEMMA DistinctOffsets ==
    ASSUME NEW M \in Nat \ {0}, NEW p \in Nat, NEW q \in Nat, p < q, q < p + M
    PROVE  p % M # q % M
  <1> DEFINE a == p \div M
             b == q \div M
  <1>1. a \in Nat /\ b \in Nat /\ p = M * a + (p % M) /\ q = M * b + (q % M)
        /\ p % M \in 0 .. M - 1 /\ q % M \in 0 .. M - 1
    BY LapAndOffset
  <1> HIDE DEF a, b
  <1>2. a < b => M * a + M <= M * b
    BY <1>1, LapsApart
  <1>3. b < a => M * b + M <= M * a
    BY <1>1, LapsApart
  <1> QED BY <1>1, <1>2, <1>3, SMT

\* The bytes of the new record are not bytes of an unread one.
LEMMA NewRecordApart ==
    ASSUME NEW B, GoodBuffer(B), HasRoom(B, S),
           NEW p \in B.rd .. B.wr - 1,
           NEW at, at = Bumped(B.wr, B.size, S)
    PROVE  ~(p % B.size >= at % B.size /\ p % B.size < (at % B.size) + S)
  <1> DEFINE M == B.size
             j == (p % M) - (at % M)
             q == at + j
  <1>1. /\ at \in Nat /\ B.wr <= at /\ (at % M) + S <= M /\ at + S <= B.rd + M
    BY RoomIncludesGap
  <1>2. /\ M \in Nat \ {0} /\ S \in Nat \ {0} /\ B.rd \in Nat /\ B.wr \in Nat
    BY RoomMeansMemory, CountAndFree, LengthAssumption DEF S
  <1> HIDE DEF M
  <1>3. p \in Nat /\ p < B.wr /\ B.rd <= p
    BY <1>2, SMT
  <1>4. /\ p % M \in 0 .. M - 1 /\ at % M \in 0 .. M - 1 /\ at \div M \in Nat
        /\ at = M * (at \div M) + (at % M)
    BY <1>1, <1>2, <1>3, LapAndOffset
  <1> SUFFICES ASSUME p % M >= at % M, p % M < (at % M) + S
               PROVE  FALSE
    BY DEF M
  <1>5. q \in Nat /\ p < q /\ q < p + M
    <2>1. p % M \in Nat /\ at % M \in Nat
      BY <1>2, <1>4, SMT
    <2>2. j \in Nat /\ j < S
      BY <1>2, <2>1, SMT
    <2> HIDE DEF j
    <2> QED BY <1>1, <1>2, <1>3, <2>2, SMT
  <1>6. q = M * (at \div M) + (p % M)
    BY <1>1, <1>2, <1>4, SMT
  <1> HIDE DEF q
  <1>7. q % M = p % M
    BY <1>2, <1>4, <1>6, OffsetOf
  <1> QED BY <1>2, <1>3, <1>5, <1>7, DistinctOffsets

\* Whatever laps the two counters are on, no write touches a byte that was
\* written and not read yet: the comment in write() holds for the wrapper.
THEOREM WritesSpareUnreadRecords == Spec => UnreadIntact
  <1>1. Spec => []IInv
    BY InitKeeps, NextKeeps, PTL DEF Spec
  <1>2. IInv => WritesSpareUnread({S})
    <2> SUFFICES ASSUME IInv, NEW b \in Buffers, NEW v \in Values, Write(b, S, v),
                        NEW p \in buf[b].rd .. buf[b].wr - 1
                 PROVE  buf'[b].mem[p % buf[b].size] = buf[b].mem[p % buf[b].size]
      BY DEF WritesSpareUnread
    <2> DEFINE B == buf[b]
               at == Bumped(B.wr, B.size, S)
    <2>1. GoodBuffer(B) /\ DOMAIN buf = Buffers
      BY IInvIsGood
    <2>2. CASE UNCHANGED buf
      BY <2>2
    <2>3. CASE HasRoom(B, S) /\ buf' = [buf EXCEPT ![b] = Stored(B, S, v)]
      <3>1. ~(p % B.size >= at % B.size /\ p % B.size < (at % B.size) + S)
        BY <2>1, <2>3, NewRecordApart
      <3>2. p % B.size \in DOMAIN B.mem
        <4>1. B.rd \in Nat /\ B.wr \in Nat /\ B.size \in Nat \ {0}
          BY <2>1, <2>3, CountAndFree, RoomMeansMemory
        <4>2. p \in Nat
          BY <4>1, SMT
        <4>3. p % B.size \in 0 .. B.size - 1
          BY <4>1, <4>2, LapAndOffset
        <4> QED BY <2>1, <4>3 DEF GoodBuffer, BufferOK, Memory
      <3>3. Stored(B, S, v).mem = [k \in DOMAIN B.mem |->
                IF k >= at % B.size /\ k < (at % B.size) + S THEN v ELSE B.mem[k]]
        BY <2>1 DEF Stored, GoodBuffer, BufferOK
      <3>4. buf'[b].mem = Stored(B, S, v).mem
        BY <2>1, <2>3
      <3> QED BY <3>1, <3>2, <3>3, <3>4
    <2> QED BY <2>2, <2>3 DEF Write, Append_, Refuse
  <1>3. IInv => [WritesSpareUnread({RecordLength})]_vars
    BY <1>2 DEF S
  <1> QED BY <1>1, <1>3, PTL DEF UnreadIntact

-------------------------------------------------------------------------------
(* The refinement of RingFifo.  The block is divided into slots of one     *)
(* record each, from its start; the gap is what is left at its end.        *)

Cap(B) == B.size \div S
Gap(B) == B.size % S

\* The slot the read position stands at; the number of slots means the gap.
First(B) == (B.rd % B.size) \div S

\* The slot of the i-th unread record.
Slot(B, i) == IF First(B) + i - 1 < Cap(B) THEN First(B) + i - 1
                                           ELSE First(B) + i - 1 - Cap(B)

\* The block is its slots and the gap.
LEMMA SlotsAndGap ==
    ASSUME NEW B, GoodBuffer(B)
    PROVE  /\ S \in Nat \ {0} /\ B.size \in Nat
           /\ Cap(B) \in Nat /\ Gap(B) \in 0 .. S - 1 /\ B.size = S * Cap(B) + Gap(B)
  <1>1. S \in Nat \ {0} /\ B.size \in Nat
    BY LengthAssumption, CountAndFree DEF S
  <1> QED BY <1>1, LapAndOffset DEF Cap, Gap

\* A position on the grid is so many slots into its lap, none or all of them included.
LEMMA SlotOf ==
    ASSUME NEW B, GoodBuffer(B), NEW pos \in Nat, B.size > 0, OnGrid(pos, B.size)
    PROVE  LET d == pos \div B.size
               r == (pos % B.size) \div S
           IN  /\ d \in Nat /\ r \in 0 .. Cap(B)
               /\ pos % B.size = S * r /\ S * r < B.size
               /\ pos = B.size * d + S * r
  <1> DEFINE M == B.size
             d == pos \div M
             o == pos % M
             r == o \div S
             k == Cap(B)
             g == Gap(B)
  <1>1. S \in Nat \ {0} /\ M \in Nat \ {0} /\ k \in Nat /\ g \in 0 .. S - 1 /\ M = S * k + g
    BY SlotsAndGap
  <1>2. o \in 0 .. M - 1 /\ d \in Nat /\ pos = M * d + o
    BY <1>1, LapAndOffset
  <1>3. o % S = 0 /\ o \in Nat
    BY <1>1, <1>2 DEF OnGrid, S
  <1> HIDE DEF o
  <1>4. r \in Nat /\ o = S * r + (o % S)
    BY <1>1, <1>3, LapAndOffset
  <1> HIDE DEF r, k, g, d
  <1>5. o = S * r
    BY <1>1, <1>3, <1>4
  <1>6. r <= k
    <2>1. k < r => S * k + S <= S * r
      BY <1>1, <1>4, LapsApart
    <2> QED BY <1>1, <1>2, <1>4, <1>5, <2>1
  <1> QED BY <1>1, <1>2, <1>4, <1>5, <1>6 DEF r, k, d, o, M

\* Where the two counters stand: on the same lap, or the writer one lap on and no
\* further into it than the reader.
LEMMA Positions ==
    ASSUME NEW B, GoodBuffer(B), B.size > 0
    PROVE  \E d \in Nat, c \in Nat, w \in 0 .. Cap(B) :
             /\ First(B) \in 0 .. Cap(B) /\ S * First(B) < B.size /\ S * w < B.size
             /\ B.rd % B.size = S * First(B) /\ B.rd = B.size * d + S * First(B)
             /\ B.wr % B.size = S * w /\ B.wr = B.size * c + S * w
             /\ S * First(B) \in Nat /\ S * w \in Nat
             /\ \/ c = d /\ First(B) <= w
                \/ c = d + 1 /\ w <= First(B)
             /\ B.size * (d + 1) = B.size * d + B.size
  <1> DEFINE M == B.size
             d == B.rd \div M
             c == B.wr \div M
             r == First(B)
             w == (B.wr % M) \div S
  <1>1. /\ M \in Nat \ {0} /\ B.rd \in Nat /\ B.wr \in Nat /\ S \in Nat \ {0}
        /\ B.rd <= B.wr /\ B.wr <= B.rd + M
    BY SlotsAndGap, CountAndFree DEF GoodBuffer, CountersOK
  <1>2. /\ d \in Nat /\ r \in 0 .. Cap(B) /\ B.rd % M = S * r /\ S * r < M /\ B.rd = M * d + S * r
    BY <1>1, SlotOf DEF GoodBuffer, CountersOK, First
  <1>3. /\ c \in Nat /\ w \in 0 .. Cap(B) /\ B.wr % M = S * w /\ S * w < M /\ B.wr = M * c + S * w
    BY <1>1, SlotOf DEF GoodBuffer, CountersOK
  <1>4. Cap(B) \in Nat
    BY SlotsAndGap
  <1> HIDE DEF d, c, r, w, M
  <1>5. S * r \in Nat /\ S * w \in Nat /\ M * d \in Nat /\ M * c \in Nat /\ r \in Nat /\ w \in Nat
    BY <1>1, <1>2, <1>3, <1>4
  <1>6. ~(c < d)
    <2>1. c < d => M * c + M <= M * d
      BY <1>1, <1>2, <1>3, LapsApart
    <2> QED BY <1>1, <1>2, <1>3, <1>5, <2>1
  <1>7. M * (d + 1) = M * d + M /\ d + 1 \in Nat
    BY <1>1, <1>2
  <1>8. ~(d + 1 < c)
    <2>1. d + 1 < c => M * (d + 1) + M <= M * c
      BY <1>1, <1>3, <1>7, LapsApart
    <2> QED BY <1>1, <1>2, <1>3, <1>5, <1>7, <2>1
  <1>9. c = d \/ c = d + 1
    BY <1>2, <1>3, <1>6, <1>8
  <1>10. CASE c = d
    <2>1. S * r <= S * w
      BY <1>1, <1>2, <1>3, <1>5, <1>10
    <2>2. w < r => S * w + S <= S * r
      BY <1>1, <1>5, LapsApart
    <2>3. r <= w
      BY <1>1, <1>5, <2>1, <2>2
    <2> QED BY <1>2, <1>3, <1>5, <1>7, <1>10, <2>3 DEF M, r
  <1>11. CASE c = d + 1
    <2>1. S * w <= S * r
      BY <1>1, <1>2, <1>3, <1>5, <1>7, <1>11
    <2>2. r < w => S * r + S <= S * w
      BY <1>1, <1>5, LapsApart
    <2>3. w <= r
      BY <1>1, <1>5, <2>1, <2>2
    <2> QED BY <1>2, <1>3, <1>5, <1>7, <1>11, <2>3 DEF M, r
  <1> QED BY <1>9, <1>10, <1>11

\* How many whole records a number of bytes is.
LEMMA Whole ==
    ASSUME NEW L \in Nat \ {0}, NEW k \in Nat, NEW g \in 0 .. L - 1
    PROVE  (L * k + g) \div L = k
  <1> DEFINE x == L * k + g
             q == x \div L
             o == x % L
  <1>1. x \in Nat
    BY SMT
  <1> HIDE DEF x
  <1>2. q \in Nat /\ o \in 0 .. L - 1 /\ x = L * q + o
    BY <1>1, LapAndOffset
  <1> HIDE DEF q, o
  <1>3. q < k => L * q + L <= L * k
    BY <1>2, LapsApart
  <1>4. k < q => L * k + L <= L * q
    BY <1>2, LapsApart
  <1>5. L * q \in Nat /\ L * k \in Nat
    BY <1>2
  <1>6. q = k
    BY <1>2, <1>3, <1>4, <1>5 DEF x
  <1> QED BY <1>6 DEF q, x

\* No more records than slots are unread; free() and count(), which the gap distorts,
\* tell all the same whether a record more fits or is there to be read.
LEMMA RecordsHeld ==
    ASSUME NEW B, GoodBuffer(B)
    PROVE  /\ Items(B) \in 0 .. Cap(B)
           /\ HasRoom(B, S) <=> Items(B) < Cap(B)
           /\ S <= Count(B) <=> Items(B) > 0
  <1> DEFINE k == Cap(B)
             g == Gap(B)
             r == First(B)
  <1>1. S \in Nat \ {0} /\ B.size \in Nat /\ k \in Nat /\ g \in 0 .. S - 1 /\ B.size = S * k + g
    BY SlotsAndGap
  <1>2. /\ Count(B) = B.wr - B.rd /\ Free(B) = B.size - (B.wr - B.rd)
        /\ B.rd \in Nat /\ B.wr \in Nat /\ B.rd <= B.wr /\ B.wr <= B.rd + B.size
    BY CountAndFree DEF GoodBuffer, CountersOK
  <1>3. Items(B) = Count(B) \div S
    BY DEF Items, S
  <1>4. \E n \in 0 .. k, e \in {0, g} : Count(B) = S * n + e
    <2>1. CASE B.size = 0
      <3>1. Count(B) = S * 0 + 0 /\ 0 \in 0 .. k
        BY <1>1, <1>2, <2>1
      <3> QED BY <3>1
    <2>2. CASE B.size > 0
      <3>1. PICK d \in Nat, c \in Nat, w \in 0 .. k :
               /\ r \in 0 .. k /\ S * r < B.size /\ S * w < B.size
               /\ B.rd = B.size * d + S * r
               /\ B.wr = B.size * c + S * w
               /\ S * r \in Nat /\ S * w \in Nat
               /\ \/ c = d /\ r <= w
                  \/ c = d + 1 /\ w <= r
               /\ B.size * (d + 1) = B.size * d + B.size
        BY <2>2, Positions
      <3> HIDE DEF k, g, r
      <3>2. CASE c = d /\ r <= w
        <4>1. w - r \in 0 .. k /\ Count(B) = S * (w - r) + 0
          BY <1>1, <1>2, <3>1, <3>2
        <4> QED BY <4>1
      <3>3. CASE c = d + 1 /\ w <= r
        <4>1. k + w - r \in 0 .. k
          BY <1>1, <3>1, <3>3
        <4>2. Count(B) = S * (k + w - r) + g
          BY <1>1, <1>2, <3>1, <3>3
        <4> QED BY <4>1, <4>2
      <3> QED BY <3>1, <3>2, <3>3
    <2> QED BY <1>1, <2>1, <2>2
  <1>5. PICK n \in 0 .. k, e \in {0, g} : Count(B) = S * n + e
    BY <1>4
  <1> HIDE DEF k, g, r
  <1>6. n \in Nat /\ e \in 0 .. S - 1 /\ S * n \in Nat
    BY <1>1, <1>5
  <1>7. Items(B) = n
    BY <1>1, <1>3, <1>5, <1>6, Whole
  <1>8. HasRoom(B, S) <=> S * n + S + e <= S * k + g
    BY <1>1, <1>2, <1>5, <1>6 DEF HasRoom
  <1>9. n < k => S * n + S <= S * k
    BY <1>1, <1>6, LapsApart
  <1>10. n = k => S * n = S * k
    OBVIOUS
  <1>11. HasRoom(B, S) <=> n < k
    BY <1>1, <1>5, <1>6, <1>8, <1>9, <1>10
  <1>12. 0 < n => S * 0 + S <= S * n
    BY <1>1, <1>6, LapsApart
  <1>13. S <= Count(B) <=> n > 0
    BY <1>1, <1>5, <1>6, <1>12
  <1> QED BY <1>5, <1>7, <1>11, <1>13 DEF k

\* A buffer that has slots: which are unread, and where the next record goes and comes from.
LEMMA PlacesOfRecords ==
    ASSUME NEW B, GoodBuffer(B), Cap(B) > 0
    PROVE  /\ First(B) \in 0 .. Cap(B)
           /\ \A i \in 1 .. Cap(B) : Slot(B, i) \in 0 .. Cap(B) - 1 /\ Offset(B, i) = S * Slot(B, i)
           /\ Items(B) < Cap(B) =>
                Bumped(B.wr, B.size, S) % B.size = S * Slot(B, Items(B) + 1)
           /\ Items(B) > 0 => Bumped(B.rd, B.size, S) % B.size = S * Slot(B, 1)
  <1> DEFINE k == Cap(B)
             g == Gap(B)
             r == First(B)
             M == B.size
  <1>1. S \in Nat \ {0} /\ M \in Nat /\ k \in Nat \ {0} /\ g \in 0 .. S - 1 /\ M = S * k + g
    BY SlotsAndGap
  <1>2. M > 0 /\ S <= M
    <2>1. S * 0 + S <= S * k
      BY <1>1, LapsApart
    <2> QED BY <1>1, <2>1
  <1>3. PICK d \in Nat, c \in Nat, w \in 0 .. k :
           /\ r \in 0 .. k /\ S * r < M /\ S * w < M
           /\ B.rd % M = S * r /\ B.rd = M * d + S * r
           /\ B.wr % M = S * w /\ B.wr = M * c + S * w
           /\ S * r \in Nat /\ S * w \in Nat
           /\ \/ c = d /\ r <= w
              \/ c = d + 1 /\ w <= r
           /\ M * (d + 1) = M * d + M
    BY <1>2, Positions
  <1>4. \A i \in 1 .. k : Slot(B, i) \in 0 .. k - 1 /\ Offset(B, i) = S * Slot(B, i)
    <2> SUFFICES ASSUME NEW i \in 1 .. k
                 PROVE  Slot(B, i) \in 0 .. k - 1 /\ Offset(B, i) = S * Slot(B, i)
      OBVIOUS
    <2>1. Slot(B, i) = IF r + i - 1 < k THEN r + i - 1 ELSE r + i - 1 - k
      BY DEF Slot
    <2>2. Offset(B, i) = IF i <= (M - S * r) \div S THEN S * r + (i - 1) * S
                         ELSE (i - ((M - S * r) \div S) - 1) * S
      BY <1>3 DEF Offset, S
    <2> HIDE DEF r, k, g, M
    <2>3. k - r \in Nat /\ M - S * r = S * (k - r) + g
      BY <1>1, <1>3
    <2>4. (M - S * r) \div S = k - r
      BY <1>1, <2>3, Whole
    <2>5. CASE r + i - 1 < k
      <3>1. i <= k - r
        BY <1>1, <1>3, <2>5
      <3>2. S * r + (i - 1) * S = S * (r + i - 1)
        BY <1>1, <1>3
      <3> QED BY <1>1, <1>3, <2>1, <2>2, <2>4, <2>5, <3>1, <3>2
    <2>6. CASE ~(r + i - 1 < k)
      <3>1. ~(i <= k - r)
        BY <1>1, <1>3, <2>6
      <3>2. (i - (k - r) - 1) * S = S * (r + i - 1 - k)
        BY <1>1, <1>3
      <3> QED BY <1>1, <1>3, <2>1, <2>2, <2>4, <2>6, <3>1, <3>2
    <2> QED BY <2>5, <2>6
  <1>5. ASSUME NEW pos \in Nat, NEW e \in Nat, NEW s \in 0 .. k, pos % M = S * s, S * s < M,
               pos = M * e + S * s
        PROVE  /\ s < k => Bumped(pos, M, S) = pos /\ Bumped(pos, M, S) % M = S * s
               /\ s = k => Bumped(pos, M, S) % M = S * 0
    <2> HIDE DEF k, g, r, M
    <2>1. Bumped(pos, M, S) = IF M - S * s < S THEN pos + (M - S * s) ELSE pos
      BY <1>5 DEF Bumped
    <2>2. CASE s < k
      <3>1. S * s + S <= S * k
        BY <1>1, <2>2, LapsApart
      <3>2. S * s \in Nat /\ S * k \in Nat
        BY <1>1
      <3>3. ~(M - S * s < S)
        BY <1>1, <3>1, <3>2
      <3> QED BY <1>5, <2>1, <2>2, <3>3
    <2>3. CASE s = k
      <3>1. S * k \in Nat
        BY <1>1
      <3>2. M - S * s < S
        BY <1>1, <2>3, <3>1
      <3>3. Bumped(pos, M, S) = M * (e + 1) + 0 /\ e + 1 \in Nat
        BY <1>1, <1>5, <2>1, <3>2
      <3>4. (M * (e + 1) + 0) % M = 0
        BY <1>1, <1>2, <3>3, OffsetOf
      <3> QED BY <1>1, <2>3, <3>3, <3>4
    <2> QED BY <2>2, <2>3
  <1>6. B.rd \in Nat /\ B.wr \in Nat
    BY CountAndFree
  <1>7. ASSUME Items(B) < k
        PROVE  Bumped(B.wr, M, S) % M = S * Slot(B, Items(B) + 1)
    <2>1. Items(B) = IF c = d THEN w - r ELSE k + w - r
      <3>1. Items(B) = (B.wr - B.rd) \div S
        BY CountAndFree DEF Items, S
      <3> HIDE DEF r, k, g, M
      <3>2. CASE c = d /\ r <= w
        <4>1. B.wr - B.rd = S * (w - r) + 0 /\ w - r \in Nat /\ 0 \in 0 .. S - 1
          BY <1>1, <1>3, <3>2
        <4> QED BY <1>1, <3>1, <3>2, <4>1, Whole
      <3>3. CASE c = d + 1 /\ w <= r
        <4>1. B.wr - B.rd = S * (k + w - r) + g /\ k + w - r \in Nat
          BY <1>1, <1>3, <3>3
        <4>2. c # d
          BY <3>3
        <4> QED BY <1>1, <3>1, <4>1, <4>2, Whole
      <3> QED BY <1>3, <3>2, <3>3
    <2>2. Slot(B, Items(B) + 1) = IF r + Items(B) < k THEN r + Items(B) ELSE r + Items(B) - k
      BY <1>1, <1>3, <2>1 DEF Slot
    <2>3. /\ w < k => Bumped(B.wr, M, S) % M = S * w
          /\ w = k => Bumped(B.wr, M, S) % M = S * 0
      BY <1>3, <1>5, <1>6
    <2> HIDE DEF r, k, g, M
    <2>4. Slot(B, Items(B) + 1) = IF w < k THEN w ELSE 0
      BY <1>1, <1>3, <1>7, <2>1, <2>2
    <2>5. w < k \/ w = k
      BY <1>1, <1>3
    <2> QED BY <2>3, <2>4, <2>5
  <1>8. Bumped(B.rd, M, S) % M = S * Slot(B, 1)
    <2>1. r < k \/ r = k
      <3> HIDE DEF r, k, g, M
      <3> QED BY <1>1, <1>3
    <2>2. Slot(B, 1) = IF r + 1 - 1 < k THEN r + 1 - 1 ELSE r + 1 - 1 - k
      BY DEF Slot
    <2>3. /\ r < k => Bumped(B.rd, M, S) % M = S * r
          /\ r = k => Bumped(B.rd, M, S) % M = S * 0
      BY <1>3, <1>5, <1>6
    <2> HIDE DEF r, k, g, M
    <2>4. Slot(B, 1) = IF r < k THEN r ELSE 0
      BY <1>1, <1>3, <2>1, <2>2
    <2> QED BY <2>1, <2>3, <2>4
  <1> QED BY <1>3, <1>4, <1>7, <1>8

\* A write takes the next slot,
LEMMA OneMore ==
    ASSUME NEW B, GoodBuffer(B), HasRoom(B, S),
           NEW C, GoodBuffer(C), C.size = B.size, C.rd = B.rd,
           C.wr = Bumped(B.wr, B.size, S) + S
    PROVE  /\ Items(C) = Items(B) + 1
           /\ Cap(C) = Cap(B)
           /\ \A i \in 1 .. Items(B) + 1 : Offset(C, i) = Offset(B, i)
  <1> DEFINE k == Cap(B)
             g == Gap(B)
             r == First(B)
             M == B.size
             n == Items(B)
             at == Bumped(B.wr, M, S)
  <1>1. S \in Nat \ {0} /\ M \in Nat /\ k \in Nat /\ g \in 0 .. S - 1 /\ M = S * k + g
    BY SlotsAndGap
  <1>2. n \in 0 .. k /\ n < k /\ n \in Nat
    BY RecordsHeld, <1>1
  <1>3. Cap(C) = k /\ \A i \in 1 .. n + 1 : Offset(C, i) = Offset(B, i)
    BY DEF Cap, Offset
  <1>4. M > 0
    BY RoomMeansMemory
  <1>5. PICK d \in Nat, c \in Nat, w \in 0 .. k :
           /\ r \in 0 .. k /\ S * r < M /\ S * w < M
           /\ B.rd % M = S * r /\ B.rd = M * d + S * r
           /\ B.wr % M = S * w /\ B.wr = M * c + S * w
           /\ S * r \in Nat /\ S * w \in Nat
           /\ \/ c = d /\ r <= w
              \/ c = d + 1 /\ w <= r
           /\ M * (d + 1) = M * d + M
    BY <1>4, Positions
  <1>6. Count(B) = B.wr - B.rd /\ Count(C) = (at + S) - B.rd /\ Items(C) = Count(C) \div S
        /\ Items(B) = Count(B) \div S
    <2>1. Count(B) = B.wr - B.rd /\ Count(C) = C.wr - C.rd
      BY CountAndFree
    <2>2. C.wr = at + S
      OBVIOUS
    <2> HIDE DEF at
    <2>3. Count(C) = (at + S) - B.rd
      BY <2>1, <2>2
    <2>4. Items(C) = Count(C) \div S /\ Items(B) = Count(B) \div S
      BY DEF Items, S
    <2> QED BY <2>1, <2>3, <2>4
  <1>7. at = IF M - S * w < S THEN B.wr + (M - S * w) ELSE B.wr
    BY <1>5 DEF Bumped
  <1> HIDE DEF k, g, r, M, n, at
  <1>8. w < k => S * w + S <= S * k
    BY <1>1, <1>5, LapsApart
  <1>9. S * k \in Nat
    BY <1>1
  <1>10. Items(C) = n + 1
    <2>1. CASE w < k
      <3>1. at = B.wr
        BY <1>1, <1>5, <1>7, <1>8, <1>9, <2>1
      <3>2. CASE c = d
        <4>1. Count(B) = S * (w - r) + 0 /\ w - r \in Nat /\ 0 \in 0 .. S - 1
          BY <1>1, <1>5, <1>6, <3>2
        <4>2. Count(C) = S * (w - r + 1) + 0 /\ w - r + 1 \in Nat
          BY <1>1, <1>5, <1>6, <3>1, <3>2
        <4>3. n = w - r
          BY <1>1, <1>6, <4>1, Whole DEF n
        <4>4. Items(C) = w - r + 1
          BY <1>1, <1>6, <4>1, <4>2, Whole
        <4> QED BY <4>3, <4>4
      <3>3. CASE c = d + 1
        <4>1. Count(B) = S * (k + w - r) + g /\ k + w - r \in Nat
          BY <1>1, <1>5, <1>6, <3>3
        <4>2. Count(C) = S * (k + w - r + 1) + g /\ k + w - r + 1 \in Nat
          BY <1>1, <1>5, <1>6, <3>1, <3>3
        <4>3. n = k + w - r
          BY <1>1, <1>6, <4>1, Whole DEF n
        <4>4. Items(C) = k + w - r + 1
          BY <1>1, <1>6, <4>2, Whole
        <4> QED BY <4>3, <4>4
      <3> QED BY <1>5, <3>2, <3>3
    <2>2. CASE w = k
      <3>1. at = B.wr + (M - S * w)
        BY <1>1, <1>5, <1>7, <1>9, <2>2
      <3>2. CASE c = d
        <4>1. Count(B) = S * (k - r) + 0 /\ k - r \in Nat /\ 0 \in 0 .. S - 1
          BY <1>1, <1>5, <1>6, <2>2, <3>2
        <4>2. Count(C) = S * (k - r + 1) + g /\ k - r + 1 \in Nat
          BY <1>1, <1>5, <1>6, <2>2, <3>1, <3>2
        <4>3. n = k - r
          BY <1>1, <1>6, <4>1, Whole DEF n
        <4>4. Items(C) = k - r + 1
          BY <1>1, <1>6, <4>2, Whole
        <4> QED BY <4>3, <4>4
      <3>3. CASE c = d + 1 /\ w <= r
        <4>1. Count(B) = S * k + g
          BY <1>1, <1>5, <1>6, <2>2, <3>3
        <4>2. n = k
          BY <1>1, <1>6, <4>1, Whole DEF n
        <4> QED BY <1>2, <4>2
      <3> QED BY <1>5, <3>2, <3>3
    <2> QED BY <1>1, <1>5, <2>1, <2>2
  <1> QED BY <1>3, <1>10 DEF n, k

\* and a read frees the first: the second becomes the first.
LEMMA OneLess ==
    ASSUME NEW B, GoodBuffer(B), S <= Count(B),
           NEW C, GoodBuffer(C), C.size = B.size, C.wr = B.wr,
           C.rd = Bumped(B.rd, B.size, S) + S
    PROVE  /\ Items(C) = Items(B) - 1
           /\ Cap(C) = Cap(B)
           /\ \A i \in 1 .. Items(B) - 1 : Offset(C, i) = Offset(B, i + 1)
  <1> DEFINE k == Cap(B)
             g == Gap(B)
             r == First(B)
             M == B.size
             n == Items(B)
             at == Bumped(B.rd, M, S)
  <1>1. S \in Nat \ {0} /\ M \in Nat /\ k \in Nat /\ g \in 0 .. S - 1 /\ M = S * k + g
    BY SlotsAndGap
  <1>2. n \in 0 .. k /\ n > 0 /\ n \in Nat /\ k > 0
    <2>1. n \in 0 .. k /\ n > 0
      BY RecordsHeld
    <2> HIDE DEF n, k
    <2> QED BY <1>1, <2>1
  <1>3. Cap(C) = k
    BY DEF Cap
  <1>4. M > 0
    BY RoomMeansMemory
  <1>5. PICK d \in Nat, c \in Nat, w \in 0 .. k :
           /\ r \in 0 .. k /\ S * r < M /\ S * w < M
           /\ B.rd % M = S * r /\ B.rd = M * d + S * r
           /\ B.wr % M = S * w /\ B.wr = M * c + S * w
           /\ S * r \in Nat /\ S * w \in Nat
           /\ \/ c = d /\ r <= w
              \/ c = d + 1 /\ w <= r
           /\ M * (d + 1) = M * d + M
    BY <1>4, Positions
  <1>6. Count(B) = B.wr - B.rd /\ Count(C) = B.wr - (at + S) /\ Items(C) = Count(C) \div S
        /\ Items(B) = Count(B) \div S
    BY CountAndFree DEF Items, S
  <1>7. at = IF M - S * r < S THEN B.rd + (M - S * r) ELSE B.rd
    BY <1>5 DEF Bumped
  <1>8. First(C) = ((at + S) % M) \div S
    BY DEF First
  <1> HIDE DEF k, g, r, M, n, at
  <1>9. r < k => S * r + S <= S * k
    BY <1>1, <1>5, LapsApart
  <1>10. S * k \in Nat
    BY <1>1
  <1>11. r < k \/ r = k
    BY <1>1, <1>5
  <1>12. Items(C) = n - 1
    <2>1. CASE r < k
      <3>1. at = B.rd
        BY <1>1, <1>5, <1>7, <1>9, <1>10, <2>1
      <3>2. CASE c = d /\ r <= w
        <4>1. Count(B) = S * (w - r) + 0 /\ w - r \in Nat /\ 0 \in 0 .. S - 1
          BY <1>1, <1>5, <1>6, <3>2
        <4>2. n = w - r
          BY <1>1, <1>6, <4>1, Whole DEF n
        <4>3. Count(C) = S * (w - r - 1) + 0 /\ w - r - 1 \in Nat
          BY <1>1, <1>2, <1>5, <1>6, <3>1, <3>2, <4>2
        <4>4. Items(C) = w - r - 1
          BY <1>1, <1>6, <4>1, <4>3, Whole
        <4> QED BY <4>2, <4>4
      <3>3. CASE c = d + 1
        <4>1. Count(B) = S * (k + w - r) + g /\ k + w - r \in Nat
          BY <1>1, <1>5, <1>6, <3>3
        <4>2. Count(C) = S * (k + w - r - 1) + g /\ k + w - r - 1 \in Nat
          BY <1>1, <1>5, <1>6, <2>1, <3>1, <3>3
        <4>3. n = k + w - r
          BY <1>1, <1>6, <4>1, Whole DEF n
        <4>4. Items(C) = k + w - r - 1
          BY <1>1, <1>6, <4>2, Whole
        <4> QED BY <1>1, <1>5, <4>3, <4>4
      <3> QED BY <1>5, <3>2, <3>3
    <2>2. CASE r = k
      <3>1. at = B.rd + (M - S * r)
        BY <1>1, <1>5, <1>7, <1>10, <2>2
      <3>2. CASE c = d /\ r <= w
        <4>1. w = k
          BY <1>1, <1>5, <2>2, <3>2
        <4>2. Count(B) = S * 0 + 0 /\ 0 \in Nat /\ 0 \in 0 .. S - 1
          BY <1>1, <1>5, <1>6, <2>2, <3>2, <4>1
        <4>3. n = 0
          BY <1>1, <1>6, <4>2, Whole DEF n
        <4> QED BY <1>2, <4>3
      <3>3. CASE c = d + 1
        <4>1. Count(B) = S * w + g /\ w \in Nat
          BY <1>1, <1>5, <1>6, <2>2, <3>3
        <4>2. n = w
          BY <1>1, <1>6, <4>1, Whole DEF n
        <4>3. Count(C) = S * (w - 1) + 0 /\ w - 1 \in Nat /\ 0 \in 0 .. S - 1
          BY <1>1, <1>2, <1>5, <1>6, <2>2, <3>1, <3>3, <4>2
        <4>4. Items(C) = w - 1
          BY <1>1, <1>6, <4>3, Whole
        <4> QED BY <4>2, <4>4
      <3> QED BY <1>5, <3>2, <3>3
    <2> QED BY <1>11, <2>1, <2>2
  <1>13. First(C) = IF r < k THEN IF S * (r + 1) < M THEN r + 1 ELSE 0 ELSE 1
    <2>1. ASSUME NEW e \in Nat, NEW s \in Nat, S * s < M, at + S = M * e + S * s
          PROVE  First(C) = s
      <3>1. S * s \in 0 .. M - 1 /\ S * s = S * s + 0 /\ 0 \in 0 .. S - 1
        BY <1>1, <2>1
      <3>2. M \in Nat \ {0}
        BY <1>1, <1>4
      <3> DEFINE o == S * s
      <3>3. o \in 0 .. M - 1 /\ at + S = M * e + o
        BY <2>1, <3>1
      <3> HIDE DEF o
      <3>4. (M * e + o) % M = o
        BY <3>2, <3>3, OffsetOf
      <3>5. (at + S) % M = S * s + 0
        BY <3>1, <3>3, <3>4 DEF o
      <3> QED BY <1>1, <1>8, <3>1, <3>5, Whole
    <2>2. CASE r < k /\ S * (r + 1) < M
      <3>1. at + S = M * d + S * (r + 1) /\ r + 1 \in Nat
        BY <1>1, <1>5, <1>7, <1>9, <1>10, <2>2
      <3> QED BY <2>1, <2>2, <3>1
    <2>3. CASE r < k /\ ~(S * (r + 1) < M)
      <3>1. S * (r + 1) = S * r + S /\ at = B.rd
        BY <1>1, <1>5, <1>7, <1>9, <1>10, <2>3
      <3>2. S * (r + 1) = M
        BY <1>1, <1>5, <1>9, <1>10, <2>3, <3>1
      <3>3. at + S = M * (d + 1) + S * 0 /\ d + 1 \in Nat /\ S * 0 < M
        BY <1>1, <1>4, <1>5, <3>1, <3>2
      <3> QED BY <2>1, <2>3, <3>3
    <2>4. CASE r = k
      <3>1. at + S = M * (d + 1) + S * 1 /\ d + 1 \in Nat
        BY <1>1, <1>5, <1>7, <1>10, <2>4
      <3>2. 0 < k => S * 0 + S <= S * k
        BY <1>1, LapsApart
      <3>3. S * 1 < M
        BY <1>1, <1>2, <1>5, <1>10, <2>4, <3>2
      <3>4. First(C) = 1
        BY <2>1, <3>1, <3>3
      <3> QED BY <1>1, <2>4, <3>4
    <2> QED BY <1>11, <2>2, <2>3, <2>4
  <1>14. r < k /\ ~(S * (r + 1) < M) => r + 1 = k
    <2>1. r + 1 < k => S * (r + 1) + S <= S * k
      BY <1>1, <1>5, LapsApart
    <2>2. S * (r + 1) \in Nat
      BY <1>1, <1>5
    <2> QED BY <1>1, <1>5, <1>10, <2>1, <2>2
  <1>15. ASSUME NEW i \in 1 .. n - 1 PROVE Offset(C, i) = Offset(B, i + 1)
    <2>1. i \in 1 .. k /\ i + 1 \in 1 .. k /\ i < k
      BY <1>1, <1>2
    <2>2. Offset(B, i + 1) = S * Slot(B, i + 1)
      BY <1>2, <2>1, PlacesOfRecords DEF k
    <2>3. Offset(C, i) = S * Slot(C, i)
      BY <1>2, <1>3, <2>1, PlacesOfRecords
    <2>4. Slot(B, i + 1) = IF r + (i + 1) - 1 < k THEN r + (i + 1) - 1 ELSE r + (i + 1) - 1 - k
      BY DEF Slot, r, k
    <2>5. Slot(C, i) = IF First(C) + i - 1 < k THEN First(C) + i - 1 ELSE First(C) + i - 1 - k
      BY <1>3 DEF Slot
    <2>6. Slot(C, i) = Slot(B, i + 1)
      BY <1>1, <1>5, <1>11, <1>13, <1>14, <2>1, <2>4, <2>5
    <2> QED BY <2>2, <2>3, <2>6
  <1> QED BY <1>3, <1>12, <1>15 DEF n, k

\* The bytes of a slot are of one record.
Uniform(B) == \A j \in 0 .. Cap(B) - 1, n \in 0 .. S - 1 : B.mem[S * j + n] = B.mem[S * j]

\* A slot lies in the block, and apart from every other.
LEMMA SlotInBlock ==
    ASSUME NEW B, GoodBuffer(B), NEW j \in 0 .. Cap(B) - 1
    PROVE  /\ S * j \in Nat /\ S * j + S <= B.size
           /\ \A i \in 0 .. Cap(B) - 1 : i # j => S * i + S <= S * j \/ S * j + S <= S * i
  <1> DEFINE k == Cap(B)
             g == Gap(B)
  <1>1. S \in Nat \ {0} /\ B.size \in Nat /\ k \in Nat /\ g \in 0 .. S - 1 /\ B.size = S * k + g
    BY SlotsAndGap
  <1>2. j \in 0 .. k - 1
    OBVIOUS
  <1> HIDE DEF k, g
  <1>3. S * j + S <= S * k
    BY <1>1, <1>2, LapsApart
  <1>4. S * j \in Nat /\ S * k \in Nat
    BY <1>1, <1>2
  <1>5. ASSUME NEW i \in 0 .. k - 1, i # j PROVE S * i + S <= S * j \/ S * j + S <= S * i
    <2>1. i < j => S * i + S <= S * j
      BY <1>1, <1>2, LapsApart
    <2>2. j < i => S * j + S <= S * i
      BY <1>1, <1>2, LapsApart
    <2> QED BY <1>1, <1>2, <1>5, <2>1, <2>2
  <1> QED BY <1>1, <1>3, <1>4, <1>5 DEF k

\* What reading a slot hands back.
LEMMA ContentOfSlot ==
    ASSUME NEW B, GoodBuffer(B), Uniform(B), NEW j \in 0 .. Cap(B) - 1
    PROVE  Content(B, S * j, S) = B.mem[S * j] /\ B.mem[S * j] \in Records
  <1>1. S \in Nat \ {0} /\ B.size \in Nat /\ S * j \in Nat /\ S * j + S <= B.size
    BY SlotInBlock, SlotsAndGap
  <1> DEFINE off == S * j
  <1>2. B.mem \in [0 .. B.size - 1 -> Records]
    BY DEF GoodBuffer, BufferOK, Memory
  <1>3. ASSUME NEW p \in off .. off + S - 1
        PROVE  p \in DOMAIN B.mem /\ B.mem[p] = B.mem[off]
    <2>1. off \in Nat /\ off + S <= B.size
      BY <1>1
    <2> DEFINE n == p - off
    <2> HIDE DEF off
    <2>2. n \in 0 .. S - 1 /\ p = off + n /\ p \in 0 .. B.size - 1
      BY <1>1, <1>3, <2>1
    <2> HIDE DEF n
    <2>3. B.mem[off + n] = B.mem[off]
      BY <2>2 DEF Uniform, off
    <2> QED BY <1>2, <2>2, <2>3
  <1>4. off \in 0 .. B.size - 1
    BY <1>1
  <1> HIDE DEF off
  <1>5. Content(B, off, S) = B.mem[off] /\ B.mem[off] \in Records
    BY <1>2, <1>3, <1>4 DEF Content
  <1> QED BY <1>5 DEF off

\* The unread records are a sequence, of what their slots hold.
LEMMA UnreadIs ==
    ASSUME NEW B, GoodBuffer(B), Uniform(B)
    PROVE  /\ Items(B) \in Nat
           /\ Unread(B) \in Seq(Records) /\ Len(Unread(B)) = Items(B)
           /\ \A i \in 1 .. Items(B) :
                /\ Unread(B)[i] = Content(B, Offset(B, i), S)
                /\ Unread(B)[i] = B.mem[S * Slot(B, i)]
                /\ Offset(B, i) = S * Slot(B, i)
                /\ Slot(B, i) \in 0 .. Cap(B) - 1
  <1>1. Items(B) \in 0 .. Cap(B) /\ Cap(B) \in Nat
    BY RecordsHeld, SlotsAndGap
  <1>2. Unread(B) = [i \in 1 .. Items(B) |-> Content(B, Offset(B, i), S)]
    BY DEF Unread, S
  <1>3. ASSUME NEW i \in 1 .. Items(B)
        PROVE  /\ Content(B, Offset(B, i), S) = B.mem[S * Slot(B, i)]
               /\ B.mem[S * Slot(B, i)] \in Records
               /\ Offset(B, i) = S * Slot(B, i)
               /\ Slot(B, i) \in 0 .. Cap(B) - 1
    <2>1. Cap(B) > 0 /\ i \in 1 .. Cap(B)
      BY <1>1
    <2>2. Slot(B, i) \in 0 .. Cap(B) - 1 /\ Offset(B, i) = S * Slot(B, i)
      BY <2>1, PlacesOfRecords
    <2> QED BY <2>2, ContentOfSlot
  <1>4. Items(B) \in Nat
    BY <1>1
  <1>5. Unread(B) \in Seq(Records) /\ Len(Unread(B)) = Items(B)
    <2>1. Unread(B) \in [1 .. Items(B) -> Records]
      BY <1>2, <1>3
    <2> HIDE DEF Unread
    <2> QED BY <1>4, <2>1
  <1> QED BY <1>2, <1>3, <1>4, <1>5

\* A buffer without records.
LEMMA NothingUnread ==
    ASSUME NEW B, GoodBuffer(B), Uniform(B), Items(B) = 0
    PROVE  Unread(B) = << >>
  <1>1. Unread(B) \in Seq(Records) /\ Len(Unread(B)) = 0
    BY UnreadIs
  <1> QED BY <1>1, EmptySeq

\* The record that is written next is none of the unread ones.
LEMMA NewSlot ==
    ASSUME NEW B, GoodBuffer(B), Items(B) < Cap(B), NEW i \in 1 .. Items(B)
    PROVE  Slot(B, i) # Slot(B, Items(B) + 1)
  <1> DEFINE k == Cap(B)
             n == Items(B)
             r == First(B)
  <1>1. k \in Nat /\ n \in 0 .. k /\ n < k
    BY RecordsHeld, SlotsAndGap
  <1>2. k > 0
    BY <1>1
  <1>3. r \in 0 .. k
    BY <1>2, PlacesOfRecords
  <1>4. /\ Slot(B, i) = IF r + i - 1 < k THEN r + i - 1 ELSE r + i - 1 - k
        /\ Slot(B, n + 1) = IF r + (n + 1) - 1 < k THEN r + (n + 1) - 1
                                                   ELSE r + (n + 1) - 1 - k
    BY DEF Slot
  <1>5. i \in 1 .. n
    OBVIOUS
  <1> HIDE DEF k, n, r
  <1>6. Slot(B, i) # Slot(B, n + 1)
    BY <1>1, <1>3, <1>4, <1>5
  <1> QED BY <1>6 DEF n

\* Reserving or writing a record appends what its slot then holds.
LEMMA WriteAppends ==
    ASSUME NEW B, GoodBuffer(B), Uniform(B), HasRoom(B, S),
           NEW C, GoodBuffer(C), Uniform(C), C.size = B.size, C.rd = B.rd,
           C.wr = Bumped(B.wr, B.size, S) + S,
           \A j \in 0 .. Cap(B) - 1 :
             S * j # Bumped(B.wr, B.size, S) % B.size => C.mem[S * j] = B.mem[S * j]
    PROVE  /\ Bumped(B.wr, B.size, S) % B.size = S * Slot(B, Items(B) + 1)
           /\ Slot(B, Items(B) + 1) \in 0 .. Cap(B) - 1
           /\ C.mem[S * Slot(B, Items(B) + 1)] \in Records
           /\ Unread(C) = Append(Unread(B), C.mem[S * Slot(B, Items(B) + 1)])
  <1> DEFINE k == Cap(B)
             n == Items(B)
             new == Slot(B, n + 1)
             v == C.mem[S * new]
             q == Unread(B)
             z == Unread(C)
             a == Append(q, v)
  <1>1. k \in Nat /\ n \in 0 .. k /\ n < k
    BY RecordsHeld, SlotsAndGap
  <1>2. k > 0 /\ n + 1 \in 1 .. k /\ n \in Nat
    BY <1>1
  <1>3. Bumped(B.wr, B.size, S) % B.size = S * new /\ new \in 0 .. k - 1
    BY <1>1, <1>2, PlacesOfRecords
  <1>4. Items(C) = n + 1 /\ Cap(C) = k /\ \A i \in 1 .. n + 1 : Offset(C, i) = Offset(B, i)
    BY OneMore
  <1>5. v \in Records
    BY <1>3, <1>4, ContentOfSlot
  <1>6. /\ q \in Seq(Records) /\ Len(q) = n
        /\ \A i \in 1 .. n : q[i] = B.mem[S * Slot(B, i)] /\ Slot(B, i) \in 0 .. k - 1
    BY UnreadIs
  <1>7. /\ z \in Seq(Records) /\ Len(z) = n + 1
        /\ \A i \in 1 .. n + 1 : z[i] = Content(C, Offset(C, i), S)
    BY <1>4, UnreadIs
  <1>8. ASSUME NEW i \in 1 .. n + 1 PROVE z[i] = C.mem[S * Slot(B, i)]
    <2>1. i \in 1 .. k
      <3> HIDE DEF n, k
      <3> QED BY <1>1, <1>2
    <2>2. Slot(B, i) \in 0 .. k - 1 /\ Offset(B, i) = S * Slot(B, i)
      BY <1>2, <2>1, PlacesOfRecords
    <2>3. Content(C, S * Slot(B, i), S) = C.mem[S * Slot(B, i)]
      BY <1>4, <2>2, ContentOfSlot
    <2> QED BY <1>4, <1>7, <2>2, <2>3
  <1>9. ASSUME NEW i \in 1 .. n PROVE z[i] = q[i]
    <2>1. Slot(B, i) # new /\ Slot(B, i) \in 0 .. k - 1
      BY <1>1, <1>6, NewSlot
    <2>2. S * Slot(B, i) # S * new
      <3>1. S * Slot(B, i) + S <= S * new \/ S * new + S <= S * Slot(B, i)
        BY <1>3, <2>1, SlotInBlock
      <3>2. S \in Nat \ {0} /\ S * Slot(B, i) \in Nat /\ S * new \in Nat
        BY <1>3, <2>1, SlotInBlock, SlotsAndGap
      <3> HIDE DEF new
      <3> QED BY <3>1, <3>2
    <2>3. C.mem[S * Slot(B, i)] = B.mem[S * Slot(B, i)]
      BY <1>3, <2>1, <2>2
    <2>4. i \in 1 .. n + 1
      BY <1>2
    <2> QED BY <1>6, <1>8, <2>3, <2>4
  <1>10. z[n + 1] = v
    BY <1>2, <1>8
  <1> HIDE DEF z, q, v, n, k, new
  <1>11. /\ a \in Seq(Records) /\ Len(a) = n + 1 /\ a[n + 1] = v
         /\ \A i \in 1 .. n : a[i] = q[i]
    BY <1>5, <1>6, AppendProperties
  <1> HIDE DEF a
  <1>12. \A i \in 1 .. n + 1 : z[i] = a[i]
    <2> SUFFICES ASSUME NEW i \in 1 .. n + 1 PROVE z[i] = a[i]
      OBVIOUS
    <2>1. i \in 1 .. n \/ i = n + 1
      BY <1>2
    <2> QED BY <1>9, <1>10, <1>11, <2>1
  <1>13. z = a
    BY <1>7, <1>11, <1>12, SeqEqual
  <1> QED BY <1>3, <1>5, <1>13 DEF z, a, v, new, k, n, q

\* Reading hands back the first unread record and leaves the others.
LEMMA ReadTakesHead ==
    ASSUME NEW B, GoodBuffer(B), Uniform(B), S <= Count(B)
    PROVE  /\ GoodBuffer(Consumed(B, S)) /\ Uniform(Consumed(B, S))
           /\ Consumed(B, S).init = B.init /\ Cap(Consumed(B, S)) = Cap(B)
           /\ Unread(B) # << >>
           /\ Content(B, Bumped(B.rd, B.size, S) % B.size, S) = Head(Unread(B))
           /\ Unread(Consumed(B, S)) = Tail(Unread(B))
  <1> DEFINE C == Consumed(B, S)
             n == Items(B)
             q == Unread(B)
             z == Unread(C)
  <1>1. GoodBuffer(C)
    BY ConsumedGood
  <1>2. /\ C.size = B.size /\ C.wr = B.wr /\ C.mem = B.mem /\ C.init = B.init
        /\ C.rd = Bumped(B.rd, B.size, S) + S
    BY DEF Consumed, GoodBuffer, BufferOK
  <1> HIDE DEF C
  <1>3. /\ Items(C) = n - 1 /\ Cap(C) = Cap(B)
        /\ \A i \in 1 .. n - 1 : Offset(C, i) = Offset(B, i + 1)
    BY <1>1, <1>2, OneLess
  <1>4. Uniform(C)
    BY <1>2, <1>3 DEF Uniform
  <1>5. n > 0 /\ n \in Nat /\ Cap(B) > 0
    <2>1. n \in 0 .. Cap(B) /\ n > 0 /\ Cap(B) \in Nat
      BY RecordsHeld, SlotsAndGap
    <2> HIDE DEF n
    <2> QED BY <2>1
  <1>6. /\ q \in Seq(Records) /\ Len(q) = n
        /\ \A i \in 1 .. n : q[i] = Content(B, Offset(B, i), S) /\ Offset(B, i) = S * Slot(B, i)
    BY UnreadIs
  <1>7. /\ z \in Seq(Records) /\ Len(z) = n - 1
        /\ \A i \in 1 .. n - 1 : z[i] = Content(C, Offset(C, i), S)
    BY <1>1, <1>3, <1>4, UnreadIs
  <1>8. Bumped(B.rd, B.size, S) % B.size = S * Slot(B, 1)
    BY <1>5, PlacesOfRecords
  <1>9. \A off : Content(C, off, S) = Content(B, off, S)
    BY <1>2 DEF Content
  <1> HIDE DEF n, q, z
  <1>10. q # << >>
    <2>1. Len(<< >>) = 0
      BY EmptySeq
    <2> QED BY <1>5, <1>6, <2>1
  <1>11. 1 \in 1 .. n
    BY <1>5
  <1>12. Head(q) = q[1]
    BY <1>6, <1>10
  <1>13. Content(B, Bumped(B.rd, B.size, S) % B.size, S) = Head(q)
    BY <1>6, <1>8, <1>11, <1>12
  <1>14. /\ Tail(q) \in Seq(Records) /\ Len(Tail(q)) = n - 1
         /\ \A i \in 1 .. n - 1 : Tail(q)[i] = q[i + 1]
    BY <1>6, <1>10, HeadTailProperties
  <1>15. ASSUME NEW i \in 1 .. n - 1 PROVE z[i] = Tail(q)[i]
    <2>1. i + 1 \in 1 .. n
      BY <1>5
    <2> QED BY <1>3, <1>6, <1>7, <1>9, <1>14, <2>1 DEF n
  <1>16. z = Tail(q)
    BY <1>7, <1>14, <1>15, SeqEqual
  <1> QED BY <1>1, <1>2, <1>3, <1>4, <1>10, <1>13, <1>16 DEF C, q, z

\* Reserving appends whatever the slot holds,
LEMMA ReserveAppends ==
    ASSUME NEW B, GoodBuffer(B), Uniform(B), HasRoom(B, S)
    PROVE  /\ GoodBuffer(Reserved(B, S)) /\ Uniform(Reserved(B, S))
           /\ Reserved(B, S).init = B.init /\ Cap(Reserved(B, S)) = Cap(B)
           /\ \E v \in Records : Unread(Reserved(B, S)) = Append(Unread(B), v)
  <1> DEFINE C == Reserved(B, S)
  <1>1. GoodBuffer(C)
    BY ReservedGood
  <1>2. /\ C.size = B.size /\ C.rd = B.rd /\ C.mem = B.mem /\ C.init = B.init
        /\ C.wr = Bumped(B.wr, B.size, S) + S
    BY DEF Reserved, GoodBuffer, BufferOK
  <1> HIDE DEF C
  <1>3. Cap(C) = Cap(B)
    BY <1>2 DEF Cap
  <1>4. Uniform(C)
    BY <1>2, <1>3 DEF Uniform
  <1>5. /\ C.mem[S * Slot(B, Items(B) + 1)] \in Records
        /\ Unread(C) = Append(Unread(B), C.mem[S * Slot(B, Items(B) + 1)])
    BY <1>1, <1>2, <1>4, WriteAppends
  <1> QED BY <1>1, <1>2, <1>3, <1>4, <1>5 DEF C

\* and writing the record written.
LEMMA StoreAppends ==
    ASSUME NEW B, GoodBuffer(B), Uniform(B), HasRoom(B, S), NEW v \in Values
    PROVE  /\ GoodBuffer(Stored(B, S, v)) /\ Uniform(Stored(B, S, v))
           /\ Stored(B, S, v).init = B.init /\ Cap(Stored(B, S, v)) = Cap(B)
           /\ Unread(Stored(B, S, v)) = Append(Unread(B), v)
  <1> DEFINE C == Stored(B, S, v)
             off == Bumped(B.wr, B.size, S) % B.size
             new == Slot(B, Items(B) + 1)
  <1>1. GoodBuffer(C)
    BY StoredGood
  <1>2. /\ C.size = B.size /\ C.rd = B.rd /\ C.init = B.init
        /\ C.wr = Bumped(B.wr, B.size, S) + S
        /\ C.mem = [k \in DOMAIN B.mem |-> IF k >= off /\ k < off + S THEN v ELSE B.mem[k]]
    BY DEF Stored, GoodBuffer, BufferOK
  <1> HIDE DEF C
  <1>3. Cap(C) = Cap(B)
    BY <1>2 DEF Cap
  <1>4. off = S * new /\ new \in 0 .. Cap(B) - 1
    <2>1. Items(B) < Cap(B) /\ Items(B) \in 0 .. Cap(B) /\ Cap(B) \in Nat
      BY RecordsHeld, SlotsAndGap
    <2>2. Cap(B) > 0 /\ Items(B) + 1 \in 1 .. Cap(B)
      BY <2>1
    <2> QED BY <2>1, <2>2, PlacesOfRecords
  <1>5. /\ S \in Nat \ {0} /\ B.size \in Nat /\ DOMAIN B.mem = 0 .. B.size - 1
        /\ S * new \in Nat /\ S * new + S <= B.size
    BY <1>4, SlotInBlock, SlotsAndGap DEF GoodBuffer, BufferOK, Memory
  <1>6. ASSUME NEW j \in 0 .. Cap(B) - 1, NEW n \in 0 .. S - 1
        PROVE  C.mem[S * j + n] = IF j = new THEN v ELSE B.mem[S * j + n]
    <2>1. /\ S * j \in Nat /\ S * j + S <= B.size
          /\ j # new => S * new + S <= S * j \/ S * j + S <= S * new
      BY <1>4, SlotInBlock
    <2>2. S * j + n \in DOMAIN B.mem
      BY <1>5, <2>1
    <2>3. C.mem[S * j + n] = IF S * j + n >= S * new /\ S * j + n < S * new + S THEN v
                             ELSE B.mem[S * j + n]
      BY <1>2, <1>4, <2>2
    <2> HIDE DEF new
    <2>4. (S * j + n >= S * new /\ S * j + n < S * new + S) <=> j = new
      BY <1>5, <2>1
    <2> QED BY <2>3, <2>4
  <1> HIDE DEF off, new
  <1>7. Uniform(C)
    <2> SUFFICES ASSUME NEW j \in 0 .. Cap(B) - 1, NEW n \in 0 .. S - 1
                 PROVE  C.mem[S * j + n] = C.mem[S * j]
      BY <1>3 DEF Uniform
    <2>1. 0 \in 0 .. S - 1 /\ S * j + 0 = S * j
      <3>1. S * j \in Nat
        BY SlotInBlock
      <3> QED BY <1>5, <3>1
    <2>2. B.mem[S * j + n] = B.mem[S * j]
      BY DEF Uniform
    <2> QED BY <1>6, <2>1, <2>2
  <1>8. \A j \in 0 .. Cap(B) - 1 : C.mem[S * j] = IF j = new THEN v ELSE B.mem[S * j]
    <2> SUFFICES ASSUME NEW j \in 0 .. Cap(B) - 1
                 PROVE  C.mem[S * j] = IF j = new THEN v ELSE B.mem[S * j]
      OBVIOUS
    <2>1. 0 \in 0 .. S - 1 /\ S * j + 0 = S * j
      <3>1. S * j \in Nat
        BY SlotInBlock
      <3> QED BY <1>5, <3>1
    <2> QED BY <1>6, <2>1
  <1>9. \A j \in 0 .. Cap(B) - 1 : S * j # off => C.mem[S * j] = B.mem[S * j]
    BY <1>4, <1>8
  <1>10. Unread(C) = Append(Unread(B), C.mem[S * Slot(B, Items(B) + 1)])
    BY <1>1, <1>2, <1>7, <1>9, WriteAppends DEF off
  <1>11. C.mem[S * new] = v
    BY <1>4, <1>8
  <1> QED BY <1>1, <1>2, <1>3, <1>7, <1>10, <1>11 DEF C, new

\* A buffer before init and a fresh one hold no record.
LEMMA FreshIsEmpty ==
    ASSUME NEW mmap \in BOOLEAN, NEW n \in Nat
    PROVE  /\ GoodBuffer(NoBuffer(mmap)) /\ Uniform(NoBuffer(mmap))
           /\ ~NoBuffer(mmap).init /\ Cap(NoBuffer(mmap)) = 0
           /\ Unread(NoBuffer(mmap)) = << >>
           /\ GoodBuffer(Allocated(mmap, n)) /\ Uniform(Allocated(mmap, n))
           /\ Allocated(mmap, n).init /\ Cap(Allocated(mmap, n)) = RoundUp(n) \div S
           /\ Unread(Allocated(mmap, n)) = << >>
  <1> DEFINE A == NoBuffer(mmap)
             B == Allocated(mmap, n)
  <1>1. S \in Nat \ {0} /\ RoundUp(n) \in Nat
    BY LengthAssumption, RoundUpNat DEF S
  <1>2. GoodBuffer(A) /\ GoodBuffer(B)
    BY NoBufferGood, AllocatedGood
  <1>3. /\ ~A.init /\ A.size = 0 /\ A.rd = 0 /\ A.wr = 0
        /\ B.init /\ B.size = RoundUp(n) /\ B.rd = 0 /\ B.wr = 0
        /\ B.mem = [k \in 0 .. RoundUp(n) - 1 |-> Garbage]
    BY DEF NoBuffer, Allocated
  <1> HIDE DEF A, B
  <1>4. 0 \div S = 0
    <2>1. S * 0 + 0 = 0 /\ 0 \in Nat /\ 0 \in 0 .. S - 1
      BY <1>1
    <2>2. (S * 0 + 0) \div S = 0
      BY <1>1, <2>1, Whole
    <2> QED BY <2>1, <2>2
  <1>5. Cap(A) = 0 /\ Cap(B) = RoundUp(n) \div S
    BY <1>3, <1>4 DEF Cap
  <1>6. Items(A) = 0 /\ Items(B) = 0
    BY <1>2, <1>3, <1>4, CountAndFree DEF Items, S
  <1>7. Uniform(A)
    BY <1>5 DEF Uniform
  <1>8. Uniform(B)
    <2> SUFFICES ASSUME NEW j \in 0 .. Cap(B) - 1, NEW i \in 0 .. S - 1
                 PROVE  B.mem[S * j + i] = B.mem[S * j]
      BY DEF Uniform
    <2>1. S * j \in Nat /\ S * j + S <= B.size
      BY <1>2, SlotInBlock
    <2>2. S * j + i \in 0 .. RoundUp(n) - 1 /\ S * j \in 0 .. RoundUp(n) - 1
      BY <1>1, <1>3, <2>1
    <2> QED BY <1>3, <2>2
  <1>9. Unread(A) = << >> /\ Unread(B) = << >>
    BY <1>2, <1>6, <1>7, <1>8, NothingUnread
  <1> QED BY <1>2, <1>3, <1>5, <1>7, <1>8, <1>9 DEF A, B

-------------------------------------------------------------------------------
(* The steps of the wrapper as steps of the queue.                         *)

FifoInv == IInv /\ \A b \in Buffers : Uniform(buf[b])

\* What the invariant says of one buffer.
LEMMA OfBuffer ==
    ASSUME FifoInv, NEW b \in Buffers
    PROVE  /\ DOMAIN buf = Buffers /\ GoodBuffer(buf[b]) /\ Uniform(buf[b])
           /\ buf[b].mmap \in BOOLEAN /\ buf[b].init \in BOOLEAN
           /\ ~buf[b].init => Cap(buf[b]) = 0 /\ Unread(buf[b]) = << >>
  <1>1. DOMAIN buf = Buffers /\ GoodBuffer(buf[b]) /\ Uniform(buf[b])
    BY IInvIsGood DEF FifoInv
  <1>2. buf[b].mmap \in BOOLEAN /\ buf[b].init \in BOOLEAN
    BY <1>1 DEF GoodBuffer, BufferOK
  <1>3. ASSUME ~buf[b].init PROVE Cap(buf[b]) = 0 /\ Unread(buf[b]) = << >>
    <2> DEFINE B == buf[b]
    <2>1. GoodBuffer(B) /\ Uniform(B) /\ B.size = 0
      BY <1>1, <1>3 DEF GoodBuffer, BufferOK
    <2> HIDE DEF B
    <2>2. Cap(B) = 0
      <3>1. S * 0 + 0 = 0 /\ 0 \in Nat /\ 0 \in 0 .. S - 1 /\ S \in Nat \ {0}
        BY LengthAssumption DEF S
      <3>2. (S * 0 + 0) \div S = 0
        BY <3>1, Whole
      <3> QED BY <2>1, <3>1, <3>2 DEF Cap
    <2>3. Items(B) = 0
      BY <2>1, <2>2, RecordsHeld
    <2> QED BY <2>1, <2>2, <2>3, NothingUnread DEF B
  <1> QED BY <1>1, <1>2, <1>3

\* A step that gives one buffer another state.
LEMMA BecomesInQueue ==
    ASSUME FifoInv, NEW b \in Buffers, NEW C, Uniform(C), buf' = [buf EXCEPT ![b] = C]
    PROVE  /\ Fifo!Become(b, C.init, Cap(C), Unread(C))
           /\ \A a \in Buffers : Uniform(buf'[a])
  <1>1. DOMAIN buf = Buffers
    BY OfBuffer
  <1>2. \A a \in Buffers : buf'[a] = IF a = b THEN C ELSE buf[a]
    BY <1>1
  <1>3. \A a \in Buffers : Uniform(buf'[a])
    BY <1>2 DEF FifoInv
  <1>4. [a \in Buffers |-> buf'[a].init] = [[a \in Buffers |-> buf[a].init] EXCEPT ![b] = C.init]
    <2>1. \A a \in Buffers : buf'[a].init = IF a = b THEN C.init ELSE buf[a].init
      BY <1>2
    <2> QED BY <2>1
  <1>5. [a \in Buffers |-> buf'[a].size \div RecordLength]
        = [[a \in Buffers |-> buf[a].size \div RecordLength] EXCEPT ![b] = Cap(C)]
    <2>1. \A a \in Buffers : buf'[a].size \div RecordLength
                              = IF a = b THEN Cap(C) ELSE buf[a].size \div RecordLength
      BY <1>2 DEF Cap, S
    <2> QED BY <2>1
  <1>6. [a \in Buffers |-> Unread(buf'[a])]
        = [[a \in Buffers |-> Unread(buf[a])] EXCEPT ![b] = Unread(C)]
    <2>1. \A a \in Buffers : Unread(buf'[a]) = IF a = b THEN Unread(C) ELSE Unread(buf[a])
      BY <1>2
    <2> QED BY <2>1
  <1>7. Fifo!Become(b, C.init, Cap(C), Unread(C))
    BY <1>4, <1>5, <1>6 DEF Fifo!Become
  <1> QED BY <1>3, <1>7

\* A buffer that loses its memory.
LEMMA DestroyInQueue ==
    ASSUME FifoInv, NEW b \in Buffers, NEW mmap \in BOOLEAN,
           buf' = [buf EXCEPT ![b] = NoBuffer(mmap)], result' \in {"none", "badalloc"}
    PROVE  Fifo!Destroy(b) /\ \A a \in Buffers : Uniform(buf'[a])
  <1> DEFINE C == NoBuffer(mmap)
  <1>1. Uniform(C) /\ ~C.init /\ Cap(C) = 0 /\ Unread(C) = << >> /\ C.init \in BOOLEAN
    <2>1. 0 \in Nat
      OBVIOUS
    <2>2. C.init \in BOOLEAN
      BY DEF NoBuffer
    <2> QED BY <2>1, <2>2, FreshIsEmpty
  <1>2. buf' = [buf EXCEPT ![b] = C]
    OBVIOUS
  <1> HIDE DEF C
  <1>3. /\ Fifo!Become(b, C.init, Cap(C), Unread(C))
        /\ \A a \in Buffers : Uniform(buf'[a])
    BY <1>1, <1>2, BecomesInQueue
  <1>4. C.init = FALSE
    BY <1>1
  <1> QED BY <1>1, <1>3, <1>4 DEF Fifo!Destroy

\* A refused call is a refused call.
LEMMA RefuseInQueue ==
    ASSUME FifoInv, NEW why, Refuse(why)
    PROVE  Fifo!Refuse(why) /\ \A a \in Buffers : Uniform(buf'[a])
  BY DEF Refuse, Fifo!Refuse, FifoInv

\* What the queue is at a buffer.
LEMMA QueueOf ==
    ASSUME FifoInv, NEW b \in Buffers
    PROVE  /\ [a \in Buffers |-> buf[a].init][b] = buf[b].init
           /\ [a \in Buffers |-> buf[a].size \div RecordLength][b] = Cap(buf[b])
           /\ [a \in Buffers |-> Unread(buf[a])][b] = Unread(buf[b])
  BY DEF Cap, S

\* init creates a queue or fails for want of memory.
LEMMA InitInQueue ==
    ASSUME FifoInv, NEW b \in Buffers, InitBuffer(b)
    PROVE  Fifo!Next /\ \A a \in Buffers : Uniform(buf'[a])
  <1>1. PICK n \in Requested :
          \/ /\ buf' = [buf EXCEPT ![b] = Allocated(buf[b].mmap, n)] /\ result' = "none"
          \/ /\ buf' = [buf EXCEPT ![b] = NoBuffer(buf[b].mmap)] /\ result' = "badalloc"
    BY DEF InitBuffer
  <1>2. n \in Nat /\ buf[b].mmap \in BOOLEAN /\ ~buf[b].init
    BY SizeAssumption, OfBuffer DEF InitBuffer
  <1>3. CASE /\ buf' = [buf EXCEPT ![b] = NoBuffer(buf[b].mmap)] /\ result' = "badalloc"
    <2>1. Fifo!Destroy(b) /\ \A a \in Buffers : Uniform(buf'[a])
      BY <1>2, <1>3, DestroyInQueue
    <2> QED BY <2>1 DEF Fifo!Next
  <1>4. CASE /\ buf' = [buf EXCEPT ![b] = Allocated(buf[b].mmap, n)] /\ result' = "none"
    <2> PICK C : C = Allocated(buf[b].mmap, n)
      OBVIOUS
    <2>1. Uniform(C) /\ C.init = TRUE /\ Cap(C) = RoundUp(n) \div S /\ Unread(C) = << >>
      <3>1. Allocated(buf[b].mmap, n).init = TRUE
        BY DEF Allocated
      <3> QED BY <1>2, <3>1, FreshIsEmpty
    <2>2. buf' = [buf EXCEPT ![b] = C]
      BY <1>4
    <2>3. /\ Fifo!Become(b, C.init, Cap(C), Unread(C))
          /\ \A a \in Buffers : Uniform(buf'[a])
      BY <2>1, <2>2, BecomesInQueue
    <2>4. RoundUp(n) \div S \in {RoundUp(i) \div RecordLength : i \in Requested}
      BY DEF S
    <2>5. ~[a \in Buffers |-> buf[a].init][b]
      BY <1>2
    <2>6. Fifo!Create(b)
      BY <1>4, <2>1, <2>3, <2>4, <2>5 DEF Fifo!Create
    <2> QED BY <2>3, <2>6 DEF Fifo!Next
  <1> QED BY <1>1, <1>3, <1>4

\* A write or request puts a record, or is refused because the buffer has no memory or is full.
LEMMA AppendInQueue ==
    ASSUME FifoInv, NEW b \in Buffers,
           Request(b, S) \/ \E v \in Values : Write(b, S, v)
    PROVE  Fifo!Next /\ \A a \in Buffers : Uniform(buf'[a])
  <1> DEFINE B == buf[b]
  <1> PICK C : /\ Append_(b, S, C)
               /\ \/ C = Reserved(buf[b], S)
                  \/ \E v \in Values : C = Stored(buf[b], S, v)
    BY DEF Request, Write
  <1>1. GoodBuffer(B) /\ Uniform(B) /\ B.init \in BOOLEAN
    BY OfBuffer
  <1>2. CASE ~B.init
    <2>1. Refuse("null")
      BY <1>2 DEF Append_
    <2>2. Fifo!Refuse("null") /\ \A a \in Buffers : Uniform(buf'[a])
      BY <2>1, RefuseInQueue
    <2>3. ~[a \in Buffers |-> buf[a].init][b]
      BY <1>2
    <2> QED BY <2>2, <2>3 DEF Fifo!Next
  <1>3. CASE B.init /\ ~HasRoom(B, S)
    <2>1. Refuse("full")
      BY <1>3 DEF Append_
    <2>2. Fifo!Refuse("full") /\ \A a \in Buffers : Uniform(buf'[a])
      BY <2>1, RefuseInQueue
    <2>3. Len(Unread(B)) = Cap(B)
      <3>1. Items(B) \in 0 .. Cap(B) /\ Cap(B) \in Nat /\ ~(Items(B) < Cap(B))
        BY <1>1, <1>3, RecordsHeld, SlotsAndGap
      <3>2. Len(Unread(B)) = Items(B)
        BY <1>1, UnreadIs
      <3> QED BY <3>1, <3>2
    <2>4. /\ [a \in Buffers |-> buf[a].init][b]
          /\ Len([a \in Buffers |-> Unread(buf[a])][b])
             = [a \in Buffers |-> buf[a].size \div RecordLength][b]
      BY <1>3, <2>3, QueueOf
    <2> QED BY <2>2, <2>4 DEF Fifo!Next
  <1>4. CASE B.init /\ HasRoom(B, S)
    <2>1. buf' = [buf EXCEPT ![b] = C] /\ result' = "stored"
      BY <1>4 DEF Append_
    <2>2. /\ Uniform(C) /\ C.init = B.init /\ Cap(C) = Cap(B)
          /\ \E v \in Records : Unread(C) = Append(Unread(B), v)
      <3> HIDE DEF B
      <3>1. CASE C = Reserved(B, S)
        BY <1>1, <1>4, <3>1, ReserveAppends
      <3>2. ASSUME NEW v \in Values, C = Stored(B, S, v)
            PROVE  /\ Uniform(C) /\ C.init = B.init /\ Cap(C) = Cap(B)
                   /\ Unread(C) = Append(Unread(B), v) /\ v \in Records
        BY <1>1, <1>4, <3>2, StoreAppends DEF Records
      <3> QED BY <3>1, <3>2 DEF B
    <2>3. PICK v \in Records : Unread(C) = Append(Unread(B), v)
      BY <2>2
    <2>4. /\ Fifo!Become(b, C.init, Cap(C), Unread(C))
          /\ \A a \in Buffers : Uniform(buf'[a])
      BY <2>1, <2>2, BecomesInQueue
    <2>5. Len(Unread(B)) < Cap(B)
      <3>1. Items(B) < Cap(B)
        BY <1>1, <1>4, RecordsHeld
      <3>2. Len(Unread(B)) = Items(B)
        BY <1>1, UnreadIs
      <3> QED BY <3>1, <3>2
    <2>6. /\ [a \in Buffers |-> buf[a].init][b]
          /\ Len([a \in Buffers |-> Unread(buf[a])][b])
             < [a \in Buffers |-> buf[a].size \div RecordLength][b]
      BY <1>4, <2>5, QueueOf
    <2>7. /\ [a \in Buffers |-> buf'[a].init] = [a \in Buffers |-> buf[a].init]
          /\ [a \in Buffers |-> buf'[a].size \div RecordLength]
             = [a \in Buffers |-> buf[a].size \div RecordLength]
          /\ [a \in Buffers |-> Unread(buf'[a])]
             = [[a \in Buffers |-> Unread(buf[a])] EXCEPT
                  ![b] = Append([a \in Buffers |-> Unread(buf[a])][b], v)]
      <3>1. DOMAIN buf = Buffers
        BY OfBuffer
      <3>2. \A a \in Buffers : buf'[a] = IF a = b THEN C ELSE buf[a]
        BY <2>1, <3>1
      <3>3. \A a \in Buffers : buf'[a].size \div RecordLength = buf[a].size \div RecordLength
        BY <2>2, <3>2 DEF Cap, S
      <3>4. \A a \in Buffers : buf'[a].init = buf[a].init
        BY <2>2, <3>2
      <3>5. [a \in Buffers |-> Unread(buf[a])][b] = Unread(B)
        OBVIOUS
      <3>6. \A a \in Buffers : Unread(buf'[a]) = IF a = b THEN Append(Unread(B), v)
                                                ELSE Unread(buf[a])
        BY <2>3, <3>2
      <3> QED BY <3>3, <3>4, <3>5, <3>6
    <2>8. Fifo!Put(b, v)
      BY <2>1, <2>6, <2>7 DEF Fifo!Put
    <2>9. v \in Fifo!Records
      BY DEF Fifo!Records, Records
    <2> QED BY <2>4, <2>8, <2>9 DEF Fifo!Next
  <1> QED BY <1>1, <1>2, <1>3, <1>4

\* A read or retrieval gets the oldest record, or is refused because there is none.
LEMMA TakeInQueue ==
    ASSUME FifoInv, NEW b \in Buffers, Read(b, S) \/ Retrieve(b, S)
    PROVE  Fifo!Next /\ \A a \in Buffers : Uniform(buf'[a])
  <1> DEFINE B == buf[b]
  <1>1. GoodBuffer(B) /\ Uniform(B) /\ B.init \in BOOLEAN /\ DOMAIN buf = Buffers
    BY OfBuffer
  <1>2. /\ S \in Nat \ {0} /\ Count(B) \in Nat
        /\ S <= Count(B) <=> Items(B) > 0
        /\ Items(B) \in Nat
    BY <1>1, SlotsAndGap, CountAndFree, RecordsHeld, UnreadIs
  <1>3. ~B.init => Count(B) = 0
    BY <1>1, CountAndFree DEF GoodBuffer, BufferOK
  <1>4. \/ Refuse("null") /\ (B.init => Count(B) = 0)
        \/ Refuse("empty") /\ B.init /\ S > Count(B)
        \/ /\ S <= Count(B) /\ B.init
           /\ buf' = [buf EXCEPT ![b] = Consumed(B, S)]
           /\ result' = Content(B, Bumped(B.rd, B.size, S) % B.size, S)
    <2> HIDE DEF B
    <2>1. CASE Read(b, S)
      <3>1. CASE Count(B) = 0
        BY <2>1, <3>1 DEF Read, IsEmpty, B
      <3>2. CASE Count(B) # 0
        <4>1. Take(b, S) /\ B.init
          BY <1>1, <1>3, <2>1, <3>2 DEF Read, IsEmpty, B
        <4> QED BY <1>2, <4>1 DEF Take, B
      <3> QED BY <3>1, <3>2
    <2>2. CASE Retrieve(b, S)
      <3>1. CASE ~B.init
        BY <2>2, <3>1 DEF Retrieve, B
      <3>2. CASE B.init
        <4>1. Take(b, S)
          BY <2>2, <3>2 DEF Retrieve, B
        <4> QED BY <1>2, <3>2, <4>1 DEF Take, B
      <3> QED BY <3>1, <3>2
    <2> QED BY <2>1, <2>2
  <1>5. /\ [a \in Buffers |-> buf[a].init][b] = B.init
        /\ [a \in Buffers |-> Unread(buf[a])][b] = Unread(B)
    OBVIOUS
  <1>6. Count(B) < S => Unread(B) = << >>
    BY <1>1, <1>2, NothingUnread
  <1>7. CASE Refuse("null") /\ (B.init => Count(B) = 0)
    <2>1. Fifo!Refuse("null") /\ \A a \in Buffers : Uniform(buf'[a])
      BY <1>7, RefuseInQueue
    <2>2. ~B.init \/ Unread(B) = << >>
      BY <1>2, <1>6, <1>7
    <2> QED BY <1>1, <1>5, <2>1, <2>2 DEF Fifo!Next
  <1>8. CASE Refuse("empty") /\ B.init /\ S > Count(B)
    <2>1. Fifo!Refuse("empty") /\ \A a \in Buffers : Uniform(buf'[a])
      BY <1>8, RefuseInQueue
    <2>2. Unread(B) = << >>
      BY <1>2, <1>6, <1>8
    <2> QED BY <1>5, <1>8, <2>1, <2>2 DEF Fifo!Next
  <1>9. CASE /\ S <= Count(B) /\ B.init
             /\ buf' = [buf EXCEPT ![b] = Consumed(B, S)]
             /\ result' = Content(B, Bumped(B.rd, B.size, S) % B.size, S)
    <2> PICK C : C = Consumed(B, S)
      OBVIOUS
    <2>1. /\ Uniform(C) /\ C.init = B.init /\ Cap(C) = Cap(B)
          /\ Unread(B) # << >> /\ Unread(C) = Tail(Unread(B))
          /\ result' = Head(Unread(B))
      BY <1>1, <1>9, ReadTakesHead
    <2>2. \A a \in Buffers : buf'[a] = IF a = b THEN C ELSE buf[a]
      BY <1>1, <1>9
    <2>3. \A a \in Buffers : Uniform(buf'[a])
      BY <2>1, <2>2 DEF FifoInv
    <2>4. \A a \in Buffers : /\ buf'[a].init = buf[a].init
                             /\ buf'[a].size \div RecordLength = buf[a].size \div RecordLength
      BY <2>1, <2>2 DEF Cap, S
    <2>5. \A a \in Buffers : Unread(buf'[a]) = IF a = b THEN Tail(Unread(B)) ELSE Unread(buf[a])
      BY <2>1, <2>2
    <2>6. /\ [a \in Buffers |-> buf'[a].init] = [a \in Buffers |-> buf[a].init]
          /\ [a \in Buffers |-> buf'[a].size \div RecordLength]
             = [a \in Buffers |-> buf[a].size \div RecordLength]
          /\ [a \in Buffers |-> Unread(buf'[a])]
             = [[a \in Buffers |-> Unread(buf[a])] EXCEPT
                  ![b] = Tail([a \in Buffers |-> Unread(buf[a])][b])]
      BY <1>5, <2>4, <2>5
    <2>7. Fifo!Get(b)
      BY <1>5, <1>9, <2>1, <2>6 DEF Fifo!Get
    <2> QED BY <2>3, <2>7 DEF Fifo!Next
  <1> QED BY <1>4, <1>7, <1>8, <1>9

\* The records of a buffer do not depend on how its memory was got or whether it is marked
\* as initialised.
LEMMA UnreadDependsOn ==
    ASSUME NEW B, NEW C, C.size = B.size, C.rd = B.rd, C.wr = B.wr, C.mem = B.mem
    PROVE  Cap(C) = Cap(B) /\ Unread(C) = Unread(B) /\ (Uniform(B) => Uniform(C))
  <1>1. Items(C) = Items(B)
    BY DEF Items, Count
  <1>2. \A i : Offset(C, i) = Offset(B, i)
    BY DEF Offset
  <1>3. \A off : Content(C, off, RecordLength) = Content(B, off, RecordLength)
    BY DEF Content
  <1>4. Unread(C) = Unread(B)
    BY <1>1, <1>2, <1>3 DEF Unread
  <1>5. Cap(C) = Cap(B)
    BY DEF Cap
  <1> QED BY <1>4, <1>5 DEF Uniform

\* Choosing between mmap and malloc leaves a buffer without memory as it is.
LEMMA MmapInQueue ==
    ASSUME FifoInv, NEW b \in Buffers, SetUseMmap(b)
    PROVE  Fifo!Next /\ \A a \in Buffers : Uniform(buf'[a])
  <1> PICK v \in BOOLEAN : buf' = [buf EXCEPT ![b] = [buf[b] EXCEPT !.mmap = v]]
    BY DEF SetUseMmap
  <1> PICK C : C = [buf[b] EXCEPT !.mmap = v]
    OBVIOUS
  <1>1. /\ ~buf[b].init /\ result' = "none" /\ Uniform(buf[b]) /\ buf[b].init \in BOOLEAN
        /\ Cap(buf[b]) = 0 /\ Unread(buf[b]) = << >>
    BY OfBuffer DEF SetUseMmap
  <1>2. /\ C.init = buf[b].init /\ C.size = buf[b].size /\ C.rd = buf[b].rd
        /\ C.wr = buf[b].wr /\ C.mem = buf[b].mem
    BY OfBuffer DEF GoodBuffer, BufferOK
  <1>3. Uniform(C) /\ Cap(C) = 0 /\ Unread(C) = << >> /\ C.init = FALSE
    BY <1>1, <1>2, UnreadDependsOn
  <1>4. buf' = [buf EXCEPT ![b] = C]
    OBVIOUS
  <1>5. /\ Fifo!Become(b, C.init, Cap(C), Unread(C))
        /\ \A a \in Buffers : Uniform(buf'[a])
    BY <1>3, <1>4, BecomesInQueue
  <1>6. Fifo!Destroy(b)
    BY <1>1, <1>3, <1>5 DEF Fifo!Destroy
  <1> QED BY <1>5, <1>6 DEF Fifo!Next

\* Loading from the file of another buffer copies its queue.
LEMMA LoadInQueue ==
    ASSUME FifoInv, NEW b \in Buffers, NEW src \in Buffers, Load(b, src)
    PROVE  Fifo!Next /\ \A a \in Buffers : Uniform(buf'[a])
  <1>1. buf[src].mmap \in BOOLEAN /\ GoodBuffer(buf[src]) /\ Uniform(buf[src])
    BY OfBuffer
  <1>2. CASE buf' = [buf EXCEPT ![b] = NoBuffer(buf[src].mmap)] /\ result' = "badalloc"
    <2>1. Fifo!Destroy(b) /\ \A a \in Buffers : Uniform(buf'[a])
      BY <1>1, <1>2, DestroyInQueue
    <2> QED BY <2>1 DEF Fifo!Next
  <1>3. CASE buf' = [buf EXCEPT ![b] = [buf[src] EXCEPT !.init = TRUE]] /\ result' = "none"
    <2> PICK C : C = [buf[src] EXCEPT !.init = TRUE]
      OBVIOUS
    <2>1. /\ C.init = TRUE /\ C.size = buf[src].size /\ C.rd = buf[src].rd
          /\ C.wr = buf[src].wr /\ C.mem = buf[src].mem
      BY <1>1 DEF GoodBuffer, BufferOK
    <2>2. Uniform(C) /\ Cap(C) = Cap(buf[src]) /\ Unread(C) = Unread(buf[src])
      BY <1>1, <2>1, UnreadDependsOn
    <2>3. buf' = [buf EXCEPT ![b] = C]
      BY <1>3
    <2>4. /\ Fifo!Become(b, C.init, Cap(C), Unread(C))
          /\ \A a \in Buffers : Uniform(buf'[a])
      BY <2>2, <2>3, BecomesInQueue
    <2>5. /\ [a \in Buffers |-> buf[a].size \div RecordLength][src] = Cap(C)
          /\ [a \in Buffers |-> Unread(buf[a])][src] = Unread(C)
      BY <2>2, QueueOf
    <2>6. Fifo!Copy(b, src)
      BY <1>3, <2>1, <2>4, <2>5 DEF Fifo!Copy, Fifo!Become
    <2> QED BY <2>4, <2>6 DEF Fifo!Next
  <1> QED BY <1>2, <1>3 DEF Load

\* A move hands the queue over.
LEMMA MoveInQueue ==
    ASSUME FifoInv, NEW b \in Buffers, NEW src \in Buffers, MoveAssign(b, src)
    PROVE  Fifo!Next /\ \A a \in Buffers : Uniform(buf'[a])
  <1>1. /\ DOMAIN buf = Buffers /\ buf[src].mmap \in BOOLEAN /\ Uniform(buf[src])
        /\ b # src /\ result' = "none"
    BY OfBuffer DEF MoveAssign
  <1> PICK C : C = NoBuffer(buf[src].mmap)
    OBVIOUS
  <1>2. Uniform(C) /\ C.init = FALSE /\ Cap(C) = 0 /\ Unread(C) = << >>
    <2>1. 0 \in Nat /\ NoBuffer(buf[src].mmap).init = FALSE
      BY DEF NoBuffer
    <2> QED BY <1>1, <2>1, FreshIsEmpty
  <1>3. \A a \in Buffers : buf'[a] = IF a = src THEN C ELSE IF a = b THEN buf[src] ELSE buf[a]
    BY <1>1 DEF MoveAssign
  <1>4. \A a \in Buffers : Uniform(buf'[a])
    BY <1>1, <1>2, <1>3 DEF FifoInv
  <1>5. \A a \in Buffers :
          /\ buf'[a].init = IF a = src THEN FALSE ELSE IF a = b THEN buf[src].init ELSE buf[a].init
          /\ buf'[a].size \div RecordLength
             = IF a = src THEN 0 ELSE IF a = b THEN buf[src].size \div RecordLength
               ELSE buf[a].size \div RecordLength
          /\ Unread(buf'[a])
             = IF a = src THEN << >> ELSE IF a = b THEN Unread(buf[src]) ELSE Unread(buf[a])
    BY <1>2, <1>3 DEF Cap, S
  <1>6. [a \in Buffers |-> buf'[a].init]
        = [[a \in Buffers |-> buf[a].init] EXCEPT ![b] = buf[src].init, ![src] = FALSE]
    BY <1>1, <1>5
  <1>7. [a \in Buffers |-> buf'[a].size \div RecordLength]
        = [[a \in Buffers |-> buf[a].size \div RecordLength] EXCEPT
             ![b] = buf[src].size \div RecordLength, ![src] = 0]
    BY <1>1, <1>5
  <1>8. [a \in Buffers |-> Unread(buf'[a])]
        = [[a \in Buffers |-> Unread(buf[a])] EXCEPT ![b] = Unread(buf[src]), ![src] = << >>]
    BY <1>1, <1>5
  <1>9. Fifo!Move(b, src)
    BY <1>1, <1>6, <1>7, <1>8 DEF Fifo!Move
  <1> QED BY <1>4, <1>9 DEF Fifo!Next

\* The wrapper, with moves and with copies through files, is a first-in first-out queue of
\* records for every page size, record length and number of buffers: the gap costs no
\* record, full and empty are found exactly, and the order is kept (data_storage::ring_buffer).
THEOREM WrapperIsFifo == LocalSpec => ImplementsFifo
  <1> DEFINE N == LocalNext \/ \E dst, src \in Buffers : Load(dst, src)
  <1>1. Init => FifoInv /\ Fifo!Init
    <2> SUFFICES ASSUME Init PROVE FifoInv /\ Fifo!Init
      OBVIOUS
    <2>1. IInv
      BY InitKeeps
    <2>2. \A b \in Buffers : /\ Uniform(buf[b]) /\ buf[b].init = FALSE
                             /\ Cap(buf[b]) = 0 /\ Unread(buf[b]) = << >>
      <3> SUFFICES ASSUME NEW b \in Buffers
                   PROVE  /\ Uniform(buf[b]) /\ buf[b].init = FALSE
                          /\ Cap(buf[b]) = 0 /\ Unread(buf[b]) = << >>
        OBVIOUS
      <3>1. PICK m \in BOOLEAN : buf[b] = NoBuffer(m)
        BY DEF Init
      <3>2. 0 \in Nat /\ NoBuffer(m).init = FALSE
        BY DEF NoBuffer
      <3> QED BY <3>1, <3>2, FreshIsEmpty
    <2>3. result = "none"
      BY DEF Init
    <2> QED BY <2>1, <2>2, <2>3 DEF FifoInv, Fifo!Init, Cap, S
  <1>2. FifoInv /\ [N]_vars => FifoInv' /\ [Fifo!Next]_(Fifo!vars)
    <2> SUFFICES ASSUME FifoInv, [N]_vars PROVE FifoInv' /\ [Fifo!Next]_(Fifo!vars)
      OBVIOUS
    <2>1. IInv'
      <3>1. [Next]_vars
        BY DEF Next
      <3> QED BY <3>1, NextKeeps DEF FifoInv
    <2>2. CASE LocalNext
      <3>1. PICK b \in Buffers :
              \/ InitBuffer(b)
              \/ DestroyBuffer(b)
              \/ SetUseMmap(b)
              \/ \E v \in Values : Write(b, S, v)
              \/ Request(b, S)
              \/ Read(b, S)
              \/ Retrieve(b, S)
              \/ \E src \in Buffers : MoveAssign(b, src)
        BY <2>2 DEF LocalNext, NextOf, S
      <3>2. CASE InitBuffer(b)
        BY <2>1, <3>2, InitInQueue DEF FifoInv
      <3>3. CASE DestroyBuffer(b)
        <4>1. buf[b].mmap \in BOOLEAN
          BY OfBuffer
        <4>2. Fifo!Destroy(b) /\ \A a \in Buffers : Uniform(buf'[a])
          BY <3>3, <4>1, DestroyInQueue DEF DestroyBuffer
        <4> QED BY <2>1, <4>2 DEF FifoInv, Fifo!Next
      <3>4. CASE SetUseMmap(b)
        BY <2>1, <3>4, MmapInQueue DEF FifoInv
      <3>5. CASE Request(b, S) \/ \E v \in Values : Write(b, S, v)
        BY <2>1, <3>5, AppendInQueue DEF FifoInv
      <3>6. CASE Read(b, S) \/ Retrieve(b, S)
        BY <2>1, <3>6, TakeInQueue DEF FifoInv
      <3>7. CASE \E src \in Buffers : MoveAssign(b, src)
        BY <2>1, <3>7, MoveInQueue DEF FifoInv
      <3> QED BY <3>1, <3>2, <3>3, <3>4, <3>5, <3>6, <3>7
    <2>3. CASE \E dst, src \in Buffers : Load(dst, src)
      BY <2>1, <2>3, LoadInQueue DEF FifoInv
    <2>4. CASE UNCHANGED vars
      BY <2>1, <2>4 DEF vars, FifoInv, Fifo!vars
    <2> QED BY <2>2, <2>3, <2>4
  <1> QED BY <1>1, <1>2, PTL DEF LocalSpec, ImplementsFifo, Fifo!Spec

-------------------------------------------------------------------------------
(* The atomic ring buffer.  Both counters walk over the same positions, so *)
(* that a call whose test found one block of room, or one block held, may  *)
(* also step over the gap before the end.                                  *)

Laps == Size
Block == BlockLength
AtBlock(c) == c \in Nat /\ (c % Laps) % Block = 0

\* The buffer holds a block.
LEMMA BlocksFit == Laps \in Nat \ {0} /\ Block \in Nat \ {0} /\ Block <= Laps
  BY AtomicRingAssumption, SMT DEF Laps, Block

\* The position after a block is a position of blocks again, one block or more
\* further, and no other lies between.
LEMMA PastBlock ==
    ASSUME NEW c, AtBlock(c)
    PROVE  /\ AtBlock(Past(c)) /\ Past(c) >= c + Block
           /\ \A d : AtBlock(d) /\ d >= c + Block => d >= Past(c)
  <1> DEFINE M == Laps
             L == Block
             lap == c \div M
             o == c % M
  <1>1. /\ M \in Nat \ {0} /\ L \in Nat \ {0} /\ L <= M /\ c \in Nat
        /\ o \in 0 .. M - 1 /\ lap \in Nat /\ c = M * lap + o /\ o % L = 0
    BY BlocksFit, LapAndOffset DEF AtBlock
  <1>2. Past(c) = c + L + (IF M - o < L THEN M - o ELSE 0)
    BY DEF Past, Laps, Block
  <1>3. \A d : AtBlock(d) => /\ d \in Nat /\ d % M \in 0 .. M - 1 /\ d \div M \in Nat
                             /\ d = M * (d \div M) + (d % M) /\ (d % M) % L = 0
    BY <1>1, LapAndOffset DEF AtBlock
  <1>4. 0 % L = 0 /\ L % L = 0
    BY <1>1, SMT
  <1>5. \A x \in Nat : (x % M) % L = 0 => AtBlock(x)
    BY DEF AtBlock
  <1> HIDE DEF M, L, lap, o
  <1>6. CASE M - o < L
    <2>1. Past(c) = M * lap + M + L /\ Past(c) = M * (lap + 1) + L
      BY <1>1, <1>2, <1>6, SMT
    <2>2. lap + 1 \in Nat /\ lap + 2 \in Nat /\ Past(c) \in Nat
      BY <1>1, <1>2, <1>6, SMT
    <2>3. Past(c) % M \in {0, L}
      <3>1. CASE L < M
        <4>1. L \in 0 .. M - 1
          BY <1>1, <3>1, SMT
        <4>2. (M * (lap + 1) + L) % M = L
          BY <1>1, <2>2, <4>1, OffsetOf
        <4> QED BY <2>1, <4>2
      <3>2. CASE L = M
        <4>1. Past(c) = M * (lap + 2) + 0 /\ 0 \in 0 .. M - 1
          BY <1>1, <2>1, <3>2, SMT
        <4> QED BY <1>1, <2>2, <4>1, OffsetOf
      <3> QED BY <1>1, <3>1, <3>2, SMT
    <2>4. AtBlock(Past(c))
      BY <1>4, <1>5, <2>2, <2>3
    <2>5. ASSUME NEW d, AtBlock(d), d >= c + L
          PROVE  d >= Past(c)
      <3> DEFINE e == d \div M
                 p == d % M
      <3>1. /\ d \in Nat /\ e \in Nat /\ p \in 0 .. M - 1 /\ d = M * e + p /\ p % L = 0
        BY <1>3, <2>5
      <3> HIDE DEF e, p
      <3>2. d > M * lap + M
        BY <1>1, <1>6, <2>5, <3>1, SMT
      <3>3. e < lap + 1 => M * e + M <= M * (lap + 1)
        BY <1>1, <2>2, <3>1, LapsApart
      <3>4. lap + 1 < e => M * (lap + 1) + M <= M * e
        BY <1>1, <2>2, <3>1, LapsApart
      <3>5. M * (lap + 1) = M * lap + M
        BY <1>1, SMT
      <3>6. CASE lap + 1 < e
        BY <1>1, <2>1, <3>1, <3>4, <3>6, SMT
      <3>7. CASE e = lap + 1
        <4>1. p > 0 /\ p \in Nat
          BY <1>1, <3>1, <3>2, <3>5, <3>7, SMT
        <4>2. L <= p
          BY <1>1, <3>1, <4>1, WholeMultiple
        <4> QED BY <1>1, <2>1, <3>1, <3>7, <4>2, SMT
      <3>8. ~(e < lap + 1)
        BY <1>1, <3>1, <3>2, <3>3, <3>5, SMT
      <3> QED BY <1>1, <3>1, <3>6, <3>7, <3>8, SMT
    <2>6. Past(c) >= c + L
      BY <1>1, <2>1, SMT
    <2> QED BY <2>4, <2>5, <2>6 DEF L
  <1>7. CASE ~(M - o < L)
    <2>1. Past(c) = c + L /\ o + L <= M /\ Past(c) \in Nat /\ o \in Nat
      BY <1>1, <1>2, <1>7, SMT
    <2>2. (o + L) % L = 0
      BY <1>1, <2>1, NextMultiple
    <2>3. Past(c) % M \in {0, o + L}
      <3>1. CASE o + L < M
        <4>1. o + L \in 0 .. M - 1 /\ Past(c) = M * lap + (o + L)
          BY <1>1, <2>1, <3>1, SMT
        <4> QED BY <1>1, <4>1, OffsetOf
      <3>2. CASE o + L = M
        <4>1. Past(c) = M * (lap + 1) + 0 /\ lap + 1 \in Nat /\ 0 \in 0 .. M - 1
          BY <1>1, <2>1, <3>2, SMT
        <4> QED BY <1>1, <4>1, OffsetOf
      <3> QED BY <1>1, <2>1, <3>1, <3>2, SMT
    <2>4. AtBlock(Past(c))
      BY <1>4, <1>5, <2>1, <2>2, <2>3
    <2>5. Past(c) >= c + L
      BY <1>1, <2>1, SMT
    <2> QED BY <2>1, <2>4, <2>5 DEF L
  <1> QED BY <1>6, <1>7

\* The same position one lap on.
LEMMA LapLater ==
    ASSUME NEW c, AtBlock(c)
    PROVE  AtBlock(c + Laps)
  <1> DEFINE M == Laps
             lap == c \div M
             o == c % M
  <1>1. M \in Nat \ {0} /\ c \in Nat /\ o \in 0 .. M - 1 /\ lap \in Nat /\ c = M * lap + o
    BY BlocksFit, LapAndOffset DEF AtBlock
  <1> HIDE DEF M, lap, o
  <1>2. c + M = M * (lap + 1) + o /\ lap + 1 \in Nat /\ c + M \in Nat
    BY <1>1, SMT
  <1>3. (c + M) % M = o
    BY <1>1, <1>2, OffsetOf
  <1> QED BY <1>2, <1>3 DEF AtBlock, M, o

-------------------------------------------------------------------------------
(* The threads of the atomic ring buffer.                                  *)

Steps == {"idle", "full", "test", "judge", "load", "swap"}

AtomicTypeOK ==
  /\ AtBlock(m_write_count) /\ AtBlock(m_read_count)
  /\ side \in [Callers -> {"write", "read"}]
  /\ step \in [Callers -> Steps]
  /\ seen \in [Callers -> Nat]

\* Between the test and the swap of a side.
Between(t, s) == side[t] = s /\ step[t] \in {"judge", "load", "swap"}

AloneBetween ==
  \A s \in {"write", "read"} : s \notin crowded =>
    \A t, u \in Callers : Between(t, s) /\ Between(u, s) => t = u

\* What the test of a request found is still so at its swap: only retrievals
\* moved, and they make room.
RoomFound(t) ==
  /\ step[t] = "judge" => seen[t] = m_write_count
  /\ step[t] \in {"load", "swap"} => m_write_count + Block <= m_read_count + Laps

\* What the test of a retrieval found is still there at its swap.
BlockFound(t) ==
  /\ step[t] = "judge" => m_read_count <= seen[t] /\ seen[t] <= m_write_count
  /\ step[t] \in {"load", "swap"} => m_read_count + Block <= m_write_count

AtomicInv ==
  /\ AtomicTypeOK
  /\ AloneBetween
  /\ "write" \notin crowded => \A t \in Callers : side[t] = "write" => RoomFound(t)
  /\ "read" \notin crowded => \A t \in Callers : side[t] = "read" => BlockFound(t)
  /\ HeldWithinSize

\* It holds before the first call.
LEMMA AtomicInitInv == AtomicInit => AtomicInv
  <1> SUFFICES ASSUME AtomicInit PROVE AtomicInv
    OBVIOUS
  <1>1. AtBlock(0)
    BY BlocksFit, SMT DEF AtBlock
  <1>2. AtomicTypeOK
    BY <1>1 DEF AtomicInit, AtomicTypeOK, Steps, Callers
  <1>3. \A t \in Callers : step[t] = "idle"
    BY DEF AtomicInit
  <1>4. AloneBetween
    BY <1>3 DEF AloneBetween, Between
  <1>5. HeldWithinSize
    BY AtomicRingAssumption DEF AtomicInit, HeldWithinSize
  <1> QED
    BY <1>2, <1>3, <1>4, <1>5 DEF AtomicInv, RoomFound, BlockFound

\* What the kinds of steps do to a thread, the counters and the history.
LEMMA AtomicSteps ==
    ASSUME AtomicTypeOK, AtomicNext
    PROVE  \E t \in Callers :
             /\ \A u \in Callers \ {t} : UNCHANGED <<side[u], step[u], seen[u]>>
             /\ \/ RequestBlock(t) \/ JudgeFull(t) \/ RetrieveBlock(t) \/ Test(t) \/ Judge(t)
                \/ LoadCounter(t) \/ SwapWrite(t) \/ SwapRead(t) \/ SwapFails(t)
  <1>1. PICK t \in Callers :
          \/ RequestBlock(t) \/ JudgeFull(t) \/ RetrieveBlock(t) \/ Test(t) \/ Judge(t)
          \/ LoadCounter(t) \/ SwapWrite(t) \/ SwapRead(t) \/ SwapFails(t)
    BY DEF AtomicNext, Callers
  <1>2. \A u \in Callers \ {t} : UNCHANGED <<side[u], step[u], seen[u]>>
    BY <1>1 DEF AtomicTypeOK, RequestBlock, JudgeFull, RetrieveBlock, Test, Judge,
                LoadCounter, SwapWrite, SwapRead, SwapFails, Moves, Sees
  <1> QED BY <1>1, <1>2

\* The counters stay at the positions of blocks.
LEMMA AtomicTypeStep ==
    ASSUME AtomicTypeOK,
           NEW t \in Callers,
           \A u \in Callers \ {t} : UNCHANGED <<side[u], step[u], seen[u]>>,
           \/ RequestBlock(t) \/ JudgeFull(t) \/ RetrieveBlock(t) \/ Test(t) \/ Judge(t)
           \/ LoadCounter(t) \/ SwapWrite(t) \/ SwapRead(t) \/ SwapFails(t)
    PROVE  AtomicTypeOK'
  <1> USE DEF AtomicTypeOK, Moves, Sees, Steps
  <1>1. CASE RequestBlock(t)
    BY <1>1 DEF RequestBlock, AtBlock
  <1>2. CASE JudgeFull(t)
    BY <1>2 DEF JudgeFull
  <1>3. CASE RetrieveBlock(t)
    BY <1>3 DEF RetrieveBlock
  <1>4. CASE Test(t)
    BY <1>4 DEF Test, AtBlock
  <1>5. CASE Judge(t)
    BY <1>5 DEF Judge
  <1>6. CASE LoadCounter(t)
    BY <1>6 DEF LoadCounter, AtBlock
  <1>7. CASE SwapWrite(t)
    BY <1>7, PastBlock DEF SwapWrite
  <1>8. CASE SwapRead(t)
    BY <1>8, PastBlock DEF SwapRead
  <1>9. CASE SwapFails(t)
    BY <1>9 DEF SwapFails
  <1> QED BY <1>1, <1>2, <1>3, <1>4, <1>5, <1>6, <1>7, <1>8, <1>9

\* A second thread that gets between test and swap makes its side crowded.
LEMMA AloneStep ==
    ASSUME AtomicTypeOK, AloneBetween,
           NEW t \in Callers,
           \A u \in Callers \ {t} : UNCHANGED <<side[u], step[u], seen[u]>>,
           \/ RequestBlock(t) \/ JudgeFull(t) \/ RetrieveBlock(t) \/ Test(t) \/ Judge(t)
           \/ LoadCounter(t) \/ SwapWrite(t) \/ SwapRead(t) \/ SwapFails(t)
    PROVE  AloneBetween'
  <1> USE DEF AtomicTypeOK, AloneBetween, Between, Moves, Sees, Steps
  <1>1. CASE RequestBlock(t)
    BY <1>1 DEF RequestBlock
  <1>2. CASE JudgeFull(t)
    BY <1>2 DEF JudgeFull
  <1>3. CASE RetrieveBlock(t)
    BY <1>3 DEF RetrieveBlock
  <1>4. CASE Test(t)
    BY <1>4 DEF Test
  <1>5. CASE Judge(t)
    BY <1>5 DEF Judge
  <1>6. CASE LoadCounter(t)
    BY <1>6 DEF LoadCounter
  <1>7. CASE SwapWrite(t)
    BY <1>7 DEF SwapWrite
  <1>8. CASE SwapRead(t)
    BY <1>8 DEF SwapRead
  <1>9. CASE SwapFails(t)
    BY <1>9 DEF SwapFails
  <1> QED BY <1>1, <1>2, <1>3, <1>4, <1>5, <1>6, <1>7, <1>8, <1>9

\* The room a request found stays until its swap.
LEMMA RoomStep ==
    ASSUME AtomicInv,
           NEW t \in Callers,
           \A u \in Callers \ {t} : UNCHANGED <<side[u], step[u], seen[u]>>,
           \/ RequestBlock(t) \/ JudgeFull(t) \/ RetrieveBlock(t) \/ Test(t) \/ Judge(t)
           \/ LoadCounter(t) \/ SwapWrite(t) \/ SwapRead(t) \/ SwapFails(t)
    PROVE  "write" \notin crowded' => \A u \in Callers : side'[u] = "write" => RoomFound(u)'
  <1> USE DEF AtomicInv, AtomicTypeOK, AloneBetween, Between, RoomFound, HeldWithinSize, Moves,
              Sees, Steps, Laps, Block, AtBlock
  <1>1. CASE RequestBlock(t)
    BY <1>1 DEF RequestBlock
  <1>2. CASE JudgeFull(t)
    BY <1>2 DEF JudgeFull
  <1>3. CASE RetrieveBlock(t)
    BY <1>3 DEF RetrieveBlock
  <1>4. CASE Test(t)
    BY <1>4 DEF Test
  <1>5. CASE Judge(t)
    <2>1. UNCHANGED <<m_write_count, m_read_count, side, seen, crowded>> /\ step[t] = "judge"
      BY <1>5 DEF Judge
    <2>2. step'[t] = "load" /\ side[t] = "write"
          => Size - (seen[t] - m_read_count) < 0 \/ Size - (seen[t] - m_read_count) >= BlockLength
      BY <1>5 DEF Judge, Suffices, Held
    <2>3. step'[t] \in {"load", "idle"}
      BY <1>5 DEF Judge
    <2> QED BY <2>1, <2>2, <2>3, AtomicRingAssumption
  <1>6. CASE LoadCounter(t)
    BY <1>6 DEF LoadCounter
  <1>7. CASE SwapWrite(t)
    BY <1>7 DEF SwapWrite
  <1>8. CASE SwapRead(t)
    <2>1. /\ UNCHANGED <<m_write_count, side, seen, crowded>>
          /\ step' = [step EXCEPT ![t] = "idle"] /\ m_read_count' = Past(m_read_count)
      BY <1>8 DEF SwapRead
    <2>2. m_read_count' \in Nat /\ m_read_count' >= m_read_count
      BY <2>1, PastBlock, BlocksFit
    <2> QED BY <2>1, <2>2, AtomicRingAssumption
  <1>9. CASE SwapFails(t)
    BY <1>9 DEF SwapFails
  <1> QED BY <1>1, <1>2, <1>3, <1>4, <1>5, <1>6, <1>7, <1>8, <1>9

\* The block a retrieval found stays until its swap.
LEMMA BlockStep ==
    ASSUME AtomicInv,
           NEW t \in Callers,
           \A u \in Callers \ {t} : UNCHANGED <<side[u], step[u], seen[u]>>,
           \/ RequestBlock(t) \/ JudgeFull(t) \/ RetrieveBlock(t) \/ Test(t) \/ Judge(t)
           \/ LoadCounter(t) \/ SwapWrite(t) \/ SwapRead(t) \/ SwapFails(t)
    PROVE  "read" \notin crowded' => \A u \in Callers : side'[u] = "read" => BlockFound(u)'
  <1> USE DEF AtomicInv, AtomicTypeOK, AloneBetween, Between, BlockFound, HeldWithinSize, Moves,
              Sees, Steps, Laps, Block, AtBlock
  <1>1. CASE RequestBlock(t)
    BY <1>1 DEF RequestBlock
  <1>2. CASE JudgeFull(t)
    BY <1>2 DEF JudgeFull
  <1>3. CASE RetrieveBlock(t)
    BY <1>3 DEF RetrieveBlock
  <1>4. CASE Test(t)
    BY <1>4 DEF Test
  <1>5. CASE Judge(t)
    <2>1. UNCHANGED <<m_write_count, m_read_count, side, seen, crowded>> /\ step[t] = "judge"
      BY <1>5 DEF Judge
    <2>2. step'[t] = "load" /\ side[t] = "read"
          => seen[t] - m_read_count < 0 \/ seen[t] - m_read_count >= BlockLength
      BY <1>5 DEF Judge, Suffices, Held
    <2>3. step'[t] \in {"load", "idle"}
      BY <1>5 DEF Judge
    <2> QED BY <2>1, <2>2, <2>3, AtomicRingAssumption
  <1>6. CASE LoadCounter(t)
    BY <1>6 DEF LoadCounter
  <1>7. CASE SwapWrite(t)
    <2>1. /\ UNCHANGED <<m_read_count, side, seen, crowded>>
          /\ step' = [step EXCEPT ![t] = "idle"] /\ m_write_count' = Past(m_write_count)
      BY <1>7 DEF SwapWrite
    <2>2. m_write_count' \in Nat /\ m_write_count' >= m_write_count
      BY <2>1, PastBlock, BlocksFit
    <2> QED BY <2>1, <2>2, AtomicRingAssumption
  <1>8. CASE SwapRead(t)
    BY <1>8 DEF SwapRead
  <1>9. CASE SwapFails(t)
    BY <1>9 DEF SwapFails
  <1> QED BY <1>1, <1>2, <1>3, <1>4, <1>5, <1>6, <1>7, <1>8, <1>9

\* A swap moves its counter no further than the test before it allows.
LEMMA HeldStep ==
    ASSUME AtomicInv, NEW t \in Callers,
           \/ RequestBlock(t) \/ JudgeFull(t) \/ RetrieveBlock(t) \/ Test(t) \/ Judge(t)
           \/ LoadCounter(t) \/ SwapWrite(t) \/ SwapRead(t) \/ SwapFails(t)
    PROVE  HeldWithinSize'
  <1>1. /\ m_write_count \in Nat /\ m_read_count \in Nat /\ Laps \in Nat
        /\ AtBlock(m_write_count) /\ AtBlock(m_read_count) /\ AtBlock(m_read_count + Laps)
    BY LapLater, BlocksFit DEF AtomicInv, AtomicTypeOK, AtBlock
  <1>2. /\ "write" \notin crowded => m_write_count <= m_read_count + Laps
        /\ "read" \notin crowded => m_read_count <= m_write_count
    BY <1>1, AtomicRingAssumption DEF AtomicInv, HeldWithinSize, Laps
  <1>3. CASE SwapWrite(t)
    <2>1. /\ m_write_count' = Past(m_write_count) /\ UNCHANGED <<m_read_count, crowded>>
          /\ side[t] = "write" /\ step[t] = "swap"
      BY <1>3 DEF SwapWrite, Moves
    <2>2. /\ AtBlock(Past(m_write_count)) /\ Past(m_write_count) >= m_write_count + Block
          /\ m_read_count + Laps >= m_write_count + Block
             => m_read_count + Laps >= Past(m_write_count)
      BY <1>1, PastBlock
    <2>3. "write" \notin crowded => m_write_count + Block <= m_read_count + Laps
      BY <2>1 DEF AtomicInv, RoomFound
    <2>4. Past(m_write_count) \in Nat
      BY <2>2 DEF AtBlock
    <2>5. "write" \notin crowded => Past(m_write_count) <= m_read_count + Laps
      BY <1>1, <2>2, <2>3, <2>4, BlocksFit
    <2>6. "read" \notin crowded => Past(m_write_count) >= m_read_count
      BY <1>1, <1>2, <2>2, <2>4, BlocksFit
    <2> QED
      BY <1>1, <2>1, <2>4, <2>5, <2>6 DEF HeldWithinSize, Laps
  <1>4. CASE SwapRead(t)
    <2>1. /\ m_read_count' = Past(m_read_count) /\ UNCHANGED <<m_write_count, crowded>>
          /\ side[t] = "read" /\ step[t] = "swap"
      BY <1>4 DEF SwapRead, Moves
    <2>2. /\ AtBlock(Past(m_read_count)) /\ Past(m_read_count) >= m_read_count + Block
          /\ m_write_count >= m_read_count + Block => m_write_count >= Past(m_read_count)
      BY <1>1, PastBlock
    <2>3. "read" \notin crowded => m_read_count + Block <= m_write_count
      BY <2>1 DEF AtomicInv, BlockFound
    <2>4. Past(m_read_count) \in Nat
      BY <2>2 DEF AtBlock
    <2>5. "write" \notin crowded => m_write_count <= Past(m_read_count) + Laps
      BY <1>1, <1>2, <2>2, <2>4, BlocksFit
    <2>6. "read" \notin crowded => m_write_count >= Past(m_read_count)
      BY <1>1, <2>2, <2>3, <2>4, BlocksFit
    <2> QED
      BY <1>1, <2>1, <2>4, <2>5, <2>6 DEF HeldWithinSize, Laps
  <1>5. CASE ~SwapWrite(t) /\ ~SwapRead(t)
    <2>1. UNCHANGED <<m_write_count, m_read_count>> /\ crowded \subseteq crowded'
      BY <1>5 DEF RequestBlock, JudgeFull, RetrieveBlock, Test, Judge, LoadCounter, SwapFails
    <2> QED
      BY <2>1 DEF AtomicInv, HeldWithinSize
  <1> QED
    BY <1>3, <1>4, <1>5

\* However many threads request and retrieve, the buffer holds between nothing and
\* its size, gaps included, as long as no two calls of one side were between their
\* test and their swap together (atomic_ring_buffer::request, retrieve).
THEOREM AtomicHeldWithinSize == AtomicSpec => []HeldWithinSize
  <1>1. AtomicInv /\ [AtomicNext]_atomicVars => AtomicInv'
    <2> SUFFICES ASSUME AtomicInv, [AtomicNext]_atomicVars PROVE AtomicInv'
      OBVIOUS
    <2>1. CASE AtomicNext
      <3>1. AtomicTypeOK /\ AloneBetween
        BY DEF AtomicInv
      <3>2. PICK t \in Callers :
              /\ \A u \in Callers \ {t} : UNCHANGED <<side[u], step[u], seen[u]>>
              /\ \/ RequestBlock(t) \/ JudgeFull(t) \/ RetrieveBlock(t) \/ Test(t) \/ Judge(t)
                 \/ LoadCounter(t) \/ SwapWrite(t) \/ SwapRead(t) \/ SwapFails(t)
        BY <2>1, <3>1, AtomicSteps
      <3>3. AtomicTypeOK' /\ AloneBetween'
        BY <3>1, <3>2, AtomicTypeStep, AloneStep
      <3>4. /\ "write" \notin crowded' =>
                 \A u \in Callers : side'[u] = "write" => RoomFound(u)'
            /\ "read" \notin crowded' =>
                 \A u \in Callers : side'[u] = "read" => BlockFound(u)'
        BY <3>2, RoomStep, BlockStep
      <3>5. HeldWithinSize'
        BY <3>2, HeldStep
      <3> QED
        BY <3>3, <3>4, <3>5 DEF AtomicInv
    <2>2. CASE UNCHANGED atomicVars
      BY <2>2 DEF atomicVars, AtomicInv, AtomicTypeOK, AloneBetween, Between, RoomFound,
                  BlockFound, HeldWithinSize
    <2> QED
      BY <2>1, <2>2
  <1>2. AtomicInv => HeldWithinSize
    BY DEF AtomicInv
  <1> QED
    BY <1>1, <1>2, AtomicInitInv, PTL DEF AtomicSpec

===============================================================================

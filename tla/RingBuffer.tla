------------------------------ MODULE RingBuffer ------------------------------
(***************************************************************************)
(* tim::base::ring_buffer and the fixed-record wrapper                     *)
(* tim::data_storage::ring_buffer<Tp> (data/ring_buffer.hpp and .cpp).     *)
(*                                                                         *)
(* Two ever-growing byte counters and one block of memory.  A record never *)
(* straddles the end of the block: when it does not fit in the tail the    *)
(* counter is bumped to the start of the next lap, and the bytes skipped   *)
(* are a gap.  free() is tested before the gap is added, so the class is   *)
(* only safe when every record has the same length; the three              *)
(* specifications below separate that use (Spec) from the two that the     *)
(* interface also offers: records of several types (MixedSpec) and         *)
(* moving the read position back (RewindSpec).                             *)
(***************************************************************************)
EXTENDS Integers, Sequences

CONSTANTS Buffers,       \* the ring_buffer objects of the program
          Values,        \* what a record may hold
          Garbage,       \* content of memory that was never written
          Page,          \* units::get_page_size()
          RecordLength,  \* sizeof(Tp) of the wrapper
          Lengths,       \* sizeof of the types written through the base class
          Requested,     \* byte sizes asked of init
          Rewinds,       \* numbers of bytes asked of rewind
          Word,          \* number of values of size_t
          MaxCount       \* bound of the model: no write starts beyond it

ASSUME PageAssumption == Page \in Nat \ {0}
ASSUME LengthAssumption == /\ RecordLength \in Nat \ {0}
                           /\ Lengths \subseteq Nat \ {0}
ASSUME SizeAssumption == Requested \cup Rewinds \subseteq Nat /\ MaxCount \in Nat /\ Word \in Nat
ASSUME ValueAssumption == Garbage \notin Values

VARIABLES buf,     \* buf[b]: the data members of buffer b and its memory
          result   \* what the last call handed back

vars == <<buf, result>>

Records == Values \union {Garbage}

(***************************************************************************)
(* A buffer: m_init (m_ptr is non-null exactly when it is set), m_use_mmap,*)
(* m_size, m_read_count, m_write_count, and the bytes m_ptr points to.     *)
(***************************************************************************)
Memory(size) == [0 .. size - 1 -> Records]

NoBuffer(mmap) == [init |-> FALSE, mmap |-> mmap, size |-> 0, rd |-> 0, wr |-> 0,
                   mem |-> [k \in 0 .. -1 |-> Garbage]]

Init == /\ buf \in [Buffers -> {NoBuffer(m) : m \in BOOLEAN}]
        /\ result = "none"

-------------------------------------------------------------------------------
(* Arithmetic of the counters.  size_t subtraction wraps.                  *)

Minus(a, b) == IF a >= b THEN a - b ELSE Word + a - b

Count(B) == Minus(B.wr, B.rd)
Free(B) == Minus(B.size, Count(B))
IsEmpty(B) == Count(B) = 0

Smaller(m, n) == IF m < n THEN m ELSE n

\* "round up to multiple of page size"
RoundUp(n) == n + Page - (IF n % Page > 0 THEN n % Page ELSE Page)

\* Where a record of length len goes when the counter stands at pos: here, or
\* at the start of the next lap when the tail of the block is too short.
Bumped(pos, size, len) == LET tail == size - (pos % size)
                          IN  IF tail < len THEN pos + tail ELSE pos

\* the number of records the wrapper reports: base count() / sizeof(Tp)
Items(B) == Count(B) \div RecordLength

-------------------------------------------------------------------------------
(* init and destroy                                                        *)

Allocated(mmap, n) ==
    [init |-> TRUE, mmap |-> mmap, size |-> RoundUp(n), rd |-> 0, wr |-> 0,
     mem |-> [k \in 0 .. RoundUp(n) - 1 |-> Garbage]]

\* mmap refuses a length of zero; malloc does not
CanAllocate(mmap, n) == ~(mmap /\ RoundUp(n) = 0)

InitBuffer(b) ==
    /\ ~buf[b].init
    /\ \E n \in Requested :
         IF CanAllocate(buf[b].mmap, n)
         THEN buf' = [buf EXCEPT ![b] = Allocated(@.mmap, n)] /\ result' = "none"
         ELSE buf' = [buf EXCEPT ![b] = NoBuffer(@.mmap)] /\ result' = "badalloc"

DestroyBuffer(b) ==
    /\ buf' = [buf EXCEPT ![b] = NoBuffer(@.mmap)]
    /\ result' = "none"

-------------------------------------------------------------------------------
(* set_use_mmap(v); the buffer must not be initialised                     *)

SetUseMmap(b) ==
    /\ ~buf[b].init
    /\ \E v \in BOOLEAN : buf' = [buf EXCEPT ![b].mmap = v]
    /\ result' = "none"

-------------------------------------------------------------------------------
(* write<Tp>(in), request<Tp>(), request(n), emplace                       *)

Refuse(why) == result' = why /\ UNCHANGED buf

\* mutant: the base class's is_full() in place of the free() test
HasRoomUnlessExactlyFull(B, len) == Count(B) # B.size

HasRoom(B, len) == len <= Free(B)

\* the record is stored at write_ptr(): the bytes of [off, off + len)
Stored(B, len, v) ==
    LET at  == Bumped(B.wr, B.size, len)
        off == at % B.size
    IN  [B EXCEPT !.wr  = at + len,
                  !.mem = [k \in DOMAIN B.mem |->
                             IF k >= off /\ k < off + len THEN v ELSE B.mem[k]]]

\* request() hands out the memory without writing it
Reserved(B, len) == [B EXCEPT !.wr = Bumped(B.wr, B.size, len) + len]

Append_(b, len, new) ==
    IF ~buf[b].init THEN Refuse("null")
    ELSE IF ~HasRoom(buf[b], len) THEN Refuse("full")
    ELSE /\ buf[b].wr <= MaxCount
         /\ buf' = [buf EXCEPT ![b] = new]
         /\ result' = "stored"

Write(b, len, v) == Append_(b, len, Stored(buf[b], len, v))
Request(b, len) == Append_(b, len, Reserved(buf[b], len))

-------------------------------------------------------------------------------
(* read<Tp>(out), retrieve<Tp>(), retrieve(n).  The content of a record is *)
(* its first byte; a record whose bytes differ is "torn".                  *)

Content(B, off, len) ==
    IF \A k \in off .. off + len - 1 : k \in DOMAIN B.mem /\ B.mem[k] = B.mem[off]
    THEN B.mem[off] ELSE "torn"

\* mutant: the tail is not skipped when reading
ConsumedWithoutBump(B, len) == [B EXCEPT !.rd = @ + len]

Consumed(B, len) == [B EXCEPT !.rd = Bumped(B.rd, B.size, len) + len]

Take(b, len) ==
    IF len > Count(buf[b]) THEN Refuse("empty")
    ELSE /\ buf' = [buf EXCEPT ![b] = Consumed(@, len)]
         /\ result' = Content(buf[b], Bumped(buf[b].rd, buf[b].size, len) % buf[b].size, len)

Read(b, len) == IF IsEmpty(buf[b]) THEN Refuse("null") ELSE Take(b, len)
Retrieve(b, len) == IF ~buf[b].init THEN Refuse("null") ELSE Take(b, len)

-------------------------------------------------------------------------------
(* rewind(n): moves the read position back, at most to the first byte      *)

Rewind(b) ==
    \E n \in Rewinds :
        /\ buf' = [buf EXCEPT ![b].rd = @ - Smaller(n, @)]
        /\ result' = "none"

-------------------------------------------------------------------------------
(* operator=(const ring_buffer&) and operator=(ring_buffer&&)              *)

\* mutant: the copy loop starts at m_ptr instead of read_ptr()
SourceOffsetFromStart(B, i) ==
    LET off == i * RecordLength IN IF off + RecordLength > B.size THEN 0 ELSE off

\* The copy loop visits read_ptr() + i * sizeof(Tp); every address that does
\* not leave room for a record before the end is replaced by the first one.
SourceOffset(B, i) ==
    LET off == (B.rd % B.size) + i * RecordLength
    IN  IF off + RecordLength > B.size THEN 0 ELSE off

\* mutant: the copy keeps the source's counters and gets the records appended
CopiedAtSourceCount(B) ==
    LET fits == Smaller(Items(B), B.size \div RecordLength)
    IN  [init |-> TRUE, mmap |-> B.mmap, size |-> B.size,
         rd |-> B.rd, wr |-> B.wr + fits * RecordLength, mem |-> B.mem]

\* write() throws when the copy is full, after it stored what fits
Copied(B) ==
    LET fits == Smaller(Items(B), B.size \div RecordLength)
    IN  [init |-> TRUE, mmap |-> B.mmap, size |-> B.size,
         rd |-> 0, wr |-> fits * RecordLength,
         mem |-> [k \in 0 .. B.size - 1 |->
                    IF k < fits * RecordLength
                    THEN B.mem[SourceOffset(B, k \div RecordLength) + (k % RecordLength)]
                    ELSE Garbage]]

CopyAssign(dst, src) ==
    /\ dst # src
    /\ IF CanAllocate(buf[src].mmap, buf[src].size)
       THEN buf' = [buf EXCEPT ![dst] = Copied(buf[src])] /\ result' = "none"
       ELSE buf' = [buf EXCEPT ![dst] = NoBuffer(buf[src].mmap)] /\ result' = "badalloc"

\* save(file) of src and load(file) into dst: the members and the memory
\* travel through the file, and init() allocates the block anew.
Load(dst, src) ==
    IF CanAllocate(buf[src].mmap, buf[src].size)
    THEN /\ buf' = [buf EXCEPT ![dst] = [buf[src] EXCEPT !.init = TRUE]]
         /\ result' = "none"
    ELSE /\ buf' = [buf EXCEPT ![dst] = NoBuffer(buf[src].mmap)]
         /\ result' = "badalloc"

\* mutant: the moved-from buffer keeps its counters
MoveAssignKeepingCounters(dst, src) ==
    /\ dst # src
    /\ buf' = [buf EXCEPT ![dst] = buf[src],
                         ![src] = [NoBuffer(@.mmap) EXCEPT !.wr = buf[src].wr]]
    /\ result' = "none"

MoveAssign(dst, src) ==
    /\ dst # src
    /\ buf' = [buf EXCEPT ![dst] = buf[src], ![src] = NoBuffer(@.mmap)]
    /\ result' = "none"

-------------------------------------------------------------------------------
NextOf(lens) ==
    \E b \in Buffers :
        \/ InitBuffer(b)
        \/ DestroyBuffer(b)
        \/ SetUseMmap(b)
        \/ \E len \in lens :
              \/ \E v \in Values : Write(b, len, v)
              \/ Request(b, len)
              \/ Read(b, len)
              \/ Retrieve(b, len)
        \/ \E src \in Buffers : MoveAssign(b, src)

\* The wrapper's own life: every record has the length of Tp.
LocalNext == NextOf({RecordLength})

\* The wrapper, saved to and loaded from files.
LocalSpec == Init /\ [][LocalNext \/ \E dst, src \in Buffers : Load(dst, src)]_vars

\* The wrapper, with copies of it, direct or through a file.
Next == LocalNext \/ \E dst, src \in Buffers : CopyAssign(dst, src) \/ Load(dst, src)
Spec == Init /\ [][Next]_vars

\* The base class, through which records of several types are written.
MixedNext == NextOf(Lengths)
MixedSpec == Init /\ [][MixedNext]_vars

\* The wrapper with rewind().
RewindNext == LocalNext \/ \E b \in Buffers : Rewind(b)
RewindSpec == Init /\ [][RewindNext]_vars

-------------------------------------------------------------------------------
(* Properties                                                              *)

Results == Records \union {"none", "badalloc", "null", "full", "empty", "stored", "torn"}

\* Every buffer holds its members and a block of exactly m_size bytes, and a
\* buffer without memory has all members reset.
BufferOK(B) ==
    /\ B \in [init : BOOLEAN, mmap : BOOLEAN, size : Nat, rd : Nat, wr : Nat,
              mem : {B.mem}]
    /\ B.mem \in Memory(B.size)
    /\ ~B.init => B.size = 0 /\ B.rd = 0 /\ B.wr = 0

TypeOK == /\ DOMAIN buf = Buffers
          /\ \A b \in Buffers : BufferOK(buf[b])
          /\ result \in Results

\* The counters stand at record boundaries of their lap ...
OnGrid(pos, size) == size > 0 => (pos % size) % RecordLength = 0

\* ... and the distance between them never exceeds the block: free() does not
\* underflow although request() tests it before it adds the gap.
CountersOK(B) == /\ B.rd <= B.wr
                 /\ B.wr <= B.rd + B.size
                 /\ OnGrid(B.rd, B.size)
                 /\ OnGrid(B.wr, B.size)

WithinCapacity == \A b \in Buffers : CountersOK(buf[b])

\* A write (of the types Write is called with) leaves every byte that was
\* written and not read yet as it was, whatever laps the two counters are on.
WritesSpareUnread(lens) ==
    \A b \in Buffers, len \in lens, v \in Values :
        Write(b, len, v) =>
            \A p \in buf[b].rd .. buf[b].wr - 1 :
                buf'[b].mem[p % buf[b].size] = buf[b].mem[p % buf[b].size]

\* "Make sure we don't put in more than there's room for, by writing no more
\* than there is free" (ring_buffer.hpp, write): for the wrapper's records.
UnreadIntact == [][WritesSpareUnread({RecordLength})]_vars

\* The same comment, for records of several types in one base buffer.
UnreadIntactMixed == [][WritesSpareUnread(Lengths)]_vars

\* Offset of the i-th unread record: the read lap first, then from the start.
Offset(B, i) == LET off  == B.rd % B.size
                    here == (B.size - off) \div RecordLength
                IN  IF i <= here THEN off + (i - 1) * RecordLength
                                 ELSE (i - here - 1) * RecordLength

Unread(B) == [i \in 1 .. Items(B) |-> Content(B, Offset(B, i), RecordLength)]

\* The fixture ring_buffer_tests.copy reads a full buffer and its copy side by
\* side and expects every field to agree: a copy holds its source's records,
\* and so does a buffer loaded from the file its source was saved to.
CopyKeepsRecords ==
    [][\A dst, src \in Buffers :
          CopyAssign(dst, src) \/ Load(dst, src) => Unread(buf'[dst]) = Unread(buf[src])]_vars

\* The wrapper is the queue RingFifo describes: capacity() is exact (the gap
\* never costs a record), is_full and is_empty are exact, order is kept.
Fifo == INSTANCE RingFifo
    WITH Capacities <- {RoundUp(n) \div RecordLength : n \in Requested},
         open <- [b \in Buffers |-> buf[b].init],
         cap <- [b \in Buffers |-> buf[b].size \div RecordLength],
         q <- [b \in Buffers |-> Unread(buf[b])]

ImplementsFifo == Fifo!Spec

===============================================================================

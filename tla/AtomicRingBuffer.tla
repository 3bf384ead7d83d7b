-------------------------- MODULE AtomicRingBuffer --------------------------
(***************************************************************************)
(* data::atomic_ring_buffer: threads request and retrieve blocks of one    *)
(* length from a ring of bytes, with no lock.  Each call tests how much is *)
(* held (two loads), loads the counter of its side and swaps it, and       *)
(* starts again from the test when the swap fails; the swap does not       *)
(* repeat the test.  The pointers handed out and the bytes behind them are *)
(* left out.                                                               *)
(***************************************************************************)
EXTENDS Integers

CONSTANTS
  Requesters, Retrievers,  \* the threads that write, that read
  Size,                    \* m_size
  BlockLength,             \* the length of every request and retrieval
  MaxBytes                 \* bound: no call begins when its counter has come here

ASSUME AtomicRingAssumption ==
  /\ Requesters \cap Retrievers = {}
  /\ Size \in Nat \ {0} /\ BlockLength \in 1..Size /\ MaxBytes \in Nat

VARIABLES
  m_write_count, m_read_count,
  side,     \* side[t]: the loop t is in, "write" or "read"
  step,     \* step[t]: what t does next
  seen,     \* seen[t]: the counter t loaded last
  crowded   \* history: the sides on which two threads were between test and swap

atomicVars == <<m_write_count, m_read_count, side, step, seen, crowded>>

Callers == Requesters \cup Retrievers

AtomicInit ==
  /\ m_write_count = 0 /\ m_read_count = 0
  /\ side = [t \in Callers |-> IF t \in Requesters THEN "write" ELSE "read"]
  /\ step = [t \in Callers |-> "idle"]
  /\ seen = [t \in Callers |-> 0]
  /\ crowded = {}

Moves(t, from, to) == step[t] = from /\ step' = [step EXCEPT ![t] = to]
Sees(t, count) == seen' = [seen EXCEPT ![t] = count]

\* The write counter as loaded before, less the read counter as it is now; the
\* subtraction is unsigned, so that a negative number passes for a huge one.
Held(t) == seen[t] - m_read_count
Suffices(n) == n < 0 \/ n >= BlockLength

\* is_full() loads the write counter ...
RequestBlock(t) ==
  /\ m_write_count < MaxBytes
  /\ Moves(t, "idle", "full")
  /\ Sees(t, m_write_count)
  /\ UNCHANGED <<m_write_count, m_read_count, side, crowded>>

\* ... and the read counter; a full buffer makes request a retrieve.
JudgeFull(t) ==
  /\ Moves(t, "full", "test")
  /\ side' = [side EXCEPT ![t] = IF Held(t) = Size THEN "read" ELSE "write"]
  /\ UNCHANGED <<m_write_count, m_read_count, seen, crowded>>

RetrieveBlock(t) ==
  /\ m_read_count < MaxBytes
  /\ Moves(t, "idle", "test")
  /\ UNCHANGED <<m_write_count, m_read_count, side, seen, crowded>>

\* The loop: free() or count() loads the write counter ...
Test(t) ==
  /\ Moves(t, "test", "judge")
  /\ Sees(t, m_write_count)
  /\ crowded' = IF \E s \in Callers \ {t} : side[s] = side[t] /\ step[s] \notin {"idle", "full", "test"}
                  THEN crowded \cup {side[t]} ELSE crowded
  /\ UNCHANGED <<m_write_count, m_read_count, side>>

\* Mutant: free() is not compared with the length.
JudgeEmptyOnly(t) ==
  /\ Moves(t, "judge", IF side[t] = "read" /\ ~Suffices(Held(t)) THEN "idle" ELSE "load")
  /\ UNCHANGED <<m_write_count, m_read_count, side, seen, crowded>>

\* ... and the read counter; the call returns null when that is not enough.
Judge(t) ==
  /\ Moves(t, "judge",
           IF Suffices(IF side[t] = "write" THEN Size - Held(t) ELSE Held(t))
             THEN "load" ELSE "idle")
  /\ UNCHANGED <<m_write_count, m_read_count, side, seen, crowded>>

LoadCounter(t) ==
  /\ Moves(t, "load", "swap")
  /\ Sees(t, IF side[t] = "write" THEN m_write_count ELSE m_read_count)
  /\ UNCHANGED <<m_write_count, m_read_count, side, crowded>>

\* The counter moves past the block, and past the bytes before the end of the ring
\* when the block does not fit there.
Past(count) ==
  LET rest == Size - (count % Size) IN
  count + BlockLength + (IF rest < BlockLength THEN rest ELSE 0)

\* compare_exchange_strong; it fails, and the loop starts again, when another
\* thread was faster.
SwapWrite(t) ==
  /\ side[t] = "write" /\ m_write_count = seen[t]
  /\ Moves(t, "swap", "idle")
  /\ m_write_count' = Past(seen[t])
  /\ UNCHANGED <<m_read_count, side, seen, crowded>>

SwapRead(t) ==
  /\ side[t] = "read" /\ m_read_count = seen[t]
  /\ Moves(t, "swap", "idle")
  /\ m_read_count' = Past(seen[t])
  /\ UNCHANGED <<m_write_count, side, seen, crowded>>

SwapFails(t) ==
  /\ seen[t] # IF side[t] = "write" THEN m_write_count ELSE m_read_count
  /\ Moves(t, "swap", "test")
  /\ UNCHANGED <<m_write_count, m_read_count, side, seen, crowded>>

AtomicNext ==
  \/ \E t \in Requesters : RequestBlock(t) \/ JudgeFull(t)
  \/ \E t \in Retrievers : RetrieveBlock(t)
  \/ \E t \in Callers : Test(t) \/ Judge(t) \/ LoadCounter(t) \/ SwapWrite(t)
                        \/ SwapRead(t) \/ SwapFails(t)

AtomicSpec == AtomicInit /\ [][AtomicNext]_atomicVars
-----------------------------------------------------------------------------
(* Properties.                                                             *)

\* The buffer never holds more than its size, gaps included, until two requests
\* were between the test and the swap together, and never less than nothing until
\* two retrievals were: a swap keeps calls of one side apart but does not repeat the
\* test.  A request that found the buffer full is a retrieval.
HeldWithinSize ==
  LET held == m_write_count - m_read_count IN
  /\ "write" \notin crowded => held <= Size
  /\ "read" \notin crowded => held >= 0
=============================================================================

------------------------------- MODULE RingFifo -------------------------------
(***************************************************************************)
(* What data_storage::ring_buffer<Tp> promises to its users (the sampler,  *)
(* the node allocator): each initialised buffer is a first-in first-out    *)
(* queue of records with a fixed capacity.  An overfull write and an empty *)
(* retrieve are refused with an exception and change nothing; a copy holds *)
(* the same records as its source; a move leaves the source without memory.*)
(* RingBuffer implements this with byte counters over one block of memory. *)
(***************************************************************************)
EXTENDS Naturals, Sequences

CONSTANTS Buffers,    \* the ring_buffer objects of the program
          Values,     \* what a record may hold
          Garbage,    \* the content of memory nobody wrote yet
          Capacities  \* numbers of records an initialised buffer may have

VARIABLES open,    \* open[b]: the buffer owns memory
          cap,     \* cap[b]: how many records fit
          q,       \* q[b]: the records written and not read yet, oldest first
          result   \* what the last call handed back

vars == <<open, cap, q, result>>

Records == Values \union {Garbage}

Init == /\ open = [b \in Buffers |-> FALSE]
        /\ cap = [b \in Buffers |-> 0]
        /\ q = [b \in Buffers |-> << >>]
        /\ result = "none"

Become(b, isOpen, size, records) ==
    /\ open' = [open EXCEPT ![b] = isOpen]
    /\ cap' = [cap EXCEPT ![b] = size]
    /\ q' = [q EXCEPT ![b] = records]

Create(b) == /\ ~open[b]
             /\ \E size \in Capacities : Become(b, TRUE, size, << >>)
             /\ result' = "none"

\* "badalloc": the memory asked for by init or by a copy is not to be had
Destroy(b) == Become(b, FALSE, 0, << >>) /\ result' \in {"none", "badalloc"}

Refuse(why) == result' = why /\ UNCHANGED <<open, cap, q>>

Put(b, v) == /\ open[b] /\ Len(q[b]) < cap[b]
             /\ q' = [q EXCEPT ![b] = Append(@, v)]
             /\ result' = "stored"
             /\ UNCHANGED <<open, cap>>

Get(b) == /\ open[b] /\ q[b] # << >>
          /\ result' = Head(q[b])
          /\ q' = [q EXCEPT ![b] = Tail(@)]
          /\ UNCHANGED <<open, cap>>

Copy(dst, src) == /\ Become(dst, TRUE, cap[src], q[src])
                  /\ result' = "none"

Move(dst, src) ==
    /\ dst # src
    /\ open' = [open EXCEPT ![dst] = open[src], ![src] = FALSE]
    /\ cap' = [cap EXCEPT ![dst] = cap[src], ![src] = 0]
    /\ q' = [q EXCEPT ![dst] = q[src], ![src] = << >>]
    /\ result' = "none"

Next == \E b \in Buffers :
            \/ Create(b)
            \/ Destroy(b)
            \/ \E v \in Records : Put(b, v)
            \/ Get(b)
            \/ ~open[b] /\ Refuse("null")
            \/ open[b] /\ Len(q[b]) = cap[b] /\ Refuse("full")
            \/ open[b] /\ q[b] = << >> /\ (Refuse("empty") \/ Refuse("null"))
            \/ \E src \in Buffers : Copy(b, src) \/ Move(b, src)

Spec == Init /\ [][Next]_vars
===============================================================================

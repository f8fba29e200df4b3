------------------------------- MODULE Fifo8 -------------------------------
(***************************************************************************)
(* The byte ring of hypervisor/fifo8.c, as operators on the value of one   *)
(* struct fifo.  Every count and index of the struct is an unsigned char.  *)
(*                                                                         *)
(* fifo_get is given as the two stores it makes, because the build (no -O) *)
(* compiles fifo->free++ to a load, an add and a store: a caller that runs *)
(* it with interrupts enabled can be interrupted between them.             *)
(***************************************************************************)
EXTENDS Integers, Sequences

FIFO_FULL == 1

U8(n) == n % 256

fifo_init(size, buf) ==
  [buf |-> buf, size |-> U8(size), free |-> U8(size),
   flag |-> 0, head |-> 0, tail |-> 0]

fifo_status(f) == f.size - f.free

\* An index moves to the next slot: fifo->head++ (or tail++), then %= size.
advance(i, size) == U8(i + 1) % size

\* Mutants: a full ring goes unrecorded; the last
\* slot is never used.
Store(f, data) == [f EXCEPT !.buf[f.tail] = data,
                            !.tail = advance(f.tail, f.size),
                            !.free = U8(f.free - 1)]
fifo_put_Silent(f, data)   == IF f.free > 0 THEN Store(f, data) ELSE f
fifo_put_KeepsOne(f, data) ==
  IF f.free > 1 THEN Store(f, data) ELSE [f EXCEPT !.flag = FIFO_FULL]

fifo_put(f, data) ==
  IF f.free > 0 THEN Store(f, data) ELSE [f EXCEPT !.flag = FIFO_FULL]

\* What fifo_get returns, and its first store: the head moves on.
head_byte(f) == f.buf[f.head]
take_head_Stays(f) == f  \* mutant: the head does not move
take_head(f) == [f EXCEPT !.head = advance(f.head, f.size)]

\* The second store of fifo_get, from the value of free it loaded.
release_slot_Lost(f, free) == f  \* mutant: the slot is never given back
release_slot(f, free) == [f EXCEPT !.free = U8(free + 1)]

\* The ring holds the bytes of the sequence s: its i-th is i - 1 slots after
\* head, and the next byte will go to tail.
Queued(buf, head, tail, size, s) ==
  /\ \A i \in 1..Len(s) : buf[(head + i - 1) % size] = s[i]
  /\ tail = (head + Len(s)) % size
=============================================================================

---------------------------- MODULE KernelProofs ----------------------------
(***************************************************************************)
(* Kernel's invariant is inductive, and what follows from it, for rings of *)
(* every size from 1 to 255, any bytes, any receive FIFO and any backlog   *)
(* bound.                                                                  *)
(*                                                                         *)
(* The order: arithmetic of slots modulo a ring's size; what fifo_put and  *)
(* the two stores of fifo_get do to one ring; which steps touch the rings; *)
(* one preservation lemma for each part of Inductive; the theorems; and    *)
(* the two guarded rings as implementations of BoundedQueue.               *)
(***************************************************************************)
EXTENDS Kernel, TLAPS

\* A count less than twice n wraps at most once.
LEMMA Mod == ASSUME NEW n \in 1..255, NEW x \in 0..(2 * n - 1)
             PROVE  x % n = IF x < n THEN x ELSE x - n
  OBVIOUS

\* advance stays in the buffer: the next slot, or slot 0 after the last.
LEMMA AdvanceValue ==
  ASSUME NEW size \in 1..255, NEW i \in 0..(size - 1)
  PROVE  /\ advance(i, size) \in 0..(size - 1)
         /\ advance(i, size) = IF i + 1 < size THEN i + 1 ELSE 0
  BY Mod DEF advance, U8

\* The unsigned char free does not wrap while it stays within 0..size.
LEMMA FreeCount ==
  ASSUME NEW size \in 1..255, NEW n \in 0..size
  PROVE  /\ n > 0 => U8(n - 1) = n - 1 /\ n - 1 \in 0..size
         /\ n < size => U8(n + 1) = n + 1 /\ n + 1 \in 0..size
  BY DEF U8

\* Slots counted from head, modulo the ring's size: the slot after n queued
\* bytes is none of theirs.
LEMMA SlotDistinct ==
  ASSUME NEW q \in 1..255, NEW h \in 0..(q - 1), NEW n \in 0..(q - 1), NEW i \in 1..n
  PROVE  (h + i - 1) % q # (h + n) % q
<1>1. h + i - 1 \in 0..(2 * q - 1) /\ h + n \in 0..(2 * q - 1)
  OBVIOUS
<1>2. (h + i - 1) % q = IF h + i - 1 < q THEN h + i - 1 ELSE h + i - 1 - q
  BY <1>1, Mod
<1>3. (h + n) % q = IF h + n < q THEN h + n ELSE h + n - q
  BY <1>1, Mod
<1> QED
  BY <1>2, <1>3

\* Counting from the advanced head is counting one further from the old one.
LEMMA SlotShift ==
  ASSUME NEW q \in 1..255, NEW h \in 0..(q - 1), NEW i \in 1..q
  PROVE  (advance(h, q) + i - 1) % q = (h + i) % q
<1>1. advance(h, q) = IF h + 1 < q THEN h + 1 ELSE 0
  BY AdvanceValue
<1>2. h + i \in 0..(2 * q - 1) /\ i - 1 \in 0..(2 * q - 1)
  OBVIOUS
<1>3. /\ (h + i) % q = IF h + i < q THEN h + i ELSE h + i - q
      /\ (i - 1) % q = IF i - 1 < q THEN i - 1 ELSE i - 1 - q
  BY <1>2, Mod
<1>4. CASE h + 1 < q
  <2>1. advance(h, q) + i - 1 = h + i
    BY <1>1, <1>4
  <2> QED
    BY <2>1
<1>5. CASE h + 1 >= q
  <2>1. advance(h, q) + i - 1 = i - 1 /\ h = q - 1
    BY <1>1, <1>5
  <2> QED
    BY <2>1, <1>3
<1> QED
  BY <1>4, <1>5

\* tail advances to the slot after one more byte.
LEMMA SlotNext ==
  ASSUME NEW q \in 1..255, NEW h \in 0..(q - 1), NEW n \in 0..(q - 1)
  PROVE  /\ (h + n) % q \in 0..(q - 1)
         /\ advance((h + n) % q, q) = (h + (n + 1)) % q
<1>1. h + n \in 0..(2 * q - 1) /\ h + (n + 1) \in 0..(2 * q - 1)
  OBVIOUS
<1>2. (h + n) % q = IF h + n < q THEN h + n ELSE h + n - q
  BY <1>1, Mod
<1>3. (h + (n + 1)) % q = IF h + (n + 1) < q THEN h + (n + 1) ELSE h + (n + 1) - q
  BY <1>1, Mod
<1>4. (h + n) % q \in 0..(q - 1)
  BY <1>2
<1>5. advance((h + n) % q, q) = IF ((h + n) % q) + 1 < q THEN ((h + n) % q) + 1 ELSE 0
  BY <1>4, AdvanceValue
<1> QED
  BY <1>2, <1>3, <1>4, <1>5

\* A ring just initialized holds the empty sequence.
LEMMA EmptyQueued ==
  ASSUME NEW d \in Dev, NEW buf
  PROVE  Queued(buf, 0, 0, QSize[d], <<>>)
<1>1. 0 % QSize[d] = 0
  BY SizeAssumption
<1> QED
  BY <1>1 DEF Queued

\* fifo_put appends to the bytes queued.
LEMMA QueuedPut ==
  ASSUME NEW q \in 1..255, NEW buf \in [0..(q - 1) -> Byte \cup {Garbage}],
         NEW h \in 0..(q - 1), NEW t, NEW s \in Seq(Byte), NEW b \in Byte,
         Len(s) < q, Queued(buf, h, t, q, s)
  PROVE  Queued([buf EXCEPT ![t] = b], h, advance(t, q), q, Append(s, b))
<1> DEFINE n == Len(s)
           r == Append(s, b)
<1>1. n \in 0..(q - 1)
  OBVIOUS
<1>2. Len(r) = n + 1 /\ r[n + 1] = b /\ \A i \in 1..n : r[i] = s[i]
  OBVIOUS
<1>3. t = (h + n) % q /\ \A i \in 1..n : buf[(h + i - 1) % q] = s[i]
  BY DEF Queued
<1> HIDE DEF n, r
<1>4. t \in 0..(q - 1) /\ advance(t, q) = (h + (n + 1)) % q
  BY <1>1, <1>3, SlotNext
<1>5. ASSUME NEW i \in 1..(n + 1)
      PROVE  [buf EXCEPT ![t] = b][(h + i - 1) % q] = r[i]
  <2>1. CASE i = n + 1
    <3>1. h + i - 1 = h + n
      BY <1>1, <2>1
    <3> QED
      BY <1>2, <1>3, <1>4, <2>1, <3>1
  <2>2. CASE i \in 1..n
    <3>1. (h + i - 1) % q # t
      BY <1>1, <1>3, <2>2, SlotDistinct
    <3>2. (h + i - 1) % q \in 0..(q - 1)
      <4>1. i - 1 \in 0..(q - 1) /\ h + (i - 1) = h + i - 1
        BY <1>1, <2>2
      <4>2. (h + (i - 1)) % q \in 0..(q - 1)
        BY <4>1, SlotNext
      <4> QED
        BY <4>1, <4>2
    <3>3. [buf EXCEPT ![t] = b][(h + i - 1) % q] = buf[(h + i - 1) % q]
      BY <1>4, <3>1, <3>2
    <3> QED
      BY <1>2, <1>3, <2>2, <3>3
  <2> QED
    BY <1>1, <2>1, <2>2
<1> QED
  BY <1>2, <1>4, <1>5 DEF Queued, r

\* fifo_get takes the first of the bytes queued and leaves the others.
LEMMA QueuedGet ==
  ASSUME NEW q \in 1..255, NEW buf, NEW h \in 0..(q - 1), NEW t,
         NEW s \in Seq(Byte), s # <<>>, Len(s) <= q, Queued(buf, h, t, q, s)
  PROVE  /\ buf[h] = Head(s)
         /\ Queued(buf, advance(h, q), t, q, Tail(s))
<1> DEFINE n == Len(s)
           r == Tail(s)
<1>1. n \in 1..q
  OBVIOUS
<1>2. Len(r) = n - 1 /\ \A i \in 1..(n - 1) : r[i] = s[i + 1]
  OBVIOUS
<1>3. t = (h + n) % q /\ \A i \in 1..n : buf[(h + i - 1) % q] = s[i]
  BY DEF Queued
<1>4. Head(s) = s[1]
  OBVIOUS
<1> HIDE DEF n, r
<1>5. buf[h] = s[1]
  <2>1. 1 \in 1..n /\ h + 1 - 1 = h /\ h \in 0..(2 * q - 1)
    BY <1>1
  <2>2. h % q = h
    BY <2>1, Mod
  <2>3. buf[(h + 1 - 1) % q] = s[1]
    BY <1>3, <2>1
  <2> QED
    BY <2>1, <2>2, <2>3
<1>6. t = (advance(h, q) + (n - 1)) % q
  <2>1. (advance(h, q) + n - 1) % q = (h + n) % q
    BY <1>1, SlotShift
  <2>2. advance(h, q) + n - 1 = advance(h, q) + (n - 1)
    BY <1>1, AdvanceValue
  <2> QED
    BY <1>3, <2>1, <2>2
<1>7. ASSUME NEW i \in 1..(n - 1)
      PROVE  buf[(advance(h, q) + i - 1) % q] = r[i]
  <2>1. i \in 1..q /\ i + 1 \in 1..n /\ h + (i + 1) - 1 = h + i
    BY <1>1
  <2>2. (advance(h, q) + i - 1) % q = (h + i) % q
    BY <2>1, SlotShift
  <2>3. buf[(h + (i + 1) - 1) % q] = s[i + 1]
    BY <1>3, <2>1
  <2> QED
    BY <1>2, <2>1, <2>2, <2>3
<1> QED
  BY <1>2, <1>4, <1>5, <1>6, <1>7 DEF Queued, r

\* Every ring has a size an unsigned char can hold.
LEMMA RingSize == \A d \in Dev : QSize[d] \in 1..255
  BY SizeAssumption

\* The ranges of a ring's fields, one by one.
LEMMA RingNumbers ==
  ASSUME RingsOK, NEW d \in Dev
  PROVE  /\ QSize[d] \in 1..255
         /\ fifo[d].free \in 0..QSize[d] /\ fifo[d].size \in {0, QSize[d]}
         /\ fifo[d].head \in 0..(QSize[d] - 1) /\ fifo[d].tail \in 0..(QSize[d] - 1)
         /\ fifo[d].buf \in [0..(QSize[d] - 1) -> Byte \cup {Garbage}]
         /\ fifo[d].free \in Nat /\ fifo[d].size \in Nat
<1>1. QSize[d] \in 1..255
  BY RingSize
<1>2. fifo[d] \in RingType(d)
  BY DEF RingsOK
<1>3. fifo[d].free \in 0..QSize[d] /\ fifo[d].size \in {0, QSize[d]}
  BY <1>2 DEF RingType
<1>4. fifo[d].free \in Nat /\ fifo[d].size \in Nat
  BY <1>1, <1>3
<1>5. /\ fifo[d].head \in 0..(QSize[d] - 1) /\ fifo[d].tail \in 0..(QSize[d] - 1)
      /\ fifo[d].buf \in [0..(QSize[d] - 1) -> Byte \cup {Garbage}]
  BY <1>2 DEF RingType
<1> QED
  BY <1>1, <1>3, <1>4, <1>5

\* What fifo_put does to a ring that has been initialized.
LEMMA PutRing ==
  ASSUME NEW d \in Dev, NEW f \in RingType(d), f.size = QSize[d], NEW b \in Byte
  PROVE  LET g == fifo_put(f, b)
         IN  /\ g \in RingType(d) /\ g.size = f.size /\ g.head = f.head
             /\ f.free > 0 => /\ g.buf = [f.buf EXCEPT ![f.tail] = b]
                              /\ g.tail = advance(f.tail, QSize[d])
                              /\ g.free = f.free - 1 /\ g.flag = f.flag
             /\ f.free = 0 => /\ g.buf = f.buf /\ g.tail = f.tail /\ g.free = f.free
                              /\ g.flag = FIFO_FULL
<1>1. /\ QSize[d] \in 1..255 /\ f.tail \in 0..(QSize[d] - 1) /\ f.free \in 0..QSize[d]
      /\ f.buf \in [0..(QSize[d] - 1) -> Byte \cup {Garbage}]
  BY RingSize DEF RingType
<1>2. advance(f.tail, QSize[d]) \in 0..(QSize[d] - 1)
  BY <1>1, AdvanceValue
<1>3. CASE f.free > 0
  <2>1. U8(f.free - 1) = f.free - 1 /\ f.free - 1 \in 0..QSize[d]
    BY <1>1, <1>3, FreeCount
  <2>2. fifo_put(f, b) = [f EXCEPT !.buf[f.tail] = b,
                                   !.tail = advance(f.tail, QSize[d]),
                                   !.free = f.free - 1]
    BY <1>3, <2>1 DEF fifo_put, Store
  <2>3. [f.buf EXCEPT ![f.tail] = b] \in [0..(QSize[d] - 1) -> Byte \cup {Garbage}]
    BY <1>1
  <2>4. fifo_put(f, b) \in RingType(d)
    BY <1>2, <2>1, <2>2, <2>3 DEF RingType
  <2>5. /\ fifo_put(f, b).size = f.size /\ fifo_put(f, b).head = f.head
        /\ fifo_put(f, b).tail = advance(f.tail, QSize[d])
        /\ fifo_put(f, b).free = f.free - 1 /\ fifo_put(f, b).flag = f.flag
    BY <2>2 DEF RingType
  <2>6. fifo_put(f, b).buf = [f.buf EXCEPT ![f.tail] = b]
    BY <2>2 DEF RingType
  <2> QED
    BY <1>1, <1>3, <2>4, <2>5, <2>6
<1>4. CASE f.free = 0
  <2>1. fifo_put(f, b) = [f EXCEPT !.flag = FIFO_FULL]
    BY <1>4 DEF fifo_put
  <2> QED
    BY <1>4, <2>1 DEF RingType, FIFO_FULL
<1> QED
  BY <1>1, <1>3, <1>4

\* The first store of fifo_get moves the head and nothing else.
LEMMA TakeHead ==
  ASSUME NEW d \in Dev, NEW f \in RingType(d), f.size = QSize[d]
  PROVE  LET g == take_head(f)
         IN  /\ g \in RingType(d)
             /\ g.size = f.size /\ g.free = f.free /\ g.buf = f.buf /\ g.tail = f.tail
             /\ g.head = advance(f.head, QSize[d]) /\ g.flag = f.flag
<1>1. QSize[d] \in 1..255 /\ f.head \in 0..(QSize[d] - 1)
  BY RingSize DEF RingType
<1>2. advance(f.head, QSize[d]) \in 0..(QSize[d] - 1)
  BY <1>1, AdvanceValue
<1> QED
  BY <1>2 DEF RingType, take_head

\* The second store of fifo_get stores the count it loaded, plus one.
LEMMA ReleaseSlot ==
  ASSUME NEW d \in Dev, NEW f \in RingType(d), NEW n \in 0..(QSize[d] - 1)
  PROVE  LET g == release_slot(f, n)
         IN  /\ g \in RingType(d) /\ g.free = n + 1
             /\ g.size = f.size /\ g.buf = f.buf /\ g.tail = f.tail /\ g.head = f.head
             /\ g.flag = f.flag
<1>1. U8(n + 1) = n + 1 /\ n + 1 \in 0..QSize[d]
  BY RingSize DEF U8
<1> QED
  BY <1>1 DEF RingType, release_slot

\* The invariant holds of a cold boot.
LEMMA InitInductive == Init => Inductive
<1> SUFFICES ASSUME Init PROVE Inductive
  OBVIOUS
<1>0. \A d \in Dev : /\ fifo[d].size = 0 /\ fifo[d].free = 0
                     /\ fifo[d].head = 0 /\ fifo[d].tail = 0 /\ fifo[d].flag = 0
  BY DEF Init, fifo_init, U8
<1>1. TypeOK
  <2>1. RingsOK
    <3>1. ASSUME NEW d \in Dev PROVE fifo[d] \in RingType(d)
      <4>1. Stack(d) \in [0..(QSize[d] - 1) -> Byte \cup {Garbage}]
        BY DEF Stack
      <4>2. 0 \in 0..(QSize[d] - 1) /\ 0 \in 0..QSize[d] /\ 0 \in {0, QSize[d]}
        BY RingSize
      <4>3. fifo[d] = [buf |-> Stack(d), size |-> 0, free |-> 0,
                       flag |-> 0, head |-> 0, tail |-> 0]
        BY DEF Init, fifo_init, U8
      <4> QED
        BY <4>1, <4>2, <4>3 DEF RingType, FIFO_FULL
    <3> QED
      BY <3>1 DEF Init, RingsOK
  <2>2. BacklogOK
    BY DEF Init, BacklogOK
  <2>3. CpuOK
    <3>1. pc \in Labels /\ cur \in Dev
      BY DEF Init, Labels, PreMouse, PrePic, Dev
    <3>2. data \in [Dev -> Byte \cup {MinusOne, Garbage}]
      BY DEF Init
    <3> QED
      BY <3>1, <3>2 DEF Init, CpuOK
  <2>4. PicOK
    BY DEF Init, PicOK
  <2>5. DevicesOK
    <3>1. rx \in Seq(SerialBytes)
      BY DEF Init
    <3>2. obf \in [full : BOOLEAN, src : {"key"}, byte : KeyBytes]
      BY DEF Init
    <3> QED
      BY <3>1, <3>2, Zenon DEF DevicesOK
  <2>6. FlagsOK
    BY Zenon DEF Init, FlagsOK
  <2> QED
    BY <2>1, <2>2, <2>3, <2>4, <2>5, <2>6 DEF TypeOK
<1>2. SetupOrder
  BY <1>0 DEF Init, SetupOrder, PreRings, PrePic
<1>3. CliSections /\ GetWindow
  BY DEF Init, CliSections, GetWindow
<1>4. Counts /\ Contents
  <2>1. ASSUME NEW d \in Dev
        PROVE  backlog[d] = <<>> /\ Ordered(d)
    <3>1. fifo[d].head = 0 /\ fifo[d].tail = 0 /\ backlog[d] = <<>>
      BY <1>0 DEF Init
    <3> QED
      BY <3>1, EmptyQueued DEF Ordered
  <2>2. \A d \in Dev : Occupied(d) = 0
    BY <1>0 DEF Init, Occupied, Taken, fifo_status
  <2> QED
    BY <2>1, <2>2 DEF Counts, Counted, Contents, Guarded, Dev
<1>5. ControllersAgree /\ KeyboardRearmed /\ NothingLeftInService /\ SleepsOnlyWhenDrained
  BY DEF Init, ControllersAgree, KeyboardRearmed, NothingLeftInService,
    SleepsOnlyWhenDrained,
    PreMouse, PrePic, IRQ
<1> QED
  BY <1>1, <1>2, <1>3, <1>4, <1>5 DEF Inductive

-----------------------------------------------------------------------------
\* What each step does to the rings.

\* What a handler's fifo_put does: its ring takes the byte if it has a slot, and
\* records FIFO_FULL otherwise; the other rings are left alone.
LEMMA EnqueueEffect ==
  ASSUME RingsOK, BacklogOK, NEW d \in Dev, fifo[d].size = QSize[d],
         NEW b \in Byte, Enqueue(d, b)
  PROVE  /\ RingsOK' /\ BacklogOK'
         /\ \A e \in Dev \ {d} : fifo'[e] = fifo[e] /\ backlog'[e] = backlog[e]
         /\ fifo'[d].size = fifo[d].size /\ fifo'[d].head = fifo[d].head
         /\ fifo[d].free > 0 =>
              /\ backlog'[d] = Append(backlog[d], b)
              /\ fifo'[d].buf = [fifo[d].buf EXCEPT ![fifo[d].tail] = b]
              /\ fifo'[d].tail = advance(fifo[d].tail, QSize[d])
              /\ fifo'[d].free = fifo[d].free - 1 /\ fifo'[d].flag = fifo[d].flag
         /\ fifo[d].free = 0 =>
              /\ backlog' = backlog /\ fifo'[d].flag = FIFO_FULL
              /\ fifo'[d].buf = fifo[d].buf /\ fifo'[d].tail = fifo[d].tail
              /\ fifo'[d].free = fifo[d].free
<1> DEFINE g == fifo_put(fifo[d], b)
<1>1. fifo[d] \in RingType(d) /\ DOMAIN fifo = Dev
  BY DEF RingsOK
<1>2. /\ g \in RingType(d) /\ g.size = fifo[d].size /\ g.head = fifo[d].head
      /\ fifo[d].free > 0 => /\ g.buf = [fifo[d].buf EXCEPT ![fifo[d].tail] = b]
                             /\ g.tail = advance(fifo[d].tail, QSize[d])
                             /\ g.free = fifo[d].free - 1 /\ g.flag = fifo[d].flag
      /\ fifo[d].free = 0 => /\ g.buf = fifo[d].buf /\ g.tail = fifo[d].tail
                             /\ g.free = fifo[d].free /\ g.flag = FIFO_FULL
  BY <1>1, PutRing
<1>3. fifo' = [fifo EXCEPT ![d] = g]
  BY DEF Enqueue
<1>4. fifo[d].free \in Nat
  BY <1>1, RingSize DEF RingType
<1>5. /\ fifo[d].free > 0 => backlog' = [backlog EXCEPT ![d] = Append(backlog[d], b)]
      /\ fifo[d].free = 0 => backlog' = backlog
  BY <1>2, <1>4 DEF Enqueue
<1> HIDE DEF g
<1>6. RingsOK'
  BY <1>1, <1>2, <1>3 DEF RingsOK
<1>7. BacklogOK'
  BY <1>4, <1>5, SMTT(30) DEF BacklogOK
<1>8. fifo'[d] = g /\ \A e \in Dev \ {d} : fifo'[e] = fifo[e]
  BY <1>1, <1>3
<1>9. /\ \A e \in Dev \ {d} : backlog'[e] = backlog[e]
      /\ fifo[d].free > 0 => backlog'[d] = Append(backlog[d], b)
      /\ fifo[d].free = 0 => backlog' = backlog
  BY <1>4, <1>5 DEF BacklogOK
<1> QED
  BY <1>2, <1>6, <1>7, <1>8, <1>9

\* get_byte takes the oldest byte of the ring it serves: the ring is not empty.
LEMMA GetByteEffect ==
  ASSUME Inductive, get_byte
  PROVE  /\ RingsOK' /\ BacklogOK'
         /\ \A e \in Dev \ {cur} : fifo'[e] = fifo[e] /\ backlog'[e] = backlog[e]
         /\ backlog[cur] # <<>> /\ backlog'[cur] = Tail(backlog[cur])
         /\ fifo'[cur].size = fifo[cur].size /\ fifo'[cur].free = fifo[cur].free
         /\ fifo'[cur].buf = fifo[cur].buf /\ fifo'[cur].tail = fifo[cur].tail
         /\ fifo'[cur].head = advance(fifo[cur].head, QSize[cur])
         /\ fifo'[cur].flag = fifo[cur].flag
         /\ fifo[cur].free < QSize[cur] /\ fifo[cur].size = QSize[cur]
         /\ data' = [data EXCEPT ![cur] = head_byte(fifo[cur])]
         /\ pc' = "load_free" /\ pc = "get"
<1>1. /\ cur \in Dev /\ DOMAIN fifo = Dev /\ fifo[cur] \in RingType(cur)
      /\ BacklogOK /\ pc = "get"
  BY DEF Inductive, TypeOK, CpuOK, RingsOK, get_byte, At
<1>2. fifo[cur].size = QSize[cur]
  BY <1>1 DEF Inductive, SetupOrder, PreRings, PrePic
<1>3. fifo[cur].free < fifo[cur].size
  BY <1>1 DEF Inductive, GetWindow
<1>4. fifo[cur].free \in Nat /\ QSize[cur] \in Nat
  <2>1. QSize[cur] \in 1..255
    BY <1>1, RingSize
  <2>2. fifo[cur].free \in 0..QSize[cur]
    BY <1>1 DEF RingType
  <2> QED
    BY <2>1, <2>2
<1>5. /\ data' = [data EXCEPT ![cur] = head_byte(fifo[cur])]
      /\ fifo' = [fifo EXCEPT ![cur] = take_head(fifo[cur])]
      /\ backlog' = [backlog EXCEPT ![cur] = Tail(backlog[cur])]
      /\ pc' = "load_free"
  BY <1>2, <1>3, <1>4 DEF get_byte
<1>6. backlog[cur] # <<>>
  <2>1. Occupied(cur) = fifo[cur].size - fifo[cur].free
    BY <1>1, <1>2, <1>4 DEF Occupied, Taken, fifo_status
  <2>2. Occupied(cur) <= Len(backlog[cur])
    BY <1>1 DEF Inductive, Counts, Counted
  <2> QED
    BY <1>1, <1>2, <1>3, <1>4, <2>1, <2>2
<1>7. BacklogOK'
  <2>1. Tail(backlog[cur]) \in Seq(Byte)
    BY <1>1, <1>6 DEF BacklogOK
  <2> QED
    BY <1>1, <1>5, <2>1 DEF BacklogOK
<1> DEFINE g == take_head(fifo[cur])
<1>8. /\ g \in RingType(cur)
      /\ g.size = fifo[cur].size /\ g.free = fifo[cur].free /\ g.buf = fifo[cur].buf
      /\ g.tail = fifo[cur].tail /\ g.flag = fifo[cur].flag
      /\ g.head = advance(fifo[cur].head, QSize[cur])
  BY <1>1, <1>2, TakeHead
<1> HIDE DEF g
<1>9. fifo'[cur] = g /\ \A e \in Dev \ {cur} : fifo'[e] = fifo[e]
  BY <1>1, <1>5 DEF g
<1>10. RingsOK'
  BY <1>1, <1>5, <1>8, <1>9 DEF Inductive, TypeOK, RingsOK
<1>11. /\ backlog'[cur] = Tail(backlog[cur])
       /\ \A e \in Dev \ {cur} : backlog'[e] = backlog[e]
  BY <1>1, <1>5 DEF BacklogOK
<1> QED
  BY <1>1, <1>2, <1>3, <1>5, <1>6, <1>7, <1>8, <1>9, <1>10, <1>11

\* get_store writes back the count loaded, plus one, and touches no other ring.
LEMMA GetStoreEffect ==
  ASSUME Inductive, get_store
  PROVE  /\ RingsOK' /\ backlog' = backlog
         /\ \A e \in Dev \ {cur} : fifo'[e] = fifo[e]
         /\ fifo'[cur].size = fifo[cur].size /\ fifo'[cur].free = reg + 1
         /\ fifo'[cur].buf = fifo[cur].buf /\ fifo'[cur].tail = fifo[cur].tail
         /\ fifo'[cur].head = fifo[cur].head /\ fifo'[cur].flag = fifo[cur].flag
         /\ fifo[cur].size = QSize[cur] /\ reg \in 0..(QSize[cur] - 1)
         /\ pc = "store_free" /\ pc' = "got"
<1>1. /\ cur \in Dev /\ DOMAIN fifo = Dev /\ fifo[cur] \in RingType(cur)
      /\ pc = "store_free" /\ reg \in Nat
  BY DEF Inductive, TypeOK, CpuOK, RingsOK, get_store, At
<1>2. fifo[cur].size = QSize[cur]
  BY <1>1 DEF Inductive, SetupOrder, PreRings, PrePic
<1>3. reg \in 0..(QSize[cur] - 1)
  BY <1>1, <1>2, RingSize DEF Inductive, GetWindow
<1> DEFINE g == release_slot(fifo[cur], reg)
<1>4. /\ g \in RingType(cur) /\ g.free = reg + 1
      /\ g.size = fifo[cur].size /\ g.buf = fifo[cur].buf /\ g.tail = fifo[cur].tail
      /\ g.head = fifo[cur].head /\ g.flag = fifo[cur].flag
  BY <1>1, <1>3, ReleaseSlot
<1>5. fifo' = [fifo EXCEPT ![cur] = g] /\ backlog' = backlog /\ pc' = "got"
  BY DEF get_store
<1> HIDE DEF g
<1>6. fifo'[cur] = g /\ \A e \in Dev \ {cur} : fifo'[e] = fifo[e]
  BY <1>1, <1>5
<1>7. RingsOK'
  BY <1>1, <1>4, <1>5, <1>6 DEF Inductive, TypeOK, RingsOK
<1> QED
  BY <1>1, <1>2, <1>3, <1>4, <1>5, <1>6, <1>7

\* init_fifos gives every ring its buffer, all of it free.
LEMMA InitFifosEffect ==
  ASSUME Inductive, init_fifos
  PROVE  /\ RingsOK' /\ backlog' = backlog /\ \A d \in Dev : backlog[d] = <<>>
         /\ \A d \in Dev : /\ fifo'[d].size = QSize[d] /\ fifo'[d].free = QSize[d]
                           /\ fifo'[d].head = 0 /\ fifo'[d].tail = 0
                           /\ fifo[d].flag = 0 /\ fifo'[d].flag = 0
         /\ pc = "fifo_init" /\ pc' = "sti" /\ data' = data
<1>1. pc = "fifo_init" /\ pc' = "sti" /\ backlog' = backlog /\ data' = data
  BY DEF init_fifos, At
<1>2. \A d \in Dev : backlog[d] = <<>> /\ fifo[d].flag = 0
  BY <1>1 DEF Inductive, SetupOrder, PreRings
<1>3. ASSUME NEW d \in Dev
      PROVE  /\ fifo'[d] \in RingType(d) /\ fifo'[d].size = QSize[d]
             /\ fifo'[d].free = QSize[d] /\ fifo'[d].head = 0 /\ fifo'[d].tail = 0
             /\ fifo'[d].flag = 0
  <2>1. Stack(d) \in [0..(QSize[d] - 1) -> Byte \cup {Garbage}]
    BY DEF Stack
  <2>2. /\ 0 \in 0..(QSize[d] - 1) /\ QSize[d] \in 0..QSize[d]
        /\ U8(QSize[d]) = QSize[d]
    BY RingSize DEF U8
  <2>3. fifo'[d] = [buf |-> Stack(d), size |-> QSize[d], free |-> QSize[d],
                    flag |-> 0, head |-> 0, tail |-> 0]
    BY <2>2 DEF init_fifos, fifo_init
  <2> QED
    BY <2>1, <2>2, <2>3 DEF RingType, FIFO_FULL
<1>4. RingsOK'
  BY <1>3 DEF RingsOK, init_fifos
<1> QED
  BY <1>1, <1>2, <1>3, <1>4

Handler == inthandler21 \/ inthandler24 \/ inthandler2c

\* The steps but those named here leave the rings alone.
LEMMA RingFrame ==
  ASSUME [Next]_vars
  PROVE  \/ UNCHANGED <<fifo, backlog>>
         \/ init_fifos \/ get_byte \/ get_store \/ Handler
  BY DEF Next, Thread, Boot, Loop, Handlers, Devices, Handler, vars,
    init_gdtidt, init_pic, boot_sti, unmask_pic0, unmask_pic1, init_keyboard,
    enable_mouse, drawing, boot_stihlt, banner, loop_cli, poll, idle, serial_sti,
    get_load, got_sti, handle, inthandler27, KbcOutput, UartReceive, UartTimeout

\* A handler runs only after the setup, with the thread outside its cli
\* sections, and enters a byte in its own ring.
LEMMA HandlerEffect ==
  ASSUME Inductive, Handler
  PROVE  \E d \in Dev, b \in Byte :
           /\ Enqueue(d, b) /\ fifo[d].size = QSize[d]
           /\ d = "key" => b \in KeyBytes
           /\ d = "mouse" => b \in MouseBytes
           /\ intr /\ pc \notin PreRings \cup {"sti"}
           /\ UNCHANGED <<pc, cur, data, reg, intr, gates, enabled>> /\ halted' = FALSE
           /\ d # "serial" => rx' = rx /\ timeout' = timeout
           /\ d = "serial" => obf' = obf
<1>1. intr
  BY Zenon DEF Handler, inthandler21, inthandler24, inthandler2c, Serve, ReadKbc,
    ReadUart, Interrupt
<1>2. pc \notin PreRings \cup {"sti"} /\ \A d \in Dev : fifo[d].size = QSize[d]
  BY <1>1 DEF Inductive, SetupOrder
<1>3. obf.byte \in Byte
  BY DEF Inductive, TypeOK, DevicesOK, Byte
<1>4. read_serial \in Byte
  BY DEF Inductive, TypeOK, DevicesOK, Byte, read_serial
<1>5. CASE inthandler21
  <2>1. obf.byte \in KeyBytes
    BY <1>5 DEF Inductive, TypeOK, DevicesOK, ControllersAgree, inthandler21, Serve,
      ReadKbc, Interrupt, Requested
  <2> QED
    BY <1>1, <1>2, <1>3, <1>5, <2>1 DEF inthandler21, Serve, ReadKbc, uart, Dev
<1>6. CASE inthandler2c
  <2>1. obf.byte \in MouseBytes
    BY <1>6 DEF Inductive, TypeOK, DevicesOK, ControllersAgree, inthandler2c, Serve,
      ReadKbc, Interrupt, Requested
  <2> QED
    BY <1>1, <1>2, <1>3, <1>6, <2>1 DEF inthandler2c, Serve, ReadKbc, uart, Dev
<1>7. CASE inthandler24
  BY <1>1, <1>2, <1>4, <1>7 DEF inthandler24, Serve, ReadUart, Dev
<1> QED
  BY <1>5, <1>6, <1>7 DEF Handler

\* Every step keeps the rings and the history well typed.
LEMMA RingsStep == Inductive /\ [Next]_vars => RingsOK' /\ BacklogOK'
<1> SUFFICES ASSUME Inductive, [Next]_vars PROVE RingsOK' /\ BacklogOK'
  OBVIOUS
<1>0. RingsOK /\ BacklogOK
  BY DEF Inductive, TypeOK
<1>1. CASE UNCHANGED <<fifo, backlog>>
  BY <1>0, <1>1 DEF RingsOK, BacklogOK
<1>2. CASE init_fifos
  BY <1>0, <1>2, InitFifosEffect DEF BacklogOK
<1>3. CASE get_byte
  BY <1>3, GetByteEffect
<1>4. CASE get_store
  BY <1>0, <1>4, GetStoreEffect DEF BacklogOK
<1>5. CASE Handler
  BY <1>0, <1>5, HandlerEffect, EnqueueEffect
<1> QED
  BY <1>1, <1>2, <1>3, <1>4, <1>5, RingFrame

-----------------------------------------------------------------------------
\* The invariant's parts, one lemma each.

\* Every step keeps the order of the setup: gates, rings, then interrupts.
LEMMA SetupStep == Inductive /\ [Next]_vars => SetupOrder'
<1> SUFFICES ASSUME Inductive, [Next]_vars PROVE SetupOrder'
  OBVIOUS
<1>1. SetupOrder /\ RingsOK /\ BacklogOK
  BY DEF Inductive, TypeOK
<1>2. CASE Handler
  <2>1. PICK d \in Dev, b \in Byte :
          /\ Enqueue(d, b) /\ fifo[d].size = QSize[d]
          /\ pc \notin PreRings \cup {"sti"} /\ UNCHANGED <<pc, intr, gates>>
    BY <1>2, HandlerEffect
  <2>2. \A e \in Dev : fifo'[e].size = fifo[e].size
    BY <1>1, <2>1, EnqueueEffect
  <2> QED
    BY <1>1, <2>1, <2>2 DEF SetupOrder, PreRings
<1>3. CASE init_fifos
  <2>1. intr' = intr /\ gates' = gates
    BY <1>3 DEF init_fifos
  <2> QED
    BY <1>1, <1>3, <2>1, InitFifosEffect DEF SetupOrder, PreRings, PrePic
<1>4. CASE get_byte
  <2>1. intr' = intr /\ gates' = gates
    BY <1>4 DEF get_byte
  <2>2. \A e \in Dev : fifo'[e].size = fifo[e].size
    BY <1>4, GetByteEffect
  <2> QED
    BY <1>1, <1>4, <2>1, <2>2, GetByteEffect DEF SetupOrder, PreRings, PrePic
<1>5. CASE get_store
  <2>1. intr' = intr /\ gates' = gates
    BY <1>5 DEF get_store
  <2>2. \A e \in Dev : fifo'[e].size = fifo[e].size
    BY <1>5, GetStoreEffect
  <2> QED
    BY <1>1, <1>5, <2>1, <2>2, GetStoreEffect DEF SetupOrder, PreRings, PrePic
<1>6. CASE UNCHANGED <<fifo, backlog>> /\ ~Handler /\ ~init_fifos /\ ~get_byte /\ ~get_store
  <2>1. CASE Boot
    BY <1>1, <1>6, <2>1 DEF SetupOrder, PreRings, PrePic, Boot, At,
      init_gdtidt, init_pic, boot_sti, unmask_pic0, unmask_pic1, init_keyboard,
      enable_mouse, drawing, boot_stihlt, banner
  <2>2. CASE Loop
    BY <1>1, <1>6, <2>2 DEF SetupOrder, PreRings, PrePic, Loop, At,
      loop_cli, poll, idle, serial_sti, get_load, got_sti, handle
  <2>3. CASE inthandler27 \/ Devices \/ UNCHANGED vars
    BY <1>1, <1>6, <2>3 DEF SetupOrder, Devices, inthandler27, KbcOutput, UartReceive,
      UartTimeout, vars, cpu
  <2> QED
    BY <1>6, <2>1, <2>2, <2>3 DEF Next, Thread, Handlers, Handler
<1> QED
  BY <1>2, <1>3, <1>4, <1>5, <1>6, RingFrame

\* Every step keeps interrupts off in the cli sections.
LEMMA CliStep == Inductive /\ [Next]_vars => CliSections'
<1> SUFFICES ASSUME Inductive, [Next]_vars PROVE CliSections'
  OBVIOUS
<1>1. CliSections /\ FlagsOK /\ GetWindow
  BY DEF Inductive, TypeOK
<1>2. CASE Boot
  BY <1>1, <1>2 DEF CliSections, Boot, At, FlagsOK,
    init_gdtidt, init_pic, init_fifos, boot_sti, unmask_pic0, unmask_pic1,
    init_keyboard, enable_mouse, drawing, boot_stihlt, banner
<1>3. CASE loop_cli \/ idle \/ serial_sti \/ got_sti \/ handle
  BY <1>1, <1>3 DEF CliSections, GetWindow, Guarded, At, FlagsOK,
    loop_cli, idle, serial_sti, got_sti, handle
<1>4. CASE poll
  BY <1>1, <1>4 DEF CliSections, At, poll, Guarded, Dev, Waiting
<1>5. CASE get_byte \/ get_load \/ get_store
  BY <1>1, <1>5 DEF CliSections, At, get_byte, get_load, get_store
<1>6. CASE Handlers
  <2>1. intr /\ intr' = intr /\ pc' = pc /\ cur' = cur /\ halted' = FALSE
    BY <1>6, Zenon DEF Handlers, inthandler21, inthandler24, inthandler2c, Serve,
      ReadKbc, ReadUart, inthandler27, Interrupt
  <2> QED
    BY <1>1, <2>1 DEF CliSections
<1>7. CASE Devices \/ UNCHANGED vars
  BY <1>1, <1>7 DEF CliSections, Devices, KbcOutput, UartReceive, UartTimeout, vars, cpu,
    Waiting
<1> QED
  BY <1>2, <1>3, <1>4, <1>5, <1>6, <1>7 DEF Next, Thread, Loop

\* Every step keeps fifo_get's loaded count an upper bound of the stored one.
LEMMA GetWindowStep == Inductive /\ [Next]_vars => GetWindow'
<1> SUFFICES ASSUME Inductive, [Next]_vars PROVE GetWindow'
  OBVIOUS
<1>1. /\ GetWindow /\ CliSections /\ SetupOrder /\ cur \in Dev
      /\ \A d \in Dev : fifo[d].free \in 0..QSize[d] /\ QSize[d] \in 1..255
  BY RingNumbers DEF Inductive, TypeOK, CpuOK
<1>2. CASE Boot
  BY <1>2 DEF GetWindow, Boot, At, init_gdtidt, init_pic, init_fifos, boot_sti,
    unmask_pic0, unmask_pic1, init_keyboard, enable_mouse, drawing, boot_stihlt, banner
<1>3. CASE loop_cli \/ idle \/ serial_sti \/ got_sti \/ handle
  BY <1>1, <1>3 DEF GetWindow, At, loop_cli, idle, serial_sti, got_sti, handle
<1>4. CASE poll
  <2>1. \A d \in Dev : fifo[d].size = QSize[d]
    BY <1>1, <1>4 DEF SetupOrder, PreRings, PrePic, poll, At
  <2>2. \A d \in Dev : Waiting(d) => fifo[d].free < fifo[d].size
    BY <1>1, <2>1 DEF Waiting, fifo_status
  <2> QED
    BY <1>4, <2>2 DEF GetWindow, poll
<1>5. CASE get_byte
  <2>1. cur' = cur
    BY <1>5 DEF get_byte
  <2> QED
    BY <1>1, <1>5, <2>1, GetByteEffect DEF GetWindow
<1>6. CASE get_load
  BY <1>1, <1>6 DEF GetWindow, get_load, At
<1>7. CASE get_store
  BY <1>7, GetStoreEffect DEF GetWindow
<1>8. CASE Handler
  <2>1. PICK d \in Dev, b \in Byte :
          /\ Enqueue(d, b) /\ fifo[d].size = QSize[d] /\ intr
          /\ UNCHANGED <<pc, cur, reg>>
    BY <1>8, HandlerEffect
  <2>2. \A e \in Dev : fifo[e].free \in Nat /\ fifo[e].size \in Nat
    BY RingNumbers DEF Inductive, TypeOK
  <2>3. /\ \A e \in Dev \ {d} : fifo'[e] = fifo[e]
        /\ fifo'[d].size = fifo[d].size
        /\ fifo'[d].free = fifo[d].free \/ fifo'[d].free = fifo[d].free - 1
    <3>1. fifo[d].free = 0 \/ fifo[d].free > 0
      BY <2>2
    <3> QED
      BY <2>1, <3>1, EnqueueEffect DEF Inductive, TypeOK
  <2>4. \A e \in Dev : /\ fifo'[e].size = fifo[e].size
                       /\ fifo'[e].free = fifo[e].free \/ fifo'[e].free = fifo[e].free - 1
    BY <2>3
  <2>5. reg \in Nat
    BY DEF Inductive, TypeOK, CpuOK
  <2>6. pc = "store_free" => cur \notin Guarded
    BY <1>1, <2>1 DEF CliSections
  <2> QED
    BY <1>1, <2>1, <2>2, <2>4, <2>5, <2>6 DEF GetWindow
<1>9. CASE inthandler27 \/ Devices \/ UNCHANGED vars
  BY <1>1, <1>9 DEF GetWindow, Devices, inthandler27, KbcOutput, UartReceive, UartTimeout,
    vars, cpu
<1> QED
  BY <1>2, <1>3, <1>4, <1>5, <1>6, <1>7, <1>8, <1>9
  DEF Next, Thread, Loop, Handlers, Handler

\* Every step keeps the counts: exact for the guarded rings, never above the
\* truth for the console's.
LEMMA CountsStep == Inductive /\ [Next]_vars => Counts'
<1> SUFFICES ASSUME Inductive, [Next]_vars PROVE Counts'
  OBVIOUS
<1>1. /\ Counts /\ CliSections /\ GetWindow /\ RingsOK /\ BacklogOK /\ cur \in Dev
      /\ reg \in Nat
  BY DEF Inductive, TypeOK, CpuOK
<1>2. \A d \in Dev : /\ fifo[d].free \in Nat /\ fifo[d].size \in Nat
                     /\ Len(backlog[d]) \in Nat
  <2>1. \A d \in Dev : Len(backlog[d]) \in Nat
    BY <1>1 DEF BacklogOK
  <2> QED
    BY <1>1, <2>1, RingNumbers
<1>3. ASSUME NEW d \in Dev, fifo'[d] = fifo[d], backlog'[d] = backlog[d],
             Taken(d)' = Taken(d)
      PROVE  Counted(d)'
  BY <1>1, <1>3 DEF Counts, Counted, Occupied, fifo_status
<1>4. CASE init_fifos
  <2>1. ASSUME NEW d \in Dev PROVE Counted(d)'
    <3>1. Taken(d)' = 0 /\ Len(backlog'[d]) = 0
      BY <1>4, InitFifosEffect DEF Taken
    <3>2. fifo'[d].size = QSize[d] /\ fifo'[d].free = QSize[d]
      BY <1>4, InitFifosEffect
    <3>3. QSize[d] \in Nat
      BY RingSize
    <3> QED
      BY <3>1, <3>2, <3>3 DEF Counted, Occupied, fifo_status
  <2> QED
    BY <2>1 DEF Counts
<1>5. CASE get_byte
  <2>1. cur' = cur
    BY <1>5 DEF get_byte
  <2>2. /\ fifo'[cur].size = fifo[cur].size /\ fifo'[cur].free = fifo[cur].free
        /\ \A e \in Dev \ {cur} : fifo'[e] = fifo[e] /\ backlog'[e] = backlog[e]
        /\ pc = "get" /\ pc' = "load_free"
        /\ backlog[cur] # <<>> /\ backlog'[cur] = Tail(backlog[cur])
    BY <1>5, GetByteEffect
  <2>3. Len(backlog'[cur]) = Len(backlog[cur]) - 1
    <3>1. backlog[cur] \in Seq(Byte)
      BY <1>1 DEF BacklogOK
    <3> QED
      BY <2>2, <3>1
  <2>4. Occupied(cur)' = Occupied(cur) - 1 /\ Occupied(cur) \in Int
    BY <1>1, <1>2, <2>1, <2>2 DEF Occupied, Taken, fifo_status
  <2>5. Counted(cur)'
    BY <1>1, <1>2, <2>1, <2>3, <2>4 DEF Counts, Counted
  <2>6. \A e \in Dev \ {cur} : Counted(e)'
    BY <1>3, <2>1, <2>2 DEF Taken
  <2> QED
    BY <2>5, <2>6, <2>1 DEF Counts
<1>6. CASE get_store
  <2>1. cur' = cur
    BY <1>6 DEF get_store
  <2>2. /\ fifo'[cur].size = fifo[cur].size /\ fifo'[cur].free = reg + 1
        /\ \A e \in Dev \ {cur} : fifo'[e] = fifo[e]
        /\ pc = "store_free" /\ pc' = "got" /\ backlog' = backlog
    BY <1>6, GetStoreEffect
  <2>3. /\ fifo[cur].free <= reg
        /\ cur \in Guarded => reg = fifo[cur].free
    BY <1>1, <2>2 DEF GetWindow
  <2>4. Occupied(cur) = fifo[cur].size - fifo[cur].free - 1
    BY <1>1, <1>2, <2>2 DEF Occupied, Taken, fifo_status
  <2>5. Occupied(cur)' = fifo[cur].size - (reg + 1)
    BY <1>1, <1>2, <2>1, <2>2 DEF Occupied, Taken, fifo_status
  <2>6. /\ Occupied(cur)' <= Occupied(cur)
        /\ cur \in Guarded => Occupied(cur)' = Occupied(cur)
        /\ Occupied(cur)' \in Int /\ Occupied(cur) \in Int
    BY <1>1, <1>2, <2>3, <2>4, <2>5
  <2>7. Counted(cur)'
    BY <1>1, <1>2, <2>1, <2>2, <2>6 DEF Counts, Counted
  <2>8. \A e \in Dev \ {cur} : Counted(e)'
    BY <1>3, <2>1, <2>2 DEF Taken
  <2> QED
    BY <2>1, <2>7, <2>8 DEF Counts
<1>7. CASE Handler
  <2>1. PICK d \in Dev, b \in Byte :
          /\ Enqueue(d, b) /\ fifo[d].size = QSize[d] /\ intr
          /\ UNCHANGED <<pc, cur, reg>>
    BY <1>7, HandlerEffect
  <2>2. \A e \in Dev : Taken(e)' = Taken(e) /\ Taken(e) \in {0, 1}
    BY <2>1 DEF Taken
  <2>3. d \in Guarded => Taken(d) = 0
    BY <1>1, <2>1 DEF CliSections, Taken
  <2>4. \A e \in Dev \ {d} : Counted(e)'
    BY <1>1, <1>3, <2>1, <2>2, EnqueueEffect
  <2>5. ASSUME fifo[d].free > 0 PROVE Counted(d)'
    <3>1. /\ fifo'[d].free = fifo[d].free - 1 /\ fifo'[d].size = fifo[d].size
          /\ backlog'[d] = Append(backlog[d], b)
      BY <1>1, <2>1, <2>5, EnqueueEffect
    <3>2. Len(backlog'[d]) = Len(backlog[d]) + 1
      BY <1>1, <3>1 DEF BacklogOK
    <3>3. Occupied(d)' = Occupied(d) + 1 /\ Occupied(d) \in Int
      BY <1>2, <2>2, <3>1, SMTT(30) DEF Occupied, fifo_status
    <3> QED
      BY <1>1, <1>2, <3>2, <3>3 DEF Counts, Counted
  <2>6. ASSUME fifo[d].free = 0 PROVE Counted(d)'
    <3>1. /\ fifo'[d].free = fifo[d].free /\ fifo'[d].size = fifo[d].size
          /\ backlog' = backlog
      BY <1>1, <2>1, <2>6, EnqueueEffect
    <3>2. Occupied(d)' = Occupied(d)
      BY <2>2, <3>1 DEF Occupied, fifo_status
    <3> QED
      BY <1>1, <3>1, <3>2 DEF Counts, Counted
  <2>7. Counted(d)'
    BY <1>2, <2>5, <2>6
  <2> QED
    BY <2>4, <2>7 DEF Counts
<1>8. CASE UNCHANGED <<fifo, backlog>> /\ ~(init_fifos \/ get_byte \/ get_store \/ Handler)
  <2>1. \A d \in Dev : Taken(d)' = Taken(d)
    BY <1>8 DEF Taken, Next, Thread, Boot, Loop, Handlers, Devices, Handler, vars, cpu, At,
      init_gdtidt, init_pic, boot_sti, unmask_pic0, unmask_pic1, init_keyboard,
      enable_mouse, drawing, boot_stihlt, banner, loop_cli, poll, idle, serial_sti,
      get_load, got_sti, handle, inthandler27, KbcOutput, UartReceive, UartTimeout
  <2> QED
    BY <1>3, <1>8, <2>1 DEF Counts
<1> QED
  BY <1>4, <1>5, <1>6, <1>7, <1>8, RingFrame

\* Outside fifo_get, what a guarded ring holds and its free slots add up to its
\* size.
LEMMA BacklogFits ==
  ASSUME RingsOK, Counts, CliSections, NEW d \in Guarded,
         intr \/ pc = "get", fifo[d].size = QSize[d]
  PROVE  /\ Len(backlog[d]) = QSize[d] - fifo[d].free
         /\ Len(backlog[d]) <= QSize[d]
         /\ fifo[d].free > 0 => Len(backlog[d]) < QSize[d]
<1>1. d \in Dev
  BY DEF Guarded, Dev
<1>2. Len(backlog[d]) = Occupied(d)
  BY <1>1 DEF Counts, Counted
<1>3. fifo[d].free \in Nat /\ QSize[d] \in 1..255
  BY <1>1, RingNumbers
<1>4. Taken(d) = 0
  BY DEF CliSections, Taken
<1>5. Occupied(d) = QSize[d] - fifo[d].free
  BY <1>3, <1>4 DEF Occupied, fifo_status
<1>6. QSize[d] \in Nat
  BY <1>3
<1>7. QSize[d] - fifo[d].free <= QSize[d]
  BY <1>3, <1>6
<1>8. fifo[d].free > 0 => QSize[d] - fifo[d].free < QSize[d]
  BY <1>3, <1>6
<1> QED
  BY <1>2, <1>5, <1>7, <1>8

\* Every step keeps the guarded rings' bytes in order between head and tail.
LEMMA ContentsStep == Inductive /\ [Next]_vars => Contents'
<1> SUFFICES ASSUME Inductive, [Next]_vars PROVE Contents'
  OBVIOUS
<1>1. /\ Contents /\ Counts /\ CliSections /\ RingsOK /\ BacklogOK
      /\ Guarded \subseteq Dev
  BY DEF Inductive, TypeOK, Guarded, Dev
<1>2. ASSUME NEW d \in Guarded, backlog'[d] = backlog[d],
             fifo'[d].head = fifo[d].head, fifo'[d].tail = fifo[d].tail,
             fifo'[d].buf = fifo[d].buf
      PROVE  Ordered(d)'
  BY <1>1, <1>2 DEF Contents, Ordered
<1>3. CASE UNCHANGED <<fifo, backlog>>
  BY <1>2, <1>3 DEF Contents
<1>4. CASE init_fifos
  <2>1. ASSUME NEW d \in Guarded PROVE Ordered(d)'
    <3>1. backlog'[d] = <<>> /\ fifo'[d].head = 0 /\ fifo'[d].tail = 0
      BY <1>1, <1>4, InitFifosEffect
    <3> QED
      BY <1>1, <3>1, EmptyQueued DEF Ordered
  <2> QED
    BY <2>1 DEF Contents
<1>5. CASE get_byte
  <2>1. \A e \in Guarded \ {cur} : Ordered(e)'
    BY <1>1, <1>2, <1>5, GetByteEffect
  <2>2. ASSUME NEW d \in Guarded, d = cur PROVE Ordered(d)'
    <3>1. /\ backlog[d] # <<>> /\ backlog'[d] = Tail(backlog[d]) /\ pc = "get"
          /\ fifo'[d].head = advance(fifo[d].head, QSize[d])
          /\ fifo'[d].tail = fifo[d].tail /\ fifo'[d].buf = fifo[d].buf
          /\ fifo[d].size = QSize[d]
      BY <1>5, <2>2, GetByteEffect
    <3>2. QSize[d] \in 1..255 /\ fifo[d].head \in 0..(QSize[d] - 1)
      BY <1>1, RingNumbers
    <3>3. backlog[d] \in Seq(Byte)
      BY <1>1 DEF BacklogOK
    <3>4. Len(backlog[d]) <= QSize[d]
      BY <1>1, <3>1, BacklogFits
    <3>5. Ordered(d)
      BY <1>1 DEF Contents
    <3>6. Queued(fifo[d].buf, advance(fifo[d].head, QSize[d]), fifo[d].tail, QSize[d],
                 Tail(backlog[d]))
      BY <3>1, <3>2, <3>3, <3>4, <3>5, QueuedGet DEF Ordered
    <3> QED
      BY <3>1, <3>6 DEF Ordered
  <2> QED
    BY <2>1, <2>2 DEF Contents
<1>6. CASE get_store
  <2>1. \A d \in Guarded : /\ backlog'[d] = backlog[d]
                           /\ fifo'[d].head = fifo[d].head /\ fifo'[d].tail = fifo[d].tail
                           /\ fifo'[d].buf = fifo[d].buf
    BY <1>1, <1>6, GetStoreEffect
  <2> QED
    BY <1>2, <2>1 DEF Contents
<1>7. CASE Handler
  <2>1. PICK d \in Dev, b \in Byte :
          Enqueue(d, b) /\ fifo[d].size = QSize[d] /\ intr
    BY <1>7, HandlerEffect
  <2>2. \A e \in Guarded \ {d} : Ordered(e)'
    BY <1>1, <1>2, <2>1, EnqueueEffect
  <2>3. fifo[d].free \in Nat
    BY <1>1, RingNumbers
  <2>4. ASSUME d \in Guarded, fifo[d].free = 0 PROVE Ordered(d)'
    BY <1>1, <1>2, <2>1, <2>4, EnqueueEffect
  <2>5. ASSUME d \in Guarded, fifo[d].free > 0 PROVE Ordered(d)'
    <3>1. /\ backlog'[d] = Append(backlog[d], b)
          /\ fifo'[d].buf = [fifo[d].buf EXCEPT ![fifo[d].tail] = b]
          /\ fifo'[d].tail = advance(fifo[d].tail, QSize[d])
          /\ fifo'[d].head = fifo[d].head
      BY <1>1, <2>1, <2>5, EnqueueEffect
    <3>2. QSize[d] \in 1..255 /\ fifo[d].head \in 0..(QSize[d] - 1)
      BY <1>1, RingNumbers
    <3>3. fifo[d].buf \in [0..(QSize[d] - 1) -> Byte \cup {Garbage}]
      BY <1>1, RingNumbers
    <3>4. backlog[d] \in Seq(Byte)
      BY <1>1 DEF BacklogOK
    <3>5. Len(backlog[d]) < QSize[d]
      BY <1>1, <2>1, <2>5, BacklogFits
    <3>6. Ordered(d)
      BY <1>1, <2>5 DEF Contents
    <3>7. Queued([fifo[d].buf EXCEPT ![fifo[d].tail] = b], fifo[d].head,
                 advance(fifo[d].tail, QSize[d]), QSize[d], Append(backlog[d], b))
      BY <3>2, <3>3, <3>4, <3>5, <3>6, QueuedPut DEF Ordered
    <3> QED
      BY <3>1, <3>7 DEF Ordered
  <2> QED
    BY <2>2, <2>3, <2>4, <2>5 DEF Contents
<1> QED
  BY <1>3, <1>4, <1>5, <1>6, <1>7, RingFrame

\* Every step keeps the 8259s' types, and no level stays in service.
LEMMA PicStep == Inductive /\ [Next]_vars => PicOK' /\ NothingLeftInService'
<1> SUFFICES ASSUME Inductive, [Next]_vars PROVE PicOK' /\ NothingLeftInService'
  OBVIOUS
<1>1. PicOK /\ isr = {}
  BY DEF Inductive, TypeOK, NothingLeftInService
<1>2. CASE Boot
  <2>1. obf.src \in Guarded
    BY DEF Inductive, TypeOK, DevicesOK, Guarded
  <2> QED
    BY <1>1, <1>2, <2>1 DEF PicOK, NothingLeftInService, Boot, pic, Guarded, IRQ, Cascade,
      init_gdtidt, init_pic, init_fifos, boot_sti, unmask_pic0, unmask_pic1,
      init_keyboard, enable_mouse, drawing, boot_stihlt, banner
<1>3. CASE Loop
  BY <1>1, <1>3 DEF PicOK, NothingLeftInService, Loop, pic, loop_cli, poll, idle,
    serial_sti, get_byte, get_load, get_store, got_sti, handle
<1>4. CASE inthandler21 \/ inthandler24
  BY <1>1, <1>4 DEF PicOK, NothingLeftInService, inthandler21, inthandler24, Serve,
    ReadKbc, ReadUart,
    Acknowledged, NonSpecificEoi, Level, Cascade
<1>5. CASE inthandler2c
  BY <1>1, <1>5 DEF PicOK, NothingLeftInService, inthandler2c, Serve, ReadKbc,
    Acknowledged, Level, Cascade
<1>6. CASE inthandler27
  BY <1>1, <1>6 DEF PicOK, NothingLeftInService, inthandler27
<1>7. CASE Devices
  BY <1>1, <1>7 DEF PicOK, NothingLeftInService, Devices, KbcOutput, UartReceive,
    UartTimeout, IRQ
<1>8. CASE UNCHANGED vars
  BY <1>1, <1>8 DEF PicOK, NothingLeftInService, vars, pic
<1> QED
  BY <1>2, <1>3, <1>4, <1>5, <1>6, <1>7, <1>8 DEF Next, Thread, Handlers

\* Every step keeps the flags Boolean.
LEMMA FlagsStep == Inductive /\ [Next]_vars => FlagsOK'
<1> SUFFICES ASSUME Inductive, [Next]_vars PROVE FlagsOK'
  OBVIOUS
<1>1. FlagsOK
  BY DEF Inductive, TypeOK
<1>2. CASE Boot
  BY <1>1, <1>2, Zenon DEF FlagsOK, Boot, uart, init_gdtidt, init_pic, init_fifos, boot_sti,
    unmask_pic0, unmask_pic1, init_keyboard, enable_mouse, drawing, boot_stihlt, banner
<1>3. CASE Loop
  BY <1>1, <1>3, Zenon DEF FlagsOK, Loop, uart, loop_cli, poll, idle, serial_sti, get_byte,
    get_load, get_store, got_sti, handle
<1>4. CASE Handlers
  BY <1>1, <1>4, Zenon DEF FlagsOK, Handlers, uart, inthandler21, inthandler24, Serve,
    ReadKbc, ReadUart,
    inthandler2c, Serve, ReadKbc, inthandler27
<1>5. CASE Devices
  BY <1>1, <1>5, Zenon DEF FlagsOK, Devices, cpu, uart, KbcOutput, UartReceive, UartTimeout
<1>6. CASE UNCHANGED vars
  BY <1>1, <1>6, Zenon DEF FlagsOK, vars, cpu, uart
<1> QED
  BY <1>2, <1>3, <1>4, <1>5, <1>6 DEF Next, Thread

\* Every step keeps the thread's variables well typed.
LEMMA CpuStep == Inductive /\ [Next]_vars => CpuOK'
<1> SUFFICES ASSUME Inductive, [Next]_vars PROVE CpuOK'
  OBVIOUS
<1>1. CpuOK /\ RingsOK
  BY DEF Inductive, TypeOK
<1>2. CASE Boot
  BY <1>1, <1>2 DEF CpuOK, Boot, Labels, PreMouse, PrePic, Handled, init_gdtidt, init_pic,
    init_fifos, boot_sti, unmask_pic0, unmask_pic1, init_keyboard, enable_mouse, drawing,
    boot_stihlt, banner
<1>3. CASE loop_cli \/ poll \/ idle \/ serial_sti \/ got_sti \/ handle \/ get_store
  BY <1>1, <1>3 DEF CpuOK, Labels, loop_cli, poll, idle, serial_sti, got_sti, handle,
    get_store
<1>4. CASE get_byte
  <2>1. /\ data' = [data EXCEPT ![cur] = head_byte(fifo[cur])]
        /\ pc' = "load_free" /\ cur \in Dev
    BY <1>1, <1>4, GetByteEffect DEF CpuOK
  <2>2. head_byte(fifo[cur]) \in Byte \cup {Garbage}
    <3>1. /\ fifo[cur].buf \in [0..(QSize[cur] - 1) -> Byte \cup {Garbage}]
          /\ fifo[cur].head \in 0..(QSize[cur] - 1)
      BY <1>1, <2>1, RingNumbers
    <3> QED
      BY <3>1 DEF head_byte
  <2>3. UNCHANGED <<cur, reg, gates>>
    BY <1>4 DEF get_byte
  <2>4. data' \in [Dev -> Byte \cup {MinusOne, Garbage}]
    BY <1>1, <2>1, <2>2 DEF CpuOK
  <2> QED
    BY <1>1, <2>1, <2>3, <2>4 DEF CpuOK, Labels
<1>5. CASE get_load
  <2>1. fifo[cur].free \in 0..255
    <3>1. fifo[cur].free \in 0..QSize[cur] /\ QSize[cur] \in 1..255
      BY <1>1, RingNumbers DEF CpuOK
    <3> QED
      BY <3>1
  <2> QED
    BY <1>1, <1>5, <2>1 DEF CpuOK, Labels, get_load
<1>6. CASE Handlers
  BY <1>1, <1>6 DEF CpuOK, Handlers, inthandler21, inthandler24, inthandler2c, Serve,
    ReadKbc, ReadUart, inthandler27
<1>7. CASE Devices \/ UNCHANGED vars
  BY <1>1, <1>7 DEF CpuOK, Devices, cpu, vars, KbcOutput, UartReceive, UartTimeout
<1> QED
  BY <1>2, <1>3, <1>4, <1>5, <1>6, <1>7 DEF Next, Thread, Loop

\* Every step keeps the devices' buffers well typed.
LEMMA DevicesStep == Inductive /\ [Next]_vars => DevicesOK'
<1> SUFFICES ASSUME Inductive, [Next]_vars PROVE DevicesOK'
  OBVIOUS
<1>1. DevicesOK
  BY DEF Inductive, TypeOK
<1>2. CASE Thread \/ UNCHANGED vars
  <2>1. obf' = obf /\ rx' = rx
    BY <1>2 DEF Thread, Boot, Loop, vars, uart, init_gdtidt, init_pic, init_fifos, boot_sti,
      unmask_pic0, unmask_pic1, init_keyboard, enable_mouse, drawing, boot_stihlt, banner,
      loop_cli, poll, idle, serial_sti, get_byte, get_load, get_store, got_sti, handle
  <2> QED
    BY <1>1, <2>1 DEF DevicesOK
<1>3. CASE Handlers
  <2>1. obf' = obf \/ obf' = [obf EXCEPT !.full = FALSE]
    BY <1>3 DEF Handlers, inthandler21, inthandler24, inthandler2c, Serve, ReadKbc,
      ReadUart, inthandler27
  <2>2. rx' \in Seq(SerialBytes)
    <3>1. rx' = rx \/ (rx # <<>> /\ rx' = Tail(rx))
      BY <1>3 DEF Handlers, uart, inthandler21, inthandler24, inthandler2c, Serve,
        ReadKbc, ReadUart, inthandler27
    <3> QED
      BY <1>1, <3>1 DEF DevicesOK
  <2>3. \/ obf' \in [full : BOOLEAN, src : {"key"}, byte : KeyBytes]
        \/ obf' \in [full : BOOLEAN, src : {"mouse"}, byte : MouseBytes]
    BY <1>1, <2>1 DEF DevicesOK
  <2> QED
    BY <2>2, <2>3, Zenon DEF DevicesOK
<1>4. CASE Devices
  <2>1. CASE \E b \in KeyBytes : KbcOutput("key", b)
    <3>1. obf' \in [full : BOOLEAN, src : {"key"}, byte : KeyBytes] /\ rx' = rx
      BY <2>1 DEF KbcOutput, uart
    <3> QED
      BY <1>1, <3>1 DEF DevicesOK
  <2>2. CASE \E b \in MouseBytes : KbcOutput("mouse", b)
    <3>1. obf' \in [full : BOOLEAN, src : {"mouse"}, byte : MouseBytes] /\ rx' = rx
      BY <2>2 DEF KbcOutput, uart
    <3> QED
      BY <1>1, <3>1 DEF DevicesOK
  <2>3. CASE \E b \in SerialBytes : UartReceive(b)
    BY <1>1, <2>3 DEF DevicesOK, UartReceive
  <2>4. CASE UartTimeout
    BY <1>1, <2>4 DEF DevicesOK, UartTimeout
  <2> QED
    BY <1>4, <2>1, <2>2, <2>3, <2>4 DEF Devices
<1> QED
  BY <1>2, <1>3, <1>4 DEF Next

\* Every step keeps the i8042 and the 8259 in agreement.
LEMMA AgreeStep == Inductive /\ [Next]_vars => ControllersAgree' /\ KeyboardRearmed'
<1> SUFFICES ASSUME Inductive, [Next]_vars PROVE ControllersAgree' /\ KeyboardRearmed'
  OBVIOUS
<1>1. /\ ControllersAgree /\ KeyboardRearmed /\ obf.src \in Guarded
      /\ DOMAIN obf = {"full", "src", "byte"} /\ obf.full \in BOOLEAN
  BY DEF Inductive, TypeOK, DevicesOK, Guarded
<1>2. CASE Boot
  BY <1>1, <1>2 DEF ControllersAgree, KeyboardRearmed, Boot, At, PreMouse, PrePic, IRQ,
    Guarded, pic, init_gdtidt, init_pic, init_fifos, boot_sti, unmask_pic0, unmask_pic1,
    init_keyboard, enable_mouse, drawing, boot_stihlt, banner
<1>3. CASE Loop
  BY <1>1, <1>3 DEF ControllersAgree, KeyboardRearmed, Loop, At, PreMouse, PrePic, pic,
    loop_cli, poll, idle, serial_sti, get_byte, get_load, get_store, got_sti, handle
<1>4. CASE inthandler21
  <2>1. /\ 1 \in irr /\ irr' = irr \ {1} /\ obf'.full = FALSE /\ obf'.src = obf.src
    BY <1>1, <1>4 DEF inthandler21, Serve, ReadKbc, Interrupt, Requested
  <2> QED
    BY <1>1, <2>1 DEF ControllersAgree, KeyboardRearmed
<1>5. CASE inthandler2c
  <2>1. /\ 12 \in irr /\ irr' = irr \ {12} /\ obf'.full = FALSE /\ obf'.src = obf.src
    BY <1>1, <1>5 DEF inthandler2c, Serve, ReadKbc, Interrupt, Requested
  <2> QED
    BY <1>1, <2>1 DEF ControllersAgree, KeyboardRearmed
<1>6. CASE inthandler24
  BY <1>1, <1>6 DEF ControllersAgree, KeyboardRearmed, inthandler24, Serve, ReadUart,
    IRQ, Guarded
<1>7. CASE inthandler27 \/ UNCHANGED vars
  BY <1>1, <1>7 DEF ControllersAgree, KeyboardRearmed, inthandler27, vars, cpu, pic
<1>8. CASE \E d \in Guarded : \E b \in Byte : KbcOutput(d, b)
  BY <1>1, <1>8 DEF ControllersAgree, KeyboardRearmed, KbcOutput, IRQ, Guarded, cpu
<1>9. CASE (\E b \in SerialBytes : UartReceive(b)) \/ UartTimeout
  BY <1>1, <1>9 DEF ControllersAgree, KeyboardRearmed, UartReceive, UartTimeout, IRQ,
    Guarded, cpu
<1> QED
  BY <1>2, <1>3, <1>4, <1>5, <1>6, <1>7, <1>8, <1>9
  DEF Next, Thread, Handlers, Devices, Guarded, Byte

\* Every step keeps the rings drained while the main loop sleeps.
LEMMA SleepStep == Inductive /\ [Next]_vars => SleepsOnlyWhenDrained'
<1> SUFFICES ASSUME Inductive, [Next]_vars PROVE SleepsOnlyWhenDrained'
  OBVIOUS
<1>1. SleepsOnlyWhenDrained /\ CliSections /\ RingsOK /\ BacklogOK /\ Counts
  BY DEF Inductive, TypeOK
<1>2. CASE idle
  <2>1. UNCHANGED <<fifo, backlog>> /\ pc = "stihlt_idle"
    BY <1>2 DEF idle, At
  <2>2. ASSUME NEW d \in Guarded PROVE backlog[d] = <<>>
    <3>1. d \in Dev
      BY DEF Guarded, Dev
    <3>2. ~Waiting(d) /\ Taken(d) = 0
      BY <1>1, <2>1, <3>1 DEF CliSections, Taken
    <3>3. Len(backlog[d]) = fifo[d].size - fifo[d].free
      BY <1>1, <3>1, <3>2, RingNumbers DEF Counts, Counted, Occupied, fifo_status
    <3>4. Len(backlog[d]) <= 0
      BY <3>1, <3>2, <3>3 DEF Waiting, fifo_status
    <3>5. backlog[d] \in Seq(Byte)
      BY <1>1, <3>1 DEF BacklogOK
    <3> QED
      BY <3>4, <3>5
  <2>3. ~Waiting("serial")
    BY <1>1, <2>1 DEF CliSections, Dev
  <2> QED
    BY <2>1, <2>2, <2>3 DEF SleepsOnlyWhenDrained, Waiting, Guarded
<1>3. CASE Boot
  BY <1>3 DEF SleepsOnlyWhenDrained, Boot, At, init_gdtidt, init_pic, init_fifos, boot_sti,
    unmask_pic0, unmask_pic1, init_keyboard, enable_mouse, drawing, boot_stihlt, banner
<1>4. CASE Loop /\ ~idle
  BY <1>4 DEF SleepsOnlyWhenDrained, Loop, At, loop_cli, poll, idle, serial_sti, get_byte,
    get_load, get_store, got_sti, handle
<1>5. CASE Handlers
  BY <1>5 DEF SleepsOnlyWhenDrained, Handlers, inthandler21, inthandler24, inthandler2c,
    Serve, ReadKbc, ReadUart,
    inthandler27
<1>6. CASE Devices \/ UNCHANGED vars
  BY <1>1, <1>6 DEF SleepsOnlyWhenDrained, Devices, cpu, vars, Waiting, KbcOutput,
    UartReceive, UartTimeout
<1> QED
  BY <1>2, <1>3, <1>4, <1>5, <1>6 DEF Next, Thread

-----------------------------------------------------------------------------
\* The whole of it is preserved by every step.
LEMMA InductiveStep == Inductive /\ [Next]_vars => Inductive'
BY RingsStep, SetupStep, CliStep, GetWindowStep, CountsStep, ContentsStep, PicStep,
   FlagsStep, CpuStep, DevicesStep, AgreeStep, SleepStep
DEF Inductive, TypeOK

\* Everything the invariant says holds in every state of the kernel.
THEOREM KernelInvariant == Spec => []Inductive
<1>1. Init => Inductive
  BY InitInductive
<1>2. Inductive /\ [Next]_vars => Inductive'
  BY InductiveStep
<1> QED
  BY <1>1, <1>2, PTL DEF Spec

\* Types: free never passes size and no index leaves its buffer (fifo8.c).
THEOREM TypeCorrect == Spec => []TypeOK
<1>1. Inductive => TypeOK
  BY DEF Inductive
<1> QED
  BY <1>1, KernelInvariant, PTL

\* kernelstart enables interrupts only after their gates and rings exist.
THEOREM SetupFirst == Spec => []InterruptsAfterSetup
<1>1. Inductive => InterruptsAfterSetup
  <2> SUFFICES ASSUME Inductive, intr
               PROVE  gates = Handled /\ \A d \in Dev : fifo[d].size = QSize[d]
    BY DEF InterruptsAfterSetup
  <2>1. pc \notin PreRings \cup {"sti"}
    BY DEF Inductive, SetupOrder
  <2> QED
    BY <2>1 DEF Inductive, SetupOrder, PreRings, PrePic
<1> QED
  BY <1>1, KernelInvariant, PTL

\* Every handler ends its interrupt on each 8259 that has it in service.
THEOREM EoiComplete == Spec => []NothingLeftInService
<1>1. Inductive => NothingLeftInService
  BY DEF Inductive
<1> QED
  BY <1>1, KernelInvariant, PTL

\* A full output buffer keeps its request pending, so the i8042 cannot lock up.
THEOREM KeyboardNeverLocks == Spec => []ControllersAgree
<1>1. Inductive => ControllersAgree
  BY DEF Inductive
<1> QED
  BY <1>1, KernelInvariant, PTL

\* The keyboard and the mouse ring hold exactly the bytes not yet delivered.
THEOREM GuardedRingsExact == Spec => []RingExact
<1>1. Inductive => RingExact
  BY DEF Inductive, Counts, Counted, Contents, RingExact, Guarded, Dev
<1> QED
  BY <1>1, KernelInvariant, PTL

\* Interrupts in the middle of fifo_get never make serial_fifo report bytes it
\* does not hold.
THEOREM SerialCountSafe == Spec => []SerialNeverOverReports
<1>1. Inductive => SerialNeverOverReports
  BY DEF Inductive, Counts, Counted, SerialNeverOverReports, Dev
<1> QED
  BY <1>1, KernelInvariant, PTL

\* The main loop's hlt leaves no keyboard or mouse byte behind.
THEOREM SleepSafe == Spec => []SleepsOnlyWhenDrained
<1>1. Inductive => SleepsOnlyWhenDrained
  BY DEF Inductive
<1> QED
  BY <1>1, KernelInvariant, PTL

-----------------------------------------------------------------------------
\* What a step of the kernel does to a guarded ring, seen as a queue: nothing,
\* or one of the three steps of BoundedQueue.
Bytes(d) == IF d = "key" THEN KeyBytes ELSE MouseBytes

QueueAccept(d) == \E b \in Bytes(d) :
  /\ Len(backlog[d]) < QSize[d] /\ backlog'[d] = Append(backlog[d], b)
  /\ data'[d] = data[d] /\ fifo'[d].flag = fifo[d].flag
QueueRefuse(d) ==
  /\ Len(backlog[d]) = QSize[d] /\ fifo'[d].flag = FIFO_FULL
  /\ backlog'[d] = backlog[d] /\ data'[d] = data[d]
QueueDeliver(d) ==
  /\ backlog[d] # <<>> /\ data'[d] = Head(backlog[d]) /\ backlog'[d] = Tail(backlog[d])
  /\ fifo'[d].flag = fifo[d].flag
QueueStutter(d) ==
  backlog'[d] = backlog[d] /\ data'[d] = data[d] /\ fifo'[d].flag = fifo[d].flag

\* Only get_byte writes the branches' local data.
LEMMA DataFrame ==
  ASSUME [Next]_vars, ~get_byte
  PROVE  data' = data
BY DEF Next, Thread, Boot, Loop, Handlers, Devices, vars, cpu,
  init_gdtidt, init_pic, init_fifos, boot_sti, unmask_pic0, unmask_pic1, init_keyboard,
  enable_mouse, drawing, boot_stihlt, banner, loop_cli, poll, idle, serial_sti,
  get_load, get_store, got_sti, handle, inthandler21, inthandler24, inthandler2c, Serve,
    ReadKbc, ReadUart,
  inthandler27, KbcOutput, UartReceive, UartTimeout

\* On a guarded ring every step accepts one byte, refuses one when full, delivers
\* the oldest, or changes nothing the queue can see.
LEMMA QueueStep ==
  ASSUME Inductive, [Next]_vars, NEW d \in Guarded
  PROVE  QueueAccept(d) \/ QueueRefuse(d) \/ QueueDeliver(d) \/ QueueStutter(d)
<1>1. /\ d \in Dev /\ RingsOK /\ BacklogOK /\ Counts /\ CliSections /\ Ordered(d)
      /\ DOMAIN data = Dev
  BY DEF Inductive, TypeOK, CpuOK, Contents, Guarded, Dev
<1>2. CASE get_byte
  <2>1. CASE d = cur
    <3>1. /\ backlog[d] # <<>> /\ backlog'[d] = Tail(backlog[d]) /\ pc = "get"
          /\ fifo'[d].flag = fifo[d].flag /\ fifo[d].size = QSize[d]
          /\ data' = [data EXCEPT ![d] = head_byte(fifo[d])]
      BY <1>2, <2>1, GetByteEffect
    <3>2. QSize[d] \in 1..255 /\ fifo[d].head \in 0..(QSize[d] - 1)
      BY <1>1, RingNumbers
    <3>3. backlog[d] \in Seq(Byte)
      BY <1>1 DEF BacklogOK
    <3>4. Len(backlog[d]) <= QSize[d]
      BY <1>1, <3>1, BacklogFits
    <3>5. Queued(fifo[d].buf, fifo[d].head, fifo[d].tail, QSize[d], backlog[d])
      BY <1>1 DEF Ordered
    <3>6. backlog[d] # <<>>
      BY <3>1
    <3>7. fifo[d].buf[fifo[d].head] = Head(backlog[d])
      BY <3>2, <3>3, <3>4, <3>5, <3>6, QueuedGet
    <3>8. data'[d] = Head(backlog[d])
      BY <1>1, <3>1, <3>7 DEF head_byte
    <3> QED
      BY <3>1, <3>8 DEF QueueDeliver
  <2>2. CASE d # cur
    <3>1. fifo'[d] = fifo[d] /\ backlog'[d] = backlog[d]
      BY <1>1, <1>2, <2>2, GetByteEffect
    <3>2. data'[d] = data[d]
      BY <1>1, <1>2, <2>2, GetByteEffect
    <3> QED
      BY <3>1, <3>2 DEF QueueStutter
  <2> QED
    BY <2>1, <2>2
<1>3. CASE init_fifos
  BY <1>1, <1>3, InitFifosEffect DEF QueueStutter
<1>4. CASE get_store
  <2>1. data' = data
    BY <1>4 DEF get_store
  <2> QED
    BY <1>1, <1>4, <2>1, GetStoreEffect DEF QueueStutter
<1>5. CASE Handler
  <2>1. PICK e \in Dev, b \in Byte :
          /\ Enqueue(e, b) /\ fifo[e].size = QSize[e] /\ intr /\ data' = data
          /\ e = "key" => b \in KeyBytes
          /\ e = "mouse" => b \in MouseBytes
    BY <1>5, HandlerEffect
  <2>2. CASE e # d
    BY <1>1, <2>1, <2>2, EnqueueEffect DEF QueueStutter
  <2>3. CASE e = d /\ fifo[d].free > 0
    <3>1. b \in Bytes(d)
      BY <2>1, <2>3 DEF Bytes, Guarded
    <3>2. Len(backlog[d]) < QSize[d]
      BY <1>1, <2>1, <2>3, BacklogFits
    <3>3. backlog'[d] = Append(backlog[d], b) /\ fifo'[d].flag = fifo[d].flag
      BY <1>1, <2>1, <2>3, EnqueueEffect
    <3> QED
      BY <2>1, <3>1, <3>2, <3>3 DEF QueueAccept
  <2>4. CASE e = d /\ fifo[d].free = 0
    <3>1. Len(backlog[d]) = QSize[d] - 0
      BY <1>1, <2>1, <2>4, BacklogFits
    <3>2. QSize[d] \in Nat
      BY <1>1, RingSize
    <3>3. backlog' = backlog /\ fifo'[d].flag = FIFO_FULL
      BY <1>1, <2>1, <2>4, EnqueueEffect
    <3> QED
      BY <2>1, <3>1, <3>2, <3>3 DEF QueueRefuse
  <2>5. fifo[d].free \in Nat
    BY <1>1, RingNumbers
  <2> QED
    BY <2>2, <2>3, <2>4, <2>5
<1>6. CASE UNCHANGED <<fifo, backlog>> /\ ~get_byte
  BY <1>6, DataFrame DEF QueueStutter
<1> QED
  BY <1>2, <1>3, <1>4, <1>5, <1>6, RingFrame

\* The keyboard ring implements the bounded queue: inthandler21 and the keyboard
\* branch of the main loop lose nothing but what they refuse when full.
THEOREM KeyRefinesQueue == Spec => KeyQueue!Spec
<1>1. Init => KeyQueue!Init
  BY DEF Init, KeyQueue!Init, fifo_init, Dev, FIFO_FULL
<1>2. Inductive /\ [Next]_vars => [KeyQueue!Next]_(KeyQueue!vars)
  <2> SUFFICES ASSUME Inductive, [Next]_vars
               PROVE  [KeyQueue!Next]_(KeyQueue!vars)
    OBVIOUS
  <2>1. CASE QueueAccept("key")
    BY <2>1 DEF QueueAccept, Bytes, KeyQueue!Next, KeyQueue!Accept
  <2>2. CASE QueueRefuse("key")
    BY <2>2 DEF QueueRefuse, KeyQueue!Next, KeyQueue!Refuse
  <2>3. CASE QueueDeliver("key")
    BY <2>3 DEF QueueDeliver, KeyQueue!Next, KeyQueue!Deliver
  <2>4. CASE QueueStutter("key")
    BY <2>4 DEF QueueStutter, KeyQueue!vars
  <2> QED
    BY <2>1, <2>2, <2>3, <2>4, QueueStep DEF Guarded
<1> QED
  BY <1>1, <1>2, KernelInvariant, PTL DEF Spec, KeyQueue!Spec

\* The same of the mouse ring and inthandler2c.
THEOREM MouseRefinesQueue == Spec => MouseQueue!Spec
<1>1. Init => MouseQueue!Init
  BY DEF Init, MouseQueue!Init, fifo_init, Dev, FIFO_FULL
<1>2. Inductive /\ [Next]_vars => [MouseQueue!Next]_(MouseQueue!vars)
  <2> SUFFICES ASSUME Inductive, [Next]_vars
               PROVE  [MouseQueue!Next]_(MouseQueue!vars)
    OBVIOUS
  <2>1. CASE QueueAccept("mouse")
    BY <2>1 DEF QueueAccept, Bytes, MouseQueue!Next, MouseQueue!Accept
  <2>2. CASE QueueRefuse("mouse")
    BY <2>2 DEF QueueRefuse, MouseQueue!Next, MouseQueue!Refuse
  <2>3. CASE QueueDeliver("mouse")
    BY <2>3 DEF QueueDeliver, MouseQueue!Next, MouseQueue!Deliver
  <2>4. CASE QueueStutter("mouse")
    BY <2>4 DEF QueueStutter, MouseQueue!vars
  <2> QED
    BY <2>1, <2>2, <2>3, <2>4, QueueStep DEF Guarded
<1> QED
  BY <1>1, <1>2, KernelInvariant, PTL DEF Spec, MouseQueue!Spec

\* Both rings that are read with interrupts disabled implement the bounded queue.
THEOREM GuardedRingsRefine == Spec => GuardedQueues
BY KeyRefinesQueue, MouseRefinesQueue, PTL DEF GuardedQueues

-----------------------------------------------------------------------------
(* The console's ring.  Its thread side runs with interrupts enabled, and   *)
(* the free count it writes back can be too large: then the handler        *)
(* overwrites the oldest bytes.  What holds in every state is that the     *)
(* last bytes accepted, as many as the ring has slots, are where the       *)
(* thread will look for them.                                              *)

Held(buf, head, tail, size, s) ==
  /\ \A i \in 1..Len(s) : i > Len(s) - size => buf[(head + i - 1) % size] = s[i]
  /\ tail = (head + Len(s)) % size

SerialHeld == Held(fifo["serial"].buf, fifo["serial"].head, fifo["serial"].tail,
                   QSize["serial"], backlog["serial"])

\* A multiple of the modulus adds nothing.
LEMMA ModShift ==
  ASSUME NEW z \in Nat, NEW s \in Nat, NEW w \in Nat \ {0}
  PROVE  (w * s + z) % w = z % w
<1> DEFINE n == w * s + z
           k == z \div w
           m == z % w
           l == n \div w
           p == n % w
           d == s + k - l
<1>1. n \in Nat
  OBVIOUS
<1>2. z = w * k + m /\ k \in Nat /\ m \in 0..(w - 1)
  OBVIOUS
<1> HIDE DEF k, m
<1>3. n = w * l + p /\ l \in Nat /\ p \in 0..(w - 1)
  <2> HIDE DEF n
  <2> QED
    BY <1>1
<1> HIDE DEF l, p
<1>4. w * d = p - m
  <2>1. w * s + w * k + m = w * l + p
    BY <1>2, <1>3
  <2>2. w * d = w * s + w * k - w * l
    BY <1>2, <1>3
  <2>3. w * s \in Int /\ w * k \in Int /\ w * l \in Int
    BY <1>2, <1>3
  <2> QED
    BY <1>2, <1>3, <2>1, <2>2, <2>3
<1>5. d \in Int
  BY <1>2, <1>3
<1> HIDE DEF d
<1>6. d >= 1 => w * d >= w
  BY <1>5
<1>7. d <= -1 => w * d <= -w
  BY <1>5
<1>8. d = 0
  BY <1>2, <1>3, <1>4, <1>5, <1>6, <1>7
<1>9. p = m
  BY <1>2, <1>3, <1>4, <1>8
<1> QED
  BY <1>9 DEF p, m

\* Less than a whole turn from a slot there is another one.
LEMMA SlotApart ==
  ASSUME NEW q \in 1..255, NEW a \in Nat, NEW j \in 1..(q - 1)
  PROVE  (a + j) % q # a % q
<1> DEFINE k == a \div q
           m == a % q
<1>1. k \in Nat /\ m \in 0..(q - 1) /\ a = q * k + m
  OBVIOUS
<1> HIDE DEF k, m
<1>2. (q * k + (m + j)) % q = (m + j) % q
  <2>1. m + j \in Nat /\ q \in Nat \ {0}
    BY <1>1
  <2> QED
    BY <1>1, <2>1, ModShift
<1>3. m + j \in 0..(2 * q - 1) /\ a + j = q * k + (m + j)
  <2>1. q * k \in Int
    BY <1>1
  <2> HIDE DEF m
  <2> QED
    BY <1>1, <2>1
<1>4. (m + j) % q = IF m + j < q THEN m + j ELSE m + j - q
  <2>1. m \in 0..(q - 1)
    BY <1>1
  <2>2. m + j \in 0..(2 * q - 1)
    BY <2>1
  <2> QED
    BY <2>1, <2>2, Mod
<1>5. (m + j) % q # m
  BY <1>1, <1>4
<1> QED
  BY <1>2, <1>3, <1>5 DEF m

\* The slot after one counted from anywhere.
LEMMA SlotAfter ==
  ASSUME NEW q \in 1..255, NEW a \in Nat
  PROVE  a % q \in 0..(q - 1) /\ advance(a % q, q) = (a + 1) % q
<1> DEFINE k == a \div q
           m == a % q
<1>1. k \in Nat /\ m \in 0..(q - 1) /\ a = q * k + m
  OBVIOUS
<1> HIDE DEF k, m
<1>2. (q * k + (m + 1)) % q = (m + 1) % q
  <2>1. m + 1 \in Nat /\ q \in Nat \ {0}
    BY <1>1
  <2> QED
    BY <1>1, <2>1, ModShift
<1>3. m + 1 \in 0..(2 * q - 1) /\ a + 1 = q * k + (m + 1)
  <2>1. q * k \in Int
    BY <1>1
  <2> QED
    BY <1>1, <2>1
<1>4. (m + 1) % q = IF m + 1 < q THEN m + 1 ELSE 0
  BY <1>1, <1>3, Mod
<1>5. advance(m, q) = IF m + 1 < q THEN m + 1 ELSE 0
  BY <1>1, AdvanceValue
<1> QED
  BY <1>1, <1>2, <1>3, <1>4, <1>5 DEF m

\* Counting from the advanced head, however far.
LEMMA SlotFrom ==
  ASSUME NEW q \in 1..255, NEW h \in 0..(q - 1), NEW n \in Nat
  PROVE  (advance(h, q) + n) % q = (h + (n + 1)) % q
<1>1. advance(h, q) = IF h + 1 < q THEN h + 1 ELSE 0
  BY AdvanceValue
<1>2. CASE h + 1 < q
  <2>1. advance(h, q) + n = h + (n + 1)
    BY <1>1, <1>2
  <2> QED
    BY <2>1
<1>3. CASE ~(h + 1 < q)
  <2>1. advance(h, q) + n = n /\ h + (n + 1) = q * 1 + n
    BY <1>1, <1>3
  <2>2. (q * 1 + n) % q = n % q
    <3>1. q \in Nat \ {0} /\ 1 \in Nat
      OBVIOUS
    <3> QED
      BY <3>1, ModShift
  <2> QED
    BY <2>1, <2>2
<1> QED
  BY <1>2, <1>3

LEMMA HeldPut ==
  ASSUME NEW q \in 1..255, NEW buf \in [0..(q - 1) -> Byte \cup {Garbage}],
         NEW h \in 0..(q - 1), NEW t, NEW s \in Seq(Byte), NEW b \in Byte,
         Held(buf, h, t, q, s)
  PROVE  Held([buf EXCEPT ![t] = b], h, advance(t, q), q, Append(s, b))
<1> DEFINE n == Len(s)
           r == Append(s, b)
<1>1. n \in Nat /\ h + n \in Nat /\ h + n + 1 = h + (n + 1)
  OBVIOUS
<1>2. Len(r) = n + 1 /\ r[n + 1] = b /\ \A i \in 1..n : r[i] = s[i]
  OBVIOUS
<1>3. t = (h + n) % q /\ \A i \in 1..n : i > n - q => buf[(h + i - 1) % q] = s[i]
  BY DEF Held
<1> HIDE DEF n, r
<1>4. t \in 0..(q - 1) /\ advance(t, q) = (h + (n + 1)) % q
  <2>1. (h + n) % q \in 0..(q - 1) /\ advance((h + n) % q, q) = (h + n + 1) % q
    BY <1>1, SlotAfter
  <2> QED
    BY <1>1, <1>3, <2>1
<1>5. ASSUME NEW i \in 1..(n + 1), i > (n + 1) - q
      PROVE  [buf EXCEPT ![t] = b][(h + i - 1) % q] = r[i]
  <2>1. CASE i = n + 1
    <3>1. h + i - 1 = h + n
      BY <1>1, <2>1
    <3> QED
      BY <1>2, <1>3, <1>4, <2>1, <3>1
  <2>2. CASE i \in 1..n
    <3>1. /\ h + i - 1 \in Nat /\ (n + 1) - i \in 1..(q - 1) /\ i > n - q
          /\ (h + i - 1) + ((n + 1) - i) = h + n
      BY <1>1, <1>5, <2>2
    <3>2. (h + i - 1) % q # t /\ (h + i - 1) % q \in 0..(q - 1)
      <4> DEFINE slot == h + i - 1
                 j == (n + 1) - i
      <4>1. slot \in Nat /\ j \in 1..(q - 1) /\ slot + j = h + n
        BY <3>1
      <4> HIDE DEF slot, j
      <4>2. (slot + j) % q # slot % q /\ slot % q \in 0..(q - 1)
        BY <4>1, SlotApart, SlotAfter
      <4> QED
        BY <1>3, <4>1, <4>2 DEF slot
    <3>3. [buf EXCEPT ![t] = b][(h + i - 1) % q] = buf[(h + i - 1) % q]
      BY <1>4, <3>2
    <3> QED
      BY <1>2, <1>3, <2>2, <3>1, <3>3
  <2> QED
    BY <1>1, <2>1, <2>2
<1> QED
  BY <1>2, <1>4, <1>5 DEF Held, r

LEMMA HeldGet ==
  ASSUME NEW q \in 1..255, NEW buf, NEW h \in 0..(q - 1), NEW t,
         NEW s \in Seq(Byte), s # <<>>, Held(buf, h, t, q, s)
  PROVE  /\ Len(s) <= q => buf[h] = Head(s)
         /\ Held(buf, advance(h, q), t, q, Tail(s))
<1> DEFINE n == Len(s)
           r == Tail(s)
           g == advance(h, q)
<1>1. n \in Nat /\ n >= 1 /\ g \in 0..(q - 1)
  <2>1. n \in Nat /\ n >= 1
    OBVIOUS
  <2>2. g \in 0..(q - 1)
    BY AdvanceValue
  <2> QED
    BY <2>1, <2>2
<1>2. Len(r) = n - 1 /\ (\A i \in 1..(n - 1) : r[i] = s[i + 1]) /\ Head(s) = s[1]
  OBVIOUS
<1>3. t = (h + n) % q /\ \A i \in 1..n : i > n - q => buf[(h + i - 1) % q] = s[i]
  BY DEF Held
<1>4. \A m \in Nat : (g + m) % q = (h + (m + 1)) % q
  BY SlotFrom
<1> HIDE DEF n, r, g
<1>5. ASSUME n <= q PROVE buf[h] = s[1]
  <2>1. 1 \in 1..n /\ 1 > n - q /\ h + 1 - 1 = h /\ h \in 0..(2 * q - 1)
    BY <1>1, <1>5
  <2>2. h % q = h
    BY <2>1, Mod
  <2>3. buf[(h + 1 - 1) % q] = s[1]
    BY <1>3, <2>1
  <2> QED
    BY <2>1, <2>2, <2>3
<1>6. t = (g + (n - 1)) % q
  <2>1. n - 1 \in Nat /\ (n - 1) + 1 = n
    BY <1>1
  <2> QED
    BY <1>3, <1>4, <2>1
<1>7. ASSUME NEW i \in 1..(n - 1), i > (n - 1) - q
      PROVE  buf[(g + i - 1) % q] = r[i]
  <2>1. /\ i - 1 \in Nat /\ (i - 1) + 1 = i /\ g + i - 1 = g + (i - 1)
        /\ i + 1 \in 1..n /\ i + 1 > n - q /\ h + (i + 1) - 1 = h + i
    BY <1>1, <1>7
  <2>2. (g + i - 1) % q = (h + i) % q
    BY <1>4, <2>1
  <2>3. buf[(h + (i + 1) - 1) % q] = s[i + 1]
    BY <1>3, <2>1
  <2> QED
    BY <1>2, <2>1, <2>2, <2>3
<1> QED
  BY <1>2, <1>5, <1>6, <1>7 DEF Held, r, n, g

LEMMA InitHeld == Init => SerialHeld
<1> SUFFICES ASSUME Init PROVE SerialHeld
  OBVIOUS
<1>1. backlog["serial"] = <<>> /\ fifo["serial"].head = 0 /\ fifo["serial"].tail = 0
  BY DEF Init, fifo_init, U8, Dev
<1>2. 0 % QSize["serial"] = 0
  BY SizeAssumption DEF Dev
<1> QED
  BY <1>1, <1>2 DEF SerialHeld, Held

LEMMA HeldStep == Inductive /\ SerialHeld /\ [Next]_vars => SerialHeld'
<1> SUFFICES ASSUME Inductive, SerialHeld, [Next]_vars PROVE SerialHeld'
  OBVIOUS
<1> DEFINE d == "serial"
           q == QSize[d]
<1>1. RingsOK /\ BacklogOK /\ d \in Dev /\ backlog[d] \in Seq(Byte)
  BY DEF Inductive, TypeOK, BacklogOK, Dev
<1>2. /\ q \in 1..255 /\ fifo[d].head \in 0..(q - 1)
      /\ fifo[d].buf \in [0..(q - 1) -> Byte \cup {Garbage}] /\ fifo[d].free \in Nat
  BY <1>1, RingNumbers
<1>3. Held(fifo[d].buf, fifo[d].head, fifo[d].tail, q, backlog[d])
  BY DEF SerialHeld
<1>4. SerialHeld' <=> Held(fifo'[d].buf, fifo'[d].head, fifo'[d].tail, q, backlog'[d])
  BY DEF SerialHeld
<1> HIDE DEF d, q
<1>5. ASSUME fifo'[d].buf = fifo[d].buf, fifo'[d].head = fifo[d].head,
             fifo'[d].tail = fifo[d].tail, backlog'[d] = backlog[d]
      PROVE  SerialHeld'
  BY <1>3, <1>4, <1>5
<1>6. CASE UNCHANGED <<fifo, backlog>>
  BY <1>5, <1>6
<1>7. CASE init_fifos
  <2>1. backlog'[d] = <<>> /\ fifo'[d].head = 0 /\ fifo'[d].tail = 0
    BY <1>1, <1>7, InitFifosEffect
  <2>2. 0 % q = 0
    BY <1>2
  <2> QED
    BY <1>4, <2>1, <2>2 DEF Held
<1>8. CASE get_byte
  <2>1. CASE d = cur
    <3>1. /\ backlog[d] # <<>> /\ backlog'[d] = Tail(backlog[d])
          /\ fifo'[d].head = advance(fifo[d].head, q)
          /\ fifo'[d].tail = fifo[d].tail /\ fifo'[d].buf = fifo[d].buf
      BY <1>8, <2>1, GetByteEffect DEF q
    <3>2. Held(fifo[d].buf, advance(fifo[d].head, q), fifo[d].tail, q, Tail(backlog[d]))
      BY <1>1, <1>2, <1>3, <3>1, HeldGet
    <3> QED
      BY <1>4, <3>1, <3>2
  <2>2. CASE d # cur
    BY <1>1, <1>5, <1>8, <2>2, GetByteEffect
  <2> QED
    BY <2>1, <2>2
<1>9. CASE get_store
  <2>1. fifo'[d].buf = fifo[d].buf /\ fifo'[d].head = fifo[d].head
        /\ fifo'[d].tail = fifo[d].tail /\ backlog'[d] = backlog[d]
    <3>1. CASE d = cur
      BY <1>9, <3>1, GetStoreEffect
    <3>2. CASE d # cur
      BY <1>1, <1>9, <3>2, GetStoreEffect
    <3> QED
      BY <3>1, <3>2
  <2> QED
    BY <1>5, <2>1
<1>10. CASE Handler
  <2>1. PICK e \in Dev, b \in Byte : Enqueue(e, b) /\ fifo[e].size = QSize[e]
    BY <1>10, HandlerEffect
  <2>2. CASE e # d
    BY <1>1, <1>5, <2>1, <2>2, EnqueueEffect
  <2>3. CASE e = d /\ fifo[d].free = 0
    BY <1>1, <1>5, <2>1, <2>3, EnqueueEffect
  <2>4. CASE e = d /\ fifo[d].free > 0
    <3>1. /\ backlog'[d] = Append(backlog[d], b)
          /\ fifo'[d].buf = [fifo[d].buf EXCEPT ![fifo[d].tail] = b]
          /\ fifo'[d].tail = advance(fifo[d].tail, q)
          /\ fifo'[d].head = fifo[d].head
      BY <1>1, <2>1, <2>4, EnqueueEffect DEF q
    <3>2. Held([fifo[d].buf EXCEPT ![fifo[d].tail] = b], fifo[d].head,
               advance(fifo[d].tail, q), q, Append(backlog[d], b))
      BY <1>1, <1>2, <1>3, HeldPut
    <3> QED
      BY <1>4, <3>1, <3>2
  <2> QED
    BY <1>2, <2>2, <2>3, <2>4
<1> QED
  BY <1>6, <1>7, <1>8, <1>9, <1>10, RingFrame

\* The console gets its bytes in order for as long as it is at most a ring behind, for
\* rings of every size and any backlog, whatever interrupts hit fifo_get.
THEOREM SerialDelivered == Spec => SerialInOrder
<1> DEFINE Delivers == pc = "get" /\ cur = "serial" /\ pc' = "load_free"
                         /\ Len(backlog["serial"]) <= QSize["serial"]
                       => data'["serial"] = Head(backlog["serial"])
<1>1. Inductive /\ SerialHeld /\ [Next]_vars => [Delivers]_vars
  <2> SUFFICES ASSUME Inductive, SerialHeld, [Next]_vars,
                      pc = "get", cur = "serial", pc' = "load_free",
                      Len(backlog["serial"]) <= QSize["serial"]
               PROVE  data'["serial"] = Head(backlog["serial"])
    OBVIOUS
  <2>1. get_byte
    BY DEF Next, Thread, Boot, Loop, Handlers, Devices, At, vars, cpu,
      init_gdtidt, init_pic, init_fifos, boot_sti, unmask_pic0, unmask_pic1, init_keyboard,
      enable_mouse, drawing, boot_stihlt, banner, loop_cli, poll, idle, serial_sti,
      get_load, get_store, got_sti, handle, inthandler21, inthandler24, inthandler2c, Serve,
      inthandler27, KbcOutput, UartReceive, UartTimeout
  <2>2. /\ RingsOK /\ "serial" \in Dev /\ backlog["serial"] \in Seq(Byte)
        /\ DOMAIN data = Dev
    BY DEF Inductive, TypeOK, BacklogOK, CpuOK, Dev
  <2>3. /\ backlog["serial"] # <<>>
        /\ data' = [data EXCEPT !["serial"] = head_byte(fifo["serial"])]
    BY <2>1, GetByteEffect
  <2>4. QSize["serial"] \in 1..255 /\ fifo["serial"].head \in 0..(QSize["serial"] - 1)
    BY <2>2, RingNumbers
  <2>5. fifo["serial"].buf[fifo["serial"].head] = Head(backlog["serial"])
    <3> DEFINE q == QSize["serial"]
               f == fifo["serial"]
               s == backlog["serial"]
    <3>1. /\ q \in 1..255 /\ f.head \in 0..(q - 1) /\ s \in Seq(Byte) /\ s # <<>>
          /\ Held(f.buf, f.head, f.tail, q, s) /\ Len(s) <= q
      BY <2>2, <2>3, <2>4 DEF SerialHeld
    <3> HIDE DEF q, f, s
    <3>2. f.buf[f.head] = Head(s)
      BY <3>1, HeldGet
    <3> QED
      BY <3>2 DEF f, s
  <2> QED
    BY <2>2, <2>3, <2>5 DEF head_byte
<1>2. Init => Inductive /\ SerialHeld
  BY InitInductive, InitHeld
<1>3. Inductive /\ SerialHeld /\ [Next]_vars => Inductive' /\ SerialHeld'
  BY InductiveStep, HeldStep
<1>4. SerialInOrder <=> [][Delivers]_vars
  BY DEF SerialInOrder
<1> QED
  BY <1>1, <1>2, <1>3, <1>4, PTL DEF Spec

\* A handler's byte enters its ring, unless as many bytes wait as the ring has slots.
LEMMA EntersRing ==
  ASSUME Inductive, NEW d \in Dev, fifo[d].size = QSize[d], NEW b \in Byte, Enqueue(d, b)
  PROVE  EntersOrFull(d, b)
<1>1. RingsOK /\ BacklogOK /\ Counted(d) /\ backlog[d] \in Seq(Byte)
  BY DEF Inductive, TypeOK, Counts, BacklogOK
<1>2. fifo[d].free \in Nat /\ QSize[d] \in 1..255
  BY <1>1, RingNumbers
<1>3. CASE fifo[d].free > 0
  BY <1>1, <1>3, EnqueueEffect DEF EntersOrFull
<1>4. CASE fifo[d].free = 0
  <2>1. backlog' = backlog /\ fifo'[d].flag = FIFO_FULL
    BY <1>1, <1>4, EnqueueEffect
  <2>2. Taken(d) \in {0, 1} /\ Occupied(d) = QSize[d] - Taken(d)
    BY <1>2, <1>4 DEF Occupied, fifo_status, Taken
  <2>3. Len(backlog[d]) + Taken(d) >= QSize[d]
    <3> DEFINE n == Len(backlog[d])
               t == Taken(d)
    <3>1. n \in Nat /\ t \in {0, 1} /\ QSize[d] - t <= n
      BY <1>1, <2>2 DEF Counted
    <3> HIDE DEF n, t
    <3>2. n + t >= QSize[d]
      BY <1>2, <3>1
    <3> QED
      BY <3>2 DEF n, t
  <2> QED
    BY <2>1, <2>3 DEF EntersOrFull
<1> QED
  BY <1>2, <1>3, <1>4

\* No byte is read from its device and lost while its ring has a slot for it: rings of
\* every size, any bytes, every interleaving.
THEOREM NothingDropped == Spec => NoNeedlessDrop
<1> DEFINE Enters == /\ obf.full /\ ~obf'.full => EntersOrFull(obf.src, obf.byte)
                     /\ Len(rx') < Len(rx) => EntersOrFull("serial", Head(rx))
<1>1. Inductive /\ [Next]_vars => [Enters]_vars
  <2> SUFFICES ASSUME Inductive, [Next]_vars PROVE Enters
    OBVIOUS
  <2>1. /\ ControllersAgree /\ DevicesOK /\ rx \in Seq(SerialBytes) /\ obf.byte \in Byte
        /\ DOMAIN obf = {"full", "src", "byte"} /\ obf.full \in BOOLEAN
    BY DEF Inductive, TypeOK, DevicesOK, Byte
  <2>2. CASE Thread \/ UNCHANGED vars
    <3>1. obf' = obf /\ rx' = rx
      BY <2>2 DEF Thread, Boot, Loop, vars, uart, init_gdtidt, init_pic, init_fifos, boot_sti,
        unmask_pic0, unmask_pic1, init_keyboard, enable_mouse, drawing, boot_stihlt, banner,
        loop_cli, poll, idle, serial_sti, get_byte, get_load, get_store, got_sti, handle
    <3> QED
      BY <2>1, <3>1
  <2>3. CASE Devices
    <3>1. (obf.full => obf' = obf) /\ (rx' = rx \/ \E b \in SerialBytes : rx' = Append(rx, b))
      BY <2>3 DEF Devices, KbcOutput, UartReceive, UartTimeout, uart
    <3>2. ~(Len(rx') < Len(rx))
      BY <2>1, <3>1
    <3> QED
      BY <2>1, <3>1, <3>2
  <2>4. ASSUME Handlers PROVE intr /\ \A d \in Dev : fifo[d].size = QSize[d]
    <3>1. intr
      BY <2>4, Zenon DEF Handlers, inthandler21, inthandler24, inthandler2c, inthandler27,
        Serve, Interrupt
    <3> QED
      BY <3>1 DEF Inductive, SetupOrder
  <2>5. CASE inthandler21
    <3>1. 1 \in irr /\ Enqueue("key", obf.byte) /\ rx' = rx
      BY <2>5 DEF inthandler21, Serve, ReadKbc, uart, Interrupt, Requested
    <3>2. obf.src = "key" /\ EntersOrFull("key", obf.byte)
      BY <2>1, <2>4, <2>5, <3>1, EntersRing DEF ControllersAgree, Handlers, Dev
    <3> QED
      BY <2>1, <3>1, <3>2
  <2>6. CASE inthandler2c
    <3>1. 12 \in irr /\ Enqueue("mouse", obf.byte) /\ rx' = rx
      BY <2>6 DEF inthandler2c, Serve, ReadKbc, uart, Interrupt, Requested
    <3>2. obf.src = "mouse" /\ EntersOrFull("mouse", obf.byte)
      BY <2>1, <2>4, <2>6, <3>1, EntersRing DEF ControllersAgree, Handlers, Dev
    <3> QED
      BY <2>1, <3>1, <3>2
  <2>7. CASE inthandler24
    <3>1. /\ Enqueue("serial", read_serial) /\ obf' = obf
          /\ rx' = IF rx # <<>> THEN Tail(rx) ELSE rx
      BY <2>7 DEF inthandler24, Serve, ReadUart
    <3>2. ASSUME Len(rx') < Len(rx) PROVE EntersOrFull("serial", Head(rx))
      <4>1. rx # <<>> /\ read_serial = Head(rx) /\ Head(rx) \in Byte
        BY <2>1, <3>1, <3>2 DEF read_serial, Byte
      <4> QED
        BY <2>4, <2>7, <3>1, <4>1, EntersRing DEF Handlers, Dev
    <3> QED
      BY <2>1, <3>1, <3>2
  <2>8. CASE inthandler27
    <3>1. obf' = obf /\ rx' = rx
      BY <2>8 DEF inthandler27, uart
    <3> QED
      BY <2>1, <3>1
  <2> QED
    BY <2>2, <2>3, <2>5, <2>6, <2>7, <2>8 DEF Next, Handlers
<1>2. NoNeedlessDrop <=> [][Enters]_vars
  BY DEF NoNeedlessDrop
<1> QED
  BY <1>1, <1>2, KernelInvariant, PTL DEF Spec
=============================================================================

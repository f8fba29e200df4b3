---------------------------- MODULE MemMapProofs ----------------------------
(***************************************************************************)
(* Proofs about MemMap, for firmware lists of any length: the table is the *)
(* list, the desktop draws it whole, and paging memory ends where the last *)
(* usable block does.                                                      *)
(***************************************************************************)
EXTENDS MemMap, TLAPS, FiniteSetTheorems, WellFoundedInduction

\* Where the firmware's list is copied to.
Reading ==
  /\ pc \in {"first", "get_next", "mem_init", "walk", "done"}
  /\ e820 \in Firmware /\ table \in Seq(Block)
  /\ pc = "first" => table = <<>> /\ ebx = 0
  /\ pc = "get_next" => ebx \in 1..(Len(e820) - 1) /\ table = SubSeq(e820, 1, ebx)
  /\ pc \notin {"first", "get_next"} => table = e820

\* The usable entries before this one.
Before == {n \in Usable : n < entry}

\* What drawing_mem_map has done with the entries before this one: drawn them, counted
\* the usable ones, and summed them up unless a store has gone behind free_memory.
Walking ==
  /\ entry \in 1..(Len(e820) + 1)
  /\ pc \notin {"walk", "done"} => entry = 1
  /\ pc = "done" => entry = Len(e820) + 1
  /\ drawn = [n \in 1..(entry - 1) |-> Row(n)]
  /\ i \in Nat /\ (pc # "done" => i = Cardinality(Before))
  /\ max_free_mem \in 0..(Word - 1)
  /\ Fit => max_free_mem = UsableBytes[entry - 1] % Word

\* What it has kept of them: a block each, in order, as long as there is room.
Kept ==
  /\ free_memory \in [0..(MAX_FREE_MEM_BLOCK - 1) -> Nat \X Nat]
  /\ max_paging_mem \in 0..(Word - 1)
  /\ pc # "done" => \A k \in 0..(MAX_FREE_MEM_BLOCK - 1) : k >= i => free_memory[k] = <<0, 0>>
  /\ pc = "done" /\ Fewer => i < MAX_FREE_MEM_BLOCK

\* In a list as PagingTop asks for it, none of them is empty, and the last one kept is
\* the last usable one.
LastKept(n) == /\ n \in Before /\ \A m \in Before : m <= n
               /\ i >= 1 /\ free_memory[i - 1] = <<e820[n].base, e820[n].length>>
Tops ==
  Plain => /\ pc # "done" => /\ \A k \in 0..(i - 1) : free_memory[k][2] # 0
                             /\ Before # {} => \E n \in Before : LastKept(n)
           /\ pc = "done" => \E n \in Usable : /\ \A m \in Usable : m <= n
                                               /\ max_paging_mem = End32(e820[n])

-----------------------------------------------------------------------------
(* The operators of the model.                                             *)

\* A set of natural numbers has a least element.
LEMMA Least ==
  ASSUME NEW T \in SUBSET Nat, T # {}
  PROVE  \E m \in T : \A n \in T : m <= n
<1> DEFINE R == OpToRel(<, Nat)
<1>1. IsWellFoundedOn(R, Nat)
  BY NatLessThanWellFounded
<1>2. \A x, y \in Nat : <<y, x>> \in R <=> y < x
  BY DEF OpToRel
<1> HIDE DEF R
<1>3. PICK x \in T : \A y \in T : ~ (<<y, x>> \in R)
  BY <1>1, WFMin
<1>4. \A y \in T : ~ (y < x)
  BY <1>2, <1>3
<1> QED
  BY <1>4

\* A list of the firmware is a sequence of blocks.
LEMMA Lists ==
  ASSUME NEW list \in Firmware
  PROVE  /\ list \in Seq(Block) /\ Len(list) \in Nat /\ Len(list) >= 2
         /\ \A n \in 1..Len(list) : list[n] \in Block
BY MapAssumption

\* The sum of the first n usable lengths can be computed entry by entry.
LEMMA UsableBytesDef ==
  ASSUME e820 \in Firmware
  PROVE  /\ UsableBytes[0] = 0
         /\ \A n \in 1..Len(e820) :
              UsableBytes[n] = UsableBytes[n - 1] + IF n \in Usable THEN e820[n].length ELSE 0
         /\ \A n \in 0..Len(e820) : UsableBytes[n] \in Nat
<1> DEFINE N == Len(e820)
           Add(n) == IF n \in Usable THEN e820[n].length ELSE 0
           Sums(f, m) == /\ f[0] = 0 
                         /\ \A n \in 1..m : f[n] = f[n - 1] + Add(n)
           Good == {m \in Nat : m <= N => \E f \in [0..N -> Nat] : Sums(f, m)}
<1>1. N \in Nat /\ \A n \in 1..N : Add(n) \in Nat
  BY Lists DEF Usable, Block
<1> HIDE DEF N, Add
<1>2. 0 \in Good
  <2>1. [n \in 0..N |-> 0] \in [0..N -> Nat] /\ Sums([n \in 0..N |-> 0], 0)
    BY <1>1
  <2> QED
    BY <2>1
<1>3. ASSUME NEW m \in Good, m + 1 <= N PROVE \E f \in [0..N -> Nat] : Sums(f, m + 1)
  <2>1. PICK f \in [0..N -> Nat] : Sums(f, m)
    BY <1>1, <1>3
  <2> DEFINE g == [f EXCEPT ![m + 1] = f[m] + Add(m + 1)]
  <2>2. m \in 0..N /\ m + 1 \in 1..N
    BY <1>1, <1>3
  <2>3. g \in [0..N -> Nat]
    BY <1>1, <2>1, <2>2
  <2>4. g[0] = 0
    BY <1>1, <2>1, <2>2
  <2>5. ASSUME NEW n \in 1..(m + 1) PROVE g[n] = g[n - 1] + Add(n)
    <3>1. n - 1 \in 0..N /\ n \in 0..N /\ n - 1 # m + 1 /\ m \in Nat
      BY <1>1, <2>2
    <3>2. g[n - 1] = f[n - 1]
      BY <3>1, <2>1
    <3>3. CASE n = m + 1
      BY <3>2, <3>3, <2>1, <2>2
    <3>4. CASE n # m + 1
      BY <3>1, <3>2, <3>4, <2>1
    <3> QED
      BY <3>3, <3>4
  <2> QED
    BY <2>3, <2>4, <2>5
<1>4. Nat \subseteq Good
  <2> SUFFICES ASSUME Nat \ Good # {} PROVE FALSE
    OBVIOUS
  <2>1. PICK m \in Nat \ Good : \A n \in Nat \ Good : m <= n
    BY Least
  <2>2. m # 0 /\ m - 1 \in Nat
    BY <1>2, <2>1
  <2>3. m - 1 \in Good
    BY <2>1, <2>2
  <2>4. (m - 1) + 1 = m
    BY <2>1
  <2>5. m <= N => \E f \in [0..N -> Nat] : Sums(f, m)
    BY <1>3, <2>3, <2>4
  <2>6. m \in Good
    BY <2>1, <2>5
  <2> QED
    BY <2>1, <2>6
<1>5. PICK f \in [0..N -> Nat] : Sums(f, N)
  BY <1>1, <1>4
<1>6. f = [n \in 0..N |-> IF n = 0 THEN 0 ELSE f[n - 1] + Add(n)]
  BY <1>1, <1>5
<1>7. UsableBytes = [n \in 0..N |-> IF n = 0 THEN 0 ELSE UsableBytes[n - 1] + Add(n)]
  BY <1>6 DEF UsableBytes, N, Add
<1>8. UsableBytes[0] = 0 /\ \A n \in 1..N : UsableBytes[n] = UsableBytes[n - 1] + Add(n)
  BY <1>1, <1>7
<1> DEFINE Typed == {m \in Nat : m <= N => UsableBytes[m] \in Nat}
<1>9. ASSUME NEW m \in Nat PROVE m \in Typed
  <2> SUFFICES ASSUME Nat \ Typed # {} PROVE FALSE
    OBVIOUS
  <2>1. PICK k \in Nat \ Typed : \A n \in Nat \ Typed : k <= n
    BY Least
  <2>2. k # 0 /\ k - 1 \in Nat /\ k <= N
    BY <1>8, <2>1
  <2>3. UsableBytes[k - 1] \in Nat
    BY <2>1, <2>2, <1>1
  <2>4. UsableBytes[k] \in Nat
    BY <1>1, <1>8, <2>2, <2>3
  <2> QED
    BY <2>1, <2>4
<1> QED
  BY <1>1, <1>8, <1>9 DEF N, Add

\* Adding whole multiples changes no remainder.
LEMMA ModShift ==
  ASSUME NEW z \in Nat, NEW s \in Nat, NEW w \in Nat \ {0}
  PROVE  (w * s + z) % w = z % w
<1> DEFINE n == w * s + z
           k == z \div w
           m == z % w
           l == n \div w
           p == n % w
           d == s + k - l
<1>1. n \in Nat
  OBVIOUS
<1>2. z = w * k + m /\ k \in Nat /\ m \in 0..(w - 1)
  OBVIOUS
<1> HIDE DEF k, m
<1>3. n = w * l + p /\ l \in Nat /\ p \in 0..(w - 1)
  <2> HIDE DEF n
  <2> QED
    BY <1>1
<1> HIDE DEF l, p
<1>4. w * d = p - m
  <2>1. w * s + w * k + m = w * l + p
    BY <1>2, <1>3
  <2>2. w * d = w * s + w * k - w * l
    BY <1>2, <1>3
  <2>3. w * s \in Int /\ w * k \in Int /\ w * l \in Int
    BY <1>2, <1>3
  <2> QED
    BY <1>2, <1>3, <2>1, <2>2, <2>3
<1>5. d \in Int
  BY <1>2, <1>3
<1> HIDE DEF d
<1>6. d >= 1 => w * d >= w
  BY <1>5
<1>7. d <= -1 => w * d <= -w
  BY <1>5
<1>8. d = 0
  BY <1>2, <1>3, <1>4, <1>5, <1>6, <1>7
<1>9. p = m
  BY <1>2, <1>3, <1>4, <1>8
<1> QED
  BY <1>9 DEF p, m

\* Adding up modulo the width of an int, as the C code does, loses nothing.
LEMMA ModAdd ==
  ASSUME NEW a \in Nat, NEW b \in Nat, NEW w \in Nat \ {0}
  PROVE  ((a % w) + (b % w)) % w = (a + b) % w
<1> DEFINE q == a \div w
           r == b \div w
           x == a % w
           y == b % w
<1>1. q \in Nat /\ r \in Nat /\ x \in 0..(w - 1) /\ y \in 0..(w - 1)
  OBVIOUS
<1>2. a = w * q + x /\ b = w * r + y
  OBVIOUS
<1> HIDE DEF q, r, x, y
<1>3. (w * (q + r) + (x + y)) % w = (x + y) % w
  <2>1. \A z, s \in Nat : (w * s + z) % w = z % w
    BY ModShift
  <2>2. q + r \in Nat /\ x + y \in Nat
    BY <1>1
  <2> QED
    BY <2>1, <2>2, Zenon
<1>4. a + b = w * (q + r) + (x + y)
  <2>1. w * (q + r) = w * q + w * r
    BY <1>1
  <2> QED
    BY <1>1, <1>2, <2>1
<1> QED
  BY <1>3, <1>4 DEF x, y

\* The table as the C code reads it, once it is complete: an entry, or the end mark.
LEMMA Reads ==
  ASSUME Reading, pc \notin {"first", "get_next"}, entry \in 1..(Len(e820) + 1)
  PROVE  /\ At(entry).type = 0 <=> entry = Len(e820) + 1
         /\ entry <= Len(e820) =>
              /\ At(entry).type = e820[entry].type
              /\ At(entry).base = e820[entry].base % Word
              /\ At(entry).length = e820[entry].length % Word
<1>1. Len(e820) \in Nat /\ \A n \in 1..Len(e820) : e820[n] \in Block
  BY Lists DEF Reading
<1>2. CASE entry <= Len(e820)
  <2>1. entry \in 1..Len(e820) /\ e820[entry] \in Block /\ table = e820
    BY <1>1, <1>2 DEF Reading
  <2>2. At(entry) = [e820[entry] EXCEPT !.base = @ % Word, !.length = @ % Word]
    BY <1>2, <2>1 DEF At
  <2>3. /\ At(entry).type = e820[entry].type
        /\ At(entry).base = e820[entry].base % Word
        /\ At(entry).length = e820[entry].length % Word
    BY <2>1, <2>2 DEF Block
  <2>4. e820[entry].type # 0
    BY <2>1 DEF Block
  <2> QED
    BY <1>1, <1>2, <2>3, <2>4
<1>3. CASE ~(entry <= Len(e820))
  <2>1. entry = Len(e820) + 1 /\ table = e820
    BY <1>1, <1>3 DEF Reading
  <2>2. At(entry) = EndMark
    BY <1>1, <2>1 DEF At
  <2> QED
    BY <1>1, <2>1, <2>2 DEF EndMark
<1> QED
  BY <1>2, <1>3

-----------------------------------------------------------------------------
(* The table.                                                              *)

LEMMA InitReading == Init => Reading
BY DEF Init, Reading

\* int 15h stores one entry more.
LEMMA StepReading == Reading /\ [Next]_vars => Reading'
<1> SUFFICES ASSUME Reading, [Next]_vars PROVE Reading'
  OBVIOUS
<1>1. e820' = e820 /\ e820 \in Seq(Block) /\ Len(e820) \in Nat /\ Len(e820) >= 2
  BY Lists DEF Reading, Next, first_call, get_next, int15, mem_init, walk_free, walk_reserved, find_top, vars
<1>2. CASE first_call
  <2>1. table' = Append(<<>>, e820[1]) /\ ebx' = 1 /\ pc' = "get_next"
    BY <1>1, <1>2 DEF Reading, first_call, int15
  <2>2. e820[1] \in Block
    BY <1>1
  <2>3. Append(<<>>, e820[1]) = SubSeq(e820, 1, 1)
    BY <1>1, <2>2
  <2> QED
    BY <1>1, <2>1, <2>2, <2>3 DEF Reading
<1>3. CASE get_next
  <2>1. ebx \in 1..(Len(e820) - 1) /\ table' = Append(SubSeq(e820, 1, ebx), e820[ebx + 1])
    BY <1>3 DEF Reading, get_next, int15
  <2>2. e820[ebx + 1] \in Block /\ SubSeq(e820, 1, ebx) \in Seq(Block)
    BY <1>1, <2>1
  <2>3. Append(SubSeq(e820, 1, ebx), e820[ebx + 1]) = SubSeq(e820, 1, ebx + 1)
    BY <1>1, <2>1, <2>2
  <2>4. CASE ebx + 1 < Len(e820)
    <3>1. ebx' = ebx + 1 /\ pc' = "get_next"
      BY <1>1, <1>3, <2>1, <2>4 DEF get_next, int15
    <3> QED
      BY <1>1, <2>1, <2>2, <2>3, <2>4, <3>1 DEF Reading
  <2>5. CASE ~(ebx + 1 < Len(e820))
    <3>1. ebx' = 0 /\ pc' = "mem_init" /\ ebx + 1 = Len(e820)
      BY <1>1, <1>3, <2>1, <2>5 DEF get_next, int15
    <3>2. SubSeq(e820, 1, Len(e820)) = e820
      BY <1>1
    <3> QED
      BY <1>1, <2>1, <2>3, <3>1, <3>2 DEF Reading
  <2> QED
    BY <2>4, <2>5
<1>4. CASE mem_init \/ walk_free \/ walk_reserved \/ find_top
  BY <1>4 DEF Reading, mem_init, walk_free, walk_reserved, find_top
<1>5. CASE UNCHANGED vars
  BY <1>5 DEF Reading, vars
<1> QED
  BY <1>2, <1>3, <1>4, <1>5 DEF Next

\* Every entry of the firmware's list reaches the table, in order and once, for lists
\* of any length from two on.
THEOREM WholeTable == Spec => []TableComplete
<1>1. Reading => TableComplete
  BY DEF Reading, TableComplete
<1> QED
  BY <1>1, InitReading, StepReading, PTL DEF Spec

-----------------------------------------------------------------------------
(* The walk.                                                               *)

\* The usable entries are finitely many, and those before this one no more.
LEMMA BeforeFinite ==
  ASSUME Reading
  PROVE  /\ IsFiniteSet(Usable) /\ Cardinality(Usable) \in Nat
         /\ IsFiniteSet(Before) /\ Cardinality(Before) \in Nat
         /\ Cardinality(Before) <= Cardinality(Usable)
<1>1. IsFiniteSet(1..Len(e820))
  BY FS_Interval, Lists DEF Reading
<1>2. IsFiniteSet(Usable)
  BY <1>1, FS_Subset DEF Usable
<1>3. IsFiniteSet(Before) /\ Cardinality(Before) <= Cardinality(Usable)
  BY <1>2, FS_Subset DEF Before
<1>4. Cardinality(Before) \in Nat /\ Cardinality(Usable) \in Nat
  BY <1>2, <1>3, FS_CardinalityType
<1> QED
  BY <1>2, <1>3, <1>4

\* A usable block is one more, and one of those that i had not counted.
LEMMA FreeBefore ==
  ASSUME Reading, Walking, walk_free
  PROVE  /\ entry \in Usable /\ Before' = Before \cup {entry} /\ entry \notin Before
         /\ i' = i + 1 /\ Cardinality(Before') = i' /\ i < Cardinality(Usable)
         /\ At(entry).base = e820[entry].base % Word /\ At(entry).length = e820[entry].length % Word
         /\ At(entry).base \in 0..(Word - 1) /\ At(entry).length \in 0..(Word - 1)
<1>1. /\ e820' = e820 /\ pc = "walk" /\ entry' = entry + 1 /\ i' = i + 1 /\ i \in Nat
      /\ At(entry).type = 1 /\ Len(e820) \in Nat /\ entry \in 1..(Len(e820) + 1)
  BY Lists DEF Reading, Walking, walk_free
<1>2. entry \in 1..Len(e820) /\ e820[entry].type = 1
  BY <1>1, Reads
<1>3. entry \in Usable
  BY <1>2 DEF Usable
<1>4. Before' = Before \cup {entry} /\ entry \notin Before
  BY <1>1, <1>2, <1>3 DEF Before, Usable
<1>5. Cardinality(Before) = i
  BY <1>1 DEF Walking
<1>6. Cardinality(Before \cup {entry}) = i + 1
  BY <1>4, <1>5, BeforeFinite, FS_AddElement
<1>7. i < Cardinality(Usable)
  <2>1. Before \cup {entry} \subseteq Usable
    BY <1>3 DEF Before
  <2>2. Cardinality(Before \cup {entry}) <= Cardinality(Usable)
    BY <2>1, BeforeFinite, FS_Subset
  <2> QED
    BY <1>1, <1>6, <2>2, BeforeFinite
<1>8. /\ At(entry).base = e820[entry].base % Word /\ At(entry).length = e820[entry].length % Word
      /\ e820[entry] \in Block
  <2>1. entry <= Len(e820) /\ pc \notin {"first", "get_next"}
    BY <1>1, <1>2
  <2>2. /\ At(entry).base = e820[entry].base % Word /\ At(entry).length = e820[entry].length % Word
    BY <1>1, <2>1, Reads
  <2>3. e820[entry] \in Block
    BY <1>2, Lists DEF Reading
  <2> QED
    BY <2>2, <2>3
<1>9. At(entry).base \in 0..(Word - 1) /\ At(entry).length \in 0..(Word - 1)
  <2>1. \A x \in Nat : x % Word \in 0..(Word - 1)
    BY MapAssumption
  <2>2. e820[entry].base \in Nat /\ e820[entry].length \in Nat
    BY <1>8 DEF Block
  <2> QED
    BY <1>8, <2>1, <2>2
<1> QED
  BY <1>1, <1>3, <1>4, <1>6, <1>7, <1>8, <1>9

\* No other step finds a usable block.
LEMMA SameBefore ==
  ASSUME Reading, Walking, [Next]_vars, ~ walk_free
  PROVE  e820' = e820 /\ Usable' = Usable /\ Before' = Before
<1>1. CASE walk_reserved
  <2>1. entry \notin Usable /\ entry' = entry + 1 /\ e820' = e820
    BY <1>1, Reads DEF walk_reserved, Usable, Walking
  <2>2. entry \in Nat /\ \A n \in Usable : n \in Nat
    BY Lists DEF Walking, Usable, Reading
  <2>3. Usable' = Usable
    BY <2>1 DEF Usable
  <2> QED
    BY <2>1, <2>2, <2>3 DEF Before
<1>2. CASE first_call \/ get_next \/ mem_init \/ find_top \/ UNCHANGED vars
  <2>1. e820' = e820 /\ entry' = entry
    BY <1>2 DEF first_call, get_next, int15, mem_init, find_top, vars
  <2> QED
    BY <2>1 DEF Before, Usable
<1> QED
  BY <1>1, <1>2 DEF Next

LEMMA InitWalking == Init => Walking
<1> SUFFICES ASSUME Init PROVE Walking
  OBVIOUS
<1>1. Len(e820) \in Nat /\ UsableBytes[0] = 0
  BY Lists, UsableBytesDef DEF Init
<1>2. 0 % Word = 0 /\ 0 \in 0..(Word - 1)
  BY MapAssumption
<1>3. [n \in 1..(entry - 1) |-> Row(n)] = <<>>
  BY DEF Init
<1>4. entry - 1 = 0
  BY DEF Init
<1>5. Before = {} /\ Cardinality({}) = 0
  BY Lists, FS_EmptySet DEF Init, Before, Usable
<1> QED
  BY <1>1, <1>2, <1>3, <1>4, <1>5 DEF Init, Walking

\* Drawing an entry adds its row and, if it is usable and kept, its length.
LEMMA DrawWalking ==
  ASSUME Reading, Walking, walk_free \/ walk_reserved
  PROVE  Walking'
<1>1. /\ e820 \in Firmware /\ Len(e820) \in Nat /\ e820' = e820 /\ table' = table
      /\ pc = "walk" /\ pc' = "walk" /\ entry' = entry + 1 /\ drawn' = Append(drawn, Row(entry))
  BY Lists DEF Reading, walk_free, walk_reserved
<1>2. entry \in 1..Len(e820)
  <2>1. At(entry).type # 0
    BY DEF walk_free, walk_reserved
  <2> QED
    BY <1>1, <2>1, Reads DEF Walking
<1>3. drawn' = [n \in 1..(entry' - 1) |-> Row(n)']
  <2>1. \A n : Row(n)' = Row(n)
    BY <1>1 DEF Row, At
  <2>2. drawn = [n \in 1..(entry - 1) |-> Row(n)]
    BY DEF Walking
  <2>3. Append(drawn, Row(entry)) = [n \in 1..entry |-> Row(n)]
    BY <1>2, <2>2
  <2> QED
    BY <1>1, <1>2, <2>1, <2>3
<1>4. UsableBytes' = UsableBytes /\ Fit' = Fit
  BY <1>1 DEF UsableBytes, Usable, Fit
<1>5. i' \in Nat /\ i' = Cardinality(Before')
  <2>1. CASE walk_free
    BY <2>1, FreeBefore DEF Walking
  <2>2. CASE walk_reserved
    <3>1. ~ walk_free /\ [Next]_vars /\ i' = i
      BY <2>2 DEF walk_free, walk_reserved, Next
    <3> QED
      BY <1>1, <3>1, SameBefore DEF Walking
  <2> QED
    BY <2>1, <2>2
<1>6. max_free_mem' \in 0..(Word - 1)
  <2>1. CASE walk_free
    <3>1. At(entry).base \in Nat /\ At(entry).length \in Nat /\ max_free_mem \in Nat
      BY <2>1, FreeBefore, MapAssumption DEF Walking
    <3>2. \E sum \in {max_free_mem, At(entry).base, At(entry).length} :
            max_free_mem' = Total(sum, At(entry).length)
      BY <2>1 DEF walk_free, store, store_behind
    <3> QED
      BY <3>1, <3>2, MapAssumption DEF Total
  <2>2. CASE walk_reserved
    BY <2>2 DEF walk_reserved, Walking
  <2> QED
    BY <2>1, <2>2
<1>7. Fit => max_free_mem' = UsableBytes[entry] % Word
  <2> SUFFICES ASSUME Fit PROVE max_free_mem' = UsableBytes[entry] % Word
    OBVIOUS
  <2> DEFINE length == e820[entry].length
  <2>1. length \in Nat /\ UsableBytes[entry - 1] \in Nat /\ Word \in Nat \ {0}
    BY <1>1, <1>2, UsableBytesDef, Lists, MapAssumption DEF Block
  <2>2. max_free_mem = UsableBytes[entry - 1] % Word
    BY DEF Walking
  <2>3. UsableBytes[entry] = UsableBytes[entry - 1] + IF entry \in Usable THEN length ELSE 0
    BY <1>1, <1>2, UsableBytesDef
  <2>4. CASE walk_free
    <3>1. entry \in Usable /\ At(entry).length = length % Word /\ i < Cardinality(Usable)
      BY <2>4, FreeBefore
    <3>2. i < MAX_FREE_MEM_BLOCK
      BY <3>1, BeforeFinite, MapAssumption DEF Fit, Walking
    <3>3. max_free_mem' = (max_free_mem + (length % Word)) % Word
      BY <2>4, <3>1, <3>2, MapAssumption DEF walk_free, store, store_behind, Total, Walking
    <3> QED
      BY <2>1, <2>2, <2>3, <3>1, <3>3, ModAdd
  <2>5. CASE walk_reserved
    <3>1. entry \notin Usable
      BY <1>1, <1>2, <2>5, Reads DEF walk_reserved, Usable
    <3>2. max_free_mem' = max_free_mem
      BY <2>5 DEF walk_reserved
    <3> QED
      BY <2>1, <2>2, <2>3, <3>1, <3>2
  <2> QED
    BY <2>4, <2>5
<1>8. entry' - 1 = entry
  BY <1>1, <1>2
<1> QED
  BY <1>1, <1>2, <1>3, <1>4, <1>5, <1>6, <1>7, <1>8 DEF Walking

\* Nothing else moves the walk on; it ends at the end mark.
LEMMA StepWalking == Reading /\ Walking /\ [Next]_vars => Walking'
<1> SUFFICES ASSUME Reading, Walking, [Next]_vars PROVE Walking'
  OBVIOUS
<1>1. CASE walk_free \/ walk_reserved
  BY <1>1, DrawWalking
<1> SUFFICES ASSUME ~ (walk_free \/ walk_reserved) PROVE Walking'
  BY <1>1
<1>2. Before' = Before /\ Usable' = Usable /\ e820' = e820
  BY SameBefore
<1>3. UsableBytes' = UsableBytes /\ Fit' = Fit
  BY <1>2 DEF UsableBytes, Fit
<1>4. CASE first_call \/ get_next \/ mem_init
  <2>1. /\ UNCHANGED <<entry, drawn, max_free_mem, i>> /\ entry = 1
        /\ pc \notin {"walk", "done"} /\ pc' # "done"
    BY <1>4 DEF Walking, first_call, get_next, int15, mem_init
  <2>2. [n \in 1..(entry - 1) |-> Row(n)] = <<>> /\ [n \in 1..(entry' - 1) |-> Row(n)'] = <<>>
    BY <2>1
  <2> QED
    BY <1>2, <1>3, <2>1, <2>2 DEF Walking
<1>5. CASE find_top \/ UNCHANGED vars
  <2>1. UNCHANGED <<entry, table, drawn, max_free_mem>>
    BY <1>5 DEF find_top, vars
  <2>2. [n \in 1..(entry - 1) |-> Row(n)] = [n \in 1..(entry' - 1) |-> Row(n)']
    BY <1>2, <2>1 DEF Row, At
  <2>3. /\ pc' = "done" => entry = Len(e820) + 1
        /\ i' \in Nat /\ (pc' # "done" => i' = Cardinality(Before))
    <3>1. CASE find_top
      <4>1. i' \in FirstZero /\ pc' = "done" /\ pc = "walk" /\ At(entry).type = 0
        BY <3>1 DEF find_top
      <4>2. \A k \in FirstZero : k \in Nat
        BY MapAssumption DEF FirstZero, Zeros
      <4> QED
        BY <4>1, <4>2, Reads DEF Walking
    <3>2. CASE UNCHANGED vars
      BY <3>2 DEF Walking, vars
    <3> QED
      BY <1>5, <3>1, <3>2
  <2>4. pc' \in {"walk", "done"} \/ pc' = pc
    BY <1>5 DEF find_top, vars
  <2> QED
    BY <1>2, <1>3, <2>1, <2>2, <2>3, <2>4 DEF Walking
<1> QED
  BY <1>4, <1>5 DEF Next

\* Once the walk has ended, the rows that e820 prints are those of the whole list.
LEMMA AllRows ==
  ASSUME Reading, Walking, pc = "done"
  PROVE  e820_rows = [n \in 1..Len(e820) |-> Row(n)]
<1>1. Len(e820) \in Nat /\ table = e820 /\ \A n \in 1..Len(e820) : e820[n] \in Block
  BY Lists DEF Reading
<1>2. At(Len(e820) + 1).type = 0
  BY <1>1 DEF At, EndMark
<1>3. ASSUME NEW n \in 1..Len(e820) PROVE At(n).type # 0
  BY <1>1 DEF At, Block
<1> DEFINE Ends(k) == /\ At(k).type = 0
                      /\ \A j \in 1..(k - 1) : At(j).type # 0
<1>4. \A k \in 1..(Len(table) + 1) : Ends(k) <=> k = Len(e820) + 1
  <2>1. Ends(Len(e820) + 1)
    BY <1>1, <1>2, <1>3
  <2>2. ASSUME NEW k \in 1..(Len(table) + 1), Ends(k) PROVE k = Len(e820) + 1
    BY <1>1, <1>3, <2>2
  <2> QED
    BY <2>1, <2>2
<1>5. Len(e820) + 1 \in 1..(Len(table) + 1)
  BY <1>1
<1> HIDE DEF Ends
<1>6. (CHOOSE k \in 1..(Len(table) + 1) : Ends(k)) = Len(e820) + 1
  BY <1>4, <1>5
<1>7. e820_rows = [n \in 1..((Len(e820) + 1) - 1) |-> Row(n)]
  BY <1>6, Zenon DEF e820_rows, Ends
<1>8. (Len(e820) + 1) - 1 = Len(e820)
  BY <1>1
<1> QED
  BY <1>7, <1>8, Zenon

\* For a list of any length, the desktop shows a row for each entry, the rows e820
\* prints, even if there are more usable blocks than free_memory has entries; if there are
\* not, it shows the bytes of the usable entries, as many as an int can hold.
THEOREM WholeMapDrawn == Spec => []DrawnRight
<1>1. Reading /\ Walking => DrawnRight
  <2> SUFFICES ASSUME Reading, Walking, pc = "done" PROVE DrawnRight
    BY DEF DrawnRight
  <2>1. Len(e820) \in Nat /\ entry - 1 = Len(e820)
    BY Lists DEF Reading, Walking
  <2>2. /\ drawn = [n \in 1..Len(e820) |-> Row(n)]
        /\ Fit => max_free_mem = UsableBytes[Len(e820)] % Word
    BY <2>1 DEF Walking
  <2>3. Len(drawn) = Len(e820)
    BY <2>1, <2>2
  <2> QED
    BY <2>2, <2>3, AllRows DEF DrawnRight
<1> QED
  BY <1>1, InitReading, StepReading, InitWalking, StepWalking, PTL DEF Spec

-----------------------------------------------------------------------------
(* The free blocks.                                                        *)

LEMMA InitKept == Init => Kept
BY MapAssumption DEF Init, Kept

\* With an entry left, the search for a zero ends within free_memory.
LEMMA ZeroLeft ==
  ASSUME Reading, Walking, Kept, Fewer, pc # "done"
  PROVE  i \in Zeros /\ \A k \in FirstZero : k \in Zeros /\ k <= i
<1>1. i \in 0..(MAX_FREE_MEM_BLOCK - 1)
  BY BeforeFinite, MapAssumption DEF Walking, Fewer
<1>2. free_memory[i] = <<0, 0>>
  BY <1>1 DEF Kept
<1>3. i \in Zeros
  BY <1>1, <1>2 DEF Zeros
<1> QED
  BY <1>3 DEF FirstZero

LEMMA StepKept == Reading /\ Walking /\ Kept /\ [Next]_vars => Kept'
<1> SUFFICES ASSUME Reading, Walking, Kept, [Next]_vars PROVE Kept'
  OBVIOUS
<1>1. CASE walk_free
  <2>1. At(entry).base \in Nat /\ At(entry).length \in Nat /\ pc' = "walk" /\ pc = "walk"
        /\ i' = i + 1 /\ i \in Nat /\ max_paging_mem' = max_paging_mem
    BY <1>1, FreeBefore, MapAssumption DEF walk_free, Walking
  <2>2. CASE store(At(entry).base, At(entry).length)
    <3>1. free_memory' = [free_memory EXCEPT ![i] = <<At(entry).base, At(entry).length>>]
      BY <2>2 DEF store
    <3>2. free_memory' \in [0..(MAX_FREE_MEM_BLOCK - 1) -> Nat \X Nat]
      BY <2>1, <3>1 DEF Kept
    <3>3. \A k \in 0..(MAX_FREE_MEM_BLOCK - 1) : k >= i' => free_memory'[k] = <<0, 0>>
      BY <2>1, <3>1, MapAssumption DEF Kept
    <3> QED
      BY <2>1, <3>2, <3>3 DEF Kept
  <2>3. CASE store_behind(At(entry).base, At(entry).length)
    <3>1. free_memory' = free_memory /\ i >= MAX_FREE_MEM_BLOCK
      BY <2>3 DEF store_behind
    <3>2. \A k \in 0..(MAX_FREE_MEM_BLOCK - 1) : ~ (k >= i')
      BY <2>1, <3>1, MapAssumption
    <3> QED
      BY <2>1, <3>1, <3>2 DEF Kept
  <2> QED
    BY <1>1, <2>2, <2>3 DEF walk_free
<1> SUFFICES ASSUME ~ walk_free PROVE Kept'
  BY <1>1
<1>2. Usable' = Usable /\ Fewer' = Fewer
  BY SameBefore DEF Fewer
<1>3. CASE find_top
  <2>1. pc = "walk" /\ pc' = "done" /\ i' \in FirstZero /\ free_memory' = free_memory
    BY <1>3 DEF find_top
  <2>2. Fewer => i' < MAX_FREE_MEM_BLOCK
    BY <2>1, ZeroLeft, MapAssumption DEF Zeros
  <2>3. max_paging_mem' \in 0..(Word - 1)
    <3>1. CASE i' - 1 \in DOMAIN free_memory
      <4>1. free_memory[i' - 1] \in Nat \X Nat
        BY <3>1 DEF Kept
      <4>2. max_paging_mem' = End(free_memory[i' - 1])
        BY <1>3, <3>1 DEF find_top
      <4> QED
        BY <4>1, <4>2, MapAssumption DEF End
    <3>2. CASE ~ (i' - 1 \in DOMAIN free_memory)
      BY <1>3, <3>2 DEF find_top, Anything
    <3> QED
      BY <3>1, <3>2
  <2> QED
    BY <1>2, <2>1, <2>2, <2>3 DEF Kept
<1>4. CASE first_call \/ get_next \/ mem_init \/ walk_reserved \/ UNCHANGED vars
  <2>1. /\ UNCHANGED <<free_memory, max_paging_mem, i>>
        /\ pc' = "done" <=> pc = "done"
    BY <1>4 DEF first_call, get_next, int15, mem_init, walk_reserved, vars
  <2> QED
    BY <1>2, <2>1 DEF Kept
<1> QED
  BY <1>3, <1>4 DEF Next

\* No index passes what it indexes, for lists of any length; i only if there are as
\* many usable blocks as free_memory has entries, or more.
THEOREM MapTypeCorrect == Spec => []TypeOK
<1>1. Reading /\ Walking /\ Kept => TypeOK
  <2> SUFFICES ASSUME Reading, Walking, Kept PROVE TypeOK
    OBVIOUS
  <2>1. Len(e820) \in Nat /\ Len(table) <= Len(e820)
    <3>1. Len(e820) \in Nat /\ Len(e820) >= 2 /\ e820 \in Seq(Block)
      BY Lists DEF Reading
    <3> QED
      BY <3>1 DEF Reading
  <2>2. Fewer => i < MAX_FREE_MEM_BLOCK
    <3>1. CASE pc = "done"
      BY <3>1 DEF Kept
    <3>2. CASE pc # "done"
      <4>1. Fewer => i \in Zeros
        BY <3>2, ZeroLeft
      <4> QED
        BY <4>1, MapAssumption DEF Zeros
    <3> QED
      BY <3>1, <3>2
  <2> QED
    BY <2>1, <2>2 DEF TypeOK, Walking, Kept
<1> QED
  BY <1>1, InitReading, StepReading, InitWalking, StepWalking, InitKept, StepKept, PTL DEF Spec

-----------------------------------------------------------------------------
(* The end of paging memory.                                               *)

LEMMA InitTops == Init => Tops
<1> SUFFICES ASSUME Init PROVE Tops
  OBVIOUS
<1>1. Before = {}
  BY Lists DEF Init, Before, Usable
<1> QED
  BY <1>1 DEF Init, Tops

LEMMA StepTops == Reading /\ Walking /\ Kept /\ Tops /\ [Next]_vars => Tops'
<1> SUFFICES ASSUME Reading, Walking, Kept, Tops, [Next]_vars, Plain' PROVE Tops'
  BY DEF Tops
<1>1. e820' = e820 /\ Usable' = Usable /\ Plain
  <2>1. e820' = e820
    BY DEF Next, first_call, get_next, int15, mem_init, walk_free, walk_reserved, find_top, vars
  <2> QED
    BY <2>1 DEF Plain, Usable, Nonzero, Fewer, End32
<1>2. ASSUME NEW n \in Usable
      PROVE  /\ n \in 1..Len(e820) /\ e820[n].base \in Nat /\ e820[n].length \in Nat
             /\ e820[n].length # 0
             /\ e820[n].base % Word = e820[n].base /\ e820[n].length % Word = e820[n].length
             /\ End32(e820[n]) % Word = End32(e820[n])
  <2>1. n \in 1..Len(e820) /\ e820[n] \in Block /\ e820[n].length # 0 /\ End32(e820[n]) < Word
    BY <1>1, Lists DEF Usable, Reading, Plain, Nonzero
  <2>2. \A x \in Nat : x < Word => x % Word = x
    BY MapAssumption
  <2>3. /\ e820[n].base \in Nat /\ e820[n].length \in Nat /\ End32(e820[n]) \in Nat
        /\ e820[n].base < Word /\ e820[n].length < Word
    BY <2>1, MapAssumption DEF Block, End32
  <2> QED
    BY <2>1, <2>2, <2>3, Zenon
<1>3. CASE walk_free
  <2>1. /\ entry \in Usable /\ Before' = Before \cup {entry} /\ i' = i + 1
        /\ pc' = "walk" /\ pc # "done" /\ i \in 0..(MAX_FREE_MEM_BLOCK - 1)
    <3>1. i < Cardinality(Usable) /\ Cardinality(Usable) < MAX_FREE_MEM_BLOCK
      BY <1>1, <1>3, FreeBefore DEF Plain, Fewer
    <3> QED
      BY <1>3, <3>1, FreeBefore, BeforeFinite, MapAssumption DEF walk_free, Walking
  <2>2. free_memory' = [free_memory EXCEPT ![i] = <<e820[entry].base, e820[entry].length>>]
    <3>1. store(At(entry).base, At(entry).length)
      BY <1>3, <2>1, MapAssumption DEF walk_free, store_behind
    <3> QED
      BY <1>2, <1>3, <2>1, <3>1, FreeBefore DEF store
  <2>3. /\ free_memory'[i] = <<e820[entry].base, e820[entry].length>>
        /\ \A k \in 0..(i - 1) : free_memory'[k] = free_memory[k]
    BY <2>1, <2>2, MapAssumption DEF Kept
  <2>4. ASSUME NEW k \in 0..(i' - 1) PROVE free_memory'[k][2] # 0
    <3>1. k = i \/ k \in 0..(i - 1)
      BY <2>1
    <3>2. free_memory'[i][2] # 0
      BY <1>2, <2>1, <2>3
    <3> QED
      BY <1>1, <2>1, <2>3, <3>1, <3>2 DEF Tops
  <2>5. \A n : n = entry => LastKept(n)'
    <3>1. \A m \in Before : m <= entry
      BY Lists DEF Before, Walking, Usable, Reading
    <3>2. entry <= entry /\ i' >= 1 /\ i' - 1 = i
      BY <2>1 DEF Walking
    <3> QED
      BY <1>1, <2>1, <2>3, <3>1, <3>2 DEF LastKept
  <2>6. \E n \in Before' : LastKept(n)'
    BY <2>1, <2>5
  <2> QED
    BY <2>1, <2>4, <2>6 DEF Tops
<1>4. CASE find_top
  <2>1. /\ pc = "walk" /\ pc' = "done" /\ i' \in FirstZero /\ free_memory' = free_memory
        /\ entry = Len(e820) + 1
    BY <1>4, Reads DEF find_top, Walking
  <2>2. Before = Usable /\ Usable # {}
    BY <1>1, <2>1, Lists DEF Before, Usable, Reading, Plain
  <2>3. PICK n \in Before : LastKept(n)
    BY <1>1, <2>1, <2>2 DEF Tops
  <2>4. i \in Zeros /\ i' \in Zeros /\ i' <= i /\ i >= 1
    <3>1. Fewer /\ pc # "done"
      BY <1>1, <2>1 DEF Plain
    <3>2. i \in Zeros /\ \A k \in FirstZero : k \in Zeros /\ k <= i
      BY <3>1, ZeroLeft
    <3>3. i >= 1
      BY <2>3 DEF LastKept
    <3> QED
      BY <2>1, <3>2, <3>3
  <2>5. i' = i /\ i - 1 \in DOMAIN free_memory
    <3>1. i \in Nat /\ i' \in Nat /\ i < MAX_FREE_MEM_BLOCK /\ free_memory[i'][2] = 0
      <4>1. \A k \in Zeros : k \in Nat /\ k < MAX_FREE_MEM_BLOCK /\ free_memory[k][2] = 0
        BY MapAssumption DEF Zeros
      <4> QED
        BY <2>4, <4>1
    <3>2. ~ (i' < i)
      BY <1>1, <2>1, <3>1 DEF Tops
    <3> QED
      BY <2>4, <3>1, <3>2, MapAssumption DEF Kept
  <2>6. max_paging_mem' = End(free_memory[i - 1])
    BY <1>4, <2>5 DEF find_top
  <2>7. max_paging_mem' = End32(e820[n])
    BY <1>2, <2>2, <2>3, <2>6 DEF LastKept, End, End32
  <2>8. \A m \in Usable : m <= n
    BY <2>2, <2>3 DEF LastKept
  <2> QED
    BY <1>1, <2>1, <2>2, <2>7, <2>8 DEF Tops
<1>5. CASE first_call \/ get_next \/ mem_init \/ walk_reserved \/ UNCHANGED vars
  <2>1. /\ UNCHANGED <<free_memory, max_paging_mem, i>> /\ ~ walk_free
        /\ pc' = "done" <=> pc = "done"
    BY <1>5 DEF first_call, get_next, int15, mem_init, walk_reserved, walk_free, Reading, vars
  <2>2. Before' = Before
    BY <2>1, SameBefore
  <2> QED
    BY <1>1, <2>1, <2>2 DEF Tops, LastKept
<1> QED
  BY <1>3, <1>4, <1>5 DEF Next

\* Paging memory ends where the highest usable block does, for a list of any length
\* with fewer usable blocks than free_memory has entries, in order and below 2^32.
THEOREM PagingMemoryEnd == Spec => []PagingTop
<1>1. Reading /\ Tops => PagingTop
  <2> SUFFICES ASSUME Reading, Tops, Plain, pc = "done"
               PROVE  max_paging_mem = Max({End32(e820[n]) : n \in Usable})
    BY DEF PagingTop
  <2>1. PICK n \in Usable : (\A m \in Usable : m <= n) /\ max_paging_mem = End32(e820[n])
    BY DEF Tops
  <2>2. \A m \in Usable : m \in 1..Len(e820) /\ e820[m] \in Block
    BY Lists DEF Reading, Usable
  <2>3. ASSUME NEW m \in Usable PROVE End32(e820[m]) <= End32(e820[n])
    <3>1. CASE m = n
      BY <2>2, <3>1 DEF End32, Block
    <3>2. CASE m # n
      <4>1. m < n
        BY <2>1, <2>2, <3>2
      <4>2. End32(e820[m]) <= e820[n].base
        BY <2>2, <4>1 DEF Plain
      <4> QED
        BY <2>2, <4>2 DEF End32, Block
    <3> QED
      BY <3>1, <3>2
  <2> DEFINE Ends == {End32(e820[m]) : m \in Usable}
  <2>4. /\ max_paging_mem \in Ends /\ \A e \in Ends : e \in Nat /\ e <= max_paging_mem
    BY <2>1, <2>2, <2>3 DEF End32, Block
  <2> HIDE DEF Ends
  <2>5. Max(Ends) = max_paging_mem
    BY <2>4 DEF Max
  <2> QED
    BY <2>5 DEF Ends
<1> QED
  BY <1>1, InitReading, StepReading, InitWalking, StepWalking, InitKept, StepKept,
     InitTops, StepTops, PTL DEF Spec
=============================================================================

------------------------------- MODULE MemMap -------------------------------
(***************************************************************************)
(* The memory map, from the firmware to the screen: lowlevel_init.s copies *)
(* the firmware's list (int 15h, e820) to a table, drawing_mem_map walks   *)
(* the table once at boot and keeps what is free, and the command e820     *)
(* walks it again whenever it is typed.  A memory address and a length are *)
(* 64 bits wide in the table; the C code reads their low 32.               *)
(***************************************************************************)
EXTENDS Integers, FiniteSetsExt, Sequences

CONSTANTS
  Firmware,            \* the lists of [base, length, type] the firmware may report
  PageSize,            \* 4096
  Word,                \* 2^32: the width of int
  PAGING_PAGES,        \* entries of mem_map: 131072
  MAX_FREE_MEM_BLOCK   \* entries of free_memory: 10

\* The end mark is the only entry of type zero.  A list of one entry would be stored
\* twice: the code asks for a second before it looks at ebx.  A usable block whose
\* length is read as zero begins within mem_map, whose entry for it is written.
Block == [base : Nat, length : Nat, type : Nat \ {0}]
ASSUME MapAssumption ==
  /\ PageSize \in Nat \ {0} /\ Word \in Nat \ {0}
  /\ PAGING_PAGES \in Nat /\ MAX_FREE_MEM_BLOCK \in Nat \ {0}
  /\ \A list \in Firmware : list \in Seq(Block) /\ Len(list) >= 2
  /\ \A list \in Firmware : \A n \in 1..Len(list) :
       list[n].type = 1 /\ list[n].length % Word = 0
         => (list[n].base % Word) \div PageSize < PAGING_PAGES

USED == 100
FREE == 0
EndMark == [base |-> 0, length |-> 0, type |-> 0]

VARIABLES
  e820,            \* what the firmware reports
  pc, ebx,         \* where the code is; the firmware's continuation value
  table,           \* the entries stored from 0x78004 on
  entry,           \* the table's entry drawing_mem_map is at (memmap)
  i,               \* its local i
  mem_map,         \* USED or 0 for each page
  free_memory,     \* base and length of each free block
  max_free_mem,    \* their total
  max_paging_mem,  \* where the last one ends
  drawn            \* the lines drawn

vars == <<e820, pc, ebx, table, entry, i, mem_map, free_memory, max_free_mem,
          max_paging_mem, drawn>>

-----------------------------------------------------------------------------
(* lowlevel_init.s.                                                        *)

\* int 15h: store the entry ebx selects, continue with the next, 0 at the last.
int15 == /\ table' = Append(table, e820[ebx + 1])
         /\ ebx' = IF ebx + 1 < Len(e820) THEN ebx + 1 ELSE 0
         /\ UNCHANGED <<e820, entry, i, mem_map, free_memory, max_free_mem,
                        max_paging_mem, drawn>>

first_call == pc = "first" /\ pc' = "get_next" /\ int15

\* Mutants: the last entry is left out; the list is read for ever.
get_next_Short ==
  /\ pc = "get_next"
  /\ int15
  /\ pc' = IF ebx' + 1 = Len(e820) THEN "mem_init" ELSE "get_next"
get_next_Again == pc = "get_next" /\ int15 /\ UNCHANGED pc

get_next == /\ pc = "get_next"
            /\ int15
            /\ pc' = IF ebx' = 0 THEN "mem_init" ELSE "get_next"

-----------------------------------------------------------------------------
(* drawing_mem_map.                                                        *)

\* The table as the C code reads it: the memory after it is zero.
At(n) == IF n <= Len(table)
         THEN [table[n] EXCEPT !.base = @ % Word, !.length = @ % Word] ELSE EndMark

Kind(type) == IF type = 1 THEN "free" ELSE "reserve"
Row(n) == <<At(n).base, At(n).length, Kind(At(n).type)>>

mem_init ==
  /\ pc = "mem_init" /\ pc' = "walk"
  /\ mem_map' = [page \in 0..(PAGING_PAGES - 1) |-> USED]
  /\ UNCHANGED <<e820, ebx, table, entry, i, free_memory, max_free_mem,
                 max_paging_mem, drawn>>

\* while (len_mem-- == 0) mem_map[i++] = 0: the body runs once if the length is
\* zero, and never otherwise.
mem_map_init(map, start, length) ==
  IF length = 0 THEN [map EXCEPT ![start \div PageSize] = FREE] ELSE map

\* The total so far.
Total(sum, length) == (sum + length) % Word

\* The block is stored in free_memory, if there is room ...
store(base, length) ==
  /\ i < MAX_FREE_MEM_BLOCK
  /\ free_memory' = [free_memory EXCEPT ![i] = <<base, length>>]
  /\ mem_map' = mem_map_init(mem_map, base, length)
  /\ max_free_mem' = Total(max_free_mem, length)

\* ... and behind it if there is none: the code makes no test.  There the linker has put
\* max_free_mem, some padding and mem_map; what is hit of them has the words of the
\* block from then on, mem_map the bytes of both.
Over(page, base, length) ==
  [p \in DOMAIN mem_map |->
     CASE p - page \in 0..3 -> (base \div 256^(p - page)) % 256
       [] p - page \in 4..7 -> (length \div 256^(p - page - 4)) % 256
       [] OTHER              -> mem_map[p]]

store_behind(base, length) ==
  /\ i >= MAX_FREE_MEM_BLOCK
  /\ \E sum \in {max_free_mem, base, length} : max_free_mem' = Total(sum, length)
  /\ \E map \in {mem_map} \cup {Over(page, base, length) : page \in DOMAIN mem_map} :
       mem_map' = mem_map_init(map, base, length)
  /\ UNCHANGED free_memory

walk_free ==
  /\ pc = "walk" /\ At(entry).type = 1
  /\ \/ store(At(entry).base, At(entry).length)
     \/ store_behind(At(entry).base, At(entry).length)
  /\ i' = i + 1
  /\ drawn' = Append(drawn, Row(entry))
  /\ entry' = entry + 1
  /\ UNCHANGED <<e820, pc, ebx, table, max_paging_mem>>

\* Mutant: only free blocks are drawn.
walk_reserved_Undrawn ==
  /\ pc = "walk" /\ At(entry).type \notin {0, 1}
  /\ entry' = entry + 1
  /\ UNCHANGED <<e820, pc, ebx, table, i, mem_map, free_memory, max_free_mem,
                 max_paging_mem, drawn>>

walk_reserved ==
  /\ pc = "walk" /\ At(entry).type \notin {0, 1}
  /\ drawn' = Append(drawn, Row(entry))
  /\ entry' = entry + 1
  /\ UNCHANGED <<e820, pc, ebx, table, i, mem_map, free_memory, max_free_mem,
                 max_paging_mem>>

\* for (i = 0; free_memory[i][1] != 0; i++) {}: the first zero, somewhere behind the
\* array if it has none (one place stands for all that are further on).
Zeros == {k \in 0..(MAX_FREE_MEM_BLOCK - 1) : free_memory[k][2] = 0}
FirstZero == IF Zeros = {} THEN {MAX_FREE_MEM_BLOCK, MAX_FREE_MEM_BLOCK + 1}
             ELSE {k \in Zeros : \A j \in Zeros : k <= j}

\* Where a block ends (mutant: where it starts).
End_Base(block) == block[1]
End(block) == (block[1] + block[2]) % Word

\* What lies before and behind free_memory.
Anything == 0..(Word - 1)

find_top ==
  /\ pc = "walk" /\ At(entry).type = 0
  /\ pc' = "done"
  /\ i' \in FirstZero
  /\ \E top \in IF i' - 1 \in DOMAIN free_memory THEN {End(free_memory[i' - 1])} ELSE Anything :
       max_paging_mem' = top
  /\ UNCHANGED <<e820, ebx, table, entry, mem_map, free_memory, max_free_mem, drawn>>

\* The command e820 prints the same rows.
e820_rows == [n \in 1..((CHOOSE k \in 1..(Len(table) + 1) :
                            /\ At(k).type = 0
                            /\ \A j \in 1..(k - 1) : At(j).type # 0) - 1) |-> Row(n)]

Init == /\ e820 \in Firmware
        /\ pc = "first" /\ ebx = 0
        /\ table = <<>> /\ entry = 1 /\ i = 0
        /\ mem_map = [page \in 0..(PAGING_PAGES - 1) |-> FREE]
        /\ free_memory = [k \in 0..(MAX_FREE_MEM_BLOCK - 1) |-> <<0, 0>>]
        /\ max_free_mem = 0 /\ max_paging_mem = 0
        /\ drawn = <<>>

Next == first_call \/ get_next \/ mem_init \/ walk_free \/ walk_reserved \/ find_top

Spec == Init /\ [][Next]_vars

-----------------------------------------------------------------------------
Usable  == {n \in 1..Len(e820) : e820[n].type = 1}
Nonzero == {n \in Usable : e820[n].length # 0}
Pages(block) == (block.base \div PageSize)..((block.base + block.length - 1) \div PageSize)

\* The usable blocks fit free_memory; they leave it an entry of length zero.
Fit   == Cardinality(Usable) <= MAX_FREE_MEM_BLOCK
Fewer == Cardinality(Usable) < MAX_FREE_MEM_BLOCK

\* No index passes what it indexes: the table is as long as the firmware's list and
\* the walk stops at the end mark; the searches in free_memory end within it if the
\* usable blocks are fewer than it has entries.
TypeOK == /\ Len(table) <= Len(e820) /\ entry \in 1..(Len(e820) + 1)
          /\ i \in Nat /\ (Fewer => i < MAX_FREE_MEM_BLOCK)
          /\ max_free_mem \in 0..(Word - 1) /\ max_paging_mem \in 0..(Word - 1)

\* The table is the firmware's list: int 15h is called once for each entry, and
\* not again after it has answered ebx = 0.
TableComplete == pc \notin {"first", "get_next"} => table = e820

\* The bytes of the first n entries that are usable.
UsableBytes[n \in 0..Len(e820)] ==
  IF n = 0 THEN 0 ELSE UsableBytes[n - 1] + IF n \in Usable THEN e820[n].length ELSE 0

\* The desktop shows a row for each entry, the rows the command e820 prints, also when
\* stores have gone behind free_memory; and if none has, the total of the usable blocks,
\* as far as an int holds it.
DrawnRight ==
  pc = "done" => /\ drawn = e820_rows /\ Len(drawn) = Len(e820)
                 /\ Fit => max_free_mem = UsableBytes[Len(e820)] % Word

\* What PagingTop asks of the list: usable blocks, but fewer than free_memory has
\* entries, none empty, all entries in order and below 2^32.
End32(block) == block.base + block.length
Plain ==
  /\ Usable # {} /\ Fewer /\ Nonzero = Usable
  /\ \A n \in 1..Len(e820) : End32(e820[n]) < Word
  /\ \A m, n \in 1..Len(e820) : m < n => End32(e820[m]) <= e820[n].base

\* The end of paging memory is where the highest usable block ends.
PagingTop ==
  pc = "done" /\ Plain => max_paging_mem = Max({End32(e820[n]) : n \in Usable})

\* mem_map tells used pages from free ones: no page of a usable block is USED.
UsablePagesFree ==
  pc = "done" => \A n \in Nonzero : \A page \in Pages(e820[n]) \cap DOMAIN mem_map :
                   mem_map[page] # USED
=============================================================================

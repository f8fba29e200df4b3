------------------------------ MODULE Memtest -------------------------------
(***************************************************************************)
(* memtest (memtest.c): does a range of addresses hold memory?  Every word *)
(* is written, inverted and inverted back, with the cache off, and gets    *)
(* its value back.                                                         *)
(*                                                                         *)
(* A word is the set of its bits that are 1.  A chip that answers may hold *)
(* some bits fast: ROM all of them, an open bus all at 1.                  *)
(***************************************************************************)
EXTENDS Integers, FiniteSetsExt

CONSTANTS
  TOP,        \* 2^32: how many addresses there are
  Bits,       \* the bits of a word
  pat0,       \* 0xaa55aa55, a word
  Machines    \* [wiring, one, zero, cells, is486], see below

Addresses == {a \in 0..(TOP - 1) : a % 4 = 0}

\* Some chip, if only the open bus, answers at every word; a bit held fast is held from
\* the first.
ASSUME PatternAssumption == TOP \in Nat \ {0} /\ TOP % 4 = 0 /\ pat0 \subseteq Bits
ASSUME MachinesAssumption ==
  \A m \in Machines :
    /\ m.wiring \in [Addresses -> DOMAIN m.cells] /\ m.is486 \in BOOLEAN
    /\ m.cells \in [DOMAIN m.cells -> SUBSET Bits]
    /\ \A chip \in DOMAIN m.cells :
         m.one[chip] \subseteq m.cells[chip] /\ m.zero[chip] \subseteq Bits \ m.cells[chip]

VARIABLES
  machine,      \* wiring: the chip behind each word; one, zero: its bits held fast;
                \* cells: what the chips hold at first; is486: it has a cache and an AC bit
  mem, line,    \* what the chips hold; the words in the cache
  cd,           \* CR0_CACHE_DISABLE
  start, end, i, old, flg486, pc

vars == <<machine, mem, line, cd, start, end, i, old, flg486, pc>>
range == <<machine, start, end>>

pat1 == Bits \ pat0

-----------------------------------------------------------------------------
Stored(chip, w) == (w \cup machine.one[chip]) \ machine.zero[chip]
Hit == i \in DOMAIN line
Word == IF Hit THEN line[i] ELSE mem[machine.wiring[i]]
CachingOn == machine.is486 /\ ~cd

\* Accesses to the word at i.
Read == line' = IF CachingOn THEN [a \in DOMAIN line \cup {i} |-> IF a = i THEN Word ELSE line[a]] ELSE line
Write(w) == /\ mem' = [mem EXCEPT ![machine.wiring[i]] = Stored(machine.wiring[i], w)]
            /\ line' = IF Hit THEN [line EXCEPT ![i] = w] ELSE line

\* lowlevel_init.s has turned the cache off and emptied it; after one test it is on,
\* but nothing else uses the range.
Init == /\ machine \in Machines
        /\ mem = machine.cells
        /\ line = <<>>
        /\ cd \in {FALSE, machine.is486}
        /\ start \in Addresses
        /\ \E len \in 0..TOP : end = (start + len - 1) % TOP
        /\ i = 0 /\ old = {} /\ flg486 = FALSE /\ pc = "probe"

\* Only from the 486 on does EFLAGS keep an AC bit that is set.
probe == /\ pc = "probe" /\ pc' = "disable"
         /\ flg486' = machine.is486
         /\ UNCHANGED <<range, mem, line, cd, i, old>>

\* (Mutant: the cache stays as it is.)
disable_Not == /\ pc = "disable" /\ pc' = "for" /\ i' = start
               /\ UNCHANGED <<range, mem, line, cd, old, flg486>>
disable == /\ pc = "disable" /\ pc' = "for" /\ i' = start
           /\ cd' = (cd \/ flg486)
           /\ UNCHANGED <<range, mem, line, old, flg486>>

for == /\ pc = "for"
       /\ \/ /\ i <= end /\ pc' = "write"
             /\ old' = Word /\ Read
          \/ /\ i > end /\ pc' = "enable"
             /\ UNCHANGED <<line, old>>
       /\ UNCHANGED <<range, mem, cd, i, flg486>>

write == /\ pc = "write" /\ pc' = "invert"
         /\ Write(pat0)
         /\ UNCHANGED <<range, cd, i, old, flg486>>

invert == /\ pc = "invert" /\ pc' = "compare"
          /\ Write(Bits \ Word)
          /\ UNCHANGED <<range, cd, i, old, flg486>>

\* (Mutant: the label not_memory follows the write of the old value.)
compare_Left == /\ pc = "compare"
                /\ \/ /\ Word # pat1 /\ pc' = "enable" /\ UNCHANGED <<mem, line>>
                   \/ Word = pat1 /\ pc' = "again" /\ Write(Bits \ Word)
                /\ UNCHANGED <<range, cd, i, old, flg486>>
compare == /\ pc = "compare"
           /\ \/ Word # pat1 /\ pc' = "enable" /\ Write(old)
              \/ Word = pat1 /\ pc' = "again" /\ Write(Bits \ Word)
           /\ UNCHANGED <<range, cd, i, old, flg486>>

\* (Mutant: the loop has lost its step.)
again_Still == /\ pc = "again" /\ Write(old)
               /\ pc' = IF Word # pat0 THEN "enable" ELSE "for"
               /\ UNCHANGED <<range, cd, i, old, flg486>>
again == /\ pc = "again" /\ Write(old)
         /\ \/ Word # pat0 /\ pc' = "enable" /\ UNCHANGED i
            \/ Word = pat0 /\ pc' = "for" /\ i' = (i + 4) % TOP
         /\ UNCHANGED <<range, cd, old, flg486>>

enable == /\ pc = "enable" /\ pc' = "done"
          /\ cd' = (cd /\ ~flg486)
          /\ UNCHANGED <<range, mem, line, i, old, flg486>>

Next == probe \/ disable \/ for \/ write \/ invert \/ compare \/ again \/ enable

Spec == Init /\ [][Next]_vars /\ WF_vars(Next)

-----------------------------------------------------------------------------
Good(a) == LET chip == machine.wiring[a] IN machine.one[chip] = {} /\ machine.zero[chip] = {}

\* The loop's counter never passes an end this near the top of the address space.
TopReached == end >= TOP - 4

\* memtest returns the first address of the range at which a bit does not take both
\* values, and the first past its end when every word is memory: the cache hides no
\* chip, and neither pattern alone would do (memtest.c:48-65).
FirstFault ==
  pc = "done" /\ ~TopReached =>
    LET words  == {a \in Addresses : start <= a}
        faults == {a \in words : a <= end /\ ~Good(a)}
    IN i = Min(IF faults # {} THEN faults ELSE {a \in words : end < a})

\* Between two words, and once memtest is done, the chips hold what they held before it,
\* even where several addresses reach one of them; and it leaves the cache on.
MachineKept ==
  /\ pc \in {"for", "enable", "done"} => mem = machine.cells
  /\ pc = "done" => ~cd

\* The test ends, but for a range that reaches the top of the address space of a
\* machine without a fault: there the counter wraps and the test goes round for ever.
MemtestEnds == <>(pc = "done") \/ (TopReached /\ \A a \in Addresses : Good(a))
=============================================================================

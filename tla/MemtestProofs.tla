--------------------------- MODULE MemtestProofs ----------------------------
(***************************************************************************)
(* Proofs about Memtest, for any machine: memtest leaves memory and cache  *)
(* as it should and returns the first faulty address.                      *)
(***************************************************************************)
EXTENDS Memtest, TLAPS

Testing == pc \in {"write", "invert", "compare", "again"}
Here == machine.wiring[i]

\* The cache takes part in nothing: off while memory is read and written, and empty.
CacheOff ==
  /\ line = <<>>
  /\ machine.is486 \in BOOLEAN /\ cd \in BOOLEAN /\ (cd => machine.is486)
  /\ pc # "probe" => flg486 = machine.is486
  /\ pc \notin {"probe", "disable"} => i \in Addresses
  /\ Testing \/ pc \in {"for", "enable"} => (machine.is486 => cd)
  /\ pc = "done" => ~cd

\* Only the word being tested may differ from what it was, and old remembers it.
Contents ==
  /\ machine \in Machines /\ mem = [chip \in DOMAIN machine.cells |-> mem[chip]]
  /\ \A chip \in DOMAIN machine.cells :
       ~(pc \in {"invert", "compare", "again"} /\ chip = Here) => mem[chip] = machine.cells[chip]
  /\ Testing => old = machine.cells[Here]
  /\ pc = "invert" => mem[Here] = Stored(Here, pat0)
  /\ pc = "compare" => mem[Here] = Stored(Here, Bits \ Stored(Here, pat0))
  /\ pc = "again" => /\ Stored(Here, Bits \ Stored(Here, pat0)) = pat1
                     /\ mem[Here] = Stored(Here, pat0)

\* The inductive invariant of MachineKept.
Kept == /\ pc \in {"probe", "disable", "for", "write", "invert", "compare", "again", "enable", "done"}
        /\ start \in Addresses /\ end \in 0..(TOP - 1) /\ CacheOff /\ Contents

\* How far the test has come, when its counter does not wrap.
Tested ==
  ~TopReached =>
    /\ pc \notin {"probe", "disable"} =>
         /\ start <= i /\ (i = start \/ i - 4 <= end)
         /\ \A a \in Addresses : start <= a /\ a < i => Good(a)
    /\ Testing => i <= end
    /\ pc \in {"enable", "done"} => (IF i <= end THEN ~Good(i) ELSE TRUE)

-----------------------------------------------------------------------------
(* Words and chips.                                                        *)

\* What a chip gives back of a word.
LEMMA Chips ==
  ASSUME Kept, i \in Addresses
  PROVE  /\ Here \in DOMAIN machine.cells
         /\ machine.one[Here] \subseteq machine.cells[Here] /\ machine.cells[Here] \subseteq Bits
         /\ machine.zero[Here] \subseteq Bits \ machine.cells[Here]
BY MachinesAssumption DEF Kept, Contents, Here

\* A chip takes both patterns exactly if none of its bits is held fast.
LEMMA BothPatterns ==
  ASSUME NEW one \in SUBSET Bits, NEW zero \in SUBSET Bits,
         NEW back0, back0 = (pat0 \cup one) \ zero,
         NEW back1, back1 = ((Bits \ back0) \cup one) \ zero
  PROVE  back1 = pat1 /\ back0 = pat0 <=> one = {} /\ zero = {}
<1>1. pat0 \subseteq Bits /\ pat1 = Bits \ pat0
  BY PatternAssumption DEF pat1
<1>2. ASSUME one = {}, zero = {} PROVE back1 = pat1 /\ back0 = pat0
  BY <1>1, <1>2
<1>3. ASSUME back1 = pat1, back0 = pat0 PROVE one = {} /\ zero = {}
  <2>1. \A b \in one : b \in back0 \/ b \in zero
    OBVIOUS
  <2>2. one \subseteq pat0 \cup zero /\ one \subseteq pat1 \cup zero
    BY <1>3
  <2>3. zero \cap pat0 = {} /\ zero \cap pat1 = {}
    BY <1>3
  <2>4. zero = {}
    BY <1>1, <2>3
  <2> QED
    BY <1>1, <2>2, <2>4
<1> QED
  BY <1>2, <1>3

\* With the cache off, reading and writing is the chip's business.
LEMMA Access ==
  ASSUME Kept, Testing \/ pc = "for"
  PROVE  /\ i \in Addresses /\ Here \in DOMAIN mem /\ Word = mem[Here]
         /\ Read => line' = <<>>
         /\ \A w : Write(w) => line' = <<>> /\ mem' = [mem EXCEPT ![Here] = Stored(Here, w)]
<1>1. line = <<>> /\ i \in Addresses /\ (machine.is486 => cd) /\ DOMAIN mem = DOMAIN machine.cells
  BY DEF Kept, CacheOff, Contents, Testing
<1>2. DOMAIN line = {}
  BY <1>1
<1>3. ~Hit /\ ~CachingOn
  BY <1>1, <1>2 DEF Hit, CachingOn
<1> QED
  BY <1>1, <1>3, Chips DEF Word, Read, Write, Here

-----------------------------------------------------------------------------
(* The invariant.                                                          *)

LEMMA InitKept == Init => Kept /\ Tested
<1> SUFFICES ASSUME Init PROVE Kept /\ Tested
  OBVIOUS
<1>1. machine.is486 \in BOOLEAN
  BY MachinesAssumption DEF Init
<1>2. end \in 0..(TOP - 1)
  <2>1. PICK len \in 0..TOP : end = (start + len - 1) % TOP
    BY DEF Init
  <2>2. start + len - 1 \in Int /\ TOP \in Nat \ {0}
    BY <2>1, PatternAssumption DEF Init, Addresses
  <2> QED
    BY <2>1, <2>2
<1>3. CacheOff
  BY <1>1 DEF Init, CacheOff, Testing
<1>4. Contents
  <2>1. machine.cells = [chip \in DOMAIN machine.cells |-> machine.cells[chip]]
    BY MachinesAssumption DEF Init
  <2> QED
    BY <2>1 DEF Init, Contents, Testing
<1>5. Tested
  BY DEF Init, Tested, Testing
<1> QED
  BY <1>2, <1>3, <1>4, <1>5 DEF Init, Kept

LEMMA SetupKept == Kept /\ (probe \/ disable \/ enable) => Kept'
<1> SUFFICES ASSUME Kept, probe \/ disable \/ enable PROVE Kept'
  OBVIOUS
<1>1. /\ machine' = machine /\ start' = start /\ end' = end /\ mem' = mem /\ line' = line
      /\ mem = machine.cells \/ mem' = mem
  BY DEF probe, disable, enable, range
<1>2. Contents'
  <2>1. /\ pc \in {"probe", "disable", "enable"} /\ pc' \in {"disable", "for", "done"}
    BY DEF probe, disable, enable
  <2>2. ~Testing' /\ pc \notin {"invert", "compare", "again"} /\ pc' \notin {"invert", "compare", "again"}
    BY <2>1 DEF Testing
  <2>3. \A chip \in DOMAIN machine.cells : mem[chip] = machine.cells[chip]
    BY <2>2 DEF Kept, Contents
  <2> QED
    BY <1>1, <2>2, <2>3 DEF Kept, Contents, Testing
<1>3. CacheOff'
  <2>1. CASE probe
    BY <1>1, <2>1 DEF Kept, CacheOff, Testing, probe
  <2>2. CASE disable
    <3>1. i' \in Addresses /\ flg486' = flg486 /\ flg486 = machine.is486 /\ pc' = "for"
      BY <1>1, <2>2 DEF Kept, CacheOff, disable
    <3>2. cd' \in BOOLEAN /\ (cd' <=> machine.is486)
      BY <2>2, <3>1 DEF Kept, CacheOff, disable
    <3> QED
      BY <1>1, <3>1, <3>2 DEF Kept, CacheOff, Testing
  <2>3. CASE enable
    <3>1. i' = i /\ i \in Addresses /\ flg486' = flg486 /\ flg486 = machine.is486 /\ pc' = "done"
      BY <2>3 DEF Kept, CacheOff, enable
    <3>2. cd' \in BOOLEAN /\ ~cd'
      BY <2>3, <3>1 DEF Kept, CacheOff, enable
    <3> QED
      BY <1>1, <3>1, <3>2 DEF Kept, CacheOff, Testing
  <2> QED
    BY <2>1, <2>2, <2>3
<1> QED
  BY <1>1, <1>2, <1>3 DEF Kept, probe, disable, enable

LEMMA ForKept == Kept /\ for => Kept'
<1> SUFFICES ASSUME Kept, for PROVE Kept'
  OBVIOUS
<1>1. /\ machine' = machine /\ start' = start /\ end' = end /\ mem' = mem /\ cd' = cd
      /\ i' = i /\ flg486' = flg486 /\ pc = "for" /\ pc' \in {"write", "enable"}
  BY DEF for, range
<1>2. line' = <<>>
  BY <1>1, Access DEF for, Kept, CacheOff
<1>3. pc' = "write" => old' = machine.cells[Here]
  <2>1. mem[Here] = machine.cells[Here]
    BY <1>1, Access DEF Kept, Contents
  <2> QED
    BY <1>1, <2>1, Access DEF for
<1>4. Contents'
  BY <1>1, <1>3 DEF Kept, Contents, Testing, Here
<1>5. CacheOff'
  BY <1>1, <1>2 DEF Kept, CacheOff, Testing
<1> QED
  BY <1>1, <1>4, <1>5 DEF Kept

\* A write that leaves the word under test: all but the contents.
LEMMA WriteKept ==
  ASSUME Kept, Testing, NEW w, Write(w), range' = range, cd' = cd, flg486' = flg486, i' \in Addresses,
         Testing' \/ pc' \in {"for", "enable"}, Contents'
  PROVE  Kept'
<1>1. line' = <<>>
  BY Access
<1>2. CacheOff'
  BY <1>1 DEF Kept, CacheOff, Testing, range
<1> QED
  BY <1>2 DEF Kept, range, Testing

\* Writing the old value back leaves every chip as it was.
LEMMA Restored ==
  ASSUME Kept, Testing, Write(old)
  PROVE  /\ mem' = [chip \in DOMAIN machine.cells |-> mem'[chip]]
         /\ \A chip \in DOMAIN machine.cells : mem'[chip] = machine.cells[chip]
<1>1. mem' = [mem EXCEPT ![Here] = Stored(Here, old)] /\ i \in Addresses
  BY Access
<1>2. old = machine.cells[Here] /\ DOMAIN mem = DOMAIN machine.cells
      /\ \A chip \in DOMAIN machine.cells : chip # Here => mem[chip] = machine.cells[chip]
  BY DEF Kept, Contents, Testing
<1>3. Stored(Here, old) = machine.cells[Here]
  BY <1>1, <1>2, Chips DEF Stored
<1> QED
  BY <1>1, <1>2, <1>3

LEMMA PatternsKept == Kept /\ (write \/ invert) => Kept'
<1> SUFFICES ASSUME Kept, write \/ invert PROVE Kept'
  OBVIOUS
<1>1. /\ range' = range /\ machine' = machine /\ cd' = cd /\ i' = i /\ old' = old /\ flg486' = flg486
      /\ Testing /\ pc' \in {"invert", "compare"} /\ Testing'
  BY DEF write, invert, range, Testing
<1>2. i \in Addresses /\ Here \in DOMAIN mem /\ Word = mem[Here]
  BY <1>1, Access
<1>3. CASE write
  <2>1. Write(pat0) /\ pc = "write" /\ pc' = "invert"
    BY <1>3 DEF write
  <2>2. mem' = [mem EXCEPT ![Here] = Stored(Here, pat0)]
    BY <1>1, <2>1, Access
  <2>3. Contents'
    BY <1>1, <1>2, <2>1, <2>2 DEF Kept, Contents, Here, Stored, Testing
  <2> QED
    BY <1>1, <1>2, <2>1, <2>3, WriteKept
<1>4. CASE invert
  <2>1. Write(Bits \ Word) /\ pc = "invert" /\ pc' = "compare"
    BY <1>4 DEF invert
  <2>2. mem' = [mem EXCEPT ![Here] = Stored(Here, Bits \ Stored(Here, pat0))]
    BY <1>1, <1>2, <2>1, Access DEF Kept, Contents
  <2>3. Contents'
    BY <1>1, <1>2, <2>1, <2>2 DEF Kept, Contents, Here, Stored, Testing
  <2> QED
    BY <1>1, <1>2, <2>1, <2>3, WriteKept
<1> QED
  BY <1>3, <1>4

LEMMA CompareKept == Kept /\ compare => Kept'
<1> SUFFICES ASSUME Kept, compare PROVE Kept'
  OBVIOUS
<1>1. /\ range' = range /\ machine' = machine /\ cd' = cd /\ i' = i /\ old' = old /\ flg486' = flg486
      /\ Testing /\ pc = "compare"
  BY DEF compare, range, Testing
<1>2. i \in Addresses /\ Here \in DOMAIN mem /\ Word = mem[Here]
  BY <1>1, Access
<1>3. CASE Word # pat1
  <2>1. Write(old) /\ pc' = "enable"
    BY <1>3 DEF compare
  <2>2. Contents'
    BY <1>1, <2>1, Restored DEF Kept, Contents, Testing
  <2> QED
    BY <1>1, <1>2, <2>1, <2>2, WriteKept
<1>4. CASE Word = pat1
  <2>1. Write(Bits \ Word) /\ pc' = "again"
    BY <1>4 DEF compare
  <2>2. Bits \ Word = pat0
    BY <1>4, PatternAssumption DEF pat1
  <2>3. mem' = [mem EXCEPT ![Here] = Stored(Here, pat0)]
    BY <1>1, <2>1, <2>2, Access
  <2>4. Stored(Here, Bits \ Stored(Here, pat0)) = pat1
    BY <1>1, <1>2, <1>4 DEF Kept, Contents
  <2>5. Contents'
    BY <1>1, <1>2, <2>1, <2>3, <2>4 DEF Kept, Contents, Here, Stored, Testing, pat1
  <2> QED
    BY <1>1, <1>2, <2>1, <2>5, WriteKept DEF Testing
<1> QED
  BY <1>3, <1>4

LEMMA AgainKept == Kept /\ again => Kept'
<1> SUFFICES ASSUME Kept, again PROVE Kept'
  OBVIOUS
<1>1. /\ range' = range /\ machine' = machine /\ cd' = cd /\ old' = old /\ flg486' = flg486
      /\ Testing /\ Write(old) /\ pc' \in {"enable", "for"}
  BY DEF again, range, Testing
<1>2. i' \in Addresses
  <2>1. i \in Addresses
    BY <1>1, Access
  <2>2. (i + 4) % TOP \in Addresses
    <3>1. TOP \in Nat \ {0} /\ TOP % 4 = 0 /\ i \in 0..(TOP - 1) /\ i % 4 = 0
      BY <2>1, PatternAssumption DEF Addresses
    <3>2. i + 4 <= TOP
      BY <3>1
    <3>3. (i + 4) % TOP = IF i + 4 = TOP THEN 0 ELSE i + 4
      BY <3>1, <3>2
    <3> QED
      BY <3>1, <3>2, <3>3 DEF Addresses
  <2> QED
    BY <2>1, <2>2 DEF again
<1>3. Contents'
  BY <1>1, Restored DEF Kept, Contents, Testing
<1> QED
  BY <1>1, <1>2, <1>3, WriteKept

LEMMA StepKept == Kept /\ [Next]_vars => Kept'
<1> SUFFICES ASSUME Kept, [Next]_vars PROVE Kept'
  OBVIOUS
<1>1. CASE UNCHANGED vars
  BY <1>1 DEF Kept, CacheOff, Contents, Testing, Here, Stored, vars
<1> QED
  BY <1>1, SetupKept, ForKept, PatternsKept, CompareKept, AgainKept DEF Next

\* The cache plays no part in the test, and only the word under test is changed.
THEOREM MemtestInvariant == Spec => []Kept
<1>1. Init => Kept
  BY InitKept
<1> QED
  BY <1>1, StepKept, PTL DEF Spec

\* memtest leaves the memory it tests as it found it, and the cache on, whatever chips
\* a machine has and however its addresses reach them.
THEOREM MemoryKept == Spec => []MachineKept
<1>1. Kept => MachineKept
  <2> SUFFICES ASSUME Kept PROVE MachineKept
    OBVIOUS
  <2>1. pc = "done" => ~cd
    BY DEF Kept, CacheOff
  <2>2. ASSUME pc \in {"for", "enable", "done"} PROVE mem = machine.cells
    <3>1. \A chip \in DOMAIN machine.cells : mem[chip] = machine.cells[chip]
      BY <2>2 DEF Kept, Contents
    <3>2. machine.cells = [chip \in DOMAIN machine.cells |-> machine.cells[chip]]
      BY MachinesAssumption DEF Kept, Contents
    <3>3. mem = [chip \in DOMAIN machine.cells |-> mem[chip]]
      BY DEF Kept, Contents
    <3> QED
      BY <3>1, <3>2, <3>3
  <2> QED
    BY <2>1, <2>2 DEF MachineKept
<1> QED
  BY <1>1, MemtestInvariant, PTL

-----------------------------------------------------------------------------
(* The address memtest returns.                                            *)

\* Both comparisons succeed exactly at a word whose chip holds no bit fast.
LEMMA Judged ==
  ASSUME Kept, i \in Addresses
  PROVE  Stored(Here, Bits \ Stored(Here, pat0)) = pat1 /\ Stored(Here, pat0) = pat0 <=> Good(i)
<1> DEFINE one == machine.one[Here]
           zero == machine.zero[Here]
<1>1. one \in SUBSET Bits /\ zero \in SUBSET Bits
  <2>1. /\ machine.one[Here] \subseteq machine.cells[Here] /\ machine.cells[Here] \subseteq Bits
        /\ machine.zero[Here] \subseteq Bits \ machine.cells[Here]
    BY Chips
  <2> QED
    BY <2>1
<1>2. Good(i) <=> one = {} /\ zero = {}
  BY DEF Good, Here
<1>3. \A w : Stored(Here, w) = (w \cup one) \ zero
  BY DEF Stored
<1> HIDE DEF one, zero
<1> QED
  BY <1>1, <1>2, <1>3, BothPatterns

\* A multiple of four between i and the next one is i.
LEMMA NextWord ==
  ASSUME NEW a \in Addresses, NEW b \in Addresses, a < b + 4
  PROVE  a <= b
BY PatternAssumption DEF Addresses

LEMMA TestedKept == Kept /\ Tested /\ [Next]_vars => Tested'
<1> SUFFICES ASSUME Kept, Tested, [Next]_vars PROVE Tested'
  OBVIOUS
<1> DEFINE Upto(n) == \A a \in Addresses : start <= a /\ a < n => Good(a)
<1>1. CASE UNCHANGED vars
  BY <1>1 DEF Tested, Testing, TopReached, Good, vars
<1>2. CASE Next
  <2>1. machine' = machine /\ start' = start /\ end' = end
    BY <1>2 DEF Next, probe, disable, for, write, invert, compare, again, enable, range
  <2>2. TopReached' <=> TopReached
    BY <2>1 DEF TopReached
  <2>3. \A a : Good(a)' <=> Good(a)
    BY <2>1 DEF Good
  <2>4. start \in Nat /\ end \in Nat /\ TOP \in Nat
    BY PatternAssumption DEF Kept, Addresses
  <2> SUFFICES ASSUME ~TopReached
               PROVE  /\ pc' \notin {"probe", "disable"} =>
                           /\ start <= i' /\ (i' = start \/ i' - 4 <= end)
                           /\ Upto(i')
                      /\ Testing' => i' <= end
                      /\ pc' \in {"enable", "done"} => (IF i' <= end THEN ~Good(i') ELSE TRUE)
    <3>1. (\A a \in Addresses : start <= a /\ a < i => Good(a))' <=> Upto(i')
      BY <2>1, <2>3
    <3> QED
      BY <2>1, <2>2, <2>3, <3>1 DEF Tested
  <2>5. CASE probe
    BY <2>5 DEF probe, Testing
  <2>6. CASE disable
    <3>1. i' = start /\ pc' = "for"
      BY <2>6 DEF disable
    <3>2. Upto(start)
      BY <2>4 DEF Addresses
    <3> QED
      BY <2>4, <3>1, <3>2 DEF Testing
  <2>7. CASE for
    <3>1. i' = i /\ pc = "for" /\ ((pc' = "write" /\ i <= end) \/ (pc' = "enable" /\ i > end))
      BY <2>7 DEF for
    <3>2. i \in Nat
      BY <3>1 DEF Kept, CacheOff, Addresses
    <3>3. start <= i /\ (i = start \/ i - 4 <= end) /\ Upto(i)
      BY <3>1 DEF Tested
    <3> QED
      BY <2>4, <3>1, <3>2, <3>3 DEF Testing
  <2>8. CASE write \/ invert
    <3>1. i' = i /\ Testing /\ pc' \in {"invert", "compare"} /\ pc \notin {"probe", "disable"}
      BY <2>8 DEF write, invert, Testing
    <3> QED
      BY <3>1 DEF Tested, Testing
  <2>9. CASE compare \/ again
    <3>1. Testing /\ pc \in {"compare", "again"} /\ i \in Addresses
      BY <2>9 DEF compare, again, Testing, Kept, CacheOff
    <3>2. start <= i /\ (i = start \/ i - 4 <= end) /\ Upto(i) /\ i <= end
      BY <3>1 DEF Tested
    <3>3. Word = mem[Here]
      BY <3>1, Access
    <3>4. Stored(Here, Bits \ Stored(Here, pat0)) = pat1 /\ Stored(Here, pat0) = pat0 <=> Good(i)
      BY <3>1, Judged
    <3>5. CASE compare
      <4>1. i' = i /\ pc = "compare" /\ ((Word # pat1 /\ pc' = "enable") \/ pc' = "again")
        BY <3>5 DEF compare
      <4>2. mem[Here] = Stored(Here, Bits \ Stored(Here, pat0))
        BY <4>1 DEF Kept, Contents
      <4>3. pc' = "enable" => ~Good(i)
        BY <3>3, <3>4, <4>1, <4>2
      <4> QED
        BY <3>2, <4>1, <4>3 DEF Testing
    <3>6. CASE again /\ Word # pat0
      <4>1. i' = i /\ pc = "again" /\ pc' = "enable"
        BY <3>6 DEF again
      <4>2. ~Good(i)
        BY <3>3, <3>4, <3>6, <4>1 DEF Kept, Contents
      <4> QED
        BY <3>2, <4>1, <4>2 DEF Testing
    <3>7. CASE again /\ Word = pat0
      <4>1. i' = (i + 4) % TOP /\ pc = "again" /\ pc' = "for"
        BY <3>7 DEF again
      <4>2. Good(i)
        BY <3>3, <3>4, <3>7, <4>1 DEF Kept, Contents
      <4>3. i' = i + 4 /\ i \in Nat
        <5>1. i \in Nat /\ i + 4 < TOP
          BY <2>4, <3>1, <3>2 DEF TopReached, Addresses
        <5> QED
          BY <2>4, <4>1, <5>1
      <4>4. Upto(i + 4)
        <5> SUFFICES ASSUME NEW a \in Addresses, start <= a, a < i + 4 PROVE Good(a)
          OBVIOUS
        <5>1. a <= i /\ a \in Nat
          BY <3>1, NextWord DEF Addresses
        <5> QED
          BY <3>2, <4>2, <4>3, <5>1
      <4> HIDE DEF Upto
      <4> QED
        BY <2>4, <3>2, <4>1, <4>3, <4>4 DEF Testing
    <3> QED
      BY <2>9, <3>5, <3>6, <3>7
  <2>10. CASE enable
    <3>1. i' = i /\ pc = "enable" /\ pc' = "done"
      BY <2>10 DEF enable
    <3> QED
      BY <3>1 DEF Tested, Testing
  <2> QED
    BY <1>2, <2>5, <2>6, <2>7, <2>8, <2>9, <2>10 DEF Next
<1> QED
  BY <1>1, <1>2

\* memtest returns the first address of the range that holds no memory, or the first
\* past the range when there is none, for any chips behind the addresses.
THEOREM FaultFound == Spec => []FirstFault
<1>1. Kept /\ Tested => FirstFault
  <2> SUFFICES ASSUME Kept, Tested, pc = "done", ~TopReached
               PROVE  LET words  == {a \in Addresses : start <= a}
                          faults == {a \in words : a <= end /\ ~Good(a)}
                      IN i = Min(IF faults # {} THEN faults ELSE {a \in words : end < a})
    BY DEF FirstFault
  <2> DEFINE words  == {a \in Addresses : start <= a}
             faults == {a \in words : a <= end /\ ~Good(a)}
             past   == {a \in words : end < a}
  <2>1. /\ i \in Addresses /\ start <= i /\ (i = start \/ i - 4 <= end)
        /\ \A a \in Addresses : start <= a /\ a < i => Good(a)
        /\ IF i <= end THEN ~Good(i) ELSE TRUE
    BY DEF Kept, CacheOff, Tested
  <2>2. i \in Nat /\ start \in Nat /\ end \in Nat /\ \A a \in Addresses : a \in Nat
    BY <2>1, PatternAssumption DEF Kept, Addresses
  <2>3. \A S \in SUBSET Addresses : i \in S /\ (\A a \in S : i <= a) => i = Min(S)
    <3> SUFFICES ASSUME NEW S \in SUBSET Addresses, i \in S, \A a \in S : i <= a PROVE i = Min(S)
      OBVIOUS
    <3>1. Min(S) \in S /\ \A a \in S : Min(S) <= a
      BY DEF Min
    <3>2. Min(S) \in Nat /\ Min(S) <= i /\ i <= Min(S)
      BY <2>2, <3>1
    <3> QED
      BY <2>2, <3>2
  <2>4. CASE i <= end
    <3>1. i \in faults
      BY <2>1, <2>4
    <3>2. \A a \in faults : i <= a
      BY <2>1, <2>2
    <3> QED
      BY <2>3, <3>1, <3>2
  <2>5. CASE i > end
    <3>1. faults = {}
      <4> SUFFICES ASSUME NEW a \in faults PROVE FALSE
        OBVIOUS
      <4>1. a \in Nat /\ a <= end /\ a \in Addresses /\ start <= a /\ ~Good(a)
        BY <2>2
      <4> QED
        BY <2>1, <2>2, <2>5, <4>1
    <3>2. i \in past
      BY <2>1, <2>5
    <3>3. \A a \in past : i <= a
      <4> SUFFICES ASSUME NEW a \in past PROVE i <= a
        OBVIOUS
      <4>1. a \in Addresses /\ a \in Nat /\ start <= a /\ end < a
        BY <2>2
      <4>2. CASE i = start
        BY <4>1, <4>2
      <4>3. CASE i - 4 <= end
        <5>1. i < a + 4
          BY <2>2, <4>1, <4>3
        <5> QED
          BY <2>1, <4>1, <5>1, NextWord
      <4> QED
        BY <2>1, <4>2, <4>3
    <3> QED
      BY <2>3, <3>1, <3>2, <3>3
  <2> QED
    BY <2>2, <2>4, <2>5
<1>2. Init => Kept /\ Tested
  BY InitKept
<1>3. Kept /\ Tested /\ [Next]_vars => Kept' /\ Tested'
  BY StepKept, TestedKept
<1> QED
  BY <1>1, <1>2, <1>3, PTL DEF Spec
=============================================================================

--------------------------- MODULE StartupProofs ----------------------------
(***************************************************************************)
(* Proofs about the start-up: of the boot sector, of the descriptors the   *)
(* setup writes, of paging, and last of the whole, in which each part sees *)
(* only its own, whatever order firmware and kernel take their steps in.   *)
(***************************************************************************)
EXTENDS Startup, TLAPS, SequenceTheorems

-----------------------------------------------------------------------------
(* The boot sector: any drive, any pattern of failing reads.               *)

\* How many sectors lie in place when the next one is read.
InPlace == (ch * 2 + dh) * LastSector + cl - 1

\* One failure more than si may be counted only where the loader has given up.
Tries == /\ stage \in {"second", "rest"} => failures = si /\ si \in 0..4
         /\ stage = "fin" => failures = 0
         /\ stage = "error" => failures = 5

\* Where the read loop is: the segment follows cylinder, head and sector.
Position ==
  /\ stage = "second" => ch = 0 /\ dh = 0 /\ cl = 2 /\ es = INITSEG
  /\ stage = "rest" => /\ ch \in 0..(Cylinders - 1) /\ dh \in 0..1 /\ cl \in 1..LastSector
                       /\ es = SYSSEG + 32 * (InPlace - 2) /\ InPlace >= 2

\* The first n places of the image hold the sectors that belong there.
Ordered(n) == \A k \in 0..(n - 1) : ram[SYS + k] = ImageSector(k)

\* What is in memory.
Memory ==
  /\ ram \in [Sectors -> Int] /\ sectorsPerTrack \in Int
  /\ stage = "rest" => Ordered(InPlace)
  /\ stage = "fin" => Ordered(Size) /\ sectorsPerTrack >= LastSector
  /\ LoaderIntact

\* The inductive invariant.
Loading == /\ stage \in {"second", "rest", "fin", "error"}
           /\ Tries /\ Position /\ Memory

-----------------------------------------------------------------------------
(* Arithmetic of the three counters.                                       *)

LEMMA Addresses == INITSEG = 28672 /\ SYSSEG = 4096 /\ INIT = 896 /\ SYS = 128
BY DEF INITSEG, SYSSEG, INIT, SYS, Segment

LEMMA Geometry ==
  /\ Heads = 2 /\ LastSector \in 3..63 /\ Cylinders \in Nat \ {0}
  /\ Size = LastSector * 2 * Cylinders
BY GeometryAssumption DEF Size

LEMMA Sizes == Size \in Nat /\ LastSector \in 3..63 /\ LastSector <= Size /\ Size <= 768
<1>1. \A l, c \in Nat : c >= 1 => l <= l * 2 * c /\ l * 2 * c \in Nat
  OBVIOUS
<1>2. Size \in Nat /\ LastSector <= Size
  BY <1>1, Geometry
<1> QED
  BY <1>2, Geometry, Addresses, RoomAssumption

LEMMA InSectors ==
  /\ 128 \in Sectors /\ 129 \in Sectors /\ 896 \in Sectors /\ 897 \in Sectors
  /\ \A n \in 0..767 : 128 + n \in Sectors
BY DEF Sectors

\* One sector of memory is written.
LEMMA Written ==
  ASSUME NEW f \in [Sectors -> Int], NEW b \in Sectors, NEW v \in Int,
         NEW g, g = [f EXCEPT ![b] = v]
  PROVE  g \in [Sectors -> Int] /\ g[b] = v /\ \A c \in Sectors : c # b => g[c] = f[c]
OBVIOUS

LEMMA InPlaces ==
  /\ 128 \in Place /\ 129 \in Place /\ 896 \in Place /\ 897 \in Place
  /\ \A n \in 2..(Size - 1) : 128 + n \in Place
<1>1. INIT = 896 /\ SYS = 128 /\ Size \in Nat /\ 3 <= Size
  BY Addresses, Sizes
<1>2. 896 \in Place /\ 897 \in Place
  BY <1>1 DEF Place
<1>3. \A b \in 128..(128 + Size - 1) : b \in Place
  BY <1>1 DEF Place
<1> QED
  BY <1>1, <1>2, <1>3

\* A read of the rest stays within the image.
LEMMA ReadsWithin ==
  ASSUME NEW c \in 0..(Cylinders - 1), NEW h \in 0..1, NEW s \in 1..LastSector
  PROVE  (c * 2 + h) * LastSector + s - 1 \in 0..(Size - 1)
<1>1. c \in Nat /\ h \in Nat /\ s \in Nat /\ LastSector \in Nat /\ Cylinders \in Nat
      /\ c + 1 <= Cylinders /\ h <= 1 /\ s <= LastSector /\ 1 <= s
  BY Geometry
<1>2. (c + 1) * (2 * LastSector) <= Cylinders * (2 * LastSector)
  <2>1. \A a, b, l \in Nat : a <= b => a * l <= b * l
    OBVIOUS
  <2> QED
    BY <1>1, <2>1
<1>3. (c * 2 + h) * LastSector <= (c * 2 + 1) * LastSector
  <2>1. \A a, b, l \in Nat : a <= b => a * l <= b * l
    OBVIOUS
  <2> QED
    BY <1>1, <2>1
<1>4. (c * 2 + 1) * LastSector + LastSector = (c + 1) * (2 * LastSector)
  BY <1>1
<1>5. Size = Cylinders * (2 * LastSector)
  BY <1>1, Geometry
<1>6. (c * 2 + h) * LastSector \in Nat /\ Size \in Nat
  BY <1>1, Sizes
<1> QED
  BY <1>1, <1>2, <1>3, <1>4, <1>5, <1>6

\* Track and sector of a place are found again by division.
LEMMA Divided ==
  ASSUME NEW l \in Nat, NEW t \in Nat, NEW r \in Nat, r < l
  PROVE  (t * l + r) \div l = t /\ (t * l + r) % l = r
<1> DEFINE n == t * l + r
           q == n \div l
           m == n % l
<1>1. n \in Nat /\ l \in Nat \ {0} /\ t * l \in Nat
  OBVIOUS
<1>2. n = t * l + r
  OBVIOUS
<1> HIDE DEF n
<1>3. q \in Nat /\ m \in Nat /\ m < l /\ n = q * l + m
  BY <1>1
<1> HIDE DEF q, m
<1>4. \A x, y \in Nat : x < y => x * l + l <= y * l /\ x * l \in Nat /\ y * l \in Nat
  <2>1. \A x, y, z \in Nat : x + 1 <= y => (x + 1) * z <= y * z
    OBVIOUS
  <2>2. \A x \in Nat : (x + 1) * l = x * l + l /\ x * l \in Nat
    OBVIOUS
  <2> QED
    BY <2>1, <2>2
<1>5. ~ (q < t)
  BY <1>1, <1>2, <1>3, <1>4
<1>6. ~ (t < q)
  BY <1>1, <1>2, <1>3, <1>4
<1>7. q = t
  BY <1>3, <1>5, <1>6
<1>8. m = r
  BY <1>1, <1>2, <1>3, <1>7
<1> QED
  BY <1>7, <1>8 DEF n, q, m

\* The first track of the image is the first track of the disk.
LEMMA FirstTrack ==
  ASSUME NEW k \in Nat, k < LastSector, sectorsPerTrack \in Int
  PROVE  ImageSector(k) = k
<1>1. LastSector \in Nat /\ 0 * LastSector + k = k /\ 0 * sectorsPerTrack = 0
  BY Geometry
<1>2. k \div LastSector = 0 /\ k % LastSector = k
  <2>1. (0 * LastSector + k) \div LastSector = 0 /\ (0 * LastSector + k) % LastSector = k
    BY <1>1, Divided
  <2> QED
    BY <1>1, <2>1
<1> QED
  BY <1>1, <1>2 DEF ImageSector

\* The counters advance to the sector that follows, or are at the end.
LEMMA NextPlace ==
  ASSUME Loading, rest
  PROVE  \/ stage' = "rest" /\ InPlace' = InPlace + 1
            /\ ch' \in 0..(Cylinders - 1) /\ dh' \in 0..1 /\ cl' \in 1..LastSector
         \/ stage' = "fin" /\ InPlace + 1 = Size
<1>1. /\ ch \in 0..(Cylinders - 1) /\ dh \in 0..1 /\ cl \in 1..LastSector
      /\ stage = "rest" /\ next2
  BY DEF Loading, Position, rest
<1>2. LastSector \in 3..63 /\ Cylinders \in Nat \ {0} /\ Heads = 2
      /\ Size = LastSector * 2 * Cylinders
  BY Geometry
<1>3. CASE cl + 1 <= LastSector
  <2>1. stage' = "rest" /\ ch' = ch /\ dh' = dh /\ cl' = cl + 1
    BY <1>1, <1>3 DEF next2
  <2>2. (ch * 2 + dh) * LastSector \in Int
    BY <1>1, <1>2
  <2>3. InPlace' = InPlace + 1
    BY <1>1, <2>1, <2>2 DEF InPlace
  <2> QED
    BY <1>1, <1>2, <1>3, <2>1, <2>3
<1>4. CASE ~(cl + 1 <= LastSector) /\ dh + 1 < Heads
  <2>1. stage' = "rest" /\ ch' = ch /\ dh' = dh + 1 /\ cl' = 1 /\ cl = LastSector /\ dh = 0
    BY <1>1, <1>2, <1>4 DEF next2
  <2>2. InPlace' = (ch * 2 + 1) * LastSector /\ InPlace = ch * 2 * LastSector + LastSector - 1
    BY <1>1, <1>2, <2>1 DEF InPlace
  <2>3. InPlace' = InPlace + 1
    BY <1>1, <1>2, <2>2
  <2> QED
    BY <1>1, <1>2, <2>1, <2>3
<1>5. CASE ~(cl + 1 <= LastSector) /\ ~(dh + 1 < Heads)
  <2>1. /\ ch' = ch + 1 /\ dh' = 0 /\ cl' = 1 /\ cl = LastSector /\ dh = 1
        /\ stage' = IF ch + 1 < Cylinders THEN "rest" ELSE "fin"
    BY <1>1, <1>2, <1>5 DEF next2
  <2>2. /\ InPlace' = (ch + 1) * 2 * LastSector
        /\ InPlace = (ch * 2 + 1) * LastSector + LastSector - 1
    BY <1>1, <1>2, <2>1 DEF InPlace
  <2>3. InPlace' = InPlace + 1
    BY <1>1, <1>2, <2>2
  <2>4. CASE ch + 1 < Cylinders
    BY <1>1, <1>2, <2>1, <2>3, <2>4
  <2>5. CASE ~(ch + 1 < Cylinders)
    <3>1. ch + 1 = Cylinders
      BY <1>1, <1>2, <2>5
    <3>2. InPlace' = Size
      BY <1>1, <1>2, <2>2, <3>1
    <3> QED
      BY <2>1, <2>3, <2>5, <3>2
  <2> QED
    BY <2>4, <2>5
<1> QED
  BY <1>3, <1>4, <1>5

\* The sector read goes where it belongs, one behind those in place.
LEMMA Placed ==
  ASSUME Loading, rest
  PROVE  /\ InPlace \in 2..(Size - 1)
         /\ ram' = [ram EXCEPT ![SYS + InPlace] = Lba(ch, dh, cl)] /\ Lba(ch, dh, cl) \in Int
         /\ es' = SYSSEG + 32 * (InPlace + 1 - 2)
         /\ Lba(ch, dh, cl) = ImageSector(InPlace)
<1>1. /\ ch \in 0..(Cylinders - 1) /\ dh \in 0..1 /\ cl \in 1..LastSector
      /\ es = SYSSEG + 32 * (InPlace - 2) /\ InPlace >= 2 /\ sectorsPerTrack \in Int
  BY DEF Loading, Position, Memory, rest
<1>2. LastSector \in 3..63 /\ Cylinders \in Nat \ {0} /\ SYSSEG = 4096 /\ SYS = 128
  BY Geometry, Addresses
<1>3. InPlace \in 2..(Size - 1)
  BY <1>1, <1>2, ReadsWithin DEF InPlace
<1>4. Segment(es) + (1024 \div 512) = SYS + InPlace
  <2>1. InPlace - 2 \in Nat /\ InPlace \in Int
    BY <1>3, Sizes
  <2>2. \A n \in Nat : (4096 + 32 * n) \div 32 = 128 + n
    OBVIOUS
  <2>3. es \div 32 = 128 + (InPlace - 2)
    BY <1>1, <1>2, <2>1, <2>2
  <2>4. 1024 \div 512 = 2
    OBVIOUS
  <2> QED
    BY <1>2, <2>1, <2>3, <2>4 DEF Segment
<1>5. ram' = [ram EXCEPT ![SYS + InPlace] = Lba(ch, dh, cl)]
  BY <1>4 DEF rest, Loaded
<1>6. es' = SYSSEG + 32 * (InPlace + 1 - 2)
  BY <1>1, <1>2, <1>3, Sizes DEF rest, Advance
<1>7. Lba(ch, dh, cl) = (ch * 2 + dh) * sectorsPerTrack + cl - 1 /\ Lba(ch, dh, cl) \in Int
  BY <1>1, <1>2 DEF Lba
<1>8. Lba(ch, dh, cl) = ImageSector(InPlace)
  <2>1. ch * 2 + dh \in Nat /\ cl - 1 \in Nat /\ cl - 1 < LastSector /\ LastSector \in Nat
    BY <1>1, <1>2
  <2>2. InPlace = (ch * 2 + dh) * LastSector + (cl - 1)
    <3>1. (ch * 2 + dh) * LastSector \in Nat
      BY <2>1
    <3> QED
      BY <1>1, <2>1, <3>1 DEF InPlace
  <2>3. InPlace \div LastSector = ch * 2 + dh /\ InPlace % LastSector = cl - 1
    BY <2>1, <2>2, Divided
  <2>4. (ch * 2 + dh) * sectorsPerTrack \in Int
    BY <1>1, <2>1
  <2> QED
    BY <1>1, <1>7, <2>3, <2>4 DEF ImageSector
<1> QED
  BY <1>3, <1>5, <1>6, <1>7, <1>8

-----------------------------------------------------------------------------
(* The invariant.                                                          *)

LEMMA InitLoading == LoadInit => Loading
<1> SUFFICES ASSUME LoadInit PROVE Loading
  OBVIOUS
<1>1. sectorsPerTrack \in Int /\ stage = "second"
  BY GeometryAssumption DEF LoadInit
<1>2. Tries /\ Position
  BY DEF LoadInit, Tries, Position
<1>3. Lba(0, 0, 1) = 0
  BY <1>1 DEF Lba
<1>4. /\ ram \in [Sectors -> Int] /\ ram[INIT] = 0
      /\ \A b \in DOMAIN ram : ram[b] # NOTHING => b = INIT
  BY <1>3, Addresses, InSectors DEF LoadInit, NOTHING
<1>5. Memory
  <2>1. INIT \in Place
    BY Addresses, InPlaces
  <2> QED
    BY <1>1, <1>4, <2>1 DEF Memory, LoaderIntact
<1> QED
  BY <1>1, <1>2, <1>5 DEF Loading

LEMMA SecondLoading == Loading /\ second => Loading'
<1> SUFFICES ASSUME Loading, second PROVE Loading'
  OBVIOUS
<1>1. /\ stage = "second" /\ ch = 0 /\ dh = 0 /\ cl = 2 /\ es = 28672
      /\ ram \in [Sectors -> Int] /\ sectorsPerTrack \in Int /\ ram[896] = 0
      /\ \A b \in Sectors : ram[b] # NOTHING => b \in Place
  BY Addresses DEF Loading, Position, Memory, LoaderIntact, second
<1>2. Lba(ch, dh, cl) = 1
  BY <1>1 DEF Lba
<1>3. Segment(es) + (512 \div 512) = 897
  BY <1>1 DEF Segment
<1> DEFINE read  == [ram EXCEPT ![897] = 1]
           moved == [read EXCEPT ![128] = 0]
<1>4. /\ read \in [Sectors -> Int] /\ read[897] = 1 /\ read[896] = 0
      /\ \A c \in Sectors : c # 897 => read[c] = ram[c]
  BY <1>1, Written, InSectors
<1>5. /\ moved \in [Sectors -> Int] /\ moved[128] = 0
      /\ \A c \in Sectors : c # 128 => moved[c] = read[c]
  <2> HIDE DEF read
  <2> QED
    BY <1>4, Written, InSectors
<1>6. Loaded(512) = read
  BY <1>2, <1>3 DEF Loaded
<1>7. ram' = [moved EXCEPT ![129] = 1]
  <2> HIDE DEF read
  <2>1. ram' = [read EXCEPT ![128] = read[896], ![129] = read[897]]
    <3>1. 128 + 1 = 129 /\ 896 + 1 = 897
      OBVIOUS
    <3> QED
      BY <1>6, <3>1, Addresses DEF second
  <2>2. ram' = [read EXCEPT ![128] = 0, ![129] = 1]
    BY <1>4, <2>1
  <2> QED
    BY <2>2 DEF moved
<1> HIDE DEF read, moved
<1>8. /\ ram' \in [Sectors -> Int] /\ ram'[129] = 1
      /\ \A c \in Sectors : c # 129 => ram'[c] = moved[c]
  BY <1>5, <1>7, Written, InSectors
<1>9. ram'[128] = 0 /\ ram'[896] = 0 /\ ram'[897] = 1
  BY <1>4, <1>5, <1>8, InSectors
<1>10. \A b \in Sectors : ram'[b] # NOTHING => b \in Place
  <2>1. \A b \in Sectors : b \notin {128, 129, 897} => ram'[b] = ram[b]
    BY <1>4, <1>5, <1>8
  <2> QED
    BY <1>1, <2>1, InPlaces
<1>11. /\ stage' = "rest" /\ ch' = 0 /\ dh' = 0 /\ cl' = 3 /\ si' = 0 /\ failures' = 0
       /\ es' = SYSSEG /\ sectorsPerTrack' = sectorsPerTrack
  BY DEF second
<1>12. InPlace' = 2
  BY <1>11, Geometry DEF InPlace
<1>13. Tries' /\ Position'
  BY <1>11, <1>12, Geometry, Addresses DEF Tries, Position
<1>14. Ordered(InPlace)'
  <2>1. ImageSector(0)' = 0 /\ ImageSector(1)' = 1
    <3>1. ImageSector(0) = 0 /\ ImageSector(1) = 1
      BY <1>1, FirstTrack, Geometry
    <3> QED
      BY <1>11, <3>1 DEF ImageSector
  <2>2. ram'[SYS] = 0 /\ ram'[SYS + 1] = 1 /\ SYS + 0 = SYS
    BY <1>8, <1>9, Addresses
  <2>3. ASSUME NEW k \in 0..1 PROVE ram'[SYS + k] = ImageSector(k)'
    <3>1. CASE k = 0
      BY <2>1, <2>2, <3>1
    <3>2. CASE k = 1
      BY <2>1, <2>2, <3>2
    <3> QED
      BY <3>1, <3>2
  <2>4. InPlace' - 1 = 1
    BY <1>12
  <2> QED
    BY <2>3, <2>4 DEF Ordered
<1>15. LoaderIntact'
  <2>1. ram'[INIT] = 0 /\ ram'[INIT + 1] = 1 /\ DOMAIN ram' = Sectors
    BY <1>8, <1>9, Addresses
  <2> QED
    BY <1>10, <2>1 DEF LoaderIntact
<1> QED
  BY <1>1, <1>8, <1>11, <1>13, <1>14, <1>15 DEF Loading, Memory

LEMMA RestLoading == Loading /\ rest => Loading'
<1> SUFFICES ASSUME Loading, rest PROVE Loading'
  OBVIOUS
<1> DEFINE n == InPlace
<1>1. /\ n \in 2..(Size - 1) /\ ram' = [ram EXCEPT ![SYS + n] = Lba(ch, dh, cl)]
      /\ Lba(ch, dh, cl) \in Int /\ es' = SYSSEG + 32 * (n + 1 - 2)
      /\ Lba(ch, dh, cl) = ImageSector(n)
  BY Placed
<1>2. /\ ram \in [Sectors -> Int] /\ sectorsPerTrack \in Int /\ Ordered(n) /\ LoaderIntact /\ stage = "rest"
  BY DEF Loading, Memory, rest
<1>3. \/ stage' = "rest" /\ InPlace' = n + 1
         /\ ch' \in 0..(Cylinders - 1) /\ dh' \in 0..1 /\ cl' \in 1..LastSector
      \/ stage' = "fin" /\ n + 1 = Size
  BY NextPlace
<1>4. sectorsPerTrack' = sectorsPerTrack /\ si' = 0 /\ failures' = 0
  BY DEF rest, readloop2
<1> HIDE DEF n
<1>5. n \in Nat /\ n + 1 <= 768 /\ 128 + n \in 0..895 /\ 128 + n \in Place
  BY <1>1, Sizes, InPlaces
<1>6. /\ ram' \in [Sectors -> Int] /\ ram'[128 + n] = Lba(ch, dh, cl)
      /\ \A b \in Sectors : b # 128 + n => ram'[b] = ram[b]
  <2>1. ram' = [ram EXCEPT ![128 + n] = Lba(ch, dh, cl)]
    BY <1>1, Addresses
  <2>2. 128 + n \in Sectors
    BY <1>5, InSectors
  <2>3. ram \in [Sectors -> Int] /\ Lba(ch, dh, cl) \in Int
    BY <1>1, <1>2
  <2> QED
    BY <2>1, <2>2, <2>3, Written
<1>7. \A k \in 0..n : ram'[128 + k] = ImageSector(k)'
  <2>1. ASSUME NEW k \in 0..n PROVE ram'[128 + k] = ImageSector(k)
    <3>1. CASE k = n
      BY <1>1, <1>6, <3>1
    <3>2. CASE k # n
      <4>1. k \in 0..(n - 1) /\ 128 + k \in Sectors /\ 128 + k # 128 + n
        BY <1>5, <3>2, InSectors
      <4>2. ram[128 + k] = ImageSector(k)
        BY <1>2, <4>1, Addresses DEF Ordered
      <4> QED
        BY <1>6, <4>1, <4>2
    <3> QED
      BY <3>1, <3>2
  <2> QED
    BY <1>4, <2>1 DEF ImageSector
<1>8. Tries'
  BY <1>3, <1>4 DEF Tries
<1>9. Position'
  <2>1. stage' = "rest" => es' = SYSSEG + 32 * (InPlace' - 2) /\ InPlace' >= 2
    BY <1>1, <1>3, <1>5
  <2> QED
    BY <1>3, <2>1 DEF Position
<1>10. stage' = "rest" => Ordered(InPlace)'
  <2> SUFFICES ASSUME stage' = "rest" PROVE Ordered(InPlace)'
    OBVIOUS
  <2>1. InPlace' - 1 = n
    BY <1>3, <1>5
  <2> QED
    BY <1>7, <2>1, Addresses DEF Ordered
<1>11. stage' = "fin" => Ordered(Size)'
  <2> SUFFICES ASSUME stage' = "fin" PROVE Ordered(Size)'
    OBVIOUS
  <2>1. Size - 1 = n
    BY <1>3, <1>5
  <2> QED
    BY <1>7, <2>1, Addresses DEF Ordered
<1>12. LoaderIntact'
  <2>1. /\ ram[INIT] = 0 /\ ram[INIT + 1] = 1 /\ DOMAIN ram = Sectors
        /\ \A b \in Sectors : ram[b] # NOTHING => b \in Place
    BY <1>2 DEF LoaderIntact
  <2>2. INIT # 128 + n /\ INIT + 1 # 128 + n /\ INIT \in Sectors /\ INIT + 1 \in Sectors
    BY <1>5, Addresses, InSectors
  <2>3. ram'[INIT] = 0 /\ ram'[INIT + 1] = 1 /\ DOMAIN ram' = Sectors
    BY <1>6, <2>1, <2>2
  <2>4. \A b \in Sectors : ram'[b] # NOTHING => b \in Place
    BY <1>5, <1>6, <2>1
  <2> QED
    BY <2>3, <2>4 DEF LoaderIntact
<1>13. stage' = "fin" => sectorsPerTrack' >= LastSector
  <2>1. stage' = "fin" => cl >= LastSector
    <3>1. cl \in 1..LastSector /\ LastSector \in Nat /\ stage # "fin"
      BY <1>2, Geometry DEF Loading, Position
    <3>2. cl + 1 <= LastSector => stage' = stage
      BY DEF rest, next2
    <3> QED
      BY <3>1, <3>2
  <2>2. cl <= sectorsPerTrack /\ cl \in 1..LastSector /\ LastSector \in Nat
    BY <1>2, Geometry DEF rest, OnDisk, Loading, Position
  <2> QED
    BY <1>2, <1>4, <2>1, <2>2
<1>14. stage' \in {"second", "rest", "fin", "error"}
  BY <1>3
<1> QED
  BY <1>2, <1>3, <1>4, <1>6, <1>8, <1>9, <1>10, <1>11, <1>12, <1>13, <1>14 DEF Loading, Memory

LEMMA FailsLoading == Loading /\ fails => Loading'
<1> SUFFICES ASSUME Loading, fails PROVE Loading'
  OBVIOUS
<1>1. /\ stage \in {"second", "rest"} /\ failures = si /\ si \in 0..4
      /\ UNCHANGED <<sectorsPerTrack, ch, dh, cl, es, ram>>
  BY DEF Loading, Tries, fails
<1>2. si' = si + 1 /\ failures' = si + 1 /\ stage' = IF si + 1 >= 5 THEN "error" ELSE stage
  BY <1>1 DEF fails, retry
<1>3. Tries' /\ stage' \in {"second", "rest", "error"} /\ (stage' # "error" => stage' = stage)
  BY <1>1, <1>2 DEF Tries
<1>4. InPlace' = InPlace
  BY <1>1 DEF InPlace
<1>5. Position'
  BY <1>1, <1>3, <1>4 DEF Loading, Position
<1>6. LoaderIntact'
  BY <1>1, <1>3 DEF Loading, Memory, LoaderIntact, Size
<1>7. stage' = "rest" => Ordered(InPlace)'
  BY <1>1, <1>3, <1>4 DEF Loading, Memory, Ordered, ImageSector
<1> QED
  BY <1>1, <1>3, <1>5, <1>6, <1>7 DEF Loading, Memory

\* Whatever the drive does: the loop's counters, the segment and the image in memory
\* agree, and si counts the failures of the sector being read.
THEOREM LoadInvariant == LoadSpec => []Loading
<1>1. Loading /\ [LoadNext]_loadVars => Loading'
  <2> SUFFICES ASSUME Loading, [LoadNext]_loadVars PROVE Loading'
    OBVIOUS
  <2>1. CASE UNCHANGED loadVars
    <3>1. Tries' /\ Position' /\ stage' = stage
      BY <2>1 DEF loadVars, Loading, Tries, Position, InPlace
    <3>2. LoaderIntact' /\ (stage' = "fin" => Ordered(Size)' /\ sectorsPerTrack' >= LastSector)
      BY <2>1 DEF loadVars, Loading, Memory, LoaderIntact, Ordered, ImageSector
    <3>3. InPlace' = InPlace
      BY <2>1 DEF loadVars, InPlace
    <3>4. stage' = "rest" => Ordered(InPlace)'
      BY <2>1, <3>3 DEF loadVars, Loading, Memory, Ordered, ImageSector
    <3> QED
      BY <2>1, <3>1, <3>2, <3>4 DEF loadVars, Loading, Memory
  <2> QED
    BY <2>1, SecondLoading, RestLoading, FailsLoading DEF LoadNext
<1> QED
  BY <1>1, InitLoading, PTL DEF LoadSpec

\* Whatever its number of sectors per track, a drive is loaded to the end only if it has
\* those the loop reads, and then the image is made of the first LastSector of each track.
THEOREM LoadedByTracks == LoadSpec => []ImageByTracks
<1>1. Loading => ImageByTracks
  BY DEF ImageByTracks, Loading, Memory, Ordered
<1> QED
  BY <1>1, LoadInvariant, PTL

\* So the kernel lies in memory as on the disk if the drive has LastSector sectors per track.
THEOREM KernelInOrder ==
  LoadSpec => [](stage = "fin" /\ sectorsPerTrack = LastSector
                   => \A k \in 0..(Size - 1) : ram[SYS + k] = k)
<1>1. ASSUME Loading, stage = "fin", sectorsPerTrack = LastSector, NEW k \in 0..(Size - 1)
      PROVE  ram[SYS + k] = k
  <2>1. ram[SYS + k] = ImageSector(k)
    BY <1>1 DEF Loading, Memory, Ordered
  <2>2. k \in Nat /\ LastSector \in Nat \ {0}
    BY Sizes
  <2>3. (k \div LastSector) * LastSector + (k % LastSector) = k
    BY <2>2
  <2> QED
    BY <1>1, <2>1, <2>3 DEF ImageSector
<1>2. Loading => (stage = "fin" /\ sectorsPerTrack = LastSector
                   => \A k \in 0..(Size - 1) : ram[SYS + k] = k)
  BY <1>1
<1> QED
  BY <1>2, LoadInvariant, PTL

\* No read overwrites the two sectors that do the reading, nor anything beside the kernel.
THEOREM LoaderKept == LoadSpec => []LoaderIntact
<1>1. Loading => LoaderIntact
  BY DEF Loading, Memory
<1> QED
  BY <1>1, LoadInvariant, PTL

\* The loader gives up on five failures of one sector in a row, and on no fewer.
THEOREM GivesUpAfterFive == LoadSpec => []FiveTries
<1>1. Loading => FiveTries
  BY DEF Loading, Tries, FiveTries
<1> QED
  BY <1>1, LoadInvariant, PTL

-----------------------------------------------------------------------------
(* Descriptors: addresses and limits of any size.                          *)

Word32 == {n \in Nat : n <= 4294967295}

\* The processor enters a gate at the address the gate was built from, in the segment
\* it names: splitting the offset over two fields loses none of its 32 bits.
THEOREM GateKept ==
  ASSUME NEW offset \in Word32, NEW selector \in Nat, NEW ar \in Nat
  PROVE  LET g == set_gatedesc(offset, selector, ar)
         IN GateOffset(g) = offset /\ g.selector = selector
<1>1. (offset \div 65536) % 65536 = offset \div 65536
  <2>1. offset \div 65536 \in Nat /\ offset \div 65536 <= 65535
    BY SMT DEF Word32
  <2> QED
    BY <2>1, SMT
<1>2. offset = (offset % 65536) + 65536 * (offset \div 65536)
  BY SMT DEF Word32
<1> QED
  BY <1>1, <1>2, SMT DEF set_gatedesc, GateOffset

\* A segment begins where it was asked to: its base survives three fields.
LEMMA BaseKept ==
  ASSUME NEW limit \in Word32, NEW base \in Word32, NEW ar \in Nat
  PROVE  SegmentBase(set_segmdesc(limit, base, ar)) = base
<1> DEFINE middle == base \div 65536
<1>1. middle \in Nat /\ middle <= 65535 /\ base = (base % 65536) + 65536 * middle
  BY SMT DEF Word32
<1>2. base \div 16777216 = middle \div 256
  BY <1>1, SMT DEF Word32
<1>3. (middle \div 256) % 256 = middle \div 256
  BY <1>1, SMT
<1> HIDE DEF middle
<1>4. middle = (middle % 256) + 256 * (middle \div 256)
  BY <1>1, SMT
<1>5. set_segmdesc(limit, base, ar).base_mid = middle % 256
  BY SMT DEF set_segmdesc, middle
<1>6. set_segmdesc(limit, base, ar).base_high = middle \div 256
  BY <1>2, <1>3, SMT DEF set_segmdesc
<1>7. set_segmdesc(limit, base, ar).base_low = base % 65536
  BY SMT DEF set_segmdesc
<1>8. SegmentBase(set_segmdesc(limit, base, ar))
        = (base % 65536) + 65536 * (middle % 256) + 16777216 * (middle \div 256)
  BY <1>5, <1>6, <1>7, SMT DEF SegmentBase
<1>9. middle % 256 \in Nat /\ middle \div 256 \in Nat /\ base % 65536 \in Nat
  BY <1>1, SMT DEF Word32
<1> QED
  BY <1>1, <1>4, <1>8, <1>9, SMT

\* And it ends where it was asked to, at a limit in bytes or at a whole number of pages.
LEMMA LimitKept ==
  ASSUME NEW limit \in Word32, limit <= 1048575 \/ limit % 4096 = 4095,
         NEW base \in Word32, NEW ar \in Nat, (ar \div 4096) % 16 < 8,
         NEW offset \in Word32
  PROVE  Within(set_segmdesc(limit, base, ar), offset) <=> offset <= limit
<1> DEFINE pages  == limit > 1048575
           length == IF pages THEN limit \div 4096 ELSE limit
           flags  == IF pages THEN ((ar \div 4096) % 8) + 8 ELSE (ar \div 4096) % 16
           d      == set_segmdesc(limit, base, ar)
<1>1. length \in Nat /\ length <= 1048575
  BY SMT DEF Word32
<1>2. flags \in 0..15 /\ (flags >= 8 <=> pages)
  <2>1. ar \div 4096 \in Nat
    BY SMT
  <2>2. (ar \div 4096) % 8 \in 0..7 /\ (ar \div 4096) % 16 \in 0..15
    BY <2>1, SMT
  <2> QED
    BY <2>2, SMT
<1>3. d.limit_low = length % 65536 /\ d.limit_high = ((length \div 65536) % 16) + 16 * flags
  BY SMT DEF set_segmdesc
<1>4. offset <= limit <=> IF pages THEN offset \div 4096 <= length ELSE offset <= length
  BY SMT DEF Word32
<1> HIDE DEF length, flags, d
<1>5. length \div 65536 \in 0..15 /\ length = (length % 65536) + 65536 * (length \div 65536)
  BY <1>1, SMT
<1>6. (length \div 65536) % 16 = length \div 65536
  BY <1>5, SMT
<1>7. d.limit_high % 16 = length \div 65536 /\ (d.limit_high >= 128 <=> flags >= 8)
  <2> DEFINE high == length \div 65536
  <2>1. d.limit_high = high + 16 * flags /\ high \in 0..15
    BY <1>3, <1>5, <1>6, SMT
  <2> HIDE DEF high
  <2>2. (high + 16 * flags) % 16 = high
    BY <1>2, <2>1, SMT
  <2> QED
    BY <1>2, <2>1, <2>2, SMT DEF high
<1>8. d.limit_low + 65536 * (d.limit_high % 16) = length
  BY <1>3, <1>5, <1>7, SMT
<1> QED
  BY <1>2, <1>4, <1>7, <1>8, SMT DEF Within, d

\* A segment covers exactly the addresses it was asked to.
THEOREM SegmentKept ==
  ASSUME NEW limit \in Word32, limit <= 1048575 \/ limit % 4096 = 4095,
         NEW base \in Word32, NEW ar \in Nat, (ar \div 4096) % 16 < 8
  PROVE  LET d == set_segmdesc(limit, base, ar)
         IN SegmentBase(d) = base /\ \A offset \in Word32 : Within(d, offset) <=> offset <= limit
BY BaseKept, LimitKept, SMT

-----------------------------------------------------------------------------
(* Paging: any number of entries and tables and any layout.                *)

\* A table of the directory's range is a page of its own.
LEMMA TablesApart ==
  ASSUME Built, NEW d \in Index, d < MAX_PAGE_PDE
  PROVE  TablesAt(Linear(at.tables + d)) = {d}
<1>1. at.tables \in Nat /\ d \in Table /\ Table \subseteq Nat /\ Base \in Nat
  BY PagingAssumption DEF Built, TypeOK, Index, Table
<1>2. \A k \in Table : Base + at.tables + k = at.tables + d + Base <=> k = d
  BY <1>1
<1> QED
  BY <1>1, <1>2 DEF TablesAt, Linear

\* Nothing is built when the kernel starts.
LEMMA InitBuilt == Init => Built
<1> SUFFICES ASSUME Init PROVE Built
  OBVIOUS
<1>1. TypeOK
  <2>1. page_directory \in [Index -> [present : BOOLEAN, page : Nat]]
    BY PagingAssumption DEF Init
  <2>2. page_tables \in [Table -> [Index -> [present : BOOLEAN, page : Nat]]]
    BY PagingAssumption DEF Init
  <2>3. j \in 0..MAX_PAGE_PDE /\ cr3 \in Nat
    BY PagingAssumption DEF Init
  <2>4. paging \in BOOLEAN /\ pc \notin {"fill", "link"}
    BY DEF Init
  <2> QED
    BY <2>1, <2>2, <2>3, <2>4 DEF Init, TypeOK
<1>2. \A d \in Table : ~(d < j)
  BY PagingAssumption DEF Init, Table
<1> QED
  BY <1>1, <1>2 DEF Init, Built

\* Clearing the directory finds nothing linked yet.
LEMMA ClearBuilt == Built /\ clear => Built'
<1> SUFFICES ASSUME Built, clear PROVE Built'
  OBVIOUS
<1>1. j = 0 /\ j' = 0 /\ at' = at /\ page_tables' = page_tables
  BY DEF Built, clear
<1>2. TypeOK'
  BY PagingAssumption DEF Built, TypeOK, clear, Entry
<1>3. \A d \in Index : Linked(d)'
  <2>1. \A d \in Index : ~(d < j')
    BY <1>1, PagingAssumption DEF Index
  <2> QED
    BY <2>1 DEF clear, Linked
<1>4. \A d \in Table : ~(d < j')
  BY <1>1, PagingAssumption DEF Table
<1> QED
  BY <1>2, <1>3, <1>4 DEF Built, clear

\* Filling a table fills the one that is linked next, and disturbs no other.
LEMMA FillBuilt == Built /\ fill => Built'
<1> SUFFICES ASSUME Built, fill PROVE Built'
  OBVIOUS
<1>1. j \in Table /\ j \in Nat
  BY PagingAssumption DEF Built, TypeOK, fill, Table
<1>2. \A t \in Index : Mapped(j, t) \in Nat
  BY <1>1, PagingAssumption DEF Mapped, Index
<1>3. TypeOK'
  BY <1>1, <1>2 DEF Built, TypeOK, fill, Entry
<1>4. \A d \in Index : Linked(d)'
  BY DEF Built, fill, Linked, Linear
<1>5. Filled(j)'
  BY <1>1 DEF Built, TypeOK, fill, Filled, Mapped
<1>6. ASSUME NEW d \in Table, d < j PROVE Filled(d)'
  BY <1>1, <1>6 DEF Built, TypeOK, fill, Filled, Mapped
<1> QED
  BY <1>1, <1>3, <1>4, <1>5, <1>6 DEF Built, fill

\* Linking a table goes on to the next; the one linked is filled.
LEMMA LinkBuilt == Built /\ link => Built'
<1> SUFFICES ASSUME Built, link PROVE Built'
  OBVIOUS
<1>1. j \in Table /\ j \in Index /\ j \in Nat /\ j' = j + 1
  BY PagingAssumption DEF Built, TypeOK, link, Table, Index
<1>2. Linear(at.tables + j) \in Nat
  BY <1>1, PagingAssumption DEF Built, TypeOK, Linear
<1>3. TypeOK'
  BY <1>1, <1>2, PagingAssumption DEF Built, TypeOK, link, Entry, Table
<1>4. ASSUME NEW d \in Index PROVE Linked(d)'
  <2>1. d \in Int
    BY DEF Index
  <2>2. CASE d = j
    <3>1. page_directory'[d] = Entry(TRUE, Linear(at.tables + d)) /\ d < j'
      BY <1>1, <2>2 DEF Built, TypeOK, link
    <3> QED
      BY <3>1 DEF link, Linked, Linear
  <2>3. CASE d # j
    <3>1. page_directory'[d] = page_directory[d] /\ (d < j' <=> d < j)
      BY <1>1, <2>1, <2>3 DEF Built, TypeOK, link
    <3> QED
      BY <3>1 DEF Built, link, Linked, Linear
  <2> QED
    BY <2>2, <2>3
<1>5. ASSUME NEW d \in Table, d < j' PROVE Filled(d)'
  <2>1. d < j \/ (d = j /\ pc = "link")
    BY <1>1, <1>5 DEF link, Table
  <2> QED
    BY <2>1 DEF Built, link, Filled, Mapped
<1>6. pc' = "load" => j' = MAX_PAGE_PDE
  BY <1>1, PagingAssumption DEF link, Table
<1> QED
  BY <1>3, <1>4, <1>5, <1>6 DEF Built, link, TypeOK

\* The processor's two registers change nothing in memory.
LEMMA RegistersBuilt == Built /\ (loadPageDirectory \/ enablePaging \/ UNCHANGED vars) => Built'
<1> SUFFICES ASSUME Built, loadPageDirectory \/ enablePaging \/ UNCHANGED vars PROVE Built'
  OBVIOUS
<1>1. Linear(at.directory) \in Nat
  BY PagingAssumption DEF Built, TypeOK, Linear
<1>2. UNCHANGED <<at, j, page_directory, page_tables>> /\ (pc = "link" <=> pc' = "link")
  BY DEF loadPageDirectory, enablePaging, vars
<1>3. TypeOK'
  BY <1>1 DEF Built, TypeOK, loadPageDirectory, enablePaging, vars
<1>4. \A d \in Index : pc' # "clear" => Linked(d)'
  <2>1. pc' # "clear" => pc # "clear"
    BY DEF loadPageDirectory, enablePaging, vars
  <2> QED
    BY <1>2, <2>1 DEF Built, Linked, Linear
<1>5. \A d \in Table : Filled(d) => Filled(d)'
  BY <1>2 DEF Filled, Mapped
<1>6. \A d \in Table : d < j' \/ (d = j' /\ pc' = "link") => Filled(d)'
  BY <1>2, <1>5 DEF Built
<1>7. /\ pc' = "clear" => j' = 0
      /\ pc' \in {"load", "enable", "on"} => j' = MAX_PAGE_PDE
      /\ pc' \in {"enable", "on"} => cr3' = Linear(at'.directory)
      /\ paging' => pc' = "on"
  BY DEF Built, TypeOK, loadPageDirectory, enablePaging, vars, Linear
<1> QED
  BY <1>3, <1>4, <1>6, <1>7 DEF Built

\* The construction proceeds as its loops intend, for any size and layout.
THEOREM PagingInvariant == Spec => []Built
<1>1. Built /\ [Next]_vars => Built'
  BY ClearBuilt, FillBuilt, LinkBuilt, RegistersBuilt DEF Next
<1> QED
  BY <1>1, InitBuilt, PTL DEF Spec

\* Built gives the translation.
LEMMA BuiltTranslates == Built => VaIsPa
<1> SUFFICES ASSUME Built, paging, NEW d \in Index, NEW t \in Index
             PROVE  Translate(d, t) = IF d < MAX_PAGE_PDE THEN t + d * ENTRIES ELSE Fault
  BY DEF VaIsPa
<1>1. j = MAX_PAGE_PDE /\ cr3 = Base + at.directory
  BY PagingAssumption DEF Built, TypeOK, Linear
<1>2. CASE d < MAX_PAGE_PDE
  <2>1. page_directory[d] = Entry(TRUE, Linear(at.tables + d))
    BY <1>1, <1>2 DEF Built, Linked
  <2>2. TablesAt(page_directory[d].page) = {d} /\ page_directory[d].present
    BY <1>2, <2>1, TablesApart DEF Entry
  <2>3. d \in Table
    BY <1>2, PagingAssumption DEF Index, Table
  <2>4. page_tables[d][t] = Entry(TRUE, t + d * ENTRIES)
    BY <1>1, <1>2, <2>3 DEF Built, Filled, Mapped
  <2>5. (CHOOSE k \in {d} : TRUE) = d
    OBVIOUS
  <2> QED
    BY <1>1, <1>2, <2>2, <2>4, <2>5 DEF Translate, Entry
<1>3. CASE ~(d < MAX_PAGE_PDE)
  <2>1. page_directory[d] = Entry(FALSE, 0)
    BY <1>1, <1>3 DEF Built, Linked
  <2> QED
    BY <1>3, <2>1 DEF Translate, Entry
<1> QED
  BY <1>2, <1>3

\* From enablePaging on, the pages of MAX_PAGE_PDE tables are themselves and every
\* other page faults.
THEOREM IdentityMapped == Spec => []VaIsPa
  BY PagingInvariant, BuiltTranslates, PTL

\* At no step does the directory name a table that is not filled.
THEOREM NeverHalfBuilt == Spec => []NoHalfTable
<1>1. Built => NoHalfTable
  <2> SUFFICES ASSUME Built, NEW d \in Index, pc # "clear", page_directory[d].present
               PROVE  /\ TablesAt(page_directory[d].page) # {}
                      /\ \A k \in TablesAt(page_directory[d].page), t \in Index :
                           page_tables[k][t].present
    BY DEF NoHalfTable
  <2>1. d < j /\ page_directory[d] = Entry(TRUE, Linear(at.tables + d))
    BY DEF Built, Linked, Entry
  <2>2. d < MAX_PAGE_PDE
    BY <2>1, PagingAssumption DEF Built, TypeOK, Index
  <2>3. TablesAt(page_directory[d].page) = {d}
    BY <2>1, <2>2, TablesApart DEF Entry
  <2>4. \A t \in Index : page_tables[d][t].present
    <3>1. d \in Table
      BY <2>2, PagingAssumption DEF Index, Table
    <3>2. \A t \in Index : page_tables[d][t] = Entry(TRUE, Mapped(d, t))
      BY <2>1, <3>1 DEF Built, Filled
    <3>3. ASSUME NEW t \in Index PROVE Entry(TRUE, Mapped(d, t)).present
      BY DEF Entry
    <3> QED
      BY <3>2, <3>3
  <2> QED
    BY <2>3, <2>4
<1> QED
  BY <1>1, PagingInvariant, PTL

-----------------------------------------------------------------------------
(* The setup: what is certain before the instruction at ip, whatever the   *)
(* firmware's interrupts have done to the 8259s before it is asked to      *)
(* initialize them again.                                                  *)

Flow == /\ ip \in 1..95 /\ intr \in BOOLEAN /\ pmode \in BOOLEAN
        /\ intr <=> (ip <= 20 \/ ip >= 93)
        /\ pmode <=> ip >= 24

Words == {"vector", "cascade", "mode", "mask"}
Levels == SUBSET Int
Chip == [word : Words, vector : Int, cascade : Int, mode : Int, imr : Int, isr : Levels]
Pics == [master : Chip, slave : Chip]

\* init_pic and the masks begin at 80, with words the chips may take for anything.
MasterReady(c) ==
  /\ ip >= 83 => /\ c.isr = {}
                 /\ c.word = IF ip <= 85 THEN "vector" ELSE IF ip = 86 THEN "cascade"
                             ELSE IF ip <= 88 THEN "mode" ELSE "mask"
  /\ ip >= 86 => c.vector = 32
  /\ ip >= 87 => c.cascade = 4
  /\ ip >= 89 => c.mode = 1
  /\ ip >= 91 => c.imr = IF ip <= 93 THEN 251 ELSE 233
SlaveReady(c) ==
  /\ ip >= 84 => /\ c.isr = {}
                 /\ c.word = IF ip = 84 THEN "vector" ELSE IF ip <= 87 THEN "cascade"
                             ELSE IF ip <= 89 THEN "mode" ELSE "mask"
  /\ ip >= 85 => c.vector = 40
  /\ ip >= 88 => c.cascade = 2
  /\ ip >= 90 => c.mode = 1
  /\ ip >= 92 => c.imr = IF ip <= 94 THEN 255 ELSE 239
PicsReady == /\ pic \in Pics
             /\ MasterReady(pic.master) /\ SlaveReady(pic.slave)

\* The 16550 is set up from 13 on, its divisor's latch open from 15 to 17.
Uart == [divisor : Int, ier : Int, lcr : Int, fcr : Int, mcr : Int, sent : {FALSE}]
Holds(u, divisor, ier, lcr, fcr, mcr) ==
  /\ u \in Uart /\ u.divisor = divisor /\ u.ier = ier
  /\ u.lcr = lcr /\ u.fcr = fcr /\ u.mcr = mcr
UartReady ==
  Holds(uart, IF ip <= 15 THEN 12 ELSE 1, IF ip <= 13 THEN 0 ELSE 1, IF ip \in 15..17 THEN 128 ELSE 3,
        IF ip <= 18 THEN 0 ELSE 199, IF ip <= 19 THEN 0 ELSE 11)

\* The palette's first colour is named at 24, its 48 parts follow.
Palette == [0..15 -> [1..3 -> Int]]
Dac == [colour : Int, part : Int, rgb : Palette]
DacReady ==
  /\ dac \in Dac
  /\ ip \in 25..73 => dac.colour = (ip - 25) \div 3 /\ dac.part = ((ip - 25) % 3) + 1
  /\ \A c \in 0..15, k \in 1..3 : 3 * c + k < ip - 24 => dac.rgb[c][k] = table_rgb[c + 1][k] \div 4

Gate == [offset_low : Nat, selector : Nat, dw_count : Nat, access_right : Nat, offset_high : Nat]
Handler(v) == idt.gate[v] = set_gatedesc(HandlerAt[v], 2 * 8, 142)
TablesReady ==
  /\ ip >= 23 => gdtr = [base |-> Gdt, limit |-> 32]
  /\ ip >= 74 => spare.at = ADR_GDT
  /\ ip >= 75 => idt \in [at : {ADR_IDT}, gate : [0..255 -> Gate]]
  /\ ip >= 76 => idtr = [base |-> ADR_IDT, limit |-> 2047]
  /\ ip >= 77 => Handler(36)
  /\ ip >= 78 => Handler(33)
  /\ ip >= 79 => Handler(39)
  /\ ip >= 80 => Handler(44)

Ready == Flow /\ PicsReady /\ UartReady /\ DacReady /\ TablesReady

\* Where each part of the program is.
Instructions == {<<"out", p, v>> : p \in Int, v \in Int} \cup {<<"cli">>, <<"sti">>, <<"pmode">>}
                \cup {<<"lidt", b, l>> : b \in Int, l \in Int} \cup {<<"lgdt", b, l>> : b \in Int, l \in Int}
                \cup {<<"segments", b>> : b \in Int} \cup {<<"gates", b>> : b \in Int}
                \cup {gate(v) : v \in Int}

LEMMA Outs == \A p, v \in Int : out(p, v) \in Instructions
BY DEF out, Instructions

LEMMA ProgramParts ==
  /\ lowlevel_pics \in Seq(Instructions) /\ Len(lowlevel_pics) = 12
  /\ lowlevel_uart \in Seq(Instructions) /\ Len(lowlevel_uart) = 7
  /\ init_pic \in Seq(Instructions) /\ Len(init_pic) = 12
<1> HIDE DEF Instructions
<1>1. PIC0 \in Int /\ PIC1 \in Int /\ PIC0 + 1 \in Int /\ PIC1 + 1 \in Int
  BY DEF PIC0, PIC1
<1>2. lowlevel_pics \in Seq(Instructions) /\ Len(lowlevel_pics) = 12
  BY <1>1, Outs DEF lowlevel_pics
<1>3. lowlevel_uart \in Seq(Instructions) /\ Len(lowlevel_uart) = 7
  BY <1>1, Outs DEF lowlevel_uart, COM1
<1>4. init_pic \in Seq(Instructions) /\ Len(init_pic) = 12
  BY <1>1, Outs DEF init_pic
<1> QED
  BY <1>2, <1>3, <1>4

LEMMA Linears == Gdt \in Int /\ \A offset \in Int : Linear32(offset) = 65536 + offset
<1>1. Descriptor(3 * 8) = Flat(146)
  <2>1. (3 * 8) \div 8 + 1 = 4
    OBVIOUS
  <2> QED
    BY <2>1 DEF Descriptor, gdt
<1>2. SegmentBase(Flat(146)) = 65536
  BY DEF SegmentBase, Flat, Raw
<1> QED
  BY <1>1, <1>2, PlacesAssumption DEF Gdt, Linear32

LEMMA SwitchPart ==
  /\ switch_pmode \in Seq(Instructions) /\ Len(switch_pmode) = 4
  /\ unmask \in Seq(Instructions) /\ Len(unmask) = 3
  /\ init_gdtidt \in Seq(Instructions) /\ Len(init_gdtidt) = 7
<1>1. /\ <<"cli">> \in Instructions /\ <<"sti">> \in Instructions /\ <<"pmode">> \in Instructions
      /\ \A b, l \in Int : <<"lidt", b, l>> \in Instructions /\ <<"lgdt", b, l>> \in Instructions
      /\ \A b \in Int : <<"segments", b>> \in Instructions /\ <<"gates", b>> \in Instructions
      /\ \A v \in Int : gate(v) \in Instructions
  BY DEF Instructions
<1> HIDE DEF Instructions
<1>2. switch_pmode \in Seq(Instructions) /\ Len(switch_pmode) = 4
  <2>1. <<"lidt", 0, 0>> \in Instructions /\ <<"lgdt", Gdt, 32>> \in Instructions
    BY Linears DEF Instructions
  <2> QED
    BY <1>1, <2>1 DEF switch_pmode
<1>3. unmask \in Seq(Instructions) /\ Len(unmask) = 3
  BY <1>1, Outs DEF unmask, PIC0, PIC1
<1>4. init_gdtidt \in Seq(Instructions) /\ Len(init_gdtidt) = 7
  <2>1. ADR_GDT - 65536 \in Int /\ ADR_IDT - 65536 \in Int /\ ADR_IDT \in Int
    BY DEF ADR_GDT, ADR_IDT
  <2>2. Linear32(ADR_GDT - 65536) \in Int /\ Linear32(ADR_IDT - 65536) \in Int
    BY <2>1, Linears
  <2>3. /\ <<"segments", Linear32(ADR_GDT - 65536)>> \in Instructions
        /\ <<"gates", Linear32(ADR_IDT - 65536)>> \in Instructions
        /\ <<"lidt", ADR_IDT, 2047>> \in Instructions
        /\ gate(36) \in Instructions /\ gate(33) \in Instructions
        /\ gate(39) \in Instructions /\ gate(44) \in Instructions
    <3>1. gate(36) \in Instructions /\ gate(33) \in Instructions
          /\ gate(39) \in Instructions /\ gate(44) \in Instructions
      BY <1>1
    <3>2. <<"lidt", ADR_IDT, 2047>> \in Instructions
      BY <2>1 DEF Instructions
    <3>3. <<"segments", Linear32(ADR_GDT - 65536)>> \in Instructions
      BY <2>2 DEF Instructions
    <3>4. <<"gates", Linear32(ADR_IDT - 65536)>> \in Instructions
      BY <2>2 DEF Instructions
    <3> QED
      BY <3>1, <3>2, <3>3, <3>4
  <2> QED
    BY <2>3 DEF init_gdtidt
<1> QED
  BY <1>2, <1>3, <1>4

\* The colours of the table.
LEMMA Colours ==
  /\ Len(table_rgb) = 16
  /\ \A c \in 0..15, k \in 1..3 : table_rgb[c + 1][k] \in 0..255
<1> DEFINE Parts == [1..3 -> 0..255]
<1>1. /\ <<0, 0, 0>> \in Parts /\ <<255, 0, 0>> \in Parts /\ <<0, 255, 0>> \in Parts
      /\ <<255, 255, 0>> \in Parts /\ <<0, 0, 255>> \in Parts /\ <<255, 0, 255>> \in Parts
      /\ <<0, 255, 255>> \in Parts /\ <<255, 255, 255>> \in Parts /\ <<198, 198, 198>> \in Parts
      /\ <<132, 0, 0>> \in Parts /\ <<0, 132, 0>> \in Parts /\ <<132, 132, 0>> \in Parts
      /\ <<0, 0, 132>> \in Parts /\ <<132, 0, 132>> \in Parts /\ <<0, 132, 132>> \in Parts
      /\ <<132, 132, 132>> \in Parts
  OBVIOUS
<1> HIDE DEF Parts
<1>2. table_rgb \in Seq(Parts) /\ Len(table_rgb) = 16
  BY <1>1 DEF table_rgb
<1>3. ASSUME NEW c \in 0..15, NEW k \in 1..3 PROVE table_rgb[c + 1][k] \in 0..255
  <2>1. c + 1 \in 1..16
    OBVIOUS
  <2>2. table_rgb[c + 1] \in Parts
    BY <1>2, <2>1, ElementOfSeq
  <2> QED
    BY <2>2 DEF Parts
<1> QED
  BY <1>2, <1>3

LEMMA PalettePart ==
  /\ init_palette \in Seq(Instructions) /\ Len(init_palette) = 49
  /\ init_palette[1] = out(968, 0)
  /\ \A n \in 0..47 : init_palette[n + 2] = out(969, table_rgb[n \div 3 + 1][(n % 3) + 1] \div 4)
<1> DEFINE write(k) == IF k = 1 THEN out(968, 0)
                       ELSE out(969, table_rgb[(k + 1) \div 3][((k + 1) % 3) + 1] \div 4)
<1>1. init_palette = [k \in 1..49 |-> write(k)]
  BY Colours DEF init_palette, set_palette
<1>2. ASSUME NEW n \in 0..47
      PROVE  write(n + 2) = out(969, table_rgb[n \div 3 + 1][(n % 3) + 1] \div 4)
  <2>1. (n + 2 + 1) \div 3 = n \div 3 + 1 /\ (n + 2 + 1) % 3 = n % 3 /\ n + 2 # 1
    OBVIOUS
  <2> QED
    BY <2>1
<1>3. ASSUME NEW n \in 0..47
      PROVE  table_rgb[n \div 3 + 1][(n % 3) + 1] \div 4 \in Int
  <2>1. n \div 3 \in 0..15 /\ (n % 3) + 1 \in 1..3
    OBVIOUS
  <2>2. table_rgb[n \div 3 + 1][(n % 3) + 1] \in 0..255
    BY <2>1, Colours
  <2> QED
    BY <2>2
<1>4. ASSUME NEW k \in 1..49 PROVE write(k) \in Instructions
  <2>1. CASE k = 1
    BY <2>1, Outs
  <2>2. CASE k # 1
    <3>1. k - 2 \in 0..47 /\ (k - 2) + 2 = k
      BY <2>2
    <3> QED
      BY <1>2, <1>3, <3>1, Outs
  <2> QED
    BY <2>1, <2>2
<1> HIDE DEF write
<1>5. init_palette \in Seq(Instructions) /\ Len(init_palette) = 49
  BY <1>1, <1>4
<1>6. init_palette[1] = write(1) /\ \A n \in 0..47 : init_palette[n + 2] = write(n + 2)
  BY <1>1
<1> QED
  BY <1>2, <1>5, <1>6 DEF write

\* A part of a program: from off + 1 on it is the program s.
Part(p, off, s) == /\ p \in Seq(Instructions) /\ s \in Seq(Instructions)
                  /\ off \in Nat /\ off + Len(s) <= Len(p)
                  /\ \A k \in 1..Len(s) : p[off + k] = s[k]

\* Another program behind it changes no part, and is one itself.
LEMMA PartsKept ==
  ASSUME NEW p, NEW off, NEW s, NEW t \in Seq(Instructions), Part(p, off, s)
  PROVE  Part(p \o t, off, s)
<1>1. /\ p \in Seq(Instructions) /\ s \in Seq(Instructions)
      /\ off \in Nat /\ off + Len(s) <= Len(p)
      /\ \A k \in 1..Len(s) : p[off + k] = s[k]
  BY DEF Part
<1>2. /\ p \o t \in Seq(Instructions) /\ Len(p \o t) = Len(p) + Len(t)
      /\ \A i \in 1..(Len(p) + Len(t)) : (p \o t)[i] = IF i <= Len(p) THEN p[i] ELSE t[i - Len(p)]
  BY <1>1, ConcatProperties
<1>3. Len(p) \in Nat /\ Len(t) \in Nat /\ Len(s) \in Nat
  BY <1>1
<1>4. ASSUME NEW k \in 1..Len(s) PROVE (p \o t)[off + k] = s[k]
  <2>1. off + k \in 1..(Len(p) + Len(t)) /\ off + k <= Len(p)
    BY <1>1, <1>3
  <2> QED
    BY <1>1, <1>2, <2>1
<1>5. off + Len(s) <= Len(p \o t)
  BY <1>1, <1>2, <1>3
<1> QED
  BY <1>1, <1>2, <1>4, <1>5 DEF Part

LEMMA PartAdded ==
  ASSUME NEW p \in Seq(Instructions), NEW t \in Seq(Instructions)
  PROVE  Part(p \o t, Len(p), t) /\ Len(p \o t) = Len(p) + Len(t)
<1>1. /\ p \o t \in Seq(Instructions) /\ Len(p \o t) = Len(p) + Len(t)
      /\ \A i \in 1..(Len(p) + Len(t)) : (p \o t)[i] = IF i <= Len(p) THEN p[i] ELSE t[i - Len(p)]
  BY ConcatProperties
<1>2. Len(p) \in Nat /\ Len(t) \in Nat
  OBVIOUS
<1>3. ASSUME NEW k \in 1..Len(t) PROVE (p \o t)[Len(p) + k] = t[k]
  <2>1. Len(p) + k \in 1..(Len(p) + Len(t)) /\ ~(Len(p) + k <= Len(p)) /\ Len(p) + k - Len(p) = k
    BY <1>2
  <2> QED
    BY <1>1, <2>1
<1> QED
  BY <1>1, <1>2, <1>3 DEF Part

LEMMA PartTyped ==
  ASSUME NEW p, NEW off, NEW s, Part(p, off, s)
  PROVE  p \in Seq(Instructions)
BY DEF Part

LEMMA ProgramIs ==
  /\ Len(Program) = 94
  /\ Part(Program, 0, lowlevel_pics) /\ Part(Program, 12, lowlevel_uart)
  /\ Part(Program, 19, switch_pmode) /\ Part(Program, 23, init_palette)
  /\ Part(Program, 72, init_gdtidt) /\ Part(Program, 79, init_pic)
  /\ Part(Program, 91, unmask)
<1> DEFINE p2 == lowlevel_pics \o lowlevel_uart
           p3 == p2 \o switch_pmode
           p4 == p3 \o init_palette
           p5 == p4 \o init_gdtidt
           p6 == p5 \o init_pic
           p7 == p6 \o unmask
<1>1. Program = p7
  BY DEF Program
<1>2. Part(lowlevel_pics, 0, lowlevel_pics)
  BY ProgramParts DEF Part
<1>3. /\ \A at0, s : Part(lowlevel_pics, at0, s) => Part(p2, at0, s)
      /\ Part(p2, 12, lowlevel_uart) /\ Len(p2) = 12 + 7
  BY ProgramParts, PartsKept, PartAdded
<1> HIDE DEF p2
<1>4. p2 \in Seq(Instructions) /\ Len(p2) = 19
  BY <1>3, PartTyped
<1>5. /\ \A at0, s : Part(p2, at0, s) => Part(p3, at0, s)
      /\ Part(p3, 19, switch_pmode) /\ Len(p3) = 19 + 4
  <2>1. switch_pmode \in Seq(Instructions) /\ Len(switch_pmode) = 4
    BY SwitchPart
  <2>2. \A at0, s : Part(p2, at0, s) => Part(p3, at0, s)
    BY <1>4, <2>1, PartsKept
  <2>3. Part(p3, 19, switch_pmode) /\ Len(p3) = 19 + 4
    <3>1. Part(p3, Len(p2), switch_pmode) /\ Len(p3) = Len(p2) + Len(switch_pmode)
      BY <1>4, <2>1, PartAdded
    <3> HIDE DEF p3
    <3> QED
      BY <1>4, <2>1, <3>1
  <2> QED
    BY <2>2, <2>3
<1> HIDE DEF p3
<1>6. p3 \in Seq(Instructions) /\ Len(p3) = 23
  BY <1>5, PartTyped
<1>7. /\ \A at0, s : Part(p3, at0, s) => Part(p4, at0, s)
      /\ Part(p4, 23, init_palette) /\ Len(p4) = 23 + 49
  <2>1. init_palette \in Seq(Instructions) /\ Len(init_palette) = 49
    BY PalettePart
  <2>2. \A at0, s : Part(p3, at0, s) => Part(p4, at0, s)
    BY <1>6, <2>1, PartsKept
  <2>3. Part(p4, 23, init_palette) /\ Len(p4) = 23 + 49
    <3>1. Part(p4, Len(p3), init_palette) /\ Len(p4) = Len(p3) + Len(init_palette)
      BY <1>6, <2>1, PartAdded
    <3> HIDE DEF p4
    <3> QED
      BY <1>6, <2>1, <3>1
  <2> QED
    BY <2>2, <2>3
<1> HIDE DEF p4
<1>8. p4 \in Seq(Instructions) /\ Len(p4) = 72
  BY <1>7, PartTyped
<1>9. /\ \A at0, s : Part(p4, at0, s) => Part(p5, at0, s)
      /\ Part(p5, 72, init_gdtidt) /\ Len(p5) = 72 + 7
  <2>1. init_gdtidt \in Seq(Instructions) /\ Len(init_gdtidt) = 7
    BY SwitchPart
  <2>2. \A at0, s : Part(p4, at0, s) => Part(p5, at0, s)
    BY <1>8, <2>1, PartsKept
  <2>3. Part(p5, 72, init_gdtidt) /\ Len(p5) = 72 + 7
    <3>1. Part(p5, Len(p4), init_gdtidt) /\ Len(p5) = Len(p4) + Len(init_gdtidt)
      BY <1>8, <2>1, PartAdded
    <3> HIDE DEF p5
    <3> QED
      BY <1>8, <2>1, <3>1
  <2> QED
    BY <2>2, <2>3
<1> HIDE DEF p5
<1>10. p5 \in Seq(Instructions) /\ Len(p5) = 79
  BY <1>9, PartTyped
<1>11. /\ \A at0, s : Part(p5, at0, s) => Part(p6, at0, s)
      /\ Part(p6, 79, init_pic) /\ Len(p6) = 79 + 12
  <2>1. init_pic \in Seq(Instructions) /\ Len(init_pic) = 12
    BY ProgramParts
  <2>2. \A at0, s : Part(p5, at0, s) => Part(p6, at0, s)
    BY <1>10, <2>1, PartsKept
  <2>3. Part(p6, 79, init_pic) /\ Len(p6) = 79 + 12
    <3>1. Part(p6, Len(p5), init_pic) /\ Len(p6) = Len(p5) + Len(init_pic)
      BY <1>10, <2>1, PartAdded
    <3> HIDE DEF p6
    <3> QED
      BY <1>10, <2>1, <3>1
  <2> QED
    BY <2>2, <2>3
<1> HIDE DEF p6
<1>12. p6 \in Seq(Instructions) /\ Len(p6) = 91
  BY <1>11, PartTyped
<1>13. /\ \A at0, s : Part(p6, at0, s) => Part(p7, at0, s)
      /\ Part(p7, 91, unmask) /\ Len(p7) = 91 + 3
  <2>1. unmask \in Seq(Instructions) /\ Len(unmask) = 3
    BY SwitchPart
  <2>2. \A at0, s : Part(p6, at0, s) => Part(p7, at0, s)
    BY <1>12, <2>1, PartsKept
  <2>3. Part(p7, 91, unmask) /\ Len(p7) = 91 + 3
    <3>1. Part(p7, Len(p6), unmask) /\ Len(p7) = Len(p6) + Len(unmask)
      BY <1>12, <2>1, PartAdded
    <3> HIDE DEF p7
    <3> QED
      BY <1>12, <2>1, <3>1
  <2> QED
    BY <2>2, <2>3
<1> HIDE DEF p7
<1>14. /\ Part(p7, 0, lowlevel_pics) /\ Part(p7, 12, lowlevel_uart)
       /\ Part(p7, 19, switch_pmode) /\ Part(p7, 23, init_palette)
       /\ Part(p7, 72, init_gdtidt) /\ Part(p7, 79, init_pic)
       /\ Part(p7, 91, unmask)
  BY <1>2, <1>3, <1>5, <1>7, <1>9, <1>11, <1>13, Zenon
<1> QED
  BY <1>1, <1>13, <1>14

\* The part a piece of the program is from.
LEMMA Fetched ==
  ASSUME NEW at0 \in Nat, NEW s, Part(Program, at0, s), NEW k \in 1..Len(s), ip = at0 + k
  PROVE  instruction = s[k]
BY DEF Part, instruction

\* What an instruction does, by its name.
LEMMA Does ==
  ASSUME step, Flow
  PROVE  /\ ip' = ip + 1
         /\ ip \in 1..94
         /\ \A p, v \in Int : instruction = out(p, v) => out8(p, v)
         /\ instruction \in {<<"cli">>, <<"sti">>} => set_if
         /\ instruction = <<"pmode">> => enter_pmode
         /\ \A b, l \in Int : instruction = <<"lgdt", b, l>> => lgdt
         /\ \A b, l \in Int : instruction = <<"lidt", b, l>> => load_idtr
         /\ \A b \in Int : instruction = <<"segments", b>> => set_segments
         /\ \A b \in Int : instruction = <<"gates", b>> => set_gates
         /\ \A v \in Int : instruction = gate(v) => set_gate
<1>1. ip' = ip + 1 /\ ip <= 94 /\ ip \in 1..95
  BY ProgramIs DEF step, Flow
<1>2. \/ out_port \/ set_if \/ enter_pmode
      \/ lgdt \/ load_idtr \/ set_segments \/ set_gates \/ set_gate
  BY DEF step
<1> DEFINE name == instruction[1]
<1>3. /\ out_port => name = "out" /\ out8(instruction[2], instruction[3])
      /\ set_if => name \in {"cli", "sti"}
      /\ enter_pmode => name = "pmode"
      /\ lgdt => name = "lgdt"
      /\ load_idtr => name = "lidt"
      /\ set_segments => name = "segments"
      /\ set_gates => name = "gates"
      /\ set_gate => name = "gate"
  BY DEF out_port, set_if, enter_pmode, lgdt, load_idtr, set_segments, set_gates, set_gate
<1> HIDE DEF name
<1>4. /\ name \in {"cli", "sti"} => set_if
      /\ name = "pmode" => enter_pmode
      /\ name = "lgdt" => lgdt
      /\ name = "lidt" => load_idtr
      /\ name = "segments" => set_segments
      /\ name = "gates" => set_gates
      /\ name = "gate" => set_gate
      /\ name = "out" => out8(instruction[2], instruction[3])
  BY <1>2, <1>3
<1>5. ASSUME NEW p \in Int, NEW v \in Int, instruction = out(p, v) PROVE out8(p, v)
  <2>1. name = "out" /\ instruction[2] = p /\ instruction[3] = v
    BY <1>5 DEF out, name
  <2> QED
    BY <1>4, <2>1
<1>6. /\ instruction = <<"cli">> => name = "cli"
      /\ instruction = <<"sti">> => name = "sti"
      /\ instruction = <<"pmode">> => name = "pmode"
  BY DEF name
<1>7. ASSUME NEW b \in Int, NEW l \in Int
      PROVE  /\ instruction = <<"lgdt", b, l>> => lgdt
             /\ instruction = <<"lidt", b, l>> => load_idtr
  <2>1. /\ instruction = <<"lgdt", b, l>> => name = "lgdt"
        /\ instruction = <<"lidt", b, l>> => name = "lidt"
    BY DEF name
  <2> QED
    BY <1>4, <2>1
<1>8. ASSUME NEW b \in Int
      PROVE  /\ instruction = <<"segments", b>> => set_segments
             /\ instruction = <<"gates", b>> => set_gates
             /\ instruction = gate(b) => set_gate
  <2>1. /\ instruction = <<"segments", b>> => name = "segments"
        /\ instruction = <<"gates", b>> => name = "gates"
        /\ instruction = gate(b) => name = "gate"
    BY DEF name, gate
  <2> QED
    BY <1>4, <2>1
<1>9. instruction \in {<<"cli">>, <<"sti">>} => set_if
  BY <1>4, <1>6
<1>10. instruction = <<"pmode">> => enter_pmode
  BY <1>4, <1>6
<1> HIDE DEF instruction, out, gate
<1> QED
  BY <1>1, <1>5, <1>7, <1>8, <1>9, <1>10

LEMMA ChipTyped ==
  ASSUME NEW c \in Chip, NEW value \in Int
  PROVE  PicCommand(c, value) \in Chip /\ PicData(c, value) \in Chip
<1>1. PicCommand(c, value) \in Chip
  <2> DEFINE d == [c EXCEPT !.word = "vector", !.imr = 0, !.isr = {}]
  <2>1. d \in Chip
    <3>1. \A w \in Words, n \in Int, l \in Levels :
            [c EXCEPT !.word = w, !.imr = n, !.isr = l] \in Chip
      BY DEF Chip
    <3>2. "vector" \in Words /\ 0 \in Int /\ {} \in Levels
      BY DEF Words, Levels
    <3> QED
      BY <3>1, <3>2, Zenon
  <2>2. PicCommand(c, value) = d \/ PicCommand(c, value) = c
    BY DEF PicCommand
  <2> HIDE DEF d
  <2> QED
    BY <2>1, <2>2
<1>2. PicData(c, value) \in Chip
  <2> DEFINE d == PicData(c, value)
  <2>1. \/ d = [c EXCEPT !.vector = value, !.word = "cascade"]
        \/ d = [c EXCEPT !.cascade = value, !.word = "mode"]
        \/ d = [c EXCEPT !.mode = value, !.word = "mask"]
        \/ d = [c EXCEPT !.imr = value]
    BY DEF PicData
  <2> HIDE DEF d
  <2>2. d \in Chip
    BY <2>1 DEF Chip, Words
  <2> QED
    BY <2>2 DEF d
<1> QED
  BY <1>1, <1>2

\* A byte written to a chip's data port goes where its word says.
LEMMA ChipWritten ==
  ASSUME NEW c \in Chip, NEW value \in Int
  PROVE  /\ PicCommand(c, 17).word = "vector" /\ PicCommand(c, 17).isr = {}
         /\ PicData(c, value).isr = c.isr
         /\ c.word = "vector" => /\ PicData(c, value).vector = value
                                 /\ PicData(c, value).word = "cascade"
         /\ c.word = "cascade" => /\ PicData(c, value).vector = c.vector
                                  /\ PicData(c, value).cascade = value
                                  /\ PicData(c, value).word = "mode"
         /\ c.word = "mode" => /\ PicData(c, value).vector = c.vector
                               /\ PicData(c, value).cascade = c.cascade
                               /\ PicData(c, value).mode = value
                               /\ PicData(c, value).word = "mask"
         /\ c.word = "mask" => /\ PicData(c, value).vector = c.vector
                               /\ PicData(c, value).cascade = c.cascade
                               /\ PicData(c, value).mode = c.mode
                               /\ PicData(c, value).imr = value
                               /\ PicData(c, value).word = "mask"
<1>1. Bit(17, 4)
  BY DEF Bit
<1>2. PicCommand(c, 17).word = "vector" /\ PicCommand(c, 17).isr = {}
  BY <1>1 DEF PicCommand, Chip
<1> DEFINE d == PicData(c, value)
           Right(e) == /\ e.isr = c.isr
                       /\ c.word = "vector" => e.vector = value /\ e.word = "cascade"
                       /\ c.word = "cascade" => /\ e.vector = c.vector /\ e.cascade = value
                                                /\ e.word = "mode"
                       /\ c.word = "mode" => /\ e.vector = c.vector /\ e.cascade = c.cascade
                                             /\ e.mode = value /\ e.word = "mask"
                       /\ c.word = "mask" => /\ e.vector = c.vector /\ e.cascade = c.cascade
                                             /\ e.mode = c.mode /\ e.imr = value /\ e.word = "mask"
<1>3. ASSUME c.word = "vector" PROVE Right(d)
  <2>1. d = [c EXCEPT !.vector = value, !.word = "cascade"]
    BY <1>3 DEF PicData
  <2> HIDE DEF d
  <2>2. Right(d)
    BY <1>3, <2>1 DEF Chip
  <2> QED
    BY <2>2
<1>4. ASSUME c.word = "cascade" PROVE Right(d)
  <2>1. d = [c EXCEPT !.cascade = value, !.word = "mode"]
    BY <1>4 DEF PicData
  <2> HIDE DEF d
  <2>2. Right(d)
    BY <1>4, <2>1 DEF Chip
  <2> QED
    BY <2>2
<1>5. ASSUME c.word = "mode" PROVE Right(d)
  <2>1. d = [c EXCEPT !.mode = value, !.word = "mask"]
    BY <1>5 DEF PicData
  <2> HIDE DEF d
  <2>2. Right(d)
    BY <1>5, <2>1 DEF Chip
  <2> QED
    BY <2>2
<1>6. ASSUME c.word = "mask" PROVE Right(d)
  <2>1. d = [c EXCEPT !.imr = value]
    BY <1>6 DEF PicData
  <2> HIDE DEF d
  <2>2. Right(d)
    BY <1>6, <2>1 DEF Chip
  <2> QED
    BY <2>2
<1>7. Right(d)
  BY <1>3, <1>4, <1>5, <1>6 DEF Chip, Words
<1> QED
  BY <1>2, <1>7

\* A port write: which chip it reaches.
LEMMA Written8 ==
  ASSUME pic \in Pics, NEW port \in Int, NEW value \in Int, out8(port, value)
  PROVE  /\ pic' \in Pics
         /\ pic.master' = IF port = 32 THEN PicCommand(pic.master, value)
                          ELSE IF port = 33 THEN PicData(pic.master, value) ELSE pic.master
         /\ pic.slave'  = IF port = 160 THEN PicCommand(pic.slave, value)
                          ELSE IF port = 161 THEN PicData(pic.slave, value) ELSE pic.slave
         /\ uart' = IF port >= 1016 THEN UartWrite(uart, port - 1016, value) ELSE uart
         /\ dac' = DacWrite(dac, port, value)
         /\ port \notin {968, 969} => dac' = dac
         /\ UNCHANGED <<intr, pmode, gdtr, idtr, idt, spare>>
<1> DEFINE m == PicWrite(pic.master, PIC0, port, value)
           s == PicWrite(pic.slave, PIC1, port, value)
<1>1. pic.master \in Chip /\ pic.slave \in Chip
  BY DEF Pics
<1>2. m = IF port = 32 THEN PicCommand(pic.master, value)
          ELSE IF port = 33 THEN PicData(pic.master, value) ELSE pic.master
  BY DEF PicWrite, PIC0
<1>3. s = IF port = 160 THEN PicCommand(pic.slave, value)
          ELSE IF port = 161 THEN PicData(pic.slave, value) ELSE pic.slave
  BY DEF PicWrite, PIC1
<1>4. m \in Chip /\ s \in Chip
  <2>1. \A c \in Chip : PicCommand(c, value) \in Chip /\ PicData(c, value) \in Chip
    BY ChipTyped
  <2> HIDE DEF m, s
  <2> QED
    BY <1>1, <1>2, <1>3, <2>1
<1>5. pic' = [master |-> m, slave |-> s]
  BY DEF out8
<1> HIDE DEF m, s
<1>6. pic' \in Pics /\ pic'.master = m /\ pic'.slave = s
  BY <1>4, <1>5 DEF Pics
<1>7. port \notin {968, 969} => DacWrite(dac, port, value) = dac
  BY DEF DacWrite
<1> QED
  BY <1>2, <1>3, <1>6, <1>7 DEF out8, COM1

\* A write to an 8259 changes nothing else.
LEMMA PicStep ==
  ASSUME Ready, step, NEW p \in {32, 33, 160, 161}, NEW v \in Int, instruction = out(p, v)
  PROVE  /\ ip' = ip + 1 /\ pic' \in Pics
         /\ pic.master' = IF p = 32 THEN PicCommand(pic.master, v)
                          ELSE IF p = 33 THEN PicData(pic.master, v) ELSE pic.master
         /\ pic.slave'  = IF p = 160 THEN PicCommand(pic.slave, v)
                          ELSE IF p = 161 THEN PicData(pic.slave, v) ELSE pic.slave
         /\ UNCHANGED <<intr, pmode, uart, dac, gdtr, idtr, idt, spare>>
<1>1. ip' = ip + 1 /\ out8(p, v)
  BY Does DEF Ready
<1>2. pic \in Pics /\ p \in Int
  BY DEF Ready, PicsReady, Pics
<1>3. /\ pic' \in Pics
      /\ pic.master' = IF p = 32 THEN PicCommand(pic.master, v)
                       ELSE IF p = 33 THEN PicData(pic.master, v) ELSE pic.master
      /\ pic.slave'  = IF p = 160 THEN PicCommand(pic.slave, v)
                       ELSE IF p = 161 THEN PicData(pic.slave, v) ELSE pic.slave
      /\ uart' = IF p >= 1016 THEN UartWrite(uart, p - 1016, v) ELSE uart
      /\ dac' = DacWrite(dac, p, v)
      /\ p \notin {968, 969} => dac' = dac
      /\ UNCHANGED <<intr, pmode, gdtr, idtr, idt, spare>>
  BY <1>1, <1>2, Written8, Zenon
<1>4. ~(p >= 1016) /\ p \notin {968, 969}
  OBVIOUS
<1> QED
  BY <1>1, <1>3, <1>4

\* Parts of Ready that a step leaves alone.
LEMMA Still ==
  ASSUME Ready, ip' = ip + 1
  PROVE  /\ UNCHANGED <<intr, pmode>> /\ ip \notin {20, 23, 92, 95} => Flow'
         /\ UNCHANGED uart /\ ip \notin 13..19 => UartReady'
         /\ UNCHANGED dac /\ ip \notin 24..72 => DacReady'
         /\ UNCHANGED <<gdtr, idtr, idt, spare>> /\ ip \notin {22} \cup 73..79 => TablesReady'
         /\ UNCHANGED pic /\ ip \notin 82..94 => PicsReady'
<1>1. UNCHANGED <<intr, pmode>> /\ ip \notin {20, 23, 92, 95} => Flow'
  BY DEF Ready, Flow
<1>2. ASSUME UNCHANGED uart, ip \notin 13..19 PROVE UartReady'
  <2>1. ip \in Int /\ (ip <= 12 \/ ip >= 20)
    BY <1>2 DEF Ready, Flow
  <2>2. CASE ip <= 12
    BY <1>2, <2>1, <2>2 DEF Ready, UartReady, Holds
  <2>3. CASE ip >= 20
    BY <1>2, <2>1, <2>3 DEF Ready, UartReady, Holds
  <2> QED
    BY <2>1, <2>2, <2>3
<1>3. ASSUME UNCHANGED dac, ip \notin 24..72 PROVE DacReady'
  <2>1. ip \in Int /\ (ip <= 23 \/ ip >= 73)
    BY <1>3 DEF Ready, Flow
  <2>2. ASSUME NEW c \in 0..15, NEW k \in 1..3, 3 * c + k < ip' - 24
        PROVE  dac.rgb[c][k] = table_rgb[c + 1][k] \div 4
    <3>1. 3 * c + k < ip - 24
      BY <2>1, <2>2
    <3> QED
      BY <3>1 DEF Ready, DacReady
  <2> QED
    BY <1>3, <2>1, <2>2 DEF Ready, DacReady
<1>4. UNCHANGED <<gdtr, idtr, idt, spare>> /\ ip \notin {22} \cup 73..79 => TablesReady'
  BY DEF Ready, Flow, TablesReady, Handler
<1>5. ASSUME UNCHANGED pic, ip \notin 82..94 PROVE PicsReady'
  <2>1. ip \in Int /\ (ip <= 81 \/ ip >= 95)
    BY <1>5 DEF Ready, Flow
  <2>2. CASE ip <= 81
    BY <1>5, <2>1, <2>2 DEF Ready, PicsReady, MasterReady, SlaveReady
  <2>3. CASE ip >= 95
    BY <1>5, <2>1, <2>3 DEF Ready, PicsReady, MasterReady, SlaveReady
  <2> QED
    BY <2>1, <2>2, <2>3
<1> QED
  BY <1>1, <1>2, <1>3, <1>4, <1>5

LEMMA LowlevelPics ==
  ASSUME Ready, step, ip \in 1..12
  PROVE  Ready'
<1>1. instruction = lowlevel_pics[ip]
  <2>1. Part(Program, 0, lowlevel_pics) /\ ip \in 1..Len(lowlevel_pics) /\ ip = 0 + ip
    BY ProgramIs, ProgramParts
  <2> QED
    BY <2>1, Fetched
<1>2. \E p \in {32, 33, 160, 161}, v \in Int : lowlevel_pics[ip] = out(p, v)
  <2> HIDE DEF out
  <2> QED
    BY DEF lowlevel_pics, PIC0, PIC1
<1>3. PICK p \in {32, 33, 160, 161}, v \in Int : instruction = out(p, v)
  BY <1>1, <1>2
<1>4. /\ ip' = ip + 1 /\ pic' \in Pics
      /\ UNCHANGED <<intr, pmode, uart, dac, gdtr, idtr, idt, spare>>
  BY <1>3, PicStep
<1>5. PicsReady'
  BY <1>4 DEF PicsReady, Pics, MasterReady, SlaveReady
<1> QED
  BY <1>4, <1>5, Still DEF Ready

\* The registers of the 16550, with its divisor's latch closed and open.
LEMMA UartWrites ==
  ASSUME NEW u \in Uart, NEW value \in Int
  PROVE  /\ u.lcr = 3 => Holds(UartWrite(u, 1, value), u.divisor, value, u.lcr, u.fcr, u.mcr)
         /\ u.lcr = 128 =>
              /\ Holds(UartWrite(u, 0, value), u.divisor - (u.divisor % 256) + value,
                       u.ier, u.lcr, u.fcr, u.mcr)
              /\ Holds(UartWrite(u, 1, value), (u.divisor % 256) + 256 * value,
                       u.ier, u.lcr, u.fcr, u.mcr)
         /\ Holds(UartWrite(u, 2, value), u.divisor, u.ier, u.lcr, value, u.mcr)
         /\ Holds(UartWrite(u, 3, value), u.divisor, u.ier, value, u.fcr, u.mcr)
         /\ Holds(UartWrite(u, 4, value), u.divisor, u.ier, u.lcr, u.fcr, value)
<1>1. ~Bit(3, 7) /\ Bit(128, 7)
  BY DEF Bit
<1>2. ASSUME NEW n \in Int
      PROVE  /\ Holds([u EXCEPT !.divisor = n], n, u.ier, u.lcr, u.fcr, u.mcr)
             /\ Holds([u EXCEPT !.ier = n], u.divisor, n, u.lcr, u.fcr, u.mcr)
             /\ Holds([u EXCEPT !.lcr = n], u.divisor, u.ier, n, u.fcr, u.mcr)
             /\ Holds([u EXCEPT !.fcr = n], u.divisor, u.ier, u.lcr, n, u.mcr)
             /\ Holds([u EXCEPT !.mcr = n], u.divisor, u.ier, u.lcr, u.fcr, n)
  BY DEF Holds, Uart
<1>3. u.lcr = 3 => UartWrite(u, 1, value) = [u EXCEPT !.ier = value]
  BY <1>1 DEF UartWrite
<1>4. ASSUME u.lcr = 128
      PROVE  /\ Holds(UartWrite(u, 0, value), u.divisor - (u.divisor % 256) + value,
                      u.ier, u.lcr, u.fcr, u.mcr)
             /\ Holds(UartWrite(u, 1, value), (u.divisor % 256) + 256 * value,
                      u.ier, u.lcr, u.fcr, u.mcr)
  <2> DEFINE low == u.divisor - (u.divisor % 256) + value
             high == (u.divisor % 256) + 256 * value
  <2>1. UartWrite(u, 0, value) = [u EXCEPT !.divisor = low]
    BY <1>1, <1>4 DEF UartWrite
  <2>2. UartWrite(u, 1, value) = [u EXCEPT !.divisor = high]
    BY <1>1, <1>4 DEF UartWrite
  <2>3. low \in Int /\ high \in Int
    BY DEF Uart
  <2> HIDE DEF low, high
  <2>4. /\ Holds(UartWrite(u, 0, value), low, u.ier, u.lcr, u.fcr, u.mcr)
        /\ Holds(UartWrite(u, 1, value), high, u.ier, u.lcr, u.fcr, u.mcr)
    BY <1>2, <2>1, <2>2, <2>3
  <2> QED
    BY <2>4 DEF low, high
<1>5. UartWrite(u, 2, value) = [u EXCEPT !.fcr = value]
  BY DEF UartWrite
<1>6. UartWrite(u, 3, value) = [u EXCEPT !.lcr = value]
  BY DEF UartWrite
<1>7. UartWrite(u, 4, value) = [u EXCEPT !.mcr = value]
  BY DEF UartWrite
<1> QED
  BY <1>2, <1>3, <1>4, <1>5, <1>6, <1>7

\* A write to COM1 changes nothing else.
LEMMA UartStep ==
  ASSUME Ready, step, NEW o \in 0..4, NEW v \in Int, instruction = out(1016 + o, v)
  PROVE  /\ ip' = ip + 1 /\ uart' = UartWrite(uart, o, v)
         /\ UNCHANGED <<intr, pmode, pic, dac, gdtr, idtr, idt, spare>>
<1> DEFINE p == 1016 + o
<1>1. p \in Int /\ p >= 1016 /\ p - 1016 = o /\ p \notin {32, 33, 160, 161, 968, 969}
  OBVIOUS
<1>2. instruction = out(p, v)
  OBVIOUS
<1> HIDE DEF p
<1>3. ip' = ip + 1 /\ out8(p, v)
  BY <1>1, <1>2, Does DEF Ready
<1>4. pic \in Pics
  BY DEF Ready, PicsReady, Pics
<1>5. /\ pic' \in Pics
      /\ pic.master' = IF p = 32 THEN PicCommand(pic.master, v)
                       ELSE IF p = 33 THEN PicData(pic.master, v) ELSE pic.master
      /\ pic.slave'  = IF p = 160 THEN PicCommand(pic.slave, v)
                       ELSE IF p = 161 THEN PicData(pic.slave, v) ELSE pic.slave
      /\ uart' = IF p >= 1016 THEN UartWrite(uart, p - 1016, v) ELSE uart
      /\ dac' = DacWrite(dac, p, v)
      /\ p \notin {968, 969} => dac' = dac
      /\ UNCHANGED <<intr, pmode, gdtr, idtr, idt, spare>>
  BY <1>1, <1>3, <1>4, Written8, ZenonT(30)
<1>6. pic' = pic
  <2>1. pic'.master = pic.master /\ pic'.slave = pic.slave
    BY <1>1, <1>5
  <2> QED
    BY <1>4, <1>5, <2>1 DEF Pics
<1>7. uart' = UartWrite(uart, o, v)
  BY <1>1, <1>5
<1> QED
  BY <1>1, <1>3, <1>5, <1>6, <1>7

LEMMA LowlevelUart ==
  ASSUME Ready, step, ip \in 13..19
  PROVE  Ready'
<1>1. instruction = lowlevel_uart[ip - 12]
  <2>1. Part(Program, 12, lowlevel_uart) /\ ip - 12 \in 1..Len(lowlevel_uart) /\ ip = 12 + (ip - 12)
    BY ProgramIs, ProgramParts
  <2> QED
    BY <2>1, Fetched
<1>2. /\ uart \in Uart
      /\ ip \in {13, 14, 18, 19} => uart.lcr = 3
      /\ ip \in {15, 16, 17} => uart.lcr = 128
  BY DEF Ready, UartReady, Holds
<1>3. ASSUME NEW o \in 0..4, NEW v \in Int, instruction = out(1016 + o, v), UartReady'
      PROVE  Ready'
  <2>1. /\ ip' = ip + 1
        /\ UNCHANGED <<intr, pmode, pic, dac, gdtr, idtr, idt, spare>>
    BY <1>3, UartStep
  <2>2. /\ ip \notin {20, 23, 92, 95} /\ ip \notin 24..72
        /\ ip \notin {22} \cup 73..79 /\ ip \notin 82..94
    OBVIOUS
  <2> QED
    BY <1>3, <2>1, <2>2, Still DEF Ready
<1>4. CASE ip = 13
  <2>1. instruction = out(1016 + 1, 1)
    BY <1>1, <1>4 DEF lowlevel_uart, COM1
  <2>2. ip' = ip + 1 /\ uart' = UartWrite(uart, 1, 1)
    BY <2>1, UartStep
  <2>3. Holds(uart', uart.divisor, 1, uart.lcr, uart.fcr, uart.mcr)
    BY <1>2, <1>4, <2>2, UartWrites
  <2>4. UartReady'
    BY <1>4, <2>2, <2>3 DEF Ready, UartReady, Holds
  <2> QED
    BY <1>3, <2>1, <2>4
<1>5. CASE ip = 14
  <2>1. instruction = out(1016 + 3, 128)
    BY <1>1, <1>5 DEF lowlevel_uart, COM1
  <2>2. ip' = ip + 1 /\ uart' = UartWrite(uart, 3, 128)
    BY <2>1, UartStep
  <2>3. Holds(uart', uart.divisor, uart.ier, 128, uart.fcr, uart.mcr)
    BY <1>2, <1>5, <2>2, UartWrites
  <2>4. UartReady'
    BY <1>5, <2>2, <2>3 DEF Ready, UartReady, Holds
  <2> QED
    BY <1>3, <2>1, <2>4
<1>6. CASE ip = 15
  <2>1. instruction = out(1016 + 0, 1)
    BY <1>1, <1>6 DEF lowlevel_uart, COM1
  <2>2. ip' = ip + 1 /\ uart' = UartWrite(uart, 0, 1)
    BY <2>1, UartStep
  <2>3. Holds(uart', uart.divisor - (uart.divisor % 256) + 1, uart.ier, uart.lcr, uart.fcr, uart.mcr)
    BY <1>2, <1>6, <2>2, UartWrites
  <2>4. UartReady'
    BY <1>6, <2>2, <2>3 DEF Ready, UartReady, Holds
  <2> QED
    BY <1>3, <2>1, <2>4
<1>7. CASE ip = 16
  <2>1. instruction = out(1016 + 1, 0)
    BY <1>1, <1>7 DEF lowlevel_uart, COM1
  <2>2. ip' = ip + 1 /\ uart' = UartWrite(uart, 1, 0)
    BY <2>1, UartStep
  <2>3. Holds(uart', (uart.divisor % 256) + 256 * 0, uart.ier, uart.lcr, uart.fcr, uart.mcr)
    BY <1>2, <1>7, <2>2, UartWrites
  <2>4. UartReady'
    BY <1>7, <2>2, <2>3 DEF Ready, UartReady, Holds
  <2> QED
    BY <1>3, <2>1, <2>4
<1>8. CASE ip = 17
  <2>1. instruction = out(1016 + 3, 3)
    BY <1>1, <1>8 DEF lowlevel_uart, COM1
  <2>2. ip' = ip + 1 /\ uart' = UartWrite(uart, 3, 3)
    BY <2>1, UartStep
  <2>3. Holds(uart', uart.divisor, uart.ier, 3, uart.fcr, uart.mcr)
    BY <1>2, <1>8, <2>2, UartWrites
  <2>4. UartReady'
    BY <1>8, <2>2, <2>3 DEF Ready, UartReady, Holds
  <2> QED
    BY <1>3, <2>1, <2>4
<1>9. CASE ip = 18
  <2>1. instruction = out(1016 + 2, 199)
    BY <1>1, <1>9 DEF lowlevel_uart, COM1
  <2>2. ip' = ip + 1 /\ uart' = UartWrite(uart, 2, 199)
    BY <2>1, UartStep
  <2>3. Holds(uart', uart.divisor, uart.ier, uart.lcr, 199, uart.mcr)
    BY <1>2, <1>9, <2>2, UartWrites
  <2>4. UartReady'
    BY <1>9, <2>2, <2>3 DEF Ready, UartReady, Holds
  <2> QED
    BY <1>3, <2>1, <2>4
<1>10. CASE ip = 19
  <2>1. instruction = out(1016 + 4, 11)
    BY <1>1, <1>10 DEF lowlevel_uart, COM1
  <2>2. ip' = ip + 1 /\ uart' = UartWrite(uart, 4, 11)
    BY <2>1, UartStep
  <2>3. Holds(uart', uart.divisor, uart.ier, uart.lcr, uart.fcr, 11)
    BY <1>2, <1>10, <2>2, UartWrites
  <2>4. UartReady'
    BY <1>10, <2>2, <2>3 DEF Ready, UartReady, Holds
  <2> QED
    BY <1>3, <2>1, <2>4
<1> QED
  BY <1>4, <1>5, <1>6, <1>7, <1>8, <1>9, <1>10

LEMMA SwitchPmode ==
  ASSUME Ready, step, ip \in 20..23
  PROVE  Ready'
<1>1. instruction = switch_pmode[ip - 19] /\ ip' = ip + 1
  <2>1. Part(Program, 19, switch_pmode) /\ ip - 19 \in 1..Len(switch_pmode) /\ ip = 19 + (ip - 19)
    BY ProgramIs, SwitchPart
  <2>2. ip' = ip + 1
    BY Does DEF Ready
  <2> QED
    BY <2>1, <2>2, Fetched
<1>2. CASE ip = 20
  <2>1. instruction = <<"cli">> /\ instruction[1] = "cli"
    BY <1>1, <1>2 DEF switch_pmode
  <2>2. intr' = FALSE /\ UNCHANGED <<pmode, pic, uart, dac, gdtr, idtr, idt, spare>>
    <3>1. set_if
      BY <2>1, Does DEF Ready
    <3> QED
      BY <2>1, <3>1 DEF set_if
  <2>3. Flow'
    <3>1. ip' \in 1..95 /\ ~(ip' <= 20 \/ ip' >= 93) /\ ~(ip' >= 24)
      BY <1>1, <1>2
    <3>2. pmode \in BOOLEAN /\ ~pmode
      BY <1>2 DEF Ready, Flow
    <3>3. pmode' \in BOOLEAN /\ ~pmode'
      BY <2>2, <3>2
    <3> QED
      BY <2>2, <3>1, <3>3, Zenon DEF Flow
  <2> QED
    BY <1>1, <1>2, <2>2, <2>3, Still DEF Ready
<1>3. CASE ip = 21
  <2>1. instruction = <<"lidt", 0, 0>>
    BY <1>1, <1>3 DEF switch_pmode
  <2>2. UNCHANGED <<intr, pmode, pic, uart, dac, gdtr, idt, spare>>
    <3>1. load_idtr
      BY <2>1, Does DEF Ready
    <3> QED
      BY <3>1 DEF load_idtr
  <2>3. TablesReady'
    BY <1>1, <1>3 DEF TablesReady
  <2> QED
    BY <1>1, <1>3, <2>2, <2>3, Still DEF Ready
<1>4. CASE ip = 22
  <2>1. instruction = <<"lgdt", Gdt, 32>>
    BY <1>1, <1>4 DEF switch_pmode
  <2>2. /\ UNCHANGED <<intr, pmode, pic, uart, dac, idtr, idt, spare>>
        /\ gdtr' = [base |-> Gdt, limit |-> 32]
    <3>1. lgdt
      BY <2>1, Linears, Does DEF Ready
    <3> QED
      BY <2>1, <3>1 DEF lgdt
  <2>3. TablesReady'
    BY <1>1, <1>4, <2>2 DEF TablesReady
  <2> QED
    BY <1>1, <1>4, <2>2, <2>3, Still DEF Ready
<1>5. CASE ip = 23
  <2>1. instruction = <<"pmode">>
    BY <1>1, <1>5 DEF switch_pmode
  <2>2. pmode' /\ UNCHANGED <<intr, pic, uart, dac, gdtr, idtr, idt, spare>>
    <3>1. enter_pmode
      BY <2>1, Does DEF Ready
    <3> QED
      BY <3>1 DEF enter_pmode
  <2>3. Flow'
    BY <1>1, <1>5, <2>2 DEF Ready, Flow
  <2> QED
    BY <1>1, <1>5, <2>2, <2>3, Still DEF Ready
<1> QED
  BY <1>2, <1>3, <1>4, <1>5

LEMMA GateTyped == \A a, b, c \in Nat : set_gatedesc(a, b, c) \in Gate
BY DEF set_gatedesc, Gate

LEMMA HandlersTyped ==
  \A v \in {33, 36, 39, 44} : set_gatedesc(HandlerAt[v], 2 * 8, 142) \in Gate
<1>1. \A v \in {33, 36, 39, 44} : HandlerAt[v] \in Nat
  <2>1. LastSector \in Nat /\ DOMAIN HandlerAt = {33, 36, 39, 44}
    BY Sizes, PlacesAssumption
  <2>2. \A v \in DOMAIN HandlerAt : HandlerAt[v] \in 1024..(512 * LastSector - 1)
    BY PlacesAssumption
  <2> QED
    BY <2>1, <2>2
<1> QED
  BY <1>1, GateTyped

LEMMA InitTables ==
  ASSUME Ready, step, ip \in 73..79
  PROVE  Ready'
<1>1. instruction = init_gdtidt[ip - 72] /\ ip' = ip + 1
  <2>1. Part(Program, 72, init_gdtidt) /\ ip - 72 \in 1..Len(init_gdtidt) /\ ip = 72 + (ip - 72)
    BY ProgramIs, SwitchPart
  <2>2. ip' = ip + 1
    BY Does DEF Ready
  <2> QED
    BY <2>1, <2>2, Fetched
<1>2. Linear32(ADR_GDT - 65536) = ADR_GDT /\ Linear32(ADR_IDT - 65536) = ADR_IDT
  BY Linears DEF ADR_GDT, ADR_IDT
<1>3. ADR_GDT \in Int /\ ADR_IDT \in Int
  BY DEF ADR_GDT, ADR_IDT
<1>4. ASSUME UNCHANGED <<intr, pmode, pic, uart, dac>>, TablesReady' PROVE Ready'
  BY <1>1, <1>4, Still DEF Ready
<1>5. CASE ip = 73
  <2>1. instruction = <<"segments", ADR_GDT>>
    BY <1>1, <1>2, <1>5 DEF init_gdtidt
  <2>2. set_segments
    BY <1>3, <2>1, Does DEF Ready
  <2>3. /\ UNCHANGED <<intr, pmode, pic, uart, dac, gdtr, idtr, idt>>
        /\ spare'.at = ADR_GDT
    BY <2>1, <2>2 DEF set_segments
  <2>4. TablesReady'
    BY <1>1, <1>5, <2>3 DEF Ready, TablesReady
  <2> QED
    BY <1>4, <2>3, <2>4
<1>6. CASE ip = 74
  <2>1. instruction = <<"gates", ADR_IDT>>
    BY <1>1, <1>2, <1>6 DEF init_gdtidt
  <2>2. set_gates
    BY <1>3, <2>1, Does DEF Ready
  <2>3. /\ UNCHANGED <<intr, pmode, pic, uart, dac, gdtr, idtr, spare>>
        /\ idt' = [at |-> ADR_IDT, gate |-> [v \in 0..255 |-> set_gatedesc(4095, 0, 0)]]
    BY <2>1, <2>2 DEF set_gates
  <2>4. idt' \in [at : {ADR_IDT}, gate : [0..255 -> Gate]]
    <3>1. set_gatedesc(4095, 0, 0) \in Gate
      BY GateTyped
    <3> HIDE DEF Gate, set_gatedesc
    <3> QED
      BY <2>3, <3>1
  <2>5. TablesReady'
    BY <1>1, <1>6, <2>3, <2>4 DEF Ready, TablesReady
  <2> QED
    BY <1>4, <2>3, <2>5
<1>7. CASE ip = 75
  <2>1. instruction = <<"lidt", ADR_IDT, 2047>>
    BY <1>1, <1>7 DEF init_gdtidt
  <2>2. load_idtr
    BY <1>3, <2>1, Does DEF Ready
  <2>3. /\ UNCHANGED <<intr, pmode, pic, uart, dac, gdtr, idt, spare>>
        /\ idtr' = [base |-> ADR_IDT, limit |-> 2047]
    BY <2>1, <2>2 DEF load_idtr
  <2>4. TablesReady'
    BY <1>1, <1>7, <2>3 DEF Ready, TablesReady
  <2> QED
    BY <1>4, <2>3, <2>4
<1>8. ASSUME ip \in 76..79, NEW v \in {33, 36, 39, 44}, instruction = gate(v)
      PROVE  /\ UNCHANGED <<intr, pmode, pic, uart, dac, gdtr, idtr, spare>>
             /\ idt' \in [at : {ADR_IDT}, gate : [0..255 -> Gate]]
             /\ Handler(v)'
             /\ \A u \in {33, 36, 39, 44} \ {v} : Handler(u) => Handler(u)'
  <2> DEFINE g(u) == set_gatedesc(HandlerAt[u], 2 * 8, 142)
  <2>1. v \in 0..255 /\ v \in Int
    OBVIOUS
  <2>2. set_gate
    BY <1>8, <2>1, Does DEF Ready
  <2>3. instruction[2] = v /\ instruction[3] = g(v)
    BY <1>8 DEF gate
  <2>4. /\ UNCHANGED <<intr, pmode, pic, uart, dac, gdtr, idtr, spare>>
        /\ idt' = [idt EXCEPT !.gate[v] = g(v)]
    BY <2>2, <2>3 DEF set_gate
  <2>5. g(v) \in Gate
    BY HandlersTyped
  <2>6. idt \in [at : {ADR_IDT}, gate : [0..255 -> Gate]]
    BY <1>8 DEF Ready, TablesReady
  <2> DEFINE w == g(v)
  <2> HIDE DEF w, Gate
  <2>7. idt' = [idt EXCEPT !.gate[v] = w] /\ w \in Gate
    BY <2>4, <2>5 DEF w
  <2>8. /\ idt' \in [at : {ADR_IDT}, gate : [0..255 -> Gate]]
        /\ idt'.gate[v] = w
        /\ \A u \in 0..255 \ {v} : idt'.gate[u] = idt.gate[u]
    BY <2>1, <2>6, <2>7
  <2>9. Handler(v)'
    BY <2>8 DEF Handler, w
  <2>10. \A u \in {33, 36, 39, 44} \ {v} : Handler(u) => Handler(u)'
    BY <2>8 DEF Handler
  <2> QED
    BY <2>4, <2>8, <2>9, <2>10
<1>9. CASE ip = 76
  <2>1. instruction = gate(36)
    BY <1>1, <1>9 DEF init_gdtidt
  <2>2. /\ UNCHANGED <<intr, pmode, pic, uart, dac, gdtr, idtr, spare>>
        /\ idt' \in [at : {ADR_IDT}, gate : [0..255 -> Gate]]
        /\ Handler(36)'
    BY <1>8, <1>9, <2>1
  <2>3. TablesReady'
    BY <1>1, <1>9, <2>2 DEF Ready, TablesReady
  <2> QED
    BY <1>4, <2>2, <2>3
<1>10. CASE ip = 77
  <2>1. instruction = gate(33)
    BY <1>1, <1>10 DEF init_gdtidt
  <2>2. /\ UNCHANGED <<intr, pmode, pic, uart, dac, gdtr, idtr, spare>>
        /\ idt' \in [at : {ADR_IDT}, gate : [0..255 -> Gate]]
        /\ Handler(33)' /\ (Handler(36) => Handler(36)')
    BY <1>8, <1>10, <2>1
  <2>3. TablesReady'
    BY <1>1, <1>10, <2>2 DEF Ready, TablesReady
  <2> QED
    BY <1>4, <2>2, <2>3
<1>11. CASE ip = 78
  <2>1. instruction = gate(39)
    BY <1>1, <1>11 DEF init_gdtidt
  <2>2. /\ UNCHANGED <<intr, pmode, pic, uart, dac, gdtr, idtr, spare>>
        /\ idt' \in [at : {ADR_IDT}, gate : [0..255 -> Gate]]
        /\ Handler(39)' /\ (Handler(36) => Handler(36)') /\ (Handler(33) => Handler(33)')
    BY <1>8, <1>11, <2>1
  <2>3. TablesReady'
    BY <1>1, <1>11, <2>2 DEF Ready, TablesReady
  <2> QED
    BY <1>4, <2>2, <2>3
<1>12. CASE ip = 79
  <2>1. instruction = gate(44)
    BY <1>1, <1>12 DEF init_gdtidt
  <2>2. /\ UNCHANGED <<intr, pmode, pic, uart, dac, gdtr, idtr, spare>>
        /\ idt' \in [at : {ADR_IDT}, gate : [0..255 -> Gate]]
        /\ Handler(44)' /\ (Handler(36) => Handler(36)')
        /\ (Handler(33) => Handler(33)') /\ (Handler(39) => Handler(39)')
    BY <1>8, <1>12, <2>1
  <2>3. TablesReady'
    BY <1>1, <1>12, <2>2 DEF Ready, TablesReady
  <2> QED
    BY <1>4, <2>2, <2>3
<1> QED
  BY <1>5, <1>6, <1>7, <1>9, <1>10, <1>11, <1>12

\* e is d with part k of colour c written, and the next part or colour named.
PartWritten(e, d, c, k, v) ==
  /\ e \in Dac /\ e.rgb[c][k] = v
  /\ e.colour = (IF k = 3 THEN c + 1 ELSE c) /\ e.part = (k % 3) + 1
  /\ \A c2 \in 0..15, k2 \in 1..3 : c2 # c \/ k2 # k => e.rgb[c2][k2] = d.rgb[c2][k2]

\* A write to the palette's registers changes nothing else.
LEMMA DacStep ==
  ASSUME Ready, step, NEW q \in {968, 969}, NEW v \in Int, instruction = out(q, v)
  PROVE  /\ ip' = ip + 1 /\ dac' = DacWrite(dac, q, v)
         /\ UNCHANGED <<intr, pmode, pic, uart, gdtr, idtr, idt, spare>>
<1> DEFINE p == q
<1>1. p \in Int /\ ~(p >= 1016) /\ p \notin {32, 33, 160, 161}
  OBVIOUS
<1>2. instruction = out(p, v)
  OBVIOUS
<1> HIDE DEF p
<1>3. ip' = ip + 1 /\ out8(p, v)
  BY <1>1, <1>2, Does DEF Ready
<1>0. pic \in Pics
  BY DEF Ready, PicsReady, Pics
<1>4. /\ pic' \in Pics
      /\ pic.master' = IF p = 32 THEN PicCommand(pic.master, v)
                       ELSE IF p = 33 THEN PicData(pic.master, v) ELSE pic.master
      /\ pic.slave'  = IF p = 160 THEN PicCommand(pic.slave, v)
                       ELSE IF p = 161 THEN PicData(pic.slave, v) ELSE pic.slave
      /\ uart' = IF p >= 1016 THEN UartWrite(uart, p - 1016, v) ELSE uart
      /\ dac' = DacWrite(dac, p, v)
      /\ p \notin {968, 969} => dac' = dac
      /\ UNCHANGED <<intr, pmode, gdtr, idtr, idt, spare>>
  <2>1. p \in Int
    BY <1>1
  <2> QED
    BY <1>0, <1>3, <2>1, Written8, Zenon
<1>5. pic' = pic
  <2>1. pic'.master = pic.master /\ pic'.slave = pic.slave
    BY <1>1, <1>4
  <2> QED
    BY <1>0, <1>4, <2>1 DEF Pics
<1> QED
  BY <1>1, <1>3, <1>4, <1>5 DEF p

\* One part of a colour written.
LEMMA DacPart ==
  ASSUME NEW d \in Dac, NEW c \in 0..15, NEW k \in 1..3, NEW v \in Int,
         d.colour = c, d.part = k
  PROVE  PartWritten(DacWrite(d, 969, v), d, c, k, v)
<1> DEFINE colour == IF k = 3 THEN c + 1 ELSE c
           part == (k % 3) + 1
           parts == [d.rgb[c] EXCEPT ![k] = v]
           rgb == [d.rgb EXCEPT ![c] = parts]
           e == [d EXCEPT !.rgb = rgb, !.colour = colour, !.part = part]
<1>1. d.rgb \in [0..15 -> [1..3 -> Int]]
  BY DEF Dac, Palette
<1>2. /\ parts \in [1..3 -> Int] /\ parts[k] = v
      /\ \A k2 \in 1..3 : k2 # k => parts[k2] = d.rgb[c][k2]
  BY <1>1
<1> HIDE DEF parts
<1>3. /\ rgb \in [0..15 -> [1..3 -> Int]] /\ rgb[c] = parts
      /\ \A c2 \in 0..15 : c2 # c => rgb[c2] = d.rgb[c2]
  BY <1>1, <1>2
<1>4. DacWrite(d, 969, v) = [d EXCEPT !.rgb[c][k] = v, !.colour = colour, !.part = part]
  BY DEF DacWrite
<1>5. DacWrite(d, 969, v) = e
  BY <1>4 DEF parts
<1>6. colour \in Int /\ part \in Int
  OBVIOUS
<1>7. e \in Dac /\ e.colour = colour /\ e.part = part /\ e.rgb = rgb
  <2>1. rgb \in Palette
    BY <1>3 DEF Palette
  <2> HIDE DEF rgb, colour, part
  <2> QED
    BY <1>6, <2>1 DEF Dac
<1> HIDE DEF rgb, colour, part
<1> HIDE DEF e
<1>8. ASSUME NEW c2 \in 0..15, NEW k2 \in 1..3, c2 # c \/ k2 # k
      PROVE  rgb[c2][k2] = d.rgb[c2][k2]
  <2>1. CASE c2 = c
    BY <1>2, <1>3, <1>8, <2>1
  <2>2. CASE c2 # c
    BY <1>3, <2>2
  <2> QED
    BY <2>1, <2>2
<1>9. rgb[c][k] = v
  BY <1>2, <1>3
<1> QED
  BY <1>5, <1>7, <1>8, <1>9 DEF colour, part, PartWritten

LEMMA InitPalette ==
  ASSUME Ready, step, ip \in 24..72
  PROVE  Ready'
<1>1. instruction = init_palette[ip - 23] /\ ip' = ip + 1
  <2>1. Part(Program, 23, init_palette) /\ ip - 23 \in 1..Len(init_palette) /\ ip = 23 + (ip - 23)
    <3>1. Len(init_palette) = 49 /\ Part(Program, 23, init_palette)
      BY ProgramIs, PalettePart
    <3> QED
      BY <3>1
  <2>2. ip' = ip + 1
    BY Does DEF Ready
  <2> QED
    BY <2>1, <2>2, Fetched
<1>2. dac \in Dac
  BY DEF Ready, DacReady, Dac, Palette
<1>3. ASSUME UNCHANGED <<intr, pmode, pic, uart, gdtr, idtr, idt, spare>>, DacReady' PROVE Ready'
  BY <1>1, <1>3, Still DEF Ready
<1>4. CASE ip = 24
  <2>1. instruction = out(968, 0)
    BY <1>1, <1>4, PalettePart
  <2>2. /\ dac' = DacWrite(dac, 968, 0)
        /\ UNCHANGED <<intr, pmode, pic, uart, gdtr, idtr, idt, spare>>
    BY <2>1, DacStep
  <2>3. dac' = [dac EXCEPT !.colour = 0, !.part = 1]
    BY <2>2 DEF DacWrite
  <2>4. dac' \in Dac /\ dac'.colour = 0 /\ dac'.part = 1
    <3>1. \A a, b \in Int : /\ [dac EXCEPT !.colour = a, !.part = b] \in Dac
                           /\ [dac EXCEPT !.colour = a, !.part = b].colour = a
                           /\ [dac EXCEPT !.colour = a, !.part = b].part = b
      BY <1>2 DEF Dac
    <3>2. 0 \in Int /\ 1 \in Int
      OBVIOUS
    <3> QED
      BY <2>3, <3>1, <3>2, Zenon
  <2>5. DacReady'
    BY <1>1, <1>4, <2>4 DEF DacReady, Dac, Palette
  <2> QED
    BY <1>3, <2>2, <2>5
<1>5. CASE ip \in 25..72
  <2> DEFINE n == ip - 25
             c == n \div 3
             k == (n % 3) + 1
             v == table_rgb[c + 1][k] \div 4
  <2>1. n \in 0..47 /\ c \in 0..15 /\ k \in 1..3 /\ ip - 23 = n + 2 /\ 3 * c + k = n + 1
    BY <1>5
  <2>2. v \in Int
    <3> HIDE DEF n, c, k
    <3>1. table_rgb[c + 1][k] \in 0..255
      BY <2>1, Colours
    <3> QED
      BY <3>1
  <2>3. instruction = out(969, v)
    <3>1. init_palette[n + 2] = out(969, v)
      <4>1. \A i \in 0..47 : init_palette[i + 2] = out(969, table_rgb[i \div 3 + 1][(i % 3) + 1] \div 4)
        BY PalettePart, Zenon
      <4> HIDE DEF n
      <4>2. init_palette[n + 2] = out(969, table_rgb[n \div 3 + 1][(n % 3) + 1] \div 4)
        BY <2>1, <4>1, ZenonT(30)
      <4> QED
        BY <4>2, Zenon
    <3> HIDE DEF n, v
    <3> QED
      BY <1>1, <2>1, <3>1
  <2>4. dac.colour = c /\ dac.part = k
    BY <1>5 DEF Ready, DacReady
  <2>5. /\ n' = n + 1
        /\ (n + 1) \div 3 = (IF k = 3 THEN c + 1 ELSE c) /\ ((n + 1) % 3) + 1 = (k % 3) + 1
    BY <1>1, <2>1
  <2>6. ip \in Int /\ ip = n + 25
    BY <1>5
  <2> HIDE DEF n, c, k, v
  <2>7. /\ dac' = DacWrite(dac, 969, v)
        /\ UNCHANGED <<intr, pmode, pic, uart, gdtr, idtr, idt, spare>>
    BY <2>2, <2>3, DacStep
  <2>8. /\ dac' \in Dac
        /\ dac'.colour = (IF k = 3 THEN c + 1 ELSE c) /\ dac'.part = (k % 3) + 1
        /\ dac'.rgb[c][k] = v
        /\ \A c2 \in 0..15, k2 \in 1..3 :
             c2 # c \/ k2 # k => dac'.rgb[c2][k2] = dac.rgb[c2][k2]
    <3>1. PartWritten(DacWrite(dac, 969, v), dac, c, k, v)
      BY <1>2, <2>1, <2>2, <2>4, DacPart
    <3>2. PartWritten(dac', dac, c, k, v)
      BY <2>7, <3>1
    <3> QED
      BY <3>2 DEF PartWritten
  <2>9. ip' - 25 = n + 1 /\ ip' - 24 = n + 2
    BY <1>1, <2>6, <2>1
  <2>10. dac'.colour = (ip' - 25) \div 3 /\ dac'.part = ((ip' - 25) % 3) + 1
    BY <2>5, <2>8, <2>9
  <2>11. ASSUME NEW c2 \in 0..15, NEW k2 \in 1..3, 3 * c2 + k2 < ip' - 24
         PROVE  dac'.rgb[c2][k2] = table_rgb[c2 + 1][k2] \div 4
    <3>1. CASE c2 = c /\ k2 = k
      BY <2>8, <3>1 DEF v
    <3>2. CASE c2 # c \/ k2 # k
      <4>1. 3 * c2 + k2 < ip - 24
        BY <2>1, <2>6, <2>9, <2>11, <3>2
      <4>2. dac.rgb[c2][k2] = table_rgb[c2 + 1][k2] \div 4
        BY <4>1 DEF Ready, DacReady
      <4> QED
        BY <2>8, <3>2, <4>2
    <3> QED
      BY <3>1, <3>2
  <2>12. DacReady'
    BY <2>8, <2>10, <2>11 DEF DacReady, Dac, Palette
  <2> QED
    BY <1>3, <2>7, <2>12
<1> QED
  BY <1>4, <1>5

LEMMA InitPic ==
  ASSUME Ready, step, ip \in 80..91
  PROVE  Ready'
<1>1. instruction = init_pic[ip - 79]
  <2>1. Part(Program, 79, init_pic) /\ ip - 79 \in 1..Len(init_pic) /\ ip = 79 + (ip - 79)
    BY ProgramIs, ProgramParts
  <2> QED
    BY <2>1, Fetched
<1>2. pic.master \in Chip /\ pic.slave \in Chip /\ MasterReady(pic.master) /\ SlaveReady(pic.slave)
  BY DEF Ready, PicsReady, Pics
<1>3. ASSUME NEW p \in {32, 33, 160, 161}, NEW v \in Int, instruction = out(p, v),
             MasterReady(pic.master)', SlaveReady(pic.slave)'
      PROVE  Ready'
  <2>1. /\ ip' = ip + 1 /\ pic' \in Pics
        /\ UNCHANGED <<intr, pmode, uart, dac, gdtr, idtr, idt, spare>>
    BY <1>3, PicStep
  <2>2. PicsReady'
    BY <1>3, <2>1 DEF PicsReady, Pics
  <2> QED
    BY <2>1, <2>2, Still DEF Ready
<1>4. CASE ip = 80
  <2>1. instruction = out(161, 255)
    BY <1>1, <1>4 DEF init_pic, PIC0, PIC1
  <2>2. /\ ip' = ip + 1
        /\ pic'.slave = PicData(pic.slave, 255) /\ pic'.master = pic.master
    BY <2>1, PicStep
  <2>3. MasterReady(pic.master)'
    BY <1>2, <1>4, <2>2 DEF MasterReady
  <2>4. SlaveReady(pic.slave)'
    BY <1>2, <1>4, <2>2, ChipWritten DEF SlaveReady
  <2> QED
    BY <1>3, <2>1, <2>3, <2>4
<1>5. CASE ip = 81
  <2>1. instruction = out(33, 255)
    BY <1>1, <1>5 DEF init_pic, PIC0, PIC1
  <2>2. /\ ip' = ip + 1
        /\ pic'.master = PicData(pic.master, 255) /\ pic'.slave = pic.slave
    BY <2>1, PicStep
  <2>3. MasterReady(pic.master)'
    BY <1>2, <1>5, <2>2, ChipWritten DEF MasterReady
  <2>4. SlaveReady(pic.slave)'
    BY <1>2, <1>5, <2>2 DEF SlaveReady
  <2> QED
    BY <1>3, <2>1, <2>3, <2>4
<1>6. CASE ip = 82
  <2>1. instruction = out(32, 17)
    BY <1>1, <1>6 DEF init_pic, PIC0, PIC1
  <2>2. /\ ip' = ip + 1
        /\ pic'.master = PicCommand(pic.master, 17) /\ pic'.slave = pic.slave
    BY <2>1, PicStep
  <2>3. MasterReady(pic.master)'
    BY <1>2, <1>6, <2>2, ChipWritten DEF MasterReady
  <2>4. SlaveReady(pic.slave)'
    BY <1>2, <1>6, <2>2 DEF SlaveReady
  <2> QED
    BY <1>3, <2>1, <2>3, <2>4
<1>7. CASE ip = 83
  <2>1. instruction = out(160, 17)
    BY <1>1, <1>7 DEF init_pic, PIC0, PIC1
  <2>2. /\ ip' = ip + 1
        /\ pic'.slave = PicCommand(pic.slave, 17) /\ pic'.master = pic.master
    BY <2>1, PicStep
  <2>3. MasterReady(pic.master)'
    BY <1>2, <1>7, <2>2 DEF MasterReady
  <2>4. SlaveReady(pic.slave)'
    BY <1>2, <1>7, <2>2, ChipWritten DEF SlaveReady
  <2> QED
    BY <1>3, <2>1, <2>3, <2>4
<1>8. CASE ip = 84
  <2>1. instruction = out(161, 40)
    BY <1>1, <1>8 DEF init_pic, PIC0, PIC1
  <2>2. /\ ip' = ip + 1
        /\ pic'.slave = PicData(pic.slave, 40) /\ pic'.master = pic.master
    BY <2>1, PicStep
  <2>3. MasterReady(pic.master)'
    BY <1>2, <1>8, <2>2 DEF MasterReady
  <2>4. SlaveReady(pic.slave)'
    BY <1>2, <1>8, <2>2, ChipWritten DEF SlaveReady
  <2> QED
    BY <1>3, <2>1, <2>3, <2>4
<1>9. CASE ip = 85
  <2>1. instruction = out(33, 32)
    BY <1>1, <1>9 DEF init_pic, PIC0, PIC1
  <2>2. /\ ip' = ip + 1
        /\ pic'.master = PicData(pic.master, 32) /\ pic'.slave = pic.slave
    BY <2>1, PicStep
  <2>3. MasterReady(pic.master)'
    BY <1>2, <1>9, <2>2, ChipWritten DEF MasterReady
  <2>4. SlaveReady(pic.slave)'
    BY <1>2, <1>9, <2>2 DEF SlaveReady
  <2> QED
    BY <1>3, <2>1, <2>3, <2>4
<1>10. CASE ip = 86
  <2>1. instruction = out(33, 4)
    BY <1>1, <1>10 DEF init_pic, PIC0, PIC1
  <2>2. /\ ip' = ip + 1
        /\ pic'.master = PicData(pic.master, 4) /\ pic'.slave = pic.slave
    BY <2>1, PicStep
  <2>3. MasterReady(pic.master)'
    BY <1>2, <1>10, <2>2, ChipWritten DEF MasterReady
  <2>4. SlaveReady(pic.slave)'
    BY <1>2, <1>10, <2>2 DEF SlaveReady
  <2> QED
    BY <1>3, <2>1, <2>3, <2>4
<1>11. CASE ip = 87
  <2>1. instruction = out(161, 2)
    BY <1>1, <1>11 DEF init_pic, PIC0, PIC1
  <2>2. /\ ip' = ip + 1
        /\ pic'.slave = PicData(pic.slave, 2) /\ pic'.master = pic.master
    BY <2>1, PicStep
  <2>3. MasterReady(pic.master)'
    BY <1>2, <1>11, <2>2 DEF MasterReady
  <2>4. SlaveReady(pic.slave)'
    BY <1>2, <1>11, <2>2, ChipWritten DEF SlaveReady
  <2> QED
    BY <1>3, <2>1, <2>3, <2>4
<1>12. CASE ip = 88
  <2>1. instruction = out(33, 1)
    BY <1>1, <1>12 DEF init_pic, PIC0, PIC1
  <2>2. /\ ip' = ip + 1
        /\ pic'.master = PicData(pic.master, 1) /\ pic'.slave = pic.slave
    BY <2>1, PicStep
  <2>3. MasterReady(pic.master)'
    BY <1>2, <1>12, <2>2, ChipWritten DEF MasterReady
  <2>4. SlaveReady(pic.slave)'
    BY <1>2, <1>12, <2>2 DEF SlaveReady
  <2> QED
    BY <1>3, <2>1, <2>3, <2>4
<1>13. CASE ip = 89
  <2>1. instruction = out(161, 1)
    BY <1>1, <1>13 DEF init_pic, PIC0, PIC1
  <2>2. /\ ip' = ip + 1
        /\ pic'.slave = PicData(pic.slave, 1) /\ pic'.master = pic.master
    BY <2>1, PicStep
  <2>3. MasterReady(pic.master)'
    BY <1>2, <1>13, <2>2 DEF MasterReady
  <2>4. SlaveReady(pic.slave)'
    BY <1>2, <1>13, <2>2, ChipWritten DEF SlaveReady
  <2> QED
    BY <1>3, <2>1, <2>3, <2>4
<1>14. CASE ip = 90
  <2>1. instruction = out(33, 251)
    BY <1>1, <1>14 DEF init_pic, PIC0, PIC1
  <2>2. /\ ip' = ip + 1
        /\ pic'.master = PicData(pic.master, 251) /\ pic'.slave = pic.slave
    BY <2>1, PicStep
  <2>3. MasterReady(pic.master)'
    BY <1>2, <1>14, <2>2, ChipWritten DEF MasterReady
  <2>4. SlaveReady(pic.slave)'
    BY <1>2, <1>14, <2>2 DEF SlaveReady
  <2> QED
    BY <1>3, <2>1, <2>3, <2>4
<1>15. CASE ip = 91
  <2>1. instruction = out(161, 255)
    BY <1>1, <1>15 DEF init_pic, PIC0, PIC1
  <2>2. /\ ip' = ip + 1
        /\ pic'.slave = PicData(pic.slave, 255) /\ pic'.master = pic.master
    BY <2>1, PicStep
  <2>3. MasterReady(pic.master)'
    BY <1>2, <1>15, <2>2 DEF MasterReady
  <2>4. SlaveReady(pic.slave)'
    BY <1>2, <1>15, <2>2, ChipWritten DEF SlaveReady
  <2> QED
    BY <1>3, <2>1, <2>3, <2>4
<1> QED
  BY <1>4, <1>5, <1>6, <1>7, <1>8, <1>9, <1>10, <1>11, <1>12, <1>13, <1>14, <1>15

LEMMA Unmask ==
  ASSUME Ready, step, ip \in 92..94
  PROVE  Ready'
<1>1. instruction = unmask[ip - 91] /\ ip' = ip + 1
  <2>1. Part(Program, 91, unmask) /\ ip - 91 \in 1..Len(unmask) /\ ip = 91 + (ip - 91)
    BY ProgramIs, SwitchPart
  <2>2. ip' = ip + 1
    BY Does DEF Ready
  <2> QED
    BY <2>1, <2>2, Fetched
<1>2. pic.master \in Chip /\ pic.slave \in Chip /\ MasterReady(pic.master) /\ SlaveReady(pic.slave)
  BY DEF Ready, PicsReady, Pics
<1>3. CASE ip = 92
  <2>1. instruction = <<"sti">> /\ instruction[1] = "sti"
    BY <1>1, <1>3 DEF unmask
  <2>2. intr' = TRUE /\ UNCHANGED <<pmode, pic, uart, dac, gdtr, idtr, idt, spare>>
    <3>1. set_if
      BY <2>1, Does DEF Ready
    <3> QED
      BY <2>1, <3>1 DEF set_if
  <2>3. Flow'
    <3>1. ip' \in 1..95 /\ (ip' <= 20 \/ ip' >= 93) /\ ip' >= 24
      BY <1>1, <1>3
    <3>2. pmode \in BOOLEAN /\ pmode
      BY <1>3 DEF Ready, Flow
    <3>3. pmode' \in BOOLEAN /\ pmode'
      BY <2>2, <3>2
    <3> QED
      BY <2>2, <3>1, <3>3, Zenon DEF Flow
  <2>4. MasterReady(pic.master)' /\ SlaveReady(pic.slave)'
    BY <1>1, <1>2, <1>3, <2>2 DEF MasterReady, SlaveReady
  <2>5. PicsReady'
    BY <2>2, <2>4 DEF Ready, PicsReady
  <2> QED
    BY <1>1, <1>3, <2>2, <2>3, <2>5, Still DEF Ready
<1>4. ASSUME ip \in 93..94, NEW p \in {32, 33, 160, 161}, NEW v \in Int, instruction = out(p, v),
             MasterReady(pic.master)', SlaveReady(pic.slave)'
      PROVE  Ready'
  <2>1. /\ pic' \in Pics
        /\ UNCHANGED <<intr, pmode, uart, dac, gdtr, idtr, idt, spare>>
    BY <1>4, PicStep
  <2>2. PicsReady'
    BY <1>4, <2>1 DEF PicsReady, Pics
  <2> QED
    BY <1>1, <1>4, <2>1, <2>2, Still DEF Ready
<1>5. CASE ip = 93
  <2>1. instruction = out(33, 233)
    BY <1>1, <1>5 DEF unmask, PIC0
  <2>2. pic'.master = PicData(pic.master, 233) /\ pic'.slave = pic.slave
    BY <2>1, PicStep
  <2>3. MasterReady(pic.master)'
    BY <1>1, <1>2, <1>5, <2>2, ChipWritten DEF MasterReady
  <2>4. SlaveReady(pic.slave)'
    BY <1>1, <1>2, <1>5, <2>2 DEF SlaveReady
  <2> QED
    BY <1>4, <1>5, <2>1, <2>3, <2>4
<1>6. CASE ip = 94
  <2>1. instruction = out(161, 239)
    BY <1>1, <1>6 DEF unmask, PIC1
  <2>2. pic'.slave = PicData(pic.slave, 239) /\ pic'.master = pic.master
    BY <2>1, PicStep
  <2>3. MasterReady(pic.master)'
    BY <1>1, <1>2, <1>6, <2>2 DEF MasterReady
  <2>4. SlaveReady(pic.slave)'
    BY <1>1, <1>2, <1>6, <2>2, ChipWritten DEF SlaveReady
  <2> QED
    BY <1>4, <1>6, <2>1, <2>3, <2>4
<1> QED
  BY <1>3, <1>5, <1>6

\* The firmware's interrupts end before the 8259s are initialized for the last time.
LEMMA FirmwareEarly ==
  ASSUME Ready, FirmwareInterrupt
  PROVE  Ready'
<1>1. UNCHANGED <<ip, intr, pmode, uart, dac, gdtr, idtr, idt, spare>> /\ ip \in 1..20
  <2>1. /\ intr /\ ~pmode
        /\ UNCHANGED <<ip, intr, pmode, uart, dac, gdtr, idtr, idt, spare>>
    BY DEF FirmwareInterrupt
  <2>2. ip \in 1..95 /\ (ip <= 20 \/ ip >= 93) /\ ~(ip >= 24)
    BY <2>1 DEF Ready, Flow
  <2> QED
    BY <2>1, <2>2
<1>2. pic' \in Pics
  <2>1. Lines.master \subseteq Int /\ Lines.slave \subseteq Int
    BY PlacesAssumption
  <2>2. pic \in Pics
    BY DEF Ready, PicsReady, Pics
  <2>3. \A s \in Levels, c \in Chip : [c EXCEPT !.isr = s] \in Chip
    BY DEF Chip
  <2>4. ASSUME NEW l \in Int, NEW c \in Chip PROVE [c EXCEPT !.isr = @ \cup {l}] \in Chip
    <3>1. c.isr \cup {l} \in Levels
      BY DEF Chip, Levels
    <3>2. [c EXCEPT !.isr = c.isr \cup {l}] \in Chip
      BY <2>3, <3>1
    <3> QED
      BY <3>2
  <2>5. \A c \in Chip : /\ [pic EXCEPT !.master = c] \in Pics
                        /\ \A d \in Chip : [pic EXCEPT !.master = c, !.slave = d] \in Pics
    BY <2>2 DEF Pics
  <2>6. pic.master \in Chip /\ pic.slave \in Chip
    BY <2>2 DEF Pics
  <2>7. ASSUME NEW l \in Lines.master, pic' = [pic EXCEPT !.master.isr = @ \cup {l}]
        PROVE  pic' \in Pics
    <3>1. pic' = [pic EXCEPT !.master = [pic.master EXCEPT !.isr = @ \cup {l}]]
      BY <2>7
    <3> QED
      BY <2>1, <2>4, <2>5, <2>6, <3>1
  <2>8. ASSUME NEW l \in Lines.slave,
               pic' = [pic EXCEPT !.master.isr = @ \cup {2}, !.slave.isr = @ \cup {l}]
        PROVE  pic' \in Pics
    <3>1. pic' = [pic EXCEPT !.master = [pic.master EXCEPT !.isr = @ \cup {2}],
                             !.slave = [pic.slave EXCEPT !.isr = @ \cup {l}]]
      BY <2>8
    <3>2. 2 \in Int /\ l \in Int
      BY <2>1
    <3> QED
      BY <2>4, <2>5, <2>6, <3>1, <3>2
  <2> QED
    BY <2>7, <2>8 DEF FirmwareInterrupt
<1>3. PicsReady'
  BY <1>1, <1>2 DEF PicsReady, Pics, MasterReady, SlaveReady
<1>4. Flow' /\ UartReady' /\ TablesReady'
  BY <1>1 DEF Ready, Flow, UartReady, TablesReady, Holds, Handler
<1>5. DacReady'
  BY <1>1 DEF Ready, DacReady
<1> QED
  BY <1>3, <1>4, <1>5 DEF Ready

LEMMA ReadyFirst == SetupInit => Ready
<1> SUFFICES ASSUME SetupInit PROVE Ready
  OBVIOUS
<1>1. ip = 1 /\ intr = TRUE /\ pmode = FALSE
  BY DEF SetupInit
<1>2. pic \in Pics
  <2> DEFINE chip(imr, vector) == [word |-> "mask", vector |-> vector, cascade |-> 0, mode |-> 1,
                                   imr |-> imr, isr |-> {}]
  <2>1. PICK imr \in {0, 184, 255} : pic = [master |-> chip(imr, 8), slave |-> chip(imr, 112)]
    BY DEF SetupInit, FirmwareVector
  <2>2. \A v \in Int, i \in Int : chip(i, v) \in Chip
    <3>1. "mask" \in Words /\ {} \in Levels
      BY DEF Words, Levels
    <3> QED
      BY <3>1 DEF Chip
  <2>3. chip(imr, 8) \in Chip /\ chip(imr, 112) \in Chip
    <3>1. imr \in Int /\ 8 \in Int /\ 112 \in Int
      OBVIOUS
    <3> HIDE DEF chip
    <3> QED
      BY <2>2, <3>1
  <2> HIDE DEF chip
  <2> QED
    BY <2>1, <2>3 DEF Pics
<1>3. PicsReady
  BY <1>1, <1>2 DEF PicsReady, Pics, MasterReady, SlaveReady
<1>4. UartReady
  <2>1. uart = [divisor |-> 12, ier |-> 0, lcr |-> 3, fcr |-> 0, mcr |-> 0, sent |-> FALSE]
    BY DEF SetupInit
  <2>2. /\ uart.divisor = 12 /\ uart.ier = 0 /\ uart.lcr = 3 /\ uart.fcr = 0 /\ uart.mcr = 0
        /\ uart \in Uart
    BY <2>1 DEF Uart
  <2> QED
    BY <1>1, <2>2 DEF UartReady, Holds
<1>5. DacReady
  <2>1. dac = [colour |-> 0, part |-> 1, rgb |-> [c \in 0..15 |-> <<0, 0, 0>>]]
    BY DEF SetupInit
  <2>2. <<0, 0, 0>> \in [1..3 -> Int]
    OBVIOUS
  <2>3. dac \in [colour : Int, part : Int, rgb : [0..15 -> [1..3 -> Int]]]
    BY <2>1, <2>2
  <2>4. \A c \in 0..15, k \in 1..3 : ~(3 * c + k < ip - 24)
    BY <1>1
  <2> QED
    BY <1>1, <2>3, <2>4 DEF DacReady, Dac, Palette
<1>6. Flow
  <2>1. ip \in 1..95 /\ ip <= 20 /\ ~(ip >= 24)
    BY <1>1
  <2> QED
    BY <1>1, <2>1, Zenon DEF Flow
<1>7. TablesReady
  BY <1>1 DEF TablesReady
<1> QED
  BY <1>3, <1>4, <1>5, <1>6, <1>7 DEF Ready

\* Ready holds throughout, whatever mask the firmware left and whenever it interrupts.
THEOREM SetupInvariant == SetupSpec => []Ready
<1>1. ASSUME Ready, [SetupNext]_setupVars PROVE Ready'
  <2>1. CASE step
    <3>1. ip \in 1..94
      BY <1>1, <2>1, Does DEF Ready
    <3>2. \/ ip \in 1..12 \/ ip \in 13..19 \/ ip \in 20..23 \/ ip \in 24..72
          \/ ip \in 73..79 \/ ip \in 80..91 \/ ip \in 92..94
      BY <3>1
    <3> QED
      BY <1>1, <2>1, <3>2, LowlevelPics, LowlevelUart, SwitchPmode, InitPalette, InitTables,
         InitPic, Unmask
  <2>2. CASE FirmwareInterrupt
    BY <1>1, <2>2, FirmwareEarly
  <2>3. CASE UNCHANGED setupVars
    BY <1>1, <2>3 DEF setupVars, Ready, Flow, PicsReady, MasterReady, SlaveReady, UartReady, Holds,
                      DacReady, TablesReady, Handler
  <2> QED
    BY <1>1, <2>1, <2>2, <2>3 DEF SetupNext
<1> QED
  BY <1>1, ReadyFirst, PTL DEF SetupSpec

\* Whatever the firmware's interrupts did, the kernel enables interrupts on 8259s,
\* a 16550 and palette registers that are set up.
THEOREM DevicesSetUp == SetupSpec => []DevicesReady
<1>1. Ready => DevicesReady
  <2> SUFFICES ASSUME Ready, pmode, intr PROVE DevicesReady
    BY DEF DevicesReady
  <2>1. ip \in 93..95 /\ Len(Program) = 94
    <3>1. ip \in 1..95 /\ (ip <= 20 \/ ip >= 93) /\ ip >= 24
      BY DEF Ready, Flow
    <3> QED
      BY <3>1, ProgramIs
  <2>2. /\ pic.master.word = "mask" /\ pic.master.mode = 1 /\ pic.master.isr = {}
        /\ pic.master.cascade = 4 /\ (ip = 95 => pic.master.imr = 233)
    BY <2>1 DEF Ready, PicsReady, MasterReady
  <2>3. /\ pic.slave.word = "mask" /\ pic.slave.mode = 1 /\ pic.slave.isr = {}
        /\ pic.slave.cascade = 2 /\ (ip = 95 => pic.slave.imr = 239)
    BY <2>1 DEF Ready, PicsReady, SlaveReady
  <2>4. uart = [divisor |-> 1, ier |-> 1, lcr |-> 3, fcr |-> 199, mcr |-> 11, sent |-> FALSE]
    <3>1. /\ uart \in Uart /\ uart.divisor = 1 /\ uart.ier = 1 /\ uart.lcr = 3
          /\ uart.fcr = 199 /\ uart.mcr = 11
      BY <2>1 DEF Ready, UartReady, Holds
    <3> QED
      BY <3>1 DEF Uart
  <2>5. ASSUME NEW c \in 0..15, NEW k \in 1..3
        PROVE  /\ 4 * dac.rgb[c][k] <= table_rgb[c + 1][k]
               /\ table_rgb[c + 1][k] < 4 * dac.rgb[c][k] + 4
    <3>1. 3 * c + k < ip - 24
      BY <2>1
    <3>2. dac.rgb[c][k] = table_rgb[c + 1][k] \div 4
      BY <3>1 DEF Ready, DacReady
    <3>3. table_rgb[c + 1][k] \in 0..255
      BY Colours
    <3> QED
      BY <3>2, <3>3
  <2>6. Done => ip = 95
    BY <2>1 DEF Done
  <2> QED
    BY <2>2, <2>3, <2>4, <2>5, <2>6 DEF DevicesReady
<1> QED
  BY <1>1, SetupInvariant, PTL

-----------------------------------------------------------------------------
(* The whole.                                                              *)

\* Loading, setting up and building paging are behaviours of their own modules.
THEOREM Composition == StartupSpec => LoadSpec /\ SetupSpec /\ Spec
<1>1. StartupInit => LoadInit /\ SetupInit /\ Init
  BY DEF StartupInit
<1>2. [StartupNext]_all => [LoadNext]_loadVars /\ [SetupNext]_setupVars /\ [Next]_vars
  <2>1. ASSUME load PROVE [LoadNext]_loadVars /\ [SetupNext]_setupVars /\ [Next]_vars
    BY <2>1 DEF load, setupVars, vars
  <2>2. ASSUME setup PROVE [LoadNext]_loadVars /\ [SetupNext]_setupVars /\ [Next]_vars
    BY <2>2 DEF setup, loadVars, vars
  <2>3. ASSUME build PROVE [LoadNext]_loadVars /\ [SetupNext]_setupVars /\ [Next]_vars
    BY <2>3 DEF build, loadVars, setupVars
  <2>4. ASSUME UNCHANGED all PROVE [LoadNext]_loadVars /\ [SetupNext]_setupVars /\ [Next]_vars
    BY <2>4 DEF all
  <2> QED
    BY <2>1, <2>2, <2>3, <2>4 DEF StartupNext
<1> QED
  BY <1>1, <1>2, PTL DEF StartupSpec, LoadSpec, SetupSpec, Spec

\* On the machine as a whole: the image as the drive's tracks make it, the loader intact,
\* five tries, no half-filled page table, and paging that moves nothing, for any drive, any
\* layout of the kernel, any pattern of failing reads and of firmware interrupts.
THEOREM StartupSafe ==
  StartupSpec => [](ImageByTracks /\ LoaderIntact /\ FiveTries /\ NoHalfTable /\ VaIsPa)
BY Composition, LoadedByTracks, LoaderKept, GivesUpAfterFive, NeverHalfBuilt, IdentityMapped, PTL

\* The levels that the masks of init_pic, and then of kernelstart, leave open.
LEMMA Levels251 == \A l \in 0..7 : ~Bit(251, l) => l = 2
BY DEF Bit
LEMMA Levels255 == \A l \in 0..7 : Bit(255, l)
BY DEF Bit
LEMMA Levels233 == \A l \in 0..7 : ~Bit(233, l) => l \in {1, 2, 4}
BY DEF Bit
LEMMA Levels239 == \A l \in 0..7 : ~Bit(239, l) => l = 4
BY DEF Bit

\* Every vector an interrupt may come on has its gate.
LEMMA VectorsHandled ==
  ASSUME Ready, pmode, intr
  PROVE  \A v \in Vectors : v \in {33, 36, 39, 44} /\ Handler(v)
<1>1. ip \in 93..95
  <2>1. ip \in 1..95 /\ (ip <= 20 \/ ip >= 93) /\ ip >= 24
    BY DEF Ready, Flow
  <2> QED
    BY <2>1
<1>2. /\ pic.master.vector = 32 /\ pic.slave.vector = 40
      /\ pic.master.imr \in {251, 233} /\ pic.slave.imr \in {255, 239}
  BY <1>1 DEF Ready, PicsReady, MasterReady, SlaveReady
<1>3. \A l \in 0..7 : ~Bit(pic.master.imr, l) => l \in {1, 2, 4}
  BY <1>2, Levels251, Levels233
<1>4. \A l \in 0..7 : ~Bit(pic.slave.imr, l) => l = 4
  BY <1>2, Levels255, Levels239
<1>5. Handler(33) /\ Handler(36) /\ Handler(39) /\ Handler(44)
  BY <1>1 DEF Ready, TablesReady
<1>6. ASSUME NEW v \in Vectors PROVE v \in {33, 36, 39, 44}
  <2>1. \/ \E l \in ({i \in 0..7 : ~Bit(pic.master.imr, i)} \ {2}) \cup {7} : v = pic.master.vector + l
        \/ \E l \in {i \in 0..7 : ~Bit(pic.slave.imr, i)} : v = pic.slave.vector + l
    BY DEF Vectors
  <2>2. ASSUME NEW l \in ({i \in 0..7 : ~Bit(pic.master.imr, i)} \ {2}) \cup {7},
               v = pic.master.vector + l
        PROVE  v \in {33, 36, 39}
    <3>1. l \in {1, 4, 7}
      BY <1>3, <2>2
    <3> QED
      BY <1>2, <2>2, <3>1
  <2>3. ASSUME NEW l \in {i \in 0..7 : ~Bit(pic.slave.imr, i)}, v = pic.slave.vector + l
        PROVE  v = 44
    BY <1>2, <1>4, <2>3
  <2> QED
    BY <2>1, <2>2, <2>3
<1> QED
  BY <1>5, <1>6

LEMMA HandlerPlaces ==
  \A v \in {33, 36, 39, 44} : /\ HandlerAt[v] \in Nat /\ HandlerAt[v] <= 393215
                              /\ HandlerAt[v] \div 512 \in Nat /\ HandlerAt[v] \div 512 < LastSector
<1>1. \A v \in {33, 36, 39, 44} : HandlerAt[v] \in 1024..(512 * LastSector - 1)
  <2>1. DOMAIN HandlerAt = {33, 36, 39, 44}
    BY PlacesAssumption
  <2>2. \A v \in DOMAIN HandlerAt : HandlerAt[v] \in 1024..(512 * LastSector - 1)
    BY PlacesAssumption
  <2> QED
    BY <2>1, <2>2, Zenon
<1>2. LastSector \in Nat /\ LastSector <= 768
  BY Sizes
<1> QED
  BY <1>1, <1>2

LEMMA InPage == \A a \in Nat : 4096 * (a \div 4096) + (a % 4096) = a
OBVIOUS

\* Paging maps to itself all that lies below the end of the interrupt table.
LEMMA Unmoved ==
  ASSUME VaIsPa, NEW linear \in Nat, linear <= ADR_IDT + 2047
  PROVE  Physical(linear) = linear
<1> DEFINE page == linear \div 4096
           d == page \div ENTRIES
           t == page % ENTRIES
<1>1. ENTRIES \in Nat \ {0} /\ MAX_PAGE_PDE \in Nat /\ MAX_PAGE_PDE <= ENTRIES
  BY PagingAssumption
<1>2. page \in Nat /\ page < MAX_PAGE_PDE * ENTRIES
  <2>1. page \in Nat /\ page <= (ADR_IDT + 2047) \div 4096
    BY DEF ADR_IDT
  <2>2. (ADR_IDT + 2047) \div 4096 < MAX_PAGE_PDE * ENTRIES
    BY PlacesAssumption
  <2>3. MAX_PAGE_PDE * ENTRIES \in Nat /\ (ADR_IDT + 2047) \div 4096 \in Nat
    BY <1>1 DEF ADR_IDT
  <2> HIDE DEF page
  <2> QED
    BY <2>1, <2>2, <2>3
<1>3. 4096 * page + (linear % 4096) = linear
  BY InPage
<1> HIDE DEF page
<1>4. d \in Nat /\ t \in Nat /\ t < ENTRIES /\ t + d * ENTRIES = page
  BY <1>1, <1>2
<1> HIDE DEF d, t
<1>5. d < MAX_PAGE_PDE
  <2>1. \A x, y, e \in Nat : x >= y => x * e >= y * e
    OBVIOUS
  <2>2. d >= MAX_PAGE_PDE => d * ENTRIES >= MAX_PAGE_PDE * ENTRIES
    BY <1>1, <1>4, <2>1
  <2>3. d * ENTRIES \in Nat /\ MAX_PAGE_PDE * ENTRIES \in Nat
    BY <1>1, <1>4
  <2> QED
    BY <1>1, <1>2, <1>4, <2>2, <2>3
<1>6. d \in Index /\ t \in Index
  BY <1>1, <1>4, <1>5 DEF Index
<1>7. paging => Translate(d, t) = t + d * ENTRIES
  BY <1>5, <1>6 DEF VaIsPa
<1>8. Physical(linear) = IF paging THEN (4096 * Translate(d, t)) + (linear % 4096) ELSE linear
  BY DEF Physical, page, d, t
<1>9. paging => Physical(linear) = (4096 * page) + (linear % 4096)
  BY <1>4, <1>7, <1>8
<1> QED
  BY <1>3, <1>8, <1>9

\* A gate that is there leads to its handler.
LEMMA HandlerReached ==
  ASSUME Ready, ip \in 93..95, NEW v \in {33, 36, 39, 44}, Handler(v)
  PROVE  Reaches(v)
<1> DEFINE h == HandlerAt[v]
           g == set_gatedesc(h, 2 * 8, 142)
<1>1. h \in Nat /\ h <= 393215
  BY HandlerPlaces
<1>2. /\ gdtr = [base |-> Gdt, limit |-> 32] /\ spare.at = ADR_GDT
      /\ idt.at = ADR_IDT /\ idtr = [base |-> ADR_IDT, limit |-> 2047]
  BY DEF Ready, TablesReady
<1>3. idt.gate[v] = g
  BY DEF Handler
<1>4. Apart(ADR_GDT, LIMIT_GDT, ADR_IDT, 2047)
  BY DEF Apart, ADR_GDT, LIMIT_GDT, ADR_IDT
<1>5. Apart(ADR_GDT, LIMIT_GDT, Gdt, 32)
  BY PlacesAssumption DEF Apart, ADR_GDT, LIMIT_GDT, Gdt
<1>6. v \in DOMAIN HandlerAt /\ 8 * v + 7 <= 2047
  BY PlacesAssumption
<1>7. GateOffset(g) = h /\ g.selector = 2 * 8
  <2>1. h \in Word32 /\ 2 * 8 \in Nat /\ 142 \in Nat
    BY <1>1 DEF Word32
  <2> HIDE DEF h
  <2> QED
    BY <2>1, GateKept
<1>8. InterruptGate(g)
  BY DEF InterruptGate, set_gatedesc
<1>9. Descriptor(2 * 8) = Flat(154)
  <2>1. (2 * 8) \div 8 + 1 = 3
    OBVIOUS
  <2> QED
    BY <2>1 DEF Descriptor, gdt
<1>10. KernelCode(Flat(154)) /\ SegmentBase(Flat(154)) = 65536
  BY DEF KernelCode, SegmentBase, Flat, Raw
<1>11. Within(Flat(154), h)
  <2>1. Flat(154).limit_low = 65535 /\ Flat(154).limit_high = 207
    BY DEF Flat, Raw
  <2>2. h \div 4096 <= 65535 + 65536 * (207 % 16)
    BY <1>1
  <2> QED
    BY <2>1, <2>2 DEF Within
<1>12. Linear32(h) = 65536 + h
  BY <1>1, Linears
<1> HIDE DEF h, g
<1>13. /\ idtr.base = ADR_IDT /\ idtr.limit = 2047 /\ gdtr.base = Gdt /\ gdtr.limit = 32
  BY <1>2
<1>14. g.selector + 7 <= 32
  BY <1>7
<1> QED
  BY <1>2, <1>3, <1>4, <1>5, <1>6, <1>7, <1>8, <1>9, <1>10, <1>11, <1>12, <1>13, <1>14 DEF Reaches, h

\* The setup runs only when the loading has ended well.
Loads == ip # 1 => stage = "fin"

LEMMA LoadedFirst == StartupSpec => []Loads
<1>1. StartupInit => Loads
  BY DEF StartupInit, SetupInit, Loads
<1>2. Loads /\ [StartupNext]_all => Loads'
  BY DEF Loads, StartupNext, all, load, setup, build, LoadNext, second, rest, fails,
         loadVars, setupVars
<1> QED
  BY <1>1, <1>2, PTL DEF StartupSpec

\* From the first sti on, with paging or without, every interrupt the 8259s can raise
\* enters memory that holds the sector of its handler, for any drive and any handlers in
\* the first track.
THEOREM InterruptsHandled == StartupSpec => []InterruptsReachHandlers
<1>1. Ready /\ VaIsPa /\ Loading /\ Loads => InterruptsReachHandlers
  <2> SUFFICES ASSUME Ready, VaIsPa, Loading, Loads, pmode, intr
               PROVE  InterruptsReachHandlers
    BY DEF InterruptsReachHandlers
  <2>1. ip \in 93..95
    <3>1. ip \in 1..95 /\ (ip <= 20 \/ ip >= 93) /\ ip >= 24
      BY DEF Ready, Flow
    <3> QED
      BY <3>1
  <2>2. ram[INIT + 1] = 1
    BY <2>1 DEF Loads, Loading, Memory, LoaderIntact
  <2>3. ASSUME NEW v \in Vectors
        PROVE  /\ Reaches(v)
               /\ ram[SYS + (HandlerAt[v] \div 512)] = HandlerAt[v] \div 512
               /\ \A linear \in {idtr.base + 8 * v, gdtr.base + 2 * 8, Linear32(HandlerAt[v])} :
                    Physical(linear) = linear
    <3>1. v \in {33, 36, 39, 44} /\ Handler(v)
      BY VectorsHandled
    <3>2. Reaches(v)
      BY <2>1, <3>1, HandlerReached
    <3>3. idtr.base + 8 * v \in Nat /\ idtr.base + 8 * v <= ADR_IDT + 2047
      <4>1. idtr.base = ADR_IDT
        BY <2>1 DEF Ready, TablesReady
      <4> QED
        BY <3>1, <4>1 DEF ADR_IDT
    <3>4. gdtr.base + 2 * 8 \in Nat /\ gdtr.base + 2 * 8 <= ADR_IDT + 2047
      <4>1. gdtr.base = Gdt
        BY <2>1 DEF Ready, TablesReady
      <4> QED
        BY <4>1, PlacesAssumption DEF ADR_IDT, Gdt
    <3>5. Linear32(HandlerAt[v]) \in Nat /\ Linear32(HandlerAt[v]) <= ADR_IDT + 2047
      <4>1. HandlerAt[v] \in Nat /\ HandlerAt[v] <= 393215
        BY <3>1, HandlerPlaces
      <4>2. Linear32(HandlerAt[v]) = 65536 + HandlerAt[v]
        BY <4>1, Linears
      <4> QED
        BY <4>1, <4>2 DEF ADR_IDT
    <3>6. ram[SYS + (HandlerAt[v] \div 512)] = HandlerAt[v] \div 512
      <4> DEFINE k == HandlerAt[v] \div 512
      <4>1. k \in Nat /\ k < LastSector
        BY <3>1, HandlerPlaces
      <4> HIDE DEF k
      <4>2. k \in 0..(Size - 1)
        BY <4>1, Sizes
      <4>3. stage = "fin" /\ Ordered(Size) /\ sectorsPerTrack \in Int
        BY <2>1 DEF Loads, Loading, Memory
      <4>4. ram[SYS + k] = k
        BY <4>1, <4>2, <4>3, FirstTrack DEF Ordered
      <4> QED
        BY <4>4 DEF k
    <3> QED
      BY <3>2, <3>3, <3>4, <3>5, <3>6, Unmoved
  <2> QED
    BY <2>2, <2>3 DEF InterruptsReachHandlers
<1> QED
  BY <1>1, Composition, SetupInvariant, IdentityMapped, LoadInvariant, LoadedFirst, PTL
=============================================================================

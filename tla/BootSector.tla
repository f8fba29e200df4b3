----------------------------- MODULE BootSector -----------------------------
(***************************************************************************)
(* The boot sector (bsp/x86/bootsector.s): it copies itself aside, reads   *)
(* the second sector behind it, copies both to where the kernel will run,  *)
(* and reads the rest of the kernel, one sector per BIOS call.             *)
(*                                                                         *)
(* Memory and the disk are in units of one sector, 512 bytes.  The machine *)
(* boots from drive 0, as the Makefile starts it (-fda).                   *)
(***************************************************************************)
EXTENDS Integers

CONSTANTS
  Drives,           \* the sectors per track a drive may have (it has two heads)
  LastSector,       \* 35: the last sector read of a track
  Heads, Cylinders  \* 2 and 2: how many are read

ASSUME GeometryAssumption ==
  /\ Drives \subseteq 2..63 /\ LastSector \in 3..63
  /\ Heads = 2 /\ Cylinders \in Nat \ {0}

VARIABLES
  sectorsPerTrack, \* of the drive this machine has
  stage,           \* "second", "rest": the two read loops; "fin", "error"
  ch, dh, cl,      \* cylinder, head and sector to read
  si,              \* how often reading it has failed
  es,              \* the segment read to
  ram,             \* for each sector of memory, the sector of the disk it holds
  failures         \* history: the reads that failed since the last success, up to 6

loadVars == <<sectorsPerTrack, stage, ch, dh, cl, si, es, ram, failures>>

-----------------------------------------------------------------------------
INITSEG == 28672
SYSSEG  == 4096
Segment(seg) == seg \div 32   \* in sectors
INIT == Segment(INITSEG)
SYS  == Segment(SYSSEG)

\* How many sectors the kernel is, with the boot sector before it: they end below
\* the place the loader has moved to.
Size == LastSector * Heads * Cylinders
ASSUME RoomAssumption == Size <= INIT - SYS
\* The sectors of the 640 KB in real mode's reach, and those loading may write.
Sectors == 0..1279
Place == (SYS..(SYS + Size - 1)) \cup {INIT, INIT + 1}

\* The disk numbers its sectors through tracks, heads and cylinders.
Lba(c, h, s) == (c * 2 + h) * sectorsPerTrack + s - 1
OnDisk == cl <= sectorsPerTrack

\* int 0x13, ah = 2: one sector to es:bx.
Loaded(bx) == [ram EXCEPT ![Segment(es) + bx \div 512] = Lba(ch, dh, cl)]

\* The read fails: reset the drive and try again, at most five times in all.
\* (Mutant: for ever.)
retry_Forever == si' = 1 /\ UNCHANGED stage
retry == /\ si' = si + 1
         /\ stage' = IF si' >= 5 THEN "error" ELSE stage

fails == /\ stage \in {"second", "rest"}
         /\ retry
         /\ failures' = IF failures > 5 THEN failures ELSE failures + 1
         /\ UNCHANGED <<sectorsPerTrack, ch, dh, cl, es, ram>>

\* readloop: the second sector, then both to SYSSEG and on to the third.
second == /\ stage = "second" /\ OnDisk
          /\ LET read == Loaded(512)
             IN ram' = [read EXCEPT ![SYS] = read[INIT], ![SYS + 1] = read[INIT + 1]]
          /\ stage' = "rest" /\ es' = SYSSEG
          /\ ch' = 0 /\ dh' = 0 /\ cl' = 3 /\ si' = 0
          /\ failures' = 0
          /\ UNCHANGED sectorsPerTrack

\* next2: on to the next sector, head and cylinder.  (Mutants: the last sector of
\* a track is left out; a failure counts for the sectors after it.)
next2_Below ==
  IF cl + 1 < LastSector THEN cl' = cl + 1 /\ UNCHANGED <<stage, dh, ch>>
  ELSE /\ cl' = 1
       /\ IF dh + 1 < Heads THEN dh' = dh + 1 /\ UNCHANGED <<stage, ch>>
          ELSE dh' = 0 /\ ch' = ch + 1 /\ stage' = IF ch' < Cylinders THEN stage ELSE "fin"
next2 ==
  IF cl + 1 <= LastSector THEN cl' = cl + 1 /\ UNCHANGED <<stage, dh, ch>>
  ELSE /\ cl' = 1
       /\ IF dh + 1 < Heads THEN dh' = dh + 1 /\ UNCHANGED <<stage, ch>>
          ELSE dh' = 0 /\ ch' = ch + 1 /\ stage' = IF ch' < Cylinders THEN stage ELSE "fin"

readloop2_Counting == UNCHANGED si
readloop2 == si' = 0

\* A sector is 32 paragraphs (mutant: it is taken for 512).
Advance_Bytes(seg) == seg + 512
Advance(seg) == seg + 32

rest == /\ stage = "rest" /\ OnDisk
        /\ ram' = Loaded(1024)
        /\ es' = Advance(es)
        /\ next2
        /\ readloop2
        /\ failures' = 0
        /\ UNCHANGED sectorsPerTrack

-----------------------------------------------------------------------------
NOTHING == -1

LoadInit ==
  /\ sectorsPerTrack \in Drives
  /\ stage = "second" /\ ch = 0 /\ dh = 0 /\ cl = 2 /\ si = 0 /\ es = INITSEG
  /\ ram = [b \in Sectors |-> IF b = INIT THEN Lba(0, 0, 1) ELSE NOTHING]
  /\ failures = 0

LoadNext == second \/ rest \/ fails

LoadSpec == LoadInit /\ [][LoadNext]_loadVars

-----------------------------------------------------------------------------
\* The sector of the disk that belongs at place k of the image if each track of the
\* drive gives its first LastSector sectors.
ImageSector(k) == (k \div LastSector) * sectorsPerTrack + (k % LastSector)

\* What the loop makes of a drive: with fewer sectors per track than it reads the
\* loading never ends well; with more, the image leaves out the end of each track; so
\* the kernel lies in memory as on the disk only if the drive has exactly LastSector.
ImageByTracks ==
  stage = "fin" => /\ sectorsPerTrack >= LastSector
                   /\ \A k \in 0..(Size - 1) : ram[SYS + k] = ImageSector(k)

\* Loading never touches the code that loads, nor anything but the kernel's place.
LoaderIntact ==
  /\ ram[INIT] = 0
  /\ stage \in {"rest", "fin"} => ram[INIT + 1] = 1
  /\ \A b \in DOMAIN ram : ram[b] # NOTHING => b \in Place

\* It gives up when one sector fails five times in a row and at no other time.
FiveTries == (stage = "error") <=> (failures >= 5)
=============================================================================

------------------------------ MODULE Startup -------------------------------
(***************************************************************************)
(* From the boot sector to paging: BootSector loads the kernel, Setup runs *)
(* what it loaded up to the first interrupt, and with interrupts enabled   *)
(* Mmu builds the page tables and turns paging on.                         *)
(***************************************************************************)
EXTENDS BootSector, Setup, Mmu

\* The kernel's segment begins where the boot sector puts the kernel; helloos.lds
\* links the handlers (int_entry.o) before the font, in the first track, which every
\* drive that loads the image puts in its place; gdt is in the sector of lowlevel_init,
\* and the page tables map the interrupt table.
ASSUME PlacesAssumption ==
  /\ Base = (SYSSEG * 16) \div 4096
  /\ DOMAIN HandlerAt = {33, 36, 39, 44}
  /\ \A v \in DOMAIN HandlerAt : HandlerAt[v] \in 1024..(512 * LastSector - 1)
  /\ GdtOffset \in 512..(1024 - 32)
  /\ Lines.master \subseteq 0..7 \ {2} /\ Lines.slave \subseteq 0..7
  /\ (ADR_IDT + 2047) \div 4096 < MAX_PAGE_PDE * ENTRIES

all == <<loadVars, setupVars, vars>>

StartupInit == LoadInit /\ SetupInit /\ Init

load  == LoadNext /\ UNCHANGED <<setupVars, vars>>
setup == stage = "fin" /\ SetupNext /\ UNCHANGED <<loadVars, vars>>
build == stage = "fin" /\ Done /\ Next /\ UNCHANGED <<loadVars, setupVars>>

StartupNext == load \/ setup \/ build

\* The firmware answers each call and the processor executes its instructions.
StartupSpec ==
  /\ StartupInit /\ [][StartupNext]_all
  /\ WF_all(load)
  /\ WF_all(stage = "fin" /\ step /\ UNCHANGED <<loadVars, vars>>)
  /\ WF_all(build)

-----------------------------------------------------------------------------
\* Where the processor finds a linear address.
Physical(linear) ==
  IF paging THEN LET page == linear \div 4096
                 IN (4096 * Translate(page \div ENTRIES, page % ENTRIES)) + (linear % 4096)
  ELSE linear

\* From the first sti on, with paging or without, every interrupt the 8259s can
\* raise finds its gate and its segment in the sector the boot sector left behind, and
\* enters memory that holds the sector of the disk its handler is in; none comes before.
InterruptsReachHandlers ==
  pmode /\ intr =>
    /\ ram[INIT + 1] = 1
    /\ \A v \in Vectors :
         /\ Reaches(v)
         /\ ram[SYS + (HandlerAt[v] \div 512)] = HandlerAt[v] \div 512
         /\ \A linear \in {idtr.base + 8 * v, gdtr.base + 2 * 8, Linear32(HandlerAt[v])} :
              Physical(linear) = linear

\* Whatever the drive does, it ends with the error message or the page directory loaded.
Ends == <>(stage = "error" \/ pc = "enable")
=============================================================================

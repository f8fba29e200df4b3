-------------------------------- MODULE Mmu ---------------------------------
(***************************************************************************)
(* Paging: init_page_directory (mmu.c) builds a directory and its tables,  *)
(* kernelstart loads the directory, draws, and turns paging on.            *)
(*                                                                         *)
(* Addresses are in pages.  The page d * ENTRIES + t is translated by      *)
(* entry t of the table that entry d of the directory names.  Nothing      *)
(* reads the arrays while they are built, so a pass over one is a step.    *)
(***************************************************************************)
EXTENDS Integers

CONSTANTS
  ENTRIES,       \* 1024: entries of the directory and of a table
  MAX_PAGE_PDE,  \* 8: how many tables there are
  Base,          \* 16: where the kernel's segment begins (SYSSEG << 4)
  Layouts,       \* where in that segment the linker may put the two arrays
  Leftover       \* what an entry may hold when the kernel starts: nothing clears .bss

ASSUME PagingAssumption ==
  /\ ENTRIES \in Nat /\ MAX_PAGE_PDE \in 1..ENTRIES /\ Base \in Nat
  /\ Layouts \subseteq [directory : Nat, tables : Nat]
  /\ Leftover \subseteq [present : BOOLEAN, page : Nat]

VARIABLES
  at,              \* the layout of this build
  pc,              \* the loop or call the thread is at
  j,               \* the outer loop's counter
  page_directory, page_tables,
  cr3, paging      \* the processor's: the directory's page, CR0.PG

vars == <<at, pc, j, page_directory, page_tables, cr3, paging>>

-----------------------------------------------------------------------------
Index == 0..(ENTRIES - 1)
Table == 0..(MAX_PAGE_PDE - 1)
Entry(present, page) == [present |-> present, page |-> page]

\* The page of an offset in the kernel's segment.  (Mutant: the offset itself.)
Linear_Offset(offset) == offset
Linear(offset) == offset + Base

\* The page that entry t of table d maps.
Mapped(d, t) == t + d * ENTRIES

clear == /\ pc = "clear" /\ pc' = "fill"
         /\ page_directory' = [d \in Index |-> Entry(FALSE, 0)]
         /\ UNCHANGED <<at, j, page_tables, cr3, paging>>

\* (Mutant: the last entry is left out.)
fill_Short == /\ pc = "fill" /\ pc' = "link"
              /\ page_tables' = [page_tables EXCEPT ![j] =
                   [t \in Index |-> IF t < ENTRIES - 1 THEN Entry(TRUE, Mapped(j, t)) ELSE @[t]]]
              /\ UNCHANGED <<at, j, page_directory, cr3, paging>>
fill == /\ pc = "fill" /\ pc' = "link"
        /\ page_tables' = [page_tables EXCEPT ![j] = [t \in Index |-> Entry(TRUE, Mapped(j, t))]]
        /\ UNCHANGED <<at, j, page_directory, cr3, paging>>

link == /\ pc = "link"
        /\ page_directory' = [page_directory EXCEPT ![j] = Entry(TRUE, Linear(at.tables + j))]
        /\ j' = j + 1
        /\ pc' = IF j + 1 < MAX_PAGE_PDE THEN "fill" ELSE "load"
        /\ UNCHANGED <<at, page_tables, cr3, paging>>

loadPageDirectory == /\ pc = "load" /\ pc' = "enable"
                     /\ cr3' = Linear(at.directory)
                     /\ UNCHANGED <<at, j, page_directory, page_tables, paging>>

enablePaging == /\ pc = "enable" /\ pc' = "on"
                /\ paging' = TRUE
                /\ UNCHANGED <<at, j, page_directory, page_tables, cr3>>

-----------------------------------------------------------------------------
\* The arrays lie behind the image, in memory that nothing has cleared.
Init == /\ at \in Layouts
        /\ pc = "clear" /\ j = 0
        /\ \E e \in Leftover : page_directory = [d \in Index |-> e]
        /\ \E e \in Leftover : page_tables = [d \in Table |-> [t \in Index |-> e]]
        /\ cr3 = 0 /\ paging = FALSE

Next == clear \/ fill \/ link \/ loadPageDirectory \/ enablePaging

Spec == Init /\ [][Next]_vars

-----------------------------------------------------------------------------
(* The processor.                                                          *)

Fault == -1

\* The tables that lie at a page of memory: one, or none.
TablesAt(page) == {d \in Table : Base + at.tables + d = page}

\* Where the page at entry t of the table of entry d leads.
Translate(d, t) ==
  LET found == TablesAt(page_directory[d].page)
  IN IF cr3 = Base + at.directory /\ page_directory[d].present /\ found # {}
     THEN LET e == page_tables[CHOOSE k \in found : TRUE][t]
          IN IF e.present THEN e.page ELSE Fault
     ELSE Fault

-----------------------------------------------------------------------------
TypeOK == /\ at \in Layouts
          /\ pc \in {"clear", "fill", "link", "load", "enable", "on"}
          /\ j \in 0..MAX_PAGE_PDE
          /\ pc \in {"fill", "link"} => j < MAX_PAGE_PDE
          /\ page_directory \in [Index -> [present : BOOLEAN, page : Nat]]
          /\ page_tables \in [Table -> [Index -> [present : BOOLEAN, page : Nat]]]
          /\ cr3 \in Nat /\ paging \in BOOLEAN

\* Turning paging on moves nothing: the kernel goes on at the address it is at, and
\* every page below MAX_PAGE_PDE tables is itself.  The pages above are not there.
VaIsPa == paging => \A d, t \in Index :
            Translate(d, t) = IF d < MAX_PAGE_PDE THEN t + d * ENTRIES ELSE Fault

\* Once cleared, the directory never names a table that is not wholly filled, nor
\* anything else, whatever was in memory before.
NoHalfTable == \A d \in Index : pc # "clear" /\ page_directory[d].present =>
                 /\ TablesAt(page_directory[d].page) # {}
                 /\ \A k \in TablesAt(page_directory[d].page), t \in Index : page_tables[k][t].present

\* How far the construction has come: the inductive invariant behind the two.
Linked(d) == /\ d < j => page_directory[d] = Entry(TRUE, Linear(at.tables + d))
             /\ ~(d < j) => page_directory[d] = Entry(FALSE, 0)
Filled(d) == \A t \in Index : page_tables[d][t] = Entry(TRUE, Mapped(d, t))
Built == /\ TypeOK
         /\ pc = "clear" => j = 0
         /\ pc \in {"load", "enable", "on"} => j = MAX_PAGE_PDE
         /\ pc \in {"enable", "on"} => cr3 = Linear(at.directory)
         /\ paging => pc = "on"
         /\ \A d \in Index : pc # "clear" => Linked(d)
         /\ \A d \in Table : d < j \/ (d = j /\ pc = "link") => Filled(d)
=============================================================================

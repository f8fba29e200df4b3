----------------------------- MODULE StartupMC ------------------------------
(***************************************************************************)
(* A PC: floppies of 1440 and 2880 KB and one with as many sectors per     *)
(* track as the loop reads; the timer, the keyboard and COM1 on the master,*)
(* the clock and the mouse on the slave; handlers where gcc and ld put     *)
(* them, one moved to the last byte of the first track.                    *)
(***************************************************************************)
EXTENDS Startup

AnyDrive == {18, 36, LastSector}
PcLines == [master |-> {0, 1, 4}, slave |-> {0, 4}]
Handlers == [v \in {33, 36, 39, 44} |-> CASE v = 33 -> 7485 [] v = 36 -> 7462
                                          [] v = 39 -> 17919 [] v = 44 -> 7531]
SomeLayouts == {[directory |-> 20, tables |-> 21], [directory |-> 40, tables |-> 30]}
SomeEntries == {Entry(FALSE, 0), Entry(TRUE, 41)}
=============================================================================

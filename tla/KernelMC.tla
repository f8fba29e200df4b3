------------------------------ MODULE KernelMC ------------------------------
(* Instances of Kernel for TLC: how large each ring is. *)
EXTENDS Kernel

KeyRing    == [d \in Dev |-> IF d = "key" THEN 2 ELSE 1]
UnitRings  == [d \in Dev |-> 1]
ConsoleRing == [d \in Dev |-> IF d = "serial" THEN 2 ELSE 1]
=============================================================================

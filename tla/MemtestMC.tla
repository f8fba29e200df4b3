----------------------------- MODULE MemtestMC ------------------------------
(***************************************************************************)
(* Four words on three chips, one chip behind two of the words; a chip is  *)
(* memory, ROM, an open bus or has one bit held fast.                      *)
(***************************************************************************)
EXTENDS Memtest

Wirings == {[a \in {0, 4, 8, 12} |-> (a \div 4) % 3], [a \in {0, 4, 8, 12} |-> IF a = 12 THEN 2 ELSE a \div 4]}
Fast == {<<{}, {}>>, <<Bits, {}>>, <<pat0, pat1>>, <<pat1, {}>>, <<{}, pat1>>}
SomeMachines ==
  {[wiring |-> w, one |-> [c \in 0..2 |-> f[c][1]], zero |-> [c \in 0..2 |-> f[c][2]],
    cells |-> [c \in 0..2 |-> (f[c][1] \cup (IF c = 1 THEN pat0 ELSE {})) \ f[c][2]], is486 |-> b]
     : w \in Wirings, f \in [0..2 -> Fast], b \in BOOLEAN}
=============================================================================

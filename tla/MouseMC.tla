------------------------------ MODULE MouseMC ------------------------------
(***************************************************************************)
(* Small instances of Mouse: a screen barely larger than the pointer.      *)
(***************************************************************************)
EXTENDS Mouse

\* Steps, flights past every edge, both signs' extreme, and bytes that look like a
\* packet's first (8, and 250, the acknowledgement).
SomeMoves ==
  {[dx |-> 0, dy |-> 0, btn |-> 0], [dx |-> 0, dy |-> 0, btn |-> 1],
   [dx |-> 1, dy |-> 0, btn |-> 1], [dx |-> 0, dy |-> 3, btn |-> 0],
   [dx |-> -1, dy |-> -1, btn |-> 4], [dx |-> 250, dy |-> -256, btn |-> 2],
   [dx |-> -256, dy |-> 255, btn |-> 7], [dx |-> 8, dy |-> 8, btn |-> 0]}
=============================================================================

------------------------------ MODULE Pointer -------------------------------
(***************************************************************************)
(* What the mouse promises its user: the pointer moves by what the mouse   *)
(* reports, up to the edges of the screen.                                 *)
(***************************************************************************)
EXTENDS Integers

CONSTANTS Moves,      \* the [dx, dy, btn] a mouse can report, dy upwards
          XMax, YMax  \* the last position of the pointer

VARIABLES x, y, btn

vars == <<x, y, btn>>

Clamp(v, last) == IF v < 0 THEN 0 ELSE IF v > last THEN last ELSE v

Init == x \in 0..XMax /\ y \in 0..YMax /\ btn = 0

Move(m) == /\ x' = Clamp(x + m.dx, XMax)
           /\ y' = Clamp(y - m.dy, YMax)
           /\ btn' = m.btn

Next == \E m \in Moves : Move(m)

Spec == Init /\ [][Next]_vars
=============================================================================

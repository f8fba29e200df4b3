---------------------------- MODULE BoundedQueue ----------------------------
(***************************************************************************)
(* What an input ring promises its two users: bytes come out once each, in *)
(* the order they went in; a byte is refused only when Capacity bytes are  *)
(* waiting, and a refusal is remembered.                                   *)
(***************************************************************************)
EXTENDS Naturals, Sequences

CONSTANTS Byte, Capacity

VARIABLES queue,     \* the bytes accepted and not yet delivered
          out,       \* the last byte delivered
          overflow   \* has a byte been refused?

vars == <<queue, out, overflow>>

Init == queue = <<>> /\ overflow = FALSE

Accept(b) == /\ Len(queue) < Capacity
             /\ queue' = Append(queue, b)
             /\ UNCHANGED <<out, overflow>>

Refuse == /\ Len(queue) = Capacity
          /\ overflow' = TRUE
          /\ UNCHANGED <<queue, out>>

Deliver == /\ queue # <<>>
           /\ out' = Head(queue)
           /\ queue' = Tail(queue)
           /\ UNCHANGED overflow

Next == (\E b \in Byte : Accept(b)) \/ Refuse \/ Deliver

Spec == Init /\ [][Next]_vars
=============================================================================

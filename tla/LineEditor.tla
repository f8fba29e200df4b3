----------------------------- MODULE LineEditor -----------------------------
(***************************************************************************)
(* What the console promises its user: the line is the characters typed    *)
(* and not erased, and Enter runs the first command whose name the line    *)
(* starts with.                                                            *)
(***************************************************************************)
EXTENDS Naturals, Sequences

CONSTANTS Char,      \* what can be typed
          Names,     \* the commands' names, in order
          NotFound   \* the answer to any other line

VARIABLES line, ran    \* ran: what the last Enter did

vars == <<line, ran>>

StartsWith(name) == Len(name) <= Len(line) /\ SubSeq(line, 1, Len(name)) = name

Meaning ==
  LET found == {k \in 1..Len(Names) : StartsWith(Names[k])}
  IN  IF line = <<>> THEN <<>>
      ELSE IF found = {} THEN NotFound
      ELSE Names[CHOOSE k \in found : \A other \in found : k <= other]

Init == line = <<>> /\ ran = <<>>

Type(c) == line' = Append(line, c) /\ UNCHANGED ran

Erase == /\ line # <<>>
         /\ line' = SubSeq(line, 1, Len(line) - 1)
         /\ UNCHANGED ran

Enter == ran' = Meaning /\ line' = <<>>

Next == (\E c \in Char : Type(c)) \/ Erase \/ Enter

Spec == Init /\ [][Next]_vars
=============================================================================

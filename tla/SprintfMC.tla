----------------------------- MODULE SprintfMC ------------------------------
(***************************************************************************)
(* Every directive with up to two flags, a few pairs of directives, and    *)
(* every text of three characters.                                         *)
(***************************************************************************)
EXTENDS Sprintf

SomeStars == {-4, 0, 3}
AnyWord == 0..(LONG - 1)
SomeStrings == {<<>>, <<"a">>, <<"a", "b", "c", "d">>}

SomeFlags == {<<>>} \cup {<<f>> : f \in DOMAIN Flag}
             \cup {<<"-", "0">>, <<"0", "-">>, <<"+", " ">>, <<"#", "0">>, <<"-", "#">>, <<"0", "+">>}
Directive(fs, ws, ps, qs, cs) ==
  [flags : fs, width : ws, precision : ps, qualifier : qs, conv : cs]
One == {<<d>> : d \in
  Directive(SomeFlags, {-1, 3, -2}, {-1, 0, 2, -2}, {<<>>, <<"h">>}, {"d", "x"})
  \cup Directive(SomeFlags, {-1, 5}, {-1, 3}, {<<>>, <<"l">>}, {"i", "u", "o", "X", "p"})
  \cup Directive({<<>>, <<"-">>, <<"0">>}, {-1, 12, -2}, {-1, 0, 2, -2}, {<<>>, <<"L">>}, {"c", "s", "n", "%"})}
Two == {<<d, e>> :
  d \in Directive({<<"-", "+">>}, {3}, {2}, {<<"h">>}, {"x", "s", "%"}),
  e \in Directive({<<>>}, {-1}, {-1}, {<<>>}, {"d", "n", "s"})}
SomeFormats == One \cup Two

Alphabet == {"%", "-", "4", ".", "*", "l", "u", "A"}
Broken == UNION {[1..n -> Alphabet] : n \in 0..3}
=============================================================================

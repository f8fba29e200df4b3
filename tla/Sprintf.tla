------------------------------ MODULE Sprintf -------------------------------
(***************************************************************************)
(* vsprintf (lib/sprintf.c): one pass over a format, and number, which     *)
(* writes an integer.                                                      *)
(*                                                                         *)
(* A character is a string of length one.  An int, a long and a pointer    *)
(* are words of the same size, as on the i386, a short a part of one.      *)
(***************************************************************************)
EXTENDS Integers, Sequences

CONSTANTS
  LONG, SHORT,     \* 2^32 and 2^16: how many values a long and a short have
  Words,           \* the values a caller passes, as unsigned words
  Stars,           \* the values a caller passes for a *
  Strings, Chars,  \* what a caller passes for %s and %c
  Wanted,          \* the formats, as sequences of directives (see Render)
  Junk             \* formats that are no such sequence

VARIABLES
  want, fmt,   \* the directives a caller means, and their text
  at,          \* the character fmt points to
  pc,          \* the part of vsprintf that is next
  flags, field_width, precision, qualifier,
  str,         \* what has been written
  args,        \* history: per directive, what it took from the caller
  marks        \* history: per directive, how much was written before it

vars == <<want, fmt, at, pc, flags, field_width, precision, qualifier, str, args, marks>>
directive == <<flags, field_width, precision, qualifier>>

-----------------------------------------------------------------------------
NUL == "NUL"
Upper == <<"0", "1", "2", "3", "4", "5", "6", "7", "8", "9", "A", "B", "C", "D", "E", "F">>
Lower == <<"0", "1", "2", "3", "4", "5", "6", "7", "8", "9", "a", "b", "c", "d", "e", "f">>
isdigit(c) == \E d \in 1..10 : Upper[d] = c
ToDigit(c) == CHOOSE d \in 0..9 : Upper[d + 1] = c

Repeat(c, n) == [k \in 1..n |-> c]
Larger(a, b) == IF a > b THEN a ELSE b
Signed(w, size) == IF 2 * w >= size THEN w - size ELSE w

\* The numeral of each unsigned word.
numeral(digits, base) ==
  LET of[n \in 0..(LONG - 1)] ==
        IF n < base THEN <<digits[n + 1]>> ELSE Append(of[n \div base], digits[(n % base) + 1])
  IN of

sign(num, type) == IF "SIGN" \notin type THEN <<>>
                   ELSE IF Signed(num, LONG) < 0 THEN <<"-">>
                   ELSE IF "PLUS" \in type THEN <<"+">>
                   ELSE IF "SPACE" \in type THEN <<" ">> ELSE <<>>
prefix(base, type) == IF "SPECIAL" \notin type \/ base = 10 THEN <<>>
                      ELSE IF base = 8 THEN <<"0">>
                      ELSE <<"0", IF "SMALL" \in type THEN "x" ELSE "X">>

\* The least long is its own negation; as an unsigned word it is its magnitude.
magnitude(num, type) == IF sign(num, type) = <<"-">> THEN (LONG - num) % LONG ELSE num

\* (Mutant: the sign takes no room.)
number_SignFree(num, base, size, prec, type) ==
  LET digits == numeral(IF "SMALL" \in type THEN Lower ELSE Upper, base)[magnitude(num, type)]
      zeros  == Repeat("0", prec - Len(digits))
      room   == size - Len(prefix(base, type)) - Len(zeros) - Len(digits)
      left   == "LEFT" \in type
      zero   == ~left /\ "ZEROPAD" \in type
  IN Repeat(" ", IF left \/ zero THEN 0 ELSE room) \o sign(num, type) \o prefix(base, type)
     \o Repeat("0", IF zero THEN room ELSE 0) \o zeros \o digits \o Repeat(" ", IF left THEN room ELSE 0)
number(num, base, size, prec, type) ==
  LET digits == numeral(IF "SMALL" \in type THEN Lower ELSE Upper, base)[magnitude(num, type)]
      zeros  == Repeat("0", prec - Len(digits))
      room   == size - Len(sign(num, type)) - Len(prefix(base, type)) - Len(zeros) - Len(digits)
      left   == "LEFT" \in type
      zero   == ~left /\ "ZEROPAD" \in type
  IN Repeat(" ", IF left \/ zero THEN 0 ELSE room) \o sign(num, type) \o prefix(base, type)
     \o Repeat("0", IF zero THEN room ELSE 0) \o zeros \o digits \o Repeat(" ", IF left THEN room ELSE 0)

-----------------------------------------------------------------------------
c == IF at <= Len(fmt) THEN fmt[at] ELSE NUL
next_char == at' = at + 1

\* va_arg.
Takes(a) == args' = [args EXCEPT ![Len(args)] = Append(@, a)]

literal == /\ pc = "char" /\ c \notin {"%", NUL}
           /\ str' = Append(str, c) /\ next_char
           /\ UNCHANGED <<want, fmt, pc, directive, args, marks>>

percent == /\ pc = "char" /\ c = "%" /\ pc' = "flags" /\ next_char
           /\ flags' = {} /\ field_width' = -1 /\ precision' = -1 /\ qualifier' = ""
           /\ args' = Append(args, <<>>) /\ marks' = Append(marks, Len(str))
           /\ UNCHANGED <<want, fmt, str>>

Flag == [f \in {"-", "+", " ", "#", "0"} |->
           CASE f = "-" -> "LEFT" [] f = "+" -> "PLUS" [] f = " " -> "SPACE"
             [] f = "#" -> "SPECIAL" [] f = "0" -> "ZEROPAD"]

\* (Mutant: the label repeat is put after the step to the next character.)
flag_Again == /\ pc = "flags"
              /\ IF c \in DOMAIN Flag THEN flags' = flags \cup {Flag[c]} /\ UNCHANGED pc
                 ELSE pc' = "width" /\ UNCHANGED flags
              /\ UNCHANGED <<want, fmt, at, field_width, precision, qualifier, str, args, marks>>
flag == /\ pc = "flags"
        /\ IF c \in DOMAIN Flag THEN flags' = flags \cup {Flag[c]} /\ next_char /\ UNCHANGED pc
           ELSE pc' = "width" /\ UNCHANGED <<flags, at>>
        /\ UNCHANGED <<want, fmt, field_width, precision, qualifier, str, args, marks>>

\* The digits of a number; a * stands for a whole one and only in its place.
width == /\ pc = "width"
         /\ \/ /\ isdigit(c) /\ next_char
               /\ field_width' = 10 * Larger(field_width, 0) + ToDigit(c)
               /\ UNCHANGED <<pc, flags, args>>
            \/ /\ c = "*" /\ field_width = -1 /\ next_char /\ pc' = "point"
               /\ \E w \in Stars :
                    /\ Takes(w) /\ field_width' = (IF w < 0 THEN -w ELSE w)
                    /\ flags' = IF w < 0 THEN flags \cup {"LEFT"} ELSE flags
            \/ /\ ~isdigit(c) /\ (c = "*" => field_width # -1) /\ pc' = "point"
               /\ UNCHANGED <<at, flags, field_width, args>>
         /\ UNCHANGED <<want, fmt, precision, qualifier, str, marks>>

point == /\ pc = "point"
         /\ IF c = "." THEN pc' = "precision" /\ next_char ELSE pc' = "qualifier" /\ UNCHANGED at
         /\ UNCHANGED <<want, fmt, directive, str, args, marks>>

prec == /\ pc = "precision"
        /\ \/ /\ isdigit(c) /\ next_char
              /\ precision' = 10 * Larger(precision, 0) + ToDigit(c)
              /\ UNCHANGED <<pc, args>>
           \/ /\ c = "*" /\ precision = -1 /\ next_char /\ pc' = "qualifier"
              /\ \E p \in Stars : Takes(p) /\ precision' = Larger(p, 0)
           \/ /\ ~isdigit(c) /\ (c = "*" => precision # -1) /\ pc' = "qualifier"
              /\ precision' = Larger(precision, 0)
              /\ UNCHANGED <<at, args>>
        /\ UNCHANGED <<want, fmt, flags, field_width, qualifier, str, marks>>

qualify == /\ pc = "qualifier" /\ pc' = "convert"
           /\ IF c \in {"h", "l", "L"} THEN qualifier' = c /\ next_char ELSE UNCHANGED <<qualifier, at>>
           /\ UNCHANGED <<want, fmt, flags, field_width, precision, str, args, marks>>

Writes(text) == str' = str \o text
Spaces(length) == Repeat(" ", field_width - length)
left_justified == "LEFT" \in flags

convert_char == /\ c = "c"
                /\ \E a \in Chars :
                     /\ Takes(a)
                     /\ Writes(IF left_justified THEN <<a>> \o Spaces(1) ELSE Spaces(1) \o <<a>>)
                /\ next_char

strnlen(s, maxlen) == IF maxlen >= 0 /\ maxlen < Len(s) THEN maxlen ELSE Len(s)

convert_string ==
  /\ c = "s"
  /\ \E s \in Strings :
       LET part == SubSeq(s, 1, strnlen(s, precision))
       IN /\ Takes(s)
          /\ Writes(IF left_justified THEN part \o Spaces(Len(part)) ELSE Spaces(Len(part)) \o part)
  /\ next_char

convert_pointer ==
  /\ c = "p"
  /\ \E a \in Words :
       /\ Takes(a)
       /\ Writes(IF field_width = -1 THEN number(a, 16, 8, precision, flags \cup {"ZEROPAD"})
                 ELSE number(a, 16, field_width, precision, flags))
  /\ next_char

\* The caller's variable is told what is written so far.
convert_count == c = "n" /\ Takes(Len(str)) /\ Writes(<<>>) /\ next_char

convert_percent == c = "%" /\ Writes(<<"%">>) /\ next_char /\ UNCHANGED args

\* What the qualifier makes of the word the caller passed.
Fetched(word, type) ==
  IF qualifier # "h" THEN word
  ELSE IF "SIGN" \in type THEN Signed(word % SHORT, SHORT) % LONG ELSE word % SHORT

convert_number ==
  /\ c \in {"o", "x", "X", "d", "i", "u"}
  /\ LET base == CASE c = "o" -> 8 [] c \in {"x", "X"} -> 16 [] OTHER -> 10
         type == CASE c = "x" -> flags \cup {"SMALL"} [] c \in {"d", "i"} -> flags \cup {"SIGN"} [] OTHER -> flags
     IN \E a \in Words : Takes(a) /\ Writes(number(Fetched(a, type), base, field_width, precision, type))
  /\ next_char

\* Anything else is written as it is.  (Mutant: the terminator is stepped over.)
convert_other_Past ==
  /\ c \notin {"c", "s", "p", "n", "%", "o", "x", "X", "d", "i", "u"}
  /\ Writes(IF c = NUL THEN <<"%">> ELSE <<"%", c>>) /\ next_char
  /\ UNCHANGED args
convert_other ==
  /\ c \notin {"c", "s", "p", "n", "%", "o", "x", "X", "d", "i", "u"}
  /\ IF c = NUL THEN Writes(<<"%">>) /\ UNCHANGED at ELSE Writes(<<"%", c>>) /\ next_char
  /\ UNCHANGED args

convert == /\ pc = "convert" /\ pc' = "char"
           /\ \/ convert_char \/ convert_string \/ convert_pointer \/ convert_count
              \/ convert_percent \/ convert_number \/ convert_other
           /\ UNCHANGED <<want, fmt, directive, marks>>

end == /\ pc = "char" /\ c = NUL /\ pc' = "done"
       /\ UNCHANGED <<want, fmt, at, directive, str, args, marks>>

-----------------------------------------------------------------------------
\* The text of a directive: [flags, width, precision, qualifier, conv], where -1 is
\* a width or precision left out and -2 a *.
Count(n) == CASE n = -1 -> <<>> [] n = -2 -> <<"*">> [] OTHER -> numeral(Upper, 10)[n]
Render(d) == <<"%">> \o d.flags \o Count(d.width)
             \o (IF d.precision = -1 THEN <<>> ELSE <<".">> \o Count(d.precision))
             \o d.qualifier \o <<d.conv>>
Upto(w) == LET upto[k \in 0..Len(w)] == IF k = 0 THEN <<>> ELSE upto[k - 1] \o Render(w[k])
           IN upto
Format(w) == Upto(w)[Len(w)]

\* A width of zero would be read as a flag, and what is asked for is well within an int,
\* so that the sums number makes of it are too.
Most == LONG \div 4
Conversions == {"c", "s", "p", "n", "%", "o", "x", "X", "d", "i", "u"}
Directives == [flags : Seq(DOMAIN Flag), width : {-2, -1} \cup 1..Most,
               precision : -2..Most, qualifier : {<<>>, <<"h">>, <<"l">>, <<"L">>},
               conv : Conversions]
ASSUME DirectivesAssumption == Wanted \subseteq Seq(Directives)
ASSUME ArgumentsAssumption ==
  /\ LONG \in Nat \ {0} /\ SHORT \in 1..LONG
  /\ Words \subseteq 0..(LONG - 1) /\ Stars \subseteq -Most..Most
  /\ Strings \subseteq Seq(STRING) /\ Chars \subseteq STRING

\* A format is a text: strings of length one, and no terminator among them.
ASSUME FormatsAssumption ==
  \A f \in Junk \cup {Format(w) : w \in Wanted} : f \in Seq(STRING \ {NUL})

Init == /\ \/ want \in Wanted /\ fmt = Format(want)
           \/ want = <<>> /\ fmt \in Junk
        /\ at = 1 /\ pc = "char" /\ str = <<>> /\ args = <<>> /\ marks = <<>>
        /\ flags = {} /\ field_width = -1 /\ precision = -1 /\ qualifier = ""

Next == literal \/ percent \/ flag \/ width \/ point \/ prec \/ qualify \/ convert \/ end

Spec == Init /\ [][Next]_vars /\ WF_vars(Next)

-----------------------------------------------------------------------------
(* What a directive promises, told of its text t and what it took, a.      *)

Value(t, base) == LET v[k \in 0..Len(t)] == IF k = 0 THEN 0
                        ELSE base * v[k - 1] + (CHOOSE d \in 0..15 : t[k] \in {Upper[d + 1], Lower[d + 1]})
                  IN v[Len(t)]
IsDigits(t, base, digits) == \A k \in 1..Len(t) : \E d \in 1..base : t[k] = digits[d]

Star(n) == n = -2
StarWidth(d, a) == IF Star(d.width) THEN a[1] ELSE 0
PrecisionTaken(d, a) ==
  IF Star(d.precision) THEN Larger(a[IF Star(d.width) THEN 2 ELSE 1], 0) ELSE d.precision
HasFlag(d, f) == \E k \in 1..Len(d.flags) : d.flags[k] = f
LeftWanted(d, a) == HasFlag(d, "-") \/ StarWidth(d, a) < 0
WidthWanted(d, a) == CASE Star(d.width) -> Larger(a[1], -a[1])
                       [] d.width = -1  -> IF d.conv = "p" THEN 8 ELSE 0
                       [] OTHER         -> d.width

\* body with spaces on one side, as wide as asked or as body is.
Justified(t, body, d, a) ==
  LET spaces == Repeat(" ", WidthWanted(d, a) - Len(body))
  IN t = IF LeftWanted(d, a) THEN body \o spaces ELSE spaces \o body

\* What a number is and how it begins.
BaseOf(d) == IF d.conv = "o" THEN 8 ELSE IF d.conv \in {"x", "X", "p"} THEN 16 ELSE 10
ValueOf(d, a) ==
  LET size == IF d.qualifier = <<"h">> /\ d.conv # "p" THEN SHORT ELSE LONG
      word == a[Len(a)] % size
  IN IF d.conv \in {"d", "i"} THEN Signed(word, size) ELSE word
IntroOf(d, a) ==
  (IF ValueOf(d, a) < 0 THEN <<"-">>
   ELSE IF d.conv \notin {"d", "i"} THEN <<>>
   ELSE IF HasFlag(d, "+") THEN <<"+">> ELSE IF HasFlag(d, " ") THEN <<" ">> ELSE <<>>)
  \o (IF ~HasFlag(d, "#") \/ BaseOf(d) = 10 THEN <<>>
      ELSE IF d.conv = "o" THEN <<"0">> ELSE <<"0", IF d.conv = "x" THEN "x" ELSE "X">>)
ZeroFilled(d, a) == ~LeftWanted(d, a) /\ (HasFlag(d, "0") \/ (d.conv = "p" /\ d.width = -1))

\* Sign, prefix, zeros up to the precision (or the width, when zeros are to fill
\* it), and the shortest numeral of the value.
NumberRight(t, d, a) ==
  \E i \in 1..Len(t) : \E j \in i..Len(t) :
    LET value  == ValueOf(d, a)
        intro  == IntroOf(d, a)
        digits == SubSeq(t, i, j)
        asked  == Larger(PrecisionTaken(d, a) - Len(digits), 0)
        zeros  == IF ZeroFilled(d, a)
                  THEN Larger(asked, WidthWanted(d, a) - Len(intro) - Len(digits)) ELSE asked
    IN /\ IsDigits(digits, BaseOf(d), IF d.conv = "x" THEN Lower ELSE Upper)
       /\ Value(digits, BaseOf(d)) = IF value < 0 THEN -value ELSE value
       /\ digits[1] = "0" => Len(digits) = 1
       /\ Justified(t, intro \o Repeat("0", zeros) \o digits, d, a)

Right(t, d, a) ==
  CASE d.conv = "%" -> t = <<"%">>
    [] d.conv = "c" -> Justified(t, <<a[Len(a)]>>, d, a)
    [] d.conv = "s" ->
         LET p == PrecisionTaken(d, a)
             s == a[Len(a)]
         IN Justified(t, IF p < 0 \/ p > Len(s) THEN s ELSE SubSeq(s, 1, p), d, a)
    [] d.conv = "n" -> t = <<>>
    [] OTHER -> NumberRight(t, d, a)

\* Every directive of a format takes its own arguments, in their order and no other,
\* and writes what it promises, whatever directive went before it.
FormatsRight ==
  pc = "done" /\ want # <<>> =>
    /\ Len(marks) = Len(want)
    /\ \A k \in 1..Len(want) :
         LET d == want[k]
             t == SubSeq(str, marks[k] + 1, IF k < Len(want) THEN marks[k + 1] ELSE Len(str))
             stars == (IF Star(d.width) THEN 1 ELSE 0) + (IF Star(d.precision) THEN 1 ELSE 0)
         IN /\ Len(args[k]) = stars + (IF d.conv = "%" THEN 0 ELSE 1)
            /\ d.conv = "n" => args[k][stars + 1] = marks[k]
            /\ Right(t, d, args[k])

\* No format, however broken off, takes fmt past its terminator.
FormatInside == at <= Len(fmt) + 1

\* And every one comes to its end.
FormatEnds == <>(pc = "done")
=============================================================================

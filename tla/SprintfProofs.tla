--------------------------- MODULE SprintfProofs ---------------------------
(***************************************************************************)
(* Proofs about Sprintf, for formats of any length: vsprintf does not read *)
(* past the terminator of one, and each directive takes its own arguments  *)
(* and writes what it promises.                                            *)
(*                                                                         *)
(* The second goes by what vsprintf knows while it reads a directive: how  *)
(* far it has come in its text, and what it has made of that part.  The    *)
(* texts need their own lemmas: what a numeral denotes and that it is the  *)
(* shortest, where the parts of a directive begin, and that reading the    *)
(* digits of a width gives the width back.                                 *)
(***************************************************************************)
EXTENDS Sprintf, TLAPS, SequenceTheorems, WellFoundedInduction

-----------------------------------------------------------------------------
(* No format is read past its end.                                         *)

\* The inductive invariant of FormatInside.
Reading == at \in Nat /\ Len(fmt) \in Nat /\ at <= Len(fmt) + 1

\* There is a next character as long as this one is not the terminator.
LEMMA StepInside ==
  ASSUME Reading, c # NUL, next_char, fmt' = fmt
  PROVE  Reading'
BY DEF Reading, c, next_char

\* No digit is the terminator.
LEMMA DigitNotNul == ~isdigit(NUL)
<1>1. \A d \in 1..10 : Upper[d] # "NUL"
  BY DEF Upper
<1> QED
  BY <1>1 DEF isdigit, NUL

\* vsprintf begins at the first character.
LEMMA InitReading == Init => Reading
<1> SUFFICES ASSUME Init PROVE Reading
  OBVIOUS
<1>1. fmt \in Seq(STRING \ {NUL})
  <2>1. fmt \in Junk \/ \E w \in Wanted : fmt = Format(w)
    BY DEF Init
  <2> QED
    BY <2>1, FormatsAssumption
<1>2. at = 1
  BY DEF Init
<1>3. Len(fmt) \in Nat
  BY <1>1
<1> QED
  BY <1>2, <1>3 DEF Reading

\* Every conversion steps over the character that names it, and over no other.
LEMMA ConvertReading == Reading /\ convert => Reading'
<1> SUFFICES ASSUME Reading, convert PROVE Reading'
  OBVIOUS
<1>1. fmt' = fmt
  BY DEF convert
<1>2. CASE c = NUL
  <2>1. ~(convert_char \/ convert_string \/ convert_pointer \/ convert_count \/ convert_percent \/ convert_number)
    BY <1>2 DEF NUL, convert_char, convert_string, convert_pointer, convert_count, convert_percent, convert_number
  <2>2. at' = at
    BY <1>2, <2>1 DEF convert, convert_other
  <2> QED
    BY <1>1, <2>2 DEF Reading
<1>3. CASE c # NUL
  <2>1. next_char
    BY <1>3 DEF convert, convert_char, convert_string, convert_pointer, convert_count, convert_percent,
                convert_number, convert_other
  <2> QED
    BY <1>1, <1>3, <2>1, StepInside
<1> QED
  BY <1>2, <1>3

\* Every other step moves on by one character at most, and never over the terminator.
LEMMA StepReading == Reading /\ [Next]_vars => Reading'
<1> SUFFICES ASSUME Reading, [Next]_vars PROVE Reading'
  OBVIOUS
<1>1. CASE literal \/ percent
  <2>1. c # NUL /\ next_char /\ fmt' = fmt
    BY <1>1 DEF literal, percent, NUL
  <2> QED
    BY <2>1, StepInside
<1>2. CASE flag \/ point \/ qualify
  <2>1. fmt' = fmt /\ (at' = at \/ (c # NUL /\ next_char))
    BY <1>2 DEF flag, point, qualify, Flag, NUL
  <2> QED
    BY <2>1, StepInside DEF Reading
<1>3. CASE width \/ prec
  <2>1. fmt' = fmt /\ (at' = at \/ (c # NUL /\ next_char))
    BY <1>3, DigitNotNul DEF width, prec, NUL
  <2> QED
    BY <2>1, StepInside DEF Reading
<1>4. CASE end \/ UNCHANGED vars
  BY <1>4 DEF end, vars, Reading
<1> QED
  BY <1>1, <1>2, <1>3, <1>4, ConvertReading DEF Next

\* vsprintf stays inside its format, wherever that breaks off: fmt points to one of its
\* characters or to the terminator.
THEOREM InsideFormat == Spec => []FormatInside
<1>1. Reading => FormatInside
  BY DEF Reading, FormatInside
<1> QED
  BY <1>1, InitReading, StepReading, PTL DEF Spec

-----------------------------------------------------------------------------
\* A set of natural numbers has a least element.
LEMMA Least ==
  ASSUME NEW T \in SUBSET Nat, T # {}
  PROVE  \E m \in T : \A n \in T : m <= n
<1> DEFINE R == OpToRel(<, Nat)
<1>1. IsWellFoundedOn(R, Nat)
  BY NatLessThanWellFounded
<1>2. \A x, y \in Nat : <<y, x>> \in R <=> y < x
  BY DEF OpToRel
<1> HIDE DEF R
<1>3. PICK x \in T : \A y \in T : ~ (<<y, x>> \in R)
  BY <1>1, WFMin
<1>4. \A y \in T : ~ (y < x)
  BY <1>2, <1>3
<1> QED
  BY <1>4

-----------------------------------------------------------------------------
(* Texts.                                                                  *)

\* The provers do not know that a given string is in STRING.
Letter == STRING \cup {"0", "1", "2", "3", "4", "5", "6", "7", "8", "9", "A", "B", "C", "D", "E", "F",
                       "a", "b", "c", "d", "e", "f", "x", "X", " ", "-", "+", "#", "%", "*", ".", "h",
                       "l", "L", "s", "p", "n", "o", "i", "u"}
Text == Seq(Letter)

\* What is asked for is within a word.
LEMMA MostIs == Most \in Nat /\ Most < LONG /\ Stars \subseteq Int
<1>1. Most \in Nat /\ Most < LONG
  BY ArgumentsAssumption DEF Most
<1>2. -Most..Most \subseteq Int
  BY <1>1
<1> QED
  BY <1>1, <1>2, ArgumentsAssumption

\* A function on 1..n is a sequence of that length.
LEMMA FunctionIsSeq ==
  ASSUME NEW S, NEW n \in Nat, NEW f \in [1..n -> S]
  PROVE  f \in Seq(S) /\ Len(f) = n
<1>1. f \in Seq(S)
  BY SeqDef
<1>2. Len(f) \in Nat /\ DOMAIN f = 1..Len(f) /\ DOMAIN f = 1..n
  BY <1>1, LenProperties
<1> QED
  BY <1>1, <1>2

\* Repeating a character.
LEMMA RepeatIs ==
  ASSUME NEW s \in Letter, NEW n \in Int
  PROVE  /\ Repeat(s, n) \in Text
         /\ Len(Repeat(s, n)) = Larger(n, 0)
         /\ n <= 0 => Repeat(s, n) = <<>>
         /\ \A k \in 1..n : Repeat(s, n)[k] = s
<1>1. CASE n <= 0
  <2>1. 1..n = {}
    BY <1>1
  <2>2. Repeat(s, n) = [k \in {} |-> s]
    BY <2>1, Zenon DEF Repeat
  <2>3. [k \in {} |-> s] \in [1..0 -> Letter]
    OBVIOUS
  <2>4. Repeat(s, n) \in Text /\ Len(Repeat(s, n)) = 0
    BY <2>2, <2>3, FunctionIsSeq DEF Text
  <2>5. Repeat(s, n) = <<>>
    BY <2>4, EmptySeq DEF Text
  <2> QED
    BY <1>1, <2>4, <2>5 DEF Larger
<1>2. CASE n > 0
  <2>1. n \in Nat /\ Repeat(s, n) \in [1..n -> Letter]
    BY <1>2 DEF Repeat
  <2>2. Repeat(s, n) \in Text /\ Len(Repeat(s, n)) = n
    BY <2>1, FunctionIsSeq DEF Text
  <2>3. \A k \in 1..n : Repeat(s, n)[k] = s
    BY DEF Repeat
  <2> QED
    BY <1>2, <2>2, <2>3 DEF Larger
<1> QED
  BY <1>1, <1>2

\* Repeating a character, and then again.
LEMMA RepeatMore ==
  ASSUME NEW s \in Letter, NEW m \in Nat, NEW n \in Nat
  PROVE  Repeat(s, m) \o Repeat(s, n) = Repeat(s, m + n)
<1> DEFINE a == Repeat(s, m)
           b == Repeat(s, n)
           t == Repeat(s, m + n)
<1>1. /\ a \in Text /\ b \in Text /\ t \in Text /\ Len(a) = m /\ Len(b) = n /\ Len(t) = m + n
      /\ \A k \in 1..m : a[k] = s
      /\ \A k \in 1..n : b[k] = s
      /\ \A k \in 1..(m + n) : t[k] = s
  BY RepeatIs DEF Larger
<1> HIDE DEF a, b, t
<1>2. a \o b \in Text /\ Len(a \o b) = m + n
  BY <1>1 DEF Text
<1>3. \A k \in 1..(m + n) : (a \o b)[k] = s
  BY <1>1 DEF Text
<1>4. a \o b = t
  BY <1>1, <1>2, <1>3, SeqEqual DEF Text
<1> QED
  BY <1>4 DEF a, b, t

\* The two characters number repeats.
LEMMA Padding ==
  ASSUME NEW s \in {" ", "0"}
  PROVE  /\ \A n \in Int : Repeat(s, n) \in Text /\ Len(Repeat(s, n)) = Larger(n, 0)
         /\ \A n \in Int : n <= 0 => Repeat(s, n) = <<>>
         /\ \A m, n \in Nat : Repeat(s, m) \o Repeat(s, n) = Repeat(s, m + n)
<1>1. s \in Letter
  BY DEF Letter
<1> QED
  BY <1>1, RepeatIs, RepeatMore, Zenon

\* A text and another after it.
LEMMA TextConcat ==
  ASSUME NEW a \in Text, NEW b \in Text
  PROVE  /\ a \o b \in Text /\ Len(a) \in Nat /\ Len(b) \in Nat /\ Len(a \o b) = Len(a) + Len(b)
         /\ \A k \in 1..Len(a) : (a \o b)[k] = a[k]
         /\ \A k \in 1..Len(b) : (a \o b)[Len(a) + k] = b[k]
         /\ a \o <<>> = a /\ <<>> \o a = a
<1>1. a \in Seq(Letter) /\ b \in Seq(Letter)
  BY DEF Text
<1>2. Len(a) \in Nat /\ Len(b) \in Nat
  BY <1>1
<1>3. a \o b \in Text /\ Len(a \o b) = Len(a) + Len(b)
  BY <1>1 DEF Text
<1>4. \A k \in 1..Len(a) : (a \o b)[k] = a[k]
  BY <1>1
<1>5. \A k \in 1..Len(b) : (a \o b)[Len(a) + k] = b[k]
  BY <1>1
<1>6. a \o <<>> = a /\ <<>> \o a = a
  BY <1>1, ConcatEmptySeq, Zenon
<1> QED
  BY <1>2, <1>3, <1>4, <1>5, <1>6

\* Three texts, however they are put together.
LEMMA TextAssociative ==
  ASSUME NEW a \in Text, NEW b \in Text, NEW t \in Text
  PROVE  (a \o b) \o t = a \o (b \o t)
<1>1. a \in Seq(Letter) /\ b \in Seq(Letter) /\ t \in Seq(Letter)
  BY DEF Text
<1> QED
  BY <1>1, ConcatAssociative

-----------------------------------------------------------------------------
(* Digits and numerals.                                                    *)

\* A digit says its value, in capitals or not.
LEMMA DigitValue ==
  /\ \A d \in 0..15 : /\ Upper[d + 1] \in Letter /\ Lower[d + 1] \in Letter
                      /\ (CHOOSE e \in 0..15 : Upper[d + 1] \in {Upper[e + 1], Lower[e + 1]}) = d
                      /\ (CHOOSE e \in 0..15 : Lower[d + 1] \in {Upper[e + 1], Lower[e + 1]}) = d
<1>1. ASSUME NEW d \in 0..15, NEW e \in 0..15
      PROVE  /\ Upper[d + 1] \in {Upper[e + 1], Lower[e + 1]} <=> e = d
             /\ Lower[d + 1] \in {Upper[e + 1], Lower[e + 1]} <=> e = d
  BY DEF Upper, Lower
<1>2. \A i \in 1..16 : /\ Upper[i] \in {"0", "1", "2", "3", "4", "5", "6", "7", "8", "9", "A", "B", "C", "D", "E", "F"}
                       /\ Lower[i] \in {"0", "1", "2", "3", "4", "5", "6", "7", "8", "9", "a", "b", "c", "d", "e", "f"}
  BY DEF Upper, Lower
<1>3. \A i \in 1..16 : Upper[i] \in Letter /\ Lower[i] \in Letter
  BY <1>2, Zenon DEF Letter
<1>4. \A d \in 0..15 : d + 1 \in 1..16
  OBVIOUS
<1> QED
  BY <1>1, <1>3, <1>4

\* skip_atoi knows a decimal digit and its value.
LEMMA DecimalDigit ==
  ASSUME NEW d \in 0..9 PROVE isdigit(Upper[d + 1]) /\ ToDigit(Upper[d + 1]) = d
<1>1. ASSUME NEW e \in 0..9 PROVE Upper[e + 1] = Upper[d + 1] <=> e = d
  BY DEF Upper
<1>2. d + 1 \in 1..10
  OBVIOUS
<1> QED
  BY <1>1, <1>2 DEF isdigit, ToDigit

\* The value of a digit, as Value has it.
Digit(s) == CHOOSE d \in 0..15 : s \in {Upper[d + 1], Lower[d + 1]}

\* What the first digits of a numeral are worth.
Worth(f, t, base) == /\ f \in [0..Len(t) -> Nat] /\ f[0] = 0
                     /\ \A k \in 1..Len(t) : f[k] = base * f[k - 1] + Digit(t[k])

\* The shortest numeral of n.
Denotes(t, digits, base, n) ==
  /\ t \in Text /\ Len(t) \in Nat \ {0}
  /\ \A k \in 1..Len(t) : \E d \in 0..(base - 1) : t[k] = digits[d + 1]
  /\ n > 0 => t[1] # digits[1]
  /\ n = 0 => Len(t) = 1
  /\ \E f \in [0..Len(t) -> Nat] : Worth(f, t, base) /\ f[Len(t)] = n

\* What a digit is worth.
LEMMA DigitIs ==
  ASSUME NEW digits \in {Upper, Lower}, NEW d \in 0..15
  PROVE  Digit(digits[d + 1]) = d /\ digits[d + 1] \in Letter
BY DigitValue DEF Digit

\* Only the first digit is a zero.
LEMMA FirstDigit ==
  ASSUME NEW digits \in {Upper, Lower}, NEW d \in 1..15
  PROVE  digits[d + 1] # digits[1] /\ digits[1] = "0"
BY DEF Upper, Lower

\* Value is what a function that adds up the digits comes to.
LEMMA ValueBy ==
  ASSUME NEW t, Len(t) \in Nat, NEW base \in Nat, NEW f, Worth(f, t, base)
  PROVE  Value(t, base) = f[Len(t)]
<1> DEFINE n == Len(t)
           Step(g) == [k \in 0..n |-> IF k = 0 THEN 0 ELSE base * g[k - 1] + Digit(t[k])]
           P == CHOOSE g : g = Step(g)
<1>1. f \in [0..n -> Nat] /\ f[0] = 0 /\ \A k \in 1..n : f[k] = base * f[k - 1] + Digit(t[k])
  BY DEF Worth
<1>2. f = Step(f)
  <2> SUFFICES ASSUME NEW k \in 0..n PROVE f[k] = IF k = 0 THEN 0 ELSE base * f[k - 1] + Digit(t[k])
    BY <1>1
  <2>1. k = 0 \/ k \in 1..n
    OBVIOUS
  <2> QED
    BY <1>1, <2>1, Zenon
<1>3. P = [k \in 0..n |-> IF k = 0 THEN 0 ELSE base * P[k - 1] + Digit(t[k])]
  BY <1>2
<1>4. Value(t, base) = P[n]
  BY DEF Value, Digit
<1>0. n \in Nat
  OBVIOUS
<1> HIDE DEF P
<1>5. P[0] = 0 /\ \A k \in 1..n : P[k] = base * P[k - 1] + Digit(t[k])
  <2>1. 0 \in 0..n /\ \A k \in 1..n : k \in 0..n /\ k # 0
    OBVIOUS
  <2>2. P[0] = 0
    BY <1>3, <2>1, Zenon
  <2>3. ASSUME NEW k \in 1..n PROVE P[k] = base * P[k - 1] + Digit(t[k])
    BY <1>3, <2>1, Zenon
  <2> QED
    BY <2>2, <2>3
<1> HIDE DEF n
<1> DEFINE Same == {k \in Nat : k <= n => P[k] = f[k]}
<1>6. ASSUME NEW k \in Nat PROVE k \in Same
  <2> SUFFICES ASSUME Nat \ Same # {} PROVE FALSE
    OBVIOUS
  <2>1. PICK m \in Nat \ Same : \A j \in Nat \ Same : m <= j
    BY Least
  <2>2. m # 0 /\ m - 1 \in Nat /\ m \in 1..n
    BY <1>1, <1>5, <2>1 DEF n
  <2>3. m - 1 \in Same
    BY <2>1, <2>2
  <2>4. P[m - 1] = f[m - 1]
    BY <1>0, <2>2, <2>3
  <2>5. P[m] = f[m]
    BY <1>1, <1>5, <2>2, <2>4, Zenon
  <2> QED
    BY <2>1, <2>5
<1>7. P[n] = f[n]
  BY <1>6 DEF n
<1> QED
  BY <1>4, <1>7 DEF n

\* The recursive function of numeral is defined everywhere.
LEMMA NumeralDef ==
  ASSUME NEW digits \in {Upper, Lower}, NEW base \in {8, 10, 16}
  PROVE  \A n \in 0..(LONG - 1) :
           /\ numeral(digits, base)[n] \in Text
           /\ n < base => numeral(digits, base)[n] = <<digits[n + 1]>>
           /\ n >= base => numeral(digits, base)[n] =
                             Append(numeral(digits, base)[n \div base], digits[(n % base) + 1])
<1> DEFINE N == LONG - 1
           Eq(f, n) == f[n] = IF n < base THEN <<digits[n + 1]>>
                              ELSE Append(f[n \div base], digits[(n % base) + 1])
           Good == {m \in Nat : m <= N => \E f \in [0..N -> Text] : \A n \in 0..m : Eq(f, n)}
<1>1. N \in Nat
  BY ArgumentsAssumption
<1>2. ASSUME NEW n \in Nat
      PROVE  /\ n % base \in 0..15 /\ n \div base \in Nat
             /\ n >= base => (n \div base) \in 1..(n - 1)
             /\ n < base => n \in 0..15
  <2>1. CASE base = 8
    BY <2>1
  <2>2. CASE base = 10
    BY <2>2
  <2>3. CASE base = 16
    BY <2>3
  <2> QED
    BY <2>1, <2>2, <2>3
<1>3. \A d \in 0..15 : digits[d + 1] \in Letter
  BY DigitIs
<1>4. /\ \A t \in Text, d \in 0..15 : Append(t, digits[d + 1]) \in Text
      /\ \A d \in 0..15 : <<digits[d + 1]>> \in Text
  BY <1>3 DEF Text
<1> HIDE DEF N
<1>5. ASSUME NEW m \in Nat, m <= N, NEW f \in [0..N -> Text], \A n \in 0..(m - 1) : Eq(f, n)
      PROVE  \E g \in [0..N -> Text] : \A n \in 0..m : Eq(g, n)
  <2> DEFINE e == IF m < base THEN <<digits[m + 1]>> ELSE Append(f[m \div base], digits[(m % base) + 1])
             g == [f EXCEPT ![m] = e]
  <2>1. e \in Text
    <3>1. CASE m < base
      <4>1. <<digits[m + 1]>> \in Text
        BY <1>2, <1>4, <1>5, <3>1
      <4> QED
        BY <3>1, <4>1, Zenon
    <3>2. CASE m >= base
      <4>1. f[m \div base] \in Text
        BY <1>1, <1>2, <1>5, <3>2
      <4>2. ~(m < base) /\ m % base \in 0..15
        BY <1>2, <1>5, <3>2
      <4>3. Append(f[m \div base], digits[(m % base) + 1]) \in Text
        BY <1>4, <4>1, <4>2, Zenon
      <4> QED
        BY <4>2, <4>3, Zenon
    <3> QED
      BY <3>1, <3>2
  <2> HIDE DEF e
  <2>2. g \in [0..N -> Text] /\ g[m] = e /\ \A n \in 0..(m - 1) : g[n] = f[n]
    BY <1>1, <1>5, <2>1
  <2> HIDE DEF g
  <2>3. ASSUME NEW n \in 0..m PROVE Eq(g, n)
    <3>1. n \in Nat /\ (n >= base => n \div base \in 0..(m - 1))
      BY <1>2
    <3>2. n >= base => g[n \div base] = f[n \div base]
      BY <2>2, <3>1
    <3>3. CASE n = m
      BY <2>2, <3>1, <3>2, <3>3 DEF e
    <3>4. CASE n # m
      <4>1. n \in 0..(m - 1)
        BY <3>4
      <4>2. g[n] = f[n] /\ Eq(f, n)
        BY <1>5, <2>2, <4>1
      <4> QED
        BY <3>1, <3>2, <4>2
    <3> QED
      BY <3>3, <3>4
  <2> QED
    BY <2>2, <2>3
<1>6. Nat \subseteq Good
  <2> SUFFICES ASSUME Nat \ Good # {} PROVE FALSE
    OBVIOUS
  <2>1. PICK m \in Nat \ Good : \A n \in Nat \ Good : m <= n
    BY Least
  <2>2. m <= N
    BY <2>1
  <2>3. \E f \in [0..N -> Text] : \A n \in 0..(m - 1) : Eq(f, n)
    <3>1. CASE m = 0
      <4>1. [n \in 0..N |-> <<>>] \in [0..N -> Text] /\ 0..(m - 1) = {}
        BY <3>1 DEF Text
      <4> QED
        BY <4>1
    <3>2. CASE m # 0
      <4>1. m - 1 \in Nat /\ m - 1 <= N
        BY <1>1, <2>1, <2>2, <3>2
      <4>2. m - 1 \in Good
        BY <2>1, <4>1
      <4> QED
        BY <4>1, <4>2
    <3> QED
      BY <3>1, <3>2
  <2>4. \E f \in [0..N -> Text] : \A n \in 0..m : Eq(f, n)
    BY <1>5, <2>1, <2>2, <2>3
  <2> QED
    BY <2>1, <2>4
<1>7. PICK f \in [0..N -> Text] : \A n \in 0..N : Eq(f, n)
  <2>1. N \in Good /\ N <= N
    BY <1>1, <1>6
  <2> QED
    BY <2>1
<1> DEFINE Step(g) == [n \in 0..N |-> IF n < base THEN <<digits[n + 1]>>
                                      ELSE Append(g[n \div base], digits[(n % base) + 1])]
           P == CHOOSE g : g = Step(g)
<1>8. f = Step(f)
  BY <1>7
<1>9. P = [n \in 0..N |-> IF n < base THEN <<digits[n + 1]>>
                          ELSE Append(P[n \div base], digits[(n % base) + 1])]
  BY <1>8
<1>10. numeral(digits, base) = P
  BY DEF numeral, N
<1> HIDE DEF P
<1>11. ASSUME NEW n \in 0..N PROVE Eq(P, n)
  BY <1>9, Zenon
<1> DEFINE Typed == {n \in Nat : n <= N => P[n] \in Text}
<1>12. ASSUME NEW n \in Nat PROVE n \in Typed
  <2> SUFFICES ASSUME Nat \ Typed # {} PROVE FALSE
    OBVIOUS
  <2>1. PICK m \in Nat \ Typed : \A j \in Nat \ Typed : m <= j
    BY Least
  <2>2. m \in 0..N /\ m \in Nat
    BY <1>1, <2>1
  <2>3. CASE m < base
    BY <1>2, <1>4, <1>11, <2>1, <2>2, <2>3
  <2>4. CASE m >= base
    <3>1. m \div base \in Nat /\ m \div base < m /\ m % base \in 0..15 /\ ~(m < base)
      BY <1>2, <2>2, <2>4
    <3>2. P[m \div base] \in Text
      BY <1>1, <2>1, <2>2, <3>1
    <3> QED
      BY <1>4, <1>11, <2>1, <2>2, <3>1, <3>2
  <2> QED
    BY <2>2, <2>3, <2>4
<1>13. ASSUME NEW n \in 0..N
       PROVE  /\ P[n] \in Text
              /\ n < base => P[n] = <<digits[n + 1]>>
              /\ n >= base => P[n] = Append(P[n \div base], digits[(n % base) + 1])
  <2>1. P[n] \in Text
    BY <1>1, <1>12
  <2>2. (n < base => n < base) /\ (n >= base => ~(n < base))
    BY <1>1
  <2> QED
    BY <1>11, <2>1, <2>2, Zenon
<1> QED
  BY <1>10, <1>13 DEF N

\* One digit more.
LEMMA DenotesMore ==
  ASSUME NEW digits \in {Upper, Lower}, NEW base \in {8, 10, 16},
         NEW q \in Nat \ {0}, NEW d \in 0..(base - 1), NEW t, Denotes(t, digits, base, q)
  PROVE  Denotes(Append(t, digits[d + 1]), digits, base, base * q + d)
<1> DEFINE l == Len(t)
           s == digits[d + 1]
           u == Append(t, s)
           n == base * q + d
<1>1. PICK f \in [0..l -> Nat] : Worth(f, t, base) /\ f[l] = q
  BY DEF Denotes
<1>2. t \in Text /\ l \in Nat \ {0} /\ d \in 0..15 /\ s \in Letter /\ Digit(s) = d
  <2>1. t \in Text /\ l \in Nat \ {0}
    BY DEF Denotes
  <2>2. d \in 0..15
    OBVIOUS
  <2> QED
    BY <2>1, <2>2, DigitIs
<1>3. u \in Text /\ Len(u) = l + 1 /\ u[l + 1] = s /\ \A k \in 1..l : u[k] = t[k]
  BY <1>2, AppendProperties DEF Text
<1>4. n \in Nat /\ n > 0
  OBVIOUS
<1> DEFINE g == [k \in 0..(l + 1) |-> IF k = l + 1 THEN n ELSE f[k]]
<1>5. g \in [0..(l + 1) -> Nat] /\ g[l + 1] = n /\ \A k \in 0..l : g[k] = f[k]
  BY <1>1, <1>2, <1>4
<1>6. /\ f[0] = 0 /\ f[l] = q
      /\ \A k \in 1..l : f[k] = base * f[k - 1] + Digit(t[k])
  BY <1>1 DEF Worth
<1>7. n = base * q + Digit(s)
  BY <1>2
<1> HIDE DEF l, s, u, n, g
<1>8. ASSUME NEW k \in 1..(l + 1) PROVE g[k] = base * g[k - 1] + Digit(u[k])
  <2>1. CASE k = l + 1
    <3>1. k - 1 = l /\ l \in 0..l
      BY <1>2, <2>1
    <3> QED
      BY <1>3, <1>5, <1>6, <1>7, <2>1, <3>1, Zenon
  <2>2. CASE k # l + 1
    <3>1. k \in 1..l /\ k - 1 \in 0..l /\ k \in 0..l
      BY <1>2, <2>2
    <3> QED
      BY <1>3, <1>5, <1>6, <3>1, Zenon
  <2> QED
    BY <2>1, <2>2
<1>9. Worth(g, u, base) /\ g[Len(u)] = n
  <2>1. 0 \in 0..l
    BY <1>2
  <2> QED
    BY <1>3, <1>5, <1>6, <1>8, <2>1 DEF Worth
<1>10. ASSUME NEW k \in 1..Len(u) PROVE \E e \in 0..(base - 1) : u[k] = digits[e + 1]
  <2>1. k \in 1..l \/ k = l + 1
    BY <1>2, <1>3
  <2>2. \A j \in 1..l : \E e \in 0..(base - 1) : t[j] = digits[e + 1]
    BY DEF Denotes, l
  <2> QED
    BY <1>3, <2>1, <2>2, Zenon DEF s
<1>11. u[1] # digits[1]
  <2>1. t[1] # digits[1] /\ 1 \in 1..l
    BY <1>2 DEF Denotes
  <2> QED
    BY <1>3, <2>1
<1>12. Len(u) \in Nat \ {0}
  BY <1>2, <1>3
<1>13. \E h \in [0..Len(u) -> Nat] : Worth(h, u, base) /\ h[Len(u)] = n
  BY <1>3, <1>5, <1>9
<1>14. Denotes(u, digits, base, n)
  BY <1>3, <1>4, <1>10, <1>11, <1>12, <1>13 DEF Denotes
<1> QED
  BY <1>14 DEF u, s, n

\* A number below the base has one digit.
LEMMA DenotesDigit ==
  ASSUME NEW digits \in {Upper, Lower}, NEW base \in {8, 10, 16}, NEW d \in 0..(base - 1)
  PROVE  Denotes(<<digits[d + 1]>>, digits, base, d)
<1> DEFINE s == digits[d + 1]
           t == <<s>>
           g == [k \in 0..1 |-> IF k = 1 THEN d ELSE 0]
<1>1. d \in 0..15 /\ s \in Letter /\ Digit(s) = d
  BY DigitIs
<1>2. t \in Text /\ Len(t) = 1 /\ t[1] = s
  BY <1>1 DEF Text
<1>3. g \in [0..1 -> Nat] /\ g[0] = 0 /\ g[1] = d
  OBVIOUS
<1>4. d > 0 => s # digits[1]
  BY <1>1, FirstDigit
<1> HIDE DEF s, t, g
<1>5. base * 0 + Digit(s) = d
  BY <1>1
<1>6. Worth(g, t, base)
  <2> SUFFICES ASSUME NEW k \in 1..1 PROVE g[k] = base * g[k - 1] + Digit(t[k])
    BY <1>2, <1>3 DEF Worth
  <2>1. k = 1 /\ k - 1 = 0
    OBVIOUS
  <2> QED
    BY <1>2, <1>3, <1>5, <2>1, Zenon
<1>7. \A k \in 1..1 : k = 1
  OBVIOUS
<1>8. Denotes(t, digits, base, d)
  BY <1>2, <1>3, <1>4, <1>6, <1>7 DEF Denotes, s
<1> QED
  BY <1>8 DEF t, s

\* The numeral of a word is the shortest that denotes it.
THEOREM NumeralDenotes ==
  ASSUME NEW digits \in {Upper, Lower}, NEW base \in {8, 10, 16}, NEW n \in 0..(LONG - 1)
  PROVE  Denotes(numeral(digits, base)[n], digits, base, n)
<1> DEFINE t(m) == numeral(digits, base)[m]
           Good == {m \in Nat : m <= LONG - 1 => Denotes(t(m), digits, base, m)}
<1>1. LONG - 1 \in Nat
  BY ArgumentsAssumption
<1>2. ASSUME NEW m \in Nat
      PROVE  /\ m % base \in 0..(base - 1) /\ m \div base \in Nat
             /\ m >= base => (m \div base) \in 1..(m - 1)
             /\ m < base => m \in 0..(base - 1)
             /\ base * (m \div base) + (m % base) = m
  <2>1. CASE base = 8
    BY <2>1
  <2>2. CASE base = 10
    BY <2>2
  <2>3. CASE base = 16
    BY <2>3
  <2> QED
    BY <2>1, <2>2, <2>3
<1>3. ASSUME NEW m \in Nat PROVE m \in Good
  <2> SUFFICES ASSUME Nat \ Good # {} PROVE FALSE
    OBVIOUS
  <2>1. PICK k \in Nat \ Good : \A j \in Nat \ Good : k <= j
    BY Least
  <2>2. k \in 0..(LONG - 1) /\ k \in Nat
    BY <1>1, <2>1
  <2>3. CASE k < base
    <3>1. k \in 0..(base - 1) /\ t(k) = <<digits[k + 1]>>
      BY <1>2, <2>2, <2>3, NumeralDef
    <3>2. Denotes(t(k), digits, base, k)
      BY <3>1, DenotesDigit
    <3> QED
      BY <2>1, <3>2
  <2>4. CASE k >= base
    <3> DEFINE q == k \div base
               d == k % base
    <3>1. q \in Nat \ {0} /\ q < k /\ d \in 0..(base - 1) /\ base * q + d = k
      BY <1>2, <2>2, <2>4
    <3>2. t(k) = Append(t(q), digits[d + 1])
      BY <2>2, <2>4, NumeralDef
    <3> HIDE DEF q, d
    <3>3. q \in Good /\ q <= LONG - 1
      BY <1>1, <2>1, <2>2, <3>1
    <3>4. Denotes(t(q), digits, base, q)
      BY <3>3
    <3>5. Denotes(Append(t(q), digits[d + 1]), digits, base, base * q + d)
      BY <3>1, <3>4, DenotesMore
    <3> QED
      BY <2>1, <3>1, <3>2, <3>5
  <2> QED
    BY <2>2, <2>3, <2>4
<1> QED
  BY <1>1, <1>3

-----------------------------------------------------------------------------
(* What number writes.                                                     *)

\* What number writes: an introduction, zeros and a numeral, with spaces on one side.
Intro(num, base, type) == sign(num, type) \o prefix(base, type)
DigitsOf(num, base, type) == numeral(IF "SMALL" \in type THEN Lower ELSE Upper, base)[magnitude(num, type)]
Zeros(size, p, type, intro, digits) ==
  IF "LEFT" \notin type /\ "ZEROPAD" \in type
  THEN Larger(Larger(p - Len(digits), 0), size - Len(intro) - Len(digits))
  ELSE Larger(p - Len(digits), 0)
Body(size, p, type, intro, digits) == intro \o Repeat("0", Zeros(size, p, type, intro, digits)) \o digits
Padded(size, type, body) == IF "LEFT" \in type THEN body \o Repeat(" ", size - Len(body))
                            ELSE Repeat(" ", size - Len(body)) \o body

\* number writes a body padded with spaces, whichever way it fills its width.
LEMMA NumberIs ==
  ASSUME NEW num \in 0..(LONG - 1), NEW base \in {8, 10, 16}, NEW size \in Int, NEW p \in Int, NEW type
  PROVE  LET digits == DigitsOf(num, base, type)
             intro  == Intro(num, base, type)
         IN /\ digits \in Text /\ intro \in Text /\ Body(size, p, type, intro, digits) \in Text
            /\ Zeros(size, p, type, intro, digits) \in Nat
            /\ number(num, base, size, p, type) = Padded(size, type, Body(size, p, type, intro, digits))
<1> DEFINE nought == "0"
           blank == " "
           dg == IF "SMALL" \in type THEN Lower ELSE Upper
           w == magnitude(num, type)
           digits == numeral(dg, base)[w]
           s == sign(num, type)
           x == prefix(base, type)
           intro  == s \o x
           asked  == Larger(p - Len(digits), 0)
           filled == "LEFT" \notin type /\ "ZEROPAD" \in type
           zeros  == IF filled THEN Larger(asked, size - Len(intro) - Len(digits)) ELSE asked
           body   == intro \o Repeat(nought, zeros) \o digits
           spaces == Repeat(blank, size - Len(body))
           z == Repeat(nought, p - Len(digits))
           room == size - Len(s) - Len(x) - Len(z) - Len(digits)
           left == "LEFT" \in type
           zero == ~left /\ "ZEROPAD" \in type
<1>1. w \in 0..(LONG - 1)
  BY ArgumentsAssumption DEF magnitude
<1>2. digits \in Text /\ Len(digits) \in Nat
  BY <1>1, NumeralDenotes DEF Denotes
<1>3. s \in Text /\ x \in Text
  <2>1. {"-", "+", " ", "0", "x", "X"} \subseteq Letter
    BY DEF Letter
  <2>2. <<>> \in Text /\ \A a, b \in Letter : <<a>> \in Text /\ <<a, b>> \in Text
    BY DEF Text
  <2>3. s \in {<<>>, <<"-">>, <<"+">>, <<" ">>}
    BY DEF sign
  <2>4. x \in {<<>>, <<"0">>, <<"0", "x">>, <<"0", "X">>}
    BY DEF prefix
  <2> QED
    BY <2>1, <2>2, <2>3, <2>4, Zenon
<1>4. number(num, base, size, p, type) =
        Repeat(blank, IF left \/ zero THEN 0 ELSE room) \o s \o x
          \o Repeat(nought, IF zero THEN room ELSE 0) \o z \o digits \o Repeat(blank, IF left THEN room ELSE 0)
  BY DEF number, nought, blank
<1> HIDE DEF dg, w, digits, s, x
<1>5. /\ \A n \in Int : Repeat(nought, n) \in Text /\ Len(Repeat(nought, n)) = Larger(n, 0)
      /\ \A n \in Int : n <= 0 => Repeat(nought, n) = <<>>
      /\ \A m, n \in Nat : Repeat(nought, m) \o Repeat(nought, n) = Repeat(nought, m + n)
      /\ \A n \in Int : Repeat(blank, n) \in Text
      /\ \A n \in Int : n <= 0 => Repeat(blank, n) = <<>>
  BY Padding, Zenon
<1> HIDE DEF nought, blank
<1>6. /\ z \in Text /\ Len(z) = asked /\ asked \in Nat /\ z = Repeat(nought, asked)
  <2>1. p - Len(digits) \in Int
    BY <1>2
  <2>0. z \in Text /\ Len(z) = asked
    BY <1>5, <2>1, Zenon
  <2>2. z \in Text /\ Len(z) = asked /\ asked \in Nat
    BY <2>0, <2>1 DEF Larger
  <2>3. CASE p - Len(digits) <= 0
    <3>1. asked = 0
      BY <2>1, <2>3 DEF Larger
    <3>2. z = <<>> /\ Repeat(nought, 0) = <<>>
      BY <1>5, <2>1, <2>3
    <3> QED
      BY <2>2, <3>1, <3>2
  <2>4. CASE p - Len(digits) > 0
    <3>1. asked = p - Len(digits)
      BY <2>1, <2>4 DEF Larger
    <3> QED
      BY <2>2, <3>1
  <2> QED
    BY <2>1, <2>3, <2>4
<1> HIDE DEF z, asked
<1>7. intro \in Text /\ Len(intro) = Len(s) + Len(x) /\ Len(s) \in Nat /\ Len(x) \in Nat
  BY <1>3, TextConcat
<1>8. room \in Int /\ room = size - Len(intro) - asked - Len(digits)
  BY <1>2, <1>6, <1>7
<1> HIDE DEF intro, room
<1>9. zeros \in Nat /\ (filled => zeros = asked + Larger(room, 0)) /\ (~filled => zeros = asked)
  BY <1>2, <1>6, <1>7, <1>8 DEF Larger
<1> DEFINE pad == Repeat(nought, IF zero THEN room ELSE 0)
           Z == Repeat(nought, zeros)
<1>10. pad \in Text /\ pad \o z = Z
  <2> DEFINE e == IF zero THEN room ELSE 0
  <2>1. e \in Int /\ (~zero => e <= 0) /\ (room <= 0 => e <= 0)
    BY <1>8
  <2> HIDE DEF e
  <2>2. pad \in Text /\ (~zero => pad = <<>>) /\ (room <= 0 => pad = <<>>) 
    BY <1>5, <2>1, Zenon DEF e
  <2>3. CASE zero /\ room > 0
    <3>1. pad = Repeat(nought, room) /\ room \in Nat /\ zeros = room + asked
      BY <1>6, <1>8, <1>9, <2>3 DEF Larger
    <3> QED
      BY <1>5, <1>6, <2>2, <3>1
  <2>4. CASE ~(zero /\ room > 0)
    <3>1. pad = <<>>
      BY <1>8, <2>2, <2>4
    <3>2. zeros = asked
      BY <1>6, <1>8, <1>9, <2>4 DEF Larger
    <3>3. <<>> \o z = z
      BY <1>6, TextConcat
    <3> QED
      BY <1>6, <2>2, <3>1, <3>2, <3>3
  <2> QED
    BY <2>3, <2>4
<1>11. Z \in Text /\ Len(Z) = zeros
  <2> HIDE DEF zeros
  <2>1. zeros \in Int /\ Larger(zeros, 0) = zeros
    BY <1>9 DEF Larger
  <2> QED
    BY <1>5, <2>1, Zenon
<1>12. body \in Text /\ Len(body) = Len(intro) + zeros + Len(digits)
  <2> HIDE DEF Z, zeros
  <2>1. intro \o Z \in Text /\ Len(intro \o Z) = Len(intro) + zeros
    BY <1>7, <1>11, TextConcat
  <2>2. (intro \o Z) \o digits \in Text /\ Len((intro \o Z) \o digits) = Len(intro) + zeros + Len(digits)
    BY <1>2, <2>1, TextConcat
  <2> QED
    BY <2>2 DEF Z
<1> DEFINE before == Repeat(blank, IF left \/ zero THEN 0 ELSE room)
           after == Repeat(blank, IF left THEN room ELSE 0)
           gap == size - Len(body)
<1>13. gap \in Int /\ (filled => gap <= 0) /\ (~filled => gap = room)
  <2> HIDE DEF zeros, body
  <2>1. gap = size - Len(intro) - zeros - Len(digits)
    BY <1>2, <1>7, <1>9, <1>12
  <2> QED
    BY <1>2, <1>6, <1>7, <1>8, <1>9, <2>1 DEF Larger
<1>14. before \in Text /\ after \in Text /\ spaces \in Text
  <2>1. (IF left \/ zero THEN 0 ELSE room) \in Int /\ (IF left THEN room ELSE 0) \in Int
    BY <1>8
  <2> HIDE DEF gap
  <2>2. gap \in Int
    BY <1>13
  <2> QED
    BY <1>5, <2>1, <2>2, Zenon DEF gap
<1>15. /\ left => before = <<>> /\ after = spaces
       /\ ~left => before = spaces /\ after = <<>>
  <2>1. Repeat(blank, 0) = <<>>
    BY <1>5
  <2>2. gap <= 0 => spaces = <<>>
    BY <1>5, <1>13
  <2> HIDE DEF gap
  <2>3. CASE left
    BY <1>13, <2>1, <2>3 DEF gap
  <2>4. CASE ~left /\ filled
    BY <1>13, <2>1, <2>2, <2>4
  <2>5. CASE ~left /\ ~filled
    BY <1>13, <2>1, <2>5 DEF gap
  <2> QED
    BY <2>3, <2>4, <2>5
<1> HIDE DEF before, after, pad, spaces, Z, zeros
<1>16. before \o s \o x \o pad \o z \o digits \o after = before \o body \o after
  <2>1. s \o x = intro /\ pad \o z = Z /\ body = (intro \o Z) \o digits
    BY <1>10 DEF intro, Z
  <2> HIDE DEF body
  <2>2. (before \o s) \o x = before \o intro
    BY <1>3, <1>14, <2>1, TextAssociative
  <2>3. before \o intro \in Text
    BY <1>7, <1>14, TextConcat
  <2>4. ((before \o intro) \o pad) \o z = (before \o intro) \o Z
    <3> DEFINE b == before \o intro
    <3> HIDE DEF b
    <3>1. b \in Text
      BY <2>3 DEF b
    <3>2. (b \o pad) \o z = b \o (pad \o z)
      BY <1>6, <1>10, <3>1, TextAssociative
    <3> QED
      BY <2>1, <3>2 DEF b
  <2>5. (before \o intro) \o Z = before \o (intro \o Z)
    BY <1>7, <1>11, <1>14, TextAssociative
  <2>6. intro \o Z \in Text
    BY <1>7, <1>11, TextConcat
  <2>7. (before \o (intro \o Z)) \o digits = before \o body
    BY <1>2, <1>14, <2>1, <2>6, TextAssociative, SMTT(30)
  <2> QED
    BY <2>2, <2>4, <2>5, <2>7
<1>17. /\ left => before \o body \o after = body \o spaces
       /\ ~left => before \o body \o after = spaces \o body
  <2> HIDE DEF body
  <2>1. spaces \o body \in Text
    BY <1>12, <1>14, TextConcat
  <2>2. <<>> \o body = body /\ (spaces \o body) \o <<>> = spaces \o body
    BY <1>12, <2>1, TextConcat
  <2> QED
    BY <1>15, <2>2, Zenon
<1>18. /\ digits \in Text /\ intro \in Text /\ body \in Text /\ zeros \in Nat
       /\ number(num, base, size, p, type) = IF left THEN body \o spaces ELSE spaces \o body
  BY <1>2, <1>4, <1>7, <1>9, <1>12, <1>16, <1>17, Zenon DEF before, pad, after
<1>19. digits = DigitsOf(num, base, type) /\ intro = Intro(num, base, type)
  BY DEF digits, dg, w, intro, s, x, DigitsOf, Intro
<1>20. zeros = Zeros(size, p, type, intro, digits)
  BY DEF zeros, asked, Zeros
<1>21. body = Body(size, p, type, intro, digits)
  BY <1>20 DEF Body, nought, Z
<1> HIDE DEF body
<1>22. number(num, base, size, p, type) = Padded(size, type, body)
  BY <1>18 DEF Padded, spaces, blank
<1> QED
  BY <1>18, <1>19, <1>20, <1>21, <1>22, Zenon

\* The middle of three texts.
LEMMA Middle ==
  ASSUME NEW u \in Text, NEW v \in Text, NEW w \in Text, v # <<>>
  PROVE  LET t == (u \o v) \o w
             i == Len(u) + 1
             j == Len(u) + Len(v)
         IN t \in Text /\ i \in 1..Len(t) /\ j \in i..Len(t) /\ SubSeq(t, i, j) = v
<1> DEFINE t == (u \o v) \o w
           i == Len(u) + 1
           j == Len(u) + Len(v)
<1>1. /\ u \o v \in Text /\ Len(u \o v) = j /\ Len(u) \in Nat /\ Len(v) \in Nat
      /\ \A k \in 1..Len(v) : (u \o v)[Len(u) + k] = v[k]
  BY TextConcat
<1>2. Len(v) > 0
  <2>1. v \in Seq(Letter)
    BY DEF Text
  <2> QED
    BY <2>1, EmptySeq
<1>3. /\ t \in Text /\ Len(w) \in Nat /\ Len(t) = j + Len(w)
      /\ \A k \in 1..j : t[k] = (u \o v)[k]
  BY <1>1, TextConcat
<1> HIDE DEF t
<1>4. i \in 1..Len(t) /\ j \in i..Len(t) /\ j - i + 1 = Len(v)
  BY <1>1, <1>2, <1>3
<1>5. t \in Seq(Letter) /\ v \in Seq(Letter)
  BY <1>3 DEF Text
<1>6. SubSeq(t, i, j) \in Seq(Letter) /\ Len(SubSeq(t, i, j)) = Len(v)
      /\ \A k \in 1..Len(v) : SubSeq(t, i, j)[k] = t[i + k - 1]
  BY <1>1, <1>4, <1>5
<1>7. ASSUME NEW k \in 1..Len(v) PROVE SubSeq(t, i, j)[k] = v[k]
  <2>1. i + k - 1 = Len(u) + k /\ Len(u) + k \in 1..j
    BY <1>1
  <2> QED
    BY <1>1, <1>3, <1>6, <2>1, Zenon
<1> HIDE DEF i, j
<1>8. SubSeq(t, i, j) = v
  BY <1>5, <1>6, <1>7, SeqEqual
<1> QED
  BY <1>3, <1>4, <1>8 DEF t, i, j

\* digits are the numeral in a text t that number writes.
Fits(t, digits, num, base, size, p, type) ==
  /\ IsDigits(digits, base, IF "SMALL" \in type THEN Lower ELSE Upper)
  /\ Value(digits, base) = magnitude(num, type)
  /\ digits[1] = "0" => Len(digits) = 1
  /\ t = Padded(size, type, Body(size, p, type, Intro(num, base, type), digits))

\* There is a numeral in what number writes, and it fits the number and the width.
LEMMA NumberFits ==
  ASSUME NEW num \in 0..(LONG - 1), NEW base \in {8, 10, 16}, NEW size \in Int, NEW p \in Int, NEW type,
         NEW W \in Int, size = W \/ (size = -1 /\ W = 0)
  PROVE  LET t == number(num, base, size, p, type)
         IN /\ t \in Text
            /\ \E i \in 1..Len(t) : \E j \in i..Len(t) : Fits(t, SubSeq(t, i, j), num, base, W, p, type)
<1> DEFINE dg == IF "SMALL" \in type THEN Lower ELSE Upper
           n == magnitude(num, type)
           digits == DigitsOf(num, base, type)
           t == number(num, base, size, p, type)
           intro == Intro(num, base, type)
           zeros(s) == Zeros(s, p, type, intro, digits)
           body(s) == Body(s, p, type, intro, digits)
           Z == Repeat("0", zeros(W))
           B == body(W)
           S == Repeat(" ", W - Len(B))
<1>1. n \in 0..(LONG - 1)
  BY ArgumentsAssumption DEF magnitude
<1>2. Denotes(digits, dg, base, n)
  BY <1>1, NumeralDenotes DEF DigitsOf
<1>3. digits \in Text /\ Len(digits) \in Nat \ {0}
  BY <1>2 DEF Denotes
<1>4. IsDigits(digits, base, dg)
  <2>1. ASSUME NEW k \in 1..Len(digits) PROVE \E d \in 1..base : digits[k] = dg[d]
    <3>1. PICK d \in 0..(base - 1) : digits[k] = dg[d + 1]
      BY <1>2 DEF Denotes
    <3>2. d + 1 \in 1..base
      OBVIOUS
    <3> QED
      BY <3>1, <3>2
  <2> QED
    BY <2>1 DEF IsDigits
<1>5. Value(digits, base) = n
  <2>1. PICK f \in [0..Len(digits) -> Nat] : Worth(f, digits, base) /\ f[Len(digits)] = n
    BY <1>2 DEF Denotes
  <2>2. base \in Nat /\ Len(digits) \in Nat
    BY <1>3
  <2> QED
    BY <2>1, <2>2, ValueBy
<1>6. digits[1] = "0" => Len(digits) = 1
  <2>1. dg[1] = "0"
    BY DEF Upper, Lower
  <2> QED
    BY <1>1, <1>2, <2>1 DEF Denotes
<1>7. /\ intro \in Text /\ body(size) \in Text /\ zeros(size) \in Nat
      /\ t = Padded(size, type, body(size))
  BY NumberIs
<1> HIDE DEF dg, n, digits, intro, t
<1>8. zeros(W) = zeros(size)
  <2>1. Len(intro) \in Nat
    BY <1>7, TextConcat
  <2> QED
    BY <1>3, <2>1 DEF Larger, Zeros
<1>9. B = body(size)
  BY <1>8 DEF Body
<1>10. B \in Text /\ Z \in Text
  <2>1. zeros(W) \in Int
    <3>1. zeros(W) \in Nat
      BY <1>7, <1>8
    <3> HIDE DEF zeros
    <3> QED
      BY <3>1
  <2>2. Z \in Text
    BY <2>1, Padding, Zenon
  <2>3. B \in Text
    BY <1>7, <1>9
  <2> QED
    BY <2>2, <2>3
<1>11. S \in Text /\ S = Repeat(" ", size - Len(B))
  <2> DEFINE b == Len(B)
  <2>1. b \in Nat /\ b > 0
    <3>1. intro \o Z \in Text
      BY <1>7, <1>10, TextConcat
    <3>2. Len(B) = Len(intro \o Z) + Len(digits) /\ Len(intro \o Z) \in Nat
      BY <1>3, <3>1, TextConcat DEF Body
    <3> QED
      BY <1>3, <3>2
  <2> HIDE DEF B, b
  <2>3. W - b \in Int /\ size - b \in Int /\ (size # W => W - b <= 0 /\ size - b <= 0)
    BY <2>1
  <2>4. Repeat(" ", W - b) \in Text /\ Repeat(" ", W - b) = Repeat(" ", size - b)
    <3>1. CASE size = W
      BY <2>3, <3>1, Padding, Zenon
    <3>2. CASE size # W
      <4>1. W - b <= 0 /\ size - b <= 0
        BY <2>3, <3>2
      <4> QED
        BY <2>3, <4>1, Padding, Zenon
    <3> QED
      BY <3>1, <3>2
  <2>5. S = Repeat(" ", W - b)
    BY DEF b
  <2> QED
    BY <2>4, <2>5 DEF b
<1>12. t = IF "LEFT" \in type THEN B \o S ELSE S \o B
  <2>1. t = Padded(size, type, B)
    BY <1>7, <1>9
  <2> HIDE DEF B, S
  <2> QED
    BY <1>11, <2>1 DEF Padded
<1>13. B = (intro \o Z) \o digits
  BY DEF Body
<1> DEFINE u == IF "LEFT" \in type THEN intro \o Z ELSE S \o (intro \o Z)
           w == IF "LEFT" \in type THEN S ELSE <<>>
<1> HIDE DEF B, S, Z
<1>14. u \in Text /\ w \in Text /\ t = (u \o digits) \o w
  <2>1. intro \o Z \in Text
    BY <1>7, <1>10, TextConcat
  <2>2. S \o (intro \o Z) \in Text
    BY <1>11, <2>1, TextConcat
  <2>3. S \o ((intro \o Z) \o digits) = (S \o (intro \o Z)) \o digits
    BY <1>3, <1>11, <2>1, TextAssociative
  <2>4. <<>> \in Text
    BY DEF Text
  <2>5. (S \o (intro \o Z)) \o digits \in Text
    BY <1>3, <2>2, TextConcat
  <2>6. ((S \o (intro \o Z)) \o digits) \o <<>> = (S \o (intro \o Z)) \o digits
    BY <2>5, TextConcat
  <2> QED
    BY <1>11, <1>12, <1>13, <2>1, <2>2, <2>3, <2>4, <2>6, Zenon
<1> HIDE DEF u, w
<1> DEFINE i == Len(u) + 1
           j == Len(u) + Len(digits)
<1>15. digits # <<>>
  BY <1>3
<1>16. t \in Text /\ i \in 1..Len(t) /\ j \in i..Len(t) /\ SubSeq(t, i, j) = digits
  BY <1>3, <1>14, <1>15, Middle
<1> HIDE DEF i, j
<1>17. /\ IsDigits(SubSeq(t, i, j), base, dg) /\ Value(SubSeq(t, i, j), base) = n
       /\ SubSeq(t, i, j)[1] = "0" => Len(SubSeq(t, i, j)) = 1
       /\ t = Padded(W, type, Body(W, p, type, intro, SubSeq(t, i, j)))
  BY <1>4, <1>5, <1>6, <1>12, <1>16 DEF B, S, Padded
<1>18. Fits(t, SubSeq(t, i, j), num, base, W, p, type)
  BY <1>17, Zenon DEF Fits, intro, n, dg
<1> QED
  BY <1>16, <1>18, Zenon DEF t

-----------------------------------------------------------------------------
(* What number promises.                                                   *)

\* The flags a directive comes to, its stars taken.
FlagsOf(d, a) == {Flag[d.flags[k]] : k \in 1..Len(d.flags)} \cup (IF StarWidth(d, a) < 0 THEN {"LEFT"} ELSE {})
\* The width vsprintf keeps.
WidthOf(d, a) == IF d.width = -1 THEN -1 ELSE WidthWanted(d, a)

\* The flags kept are those asked for.
LEMMA FlagsMean ==
  ASSUME NEW d \in Directives, NEW a
  PROVE  LET fl == FlagsOf(d, a)
         IN /\ "LEFT" \in fl <=> LeftWanted(d, a)
            /\ "PLUS" \in fl <=> HasFlag(d, "+")
            /\ "SPACE" \in fl <=> HasFlag(d, " ")
            /\ "SPECIAL" \in fl <=> HasFlag(d, "#")
            /\ "ZEROPAD" \in fl <=> HasFlag(d, "0")
            /\ "SIGN" \notin fl /\ "SMALL" \notin fl
<1> DEFINE n == Len(d.flags)
           named == {Flag[d.flags[k]] : k \in 1..n}
<1>1. \A k \in 1..n : d.flags[k] \in {"-", "+", " ", "#", "0"}
  <2>1. DOMAIN Flag = {"-", "+", " ", "#", "0"}
    BY DEF Flag
  <2>2. d.flags \in Seq(DOMAIN Flag)
    BY DEF Directives
  <2> QED
    BY <2>1, <2>2, ElementOfSeq
<1>2. /\ Flag["-"] = "LEFT" /\ Flag["+"] = "PLUS" /\ Flag[" "] = "SPACE"
      /\ Flag["#"] = "SPECIAL" /\ Flag["0"] = "ZEROPAD"
  BY DEF Flag
<1>3. /\ "LEFT" \in named <=> \E k \in 1..n : d.flags[k] = "-"
      /\ "PLUS" \in named <=> \E k \in 1..n : d.flags[k] = "+"
      /\ "SPACE" \in named <=> \E k \in 1..n : d.flags[k] = " "
      /\ "SPECIAL" \in named <=> \E k \in 1..n : d.flags[k] = "#"
      /\ "ZEROPAD" \in named <=> \E k \in 1..n : d.flags[k] = "0"
      /\ "SIGN" \notin named /\ "SMALL" \notin named
  <2>1. ASSUME NEW f \in {"-", "+", " ", "#", "0"}
        PROVE  Flag[f] \in named <=> \E k \in 1..n : d.flags[k] = f
    <3>1. \A k \in 1..n : Flag[d.flags[k]] = Flag[f] => d.flags[k] = f
      BY <1>1, <1>2
    <3> QED
      BY <3>1
  <2>2. \A k \in 1..n : Flag[d.flags[k]] # "SIGN" /\ Flag[d.flags[k]] # "SMALL"
    BY <1>1, <1>2
  <2> QED
    BY <1>2, <2>1, <2>2
<1> HIDE DEF n, named
<1>4. FlagsOf(d, a) = named \cup (IF StarWidth(d, a) < 0 THEN {"LEFT"} ELSE {})
  BY DEF FlagsOf, named, n
<1>5. \A f : HasFlag(d, f) <=> \E k \in 1..n : d.flags[k] = f
  BY DEF HasFlag, n
<1> QED
  BY <1>3, <1>4, <1>5 DEF LeftWanted

\* Only %o is octal.
LEMMA BaseIs == ASSUME NEW d PROVE BaseOf(d) = 8 <=> d.conv = "o"
<1>1. CASE d.conv = "o"
  BY <1>1 DEF BaseOf
<1>2. CASE d.conv # "o"
  <2>1. BaseOf(d) = 16 \/ BaseOf(d) = 10
    BY <1>2 DEF BaseOf
  <2> QED
    BY <1>2, <2>1
<1> QED
  BY <1>1, <1>2

\* What number writes is right, if it is told the directive's value, flags and width.
LEMMA NumberRightBy ==
  ASSUME NEW d \in Directives, NEW a, NEW num \in 0..(LONG - 1), NEW size \in Int, NEW type,
         PrecisionTaken(d, a) \in Int, WidthWanted(d, a) \in Int, ValueOf(d, a) \in Int,
         size = WidthWanted(d, a) \/ (size = -1 /\ WidthWanted(d, a) = 0),
         "SMALL" \in type <=> d.conv = "x",
         "SIGN" \in type <=> d.conv \in {"d", "i"},
         "LEFT" \in type <=> LeftWanted(d, a),
         "PLUS" \in type <=> HasFlag(d, "+"),
         "SPACE" \in type <=> HasFlag(d, " "),
         "SPECIAL" \in type <=> HasFlag(d, "#"),
         "ZEROPAD" \in type <=> (HasFlag(d, "0") \/ (d.conv = "p" /\ d.width = -1)),
         sign(num, type) = <<"-">> <=> ValueOf(d, a) < 0,
         magnitude(num, type) = IF ValueOf(d, a) < 0 THEN -ValueOf(d, a) ELSE ValueOf(d, a)
  PROVE  LET t == number(num, BaseOf(d), size, PrecisionTaken(d, a), type)
         IN t \in Text /\ NumberRight(t, d, a)
<1> DEFINE p == PrecisionTaken(d, a)
           W == WidthWanted(d, a)
           b == BaseOf(d)
           t == number(num, b, size, p, type)
           intro == Intro(num, b, type)
<1>1. b \in {8, 10, 16} /\ p \in Int /\ W \in Int /\ (size = W \/ (size = -1 /\ W = 0))
  BY DEF BaseOf
<1>2. IntroOf(d, a) = intro
  <2>1. sign(num, type) = IF ValueOf(d, a) < 0 THEN <<"-">>
                          ELSE IF d.conv \notin {"d", "i"} THEN <<>>
                          ELSE IF HasFlag(d, "+") THEN <<"+">> ELSE IF HasFlag(d, " ") THEN <<" ">> ELSE <<>>
    BY DEF sign
  <2>2. prefix(b, type) =
          IF ~HasFlag(d, "#") \/ b = 10 THEN <<>>
          ELSE IF d.conv = "o" THEN <<"0">> ELSE <<"0", IF d.conv = "x" THEN "x" ELSE "X">>
    <3>1. b = 8 <=> d.conv = "o"
      BY BaseIs, Zenon
    <3> HIDE DEF b
    <3> QED
      BY <1>1, <3>1 DEF prefix
  <2> QED
    BY <2>1, <2>2 DEF IntroOf, Intro
<1>0. /\ t \in Text
      /\ \E i \in 1..Len(t) : \E j \in i..Len(t) : Fits(t, SubSeq(t, i, j), num, b, W, p, type)
  <2> HIDE DEF p, W, b
  <2> QED
    BY <1>1, NumberFits, Zenon
<1>a. PICK i \in 1..Len(t) : \E j \in i..Len(t) : Fits(t, SubSeq(t, i, j), num, b, W, p, type)
  BY <1>0
<1>b. PICK j \in i..Len(t) : Fits(t, SubSeq(t, i, j), num, b, W, p, type)
  BY <1>a
<1>3. /\ IsDigits(SubSeq(t, i, j), b, IF "SMALL" \in type THEN Lower ELSE Upper)
      /\ Value(SubSeq(t, i, j), b) = magnitude(num, type)
      /\ SubSeq(t, i, j)[1] = "0" => Len(SubSeq(t, i, j)) = 1
      /\ t = Padded(W, type, Body(W, p, type, intro, SubSeq(t, i, j)))
  BY <1>b, Zenon DEF Fits
<1>4. t \in Text
  BY <1>0
<1> HIDE DEF t, intro
<1> DEFINE digits == SubSeq(t, i, j)
           asked == Larger(p - Len(digits), 0)
           zeros == IF ZeroFilled(d, a) THEN Larger(asked, W - Len(intro) - Len(digits)) ELSE asked
           body == intro \o Repeat("0", zeros) \o digits
<1>5. Zeros(W, p, type, intro, digits) = zeros
  BY DEF Zeros, ZeroFilled
<1>6. Body(W, p, type, intro, digits) = body
  BY <1>5 DEF Body
<1>7. t = Padded(W, type, body)
  BY <1>3, <1>6
<1> HIDE DEF body
<1>8. Justified(t, body, d, a)
  BY <1>7 DEF Justified, Padded
<1> HIDE DEF digits
<1>9. /\ IsDigits(digits, BaseOf(d), IF d.conv = "x" THEN Lower ELSE Upper)
      /\ Value(digits, BaseOf(d)) = IF ValueOf(d, a) < 0 THEN -ValueOf(d, a) ELSE ValueOf(d, a)
      /\ digits[1] = "0" => Len(digits) = 1
  BY <1>3 DEF digits
<1>10. NumberRight(t, d, a)
  BY <1>2, <1>8, <1>9, Zenon DEF NumberRight, body, digits
<1> QED
  BY <1>4, <1>10 DEF t

-----------------------------------------------------------------------------
(* The word that number is given.                                          *)

\* Words modulo their number.
LEMMA Modulo ==
  ASSUME NEW n \in Nat \ {0}
  PROVE  /\ \A x \in Int : x % n \in 0..(n - 1)
         /\ \A x \in 0..(n - 1) : x % n = x
         /\ \A x \in (-n)..(-1) : x % n = x + n
OBVIOUS

\* The word that number is given means the value the directive asks for.
Means(num, type, v) ==
  /\ num \in 0..(LONG - 1) /\ v \in Int
  /\ sign(num, type) = <<"-">> <=> v < 0
  /\ magnitude(num, type) = IF v < 0 THEN -v ELSE v

\* An unsigned word means itself.
LEMMA UnsignedMeans ==
  ASSUME NEW num \in 0..(LONG - 1), NEW type, "SIGN" \notin type
  PROVE  Means(num, type, num)
<1>1. sign(num, type) # <<"-">>
  BY DEF sign
<1>2. LONG \in Nat
  BY ArgumentsAssumption
<1> QED
  BY <1>1, <1>2 DEF Means, magnitude

\* A signed word means its value in two's complement.
LEMMA SignedMeans ==
  ASSUME NEW num \in 0..(LONG - 1), NEW type, "SIGN" \in type
  PROVE  Means(num, type, Signed(num, LONG))
<1>1. sign(num, type) = <<"-">> <=> Signed(num, LONG) < 0
  <2>1. CASE Signed(num, LONG) < 0
    BY <2>1 DEF sign
  <2>2. CASE ~(Signed(num, LONG) < 0)
    <3>1. sign(num, type) \in {<<"+">>, <<" ">>, <<>>}
      BY <2>2 DEF sign
    <3>2. <<"+">>[1] # <<"-">>[1] /\ <<" ">>[1] # <<"-">>[1] /\ Len(<<>>) # Len(<<"-">>)
      OBVIOUS
    <3>3. <<"+">> # <<"-">> /\ <<" ">> # <<"-">> /\ <<>> # <<"-">>
      BY <3>2, Zenon
    <3>4. sign(num, type) # <<"-">>
      BY <3>1, <3>3, Zenon
    <3> QED
      BY <2>2, <3>4
  <2> QED
    BY <2>1, <2>2
<1>2. LONG \in Nat \ {0}
  BY ArgumentsAssumption
<1>3. Signed(num, LONG) \in Int /\ (Signed(num, LONG) < 0 <=> 2 * num >= LONG)
  BY <1>2 DEF Signed
<1>4. CASE 2 * num >= LONG
  <2>1. LONG - num \in 0..(LONG - 1) /\ Signed(num, LONG) = num - LONG
    BY <1>2, <1>4 DEF Signed
  <2>2. (LONG - num) % LONG = LONG - num
    BY <1>2, <2>1, Modulo
  <2>3. magnitude(num, type) = (LONG - num) % LONG
    BY <1>1, <1>3, <1>4 DEF magnitude
  <2>4. magnitude(num, type) = -Signed(num, LONG)
    BY <1>2, <2>1, <2>2, <2>3
  <2> QED
    BY <1>1, <1>3, <1>4, <2>4 DEF Means
<1>5. CASE ~(2 * num >= LONG)
  <2>1. magnitude(num, type) = num /\ Signed(num, LONG) = num
    BY <1>1, <1>3, <1>5 DEF magnitude, Signed
  <2> QED
    BY <1>1, <1>3, <1>5, <2>1 DEF Means
<1> QED
  BY <1>4, <1>5

\* What the qualifier makes of a word is its value.
LEMMA FetchedMeans ==
  ASSUME NEW d \in Directives, NEW word \in 0..(LONG - 1), NEW a, a[Len(a)] = word, NEW type,
         d.conv # "p",
         "SIGN" \in type <=> d.conv \in {"d", "i"},
         qualifier = "h" <=> d.qualifier = <<"h">>
  PROVE  Means(Fetched(word, type), type, ValueOf(d, a))
<1> DEFINE signed == d.conv \in {"d", "i"}
           v == ValueOf(d, a)
<1>0. LONG \in Nat \ {0} /\ SHORT \in Nat \ {0} /\ SHORT <= LONG
  BY ArgumentsAssumption
<1>1. CASE qualifier # "h"
  <2>1. word % LONG = word
    BY <1>0, Modulo
  <2>2. Fetched(word, type) = word
    BY <1>1 DEF Fetched
  <2>3. v = IF signed THEN Signed(word, LONG) ELSE word
    BY <1>1, <2>1 DEF ValueOf
  <2>4. CASE signed
    <3>1. v = Signed(word, LONG) /\ "SIGN" \in type
      BY <2>3, <2>4
    <3> QED
      BY <2>2, <3>1, SignedMeans
  <2>5. CASE ~signed
    <3>1. v = word /\ "SIGN" \notin type
      BY <2>3, <2>5
    <3> QED
      BY <2>2, <3>1, UnsignedMeans
  <2> QED
    BY <2>4, <2>5
<1>2. CASE qualifier = "h"
  <2> DEFINE half == word % SHORT
  <2>1. half \in 0..(SHORT - 1)
    <3>1. word \in Int
      OBVIOUS
    <3> QED
      BY <1>0, <3>1, Modulo, Zenon
  <2>2. v = IF signed THEN Signed(half, SHORT) ELSE half
    BY <1>2 DEF ValueOf
  <2>3. Fetched(word, type) = IF "SIGN" \in type THEN Signed(half, SHORT) % LONG ELSE half
    BY <1>2 DEF Fetched
  <2> HIDE DEF half, v
  <2>4. CASE signed
    <3> DEFINE s == Signed(half, SHORT)
               num == s % LONG
    <3>1. v = s /\ "SIGN" \in type /\ Fetched(word, type) = num
      BY <2>2, <2>3, <2>4
    <3>2. s \in Int /\ s < LONG /\ 2 * s >= -LONG /\ (s >= 0 => 2 * s < LONG)
      BY <1>0, <2>1 DEF Signed
    <3> HIDE DEF s
    <3>3. num \in 0..(LONG - 1) /\ num = IF s < 0 THEN s + LONG ELSE s
      <4>1. CASE s < 0
        <5>1. s \in (-LONG)..(-1)
          BY <1>0, <3>2, <4>1
        <5>2. num = s + LONG
          BY <1>0, <5>1, Modulo, Zenon DEF num
        <5> QED
          BY <1>0, <3>2, <4>1, <5>2
      <4>2. CASE s >= 0
        <5>1. s \in 0..(LONG - 1)
          BY <1>0, <3>2, <4>2
        <5>2. num = s
          BY <1>0, <5>1, Modulo, Zenon DEF num
        <5> QED
          BY <1>0, <3>2, <4>2, <5>2
      <4> QED
        BY <3>2, <4>1, <4>2
    <3> HIDE DEF num
    <3>4. Signed(num, LONG) = s
      BY <1>0, <3>2, <3>3 DEF Signed
    <3>5. Means(num, type, Signed(num, LONG))
      BY <3>1, <3>3, SignedMeans
    <3> QED
      BY <3>1, <3>4, <3>5, Zenon DEF v
  <2>5. CASE ~signed
    <3>1. v = half /\ "SIGN" \notin type /\ Fetched(word, type) = half
      BY <2>2, <2>3, <2>5
    <3>2. half \in 0..(LONG - 1)
      BY <1>0, <2>1
    <3> HIDE DEF half
    <3>3. Means(half, type, half)
      BY <3>1, <3>2, UnsignedMeans
    <3> QED
      BY <3>1, <3>3, Zenon DEF v
  <2> QED
    BY <2>4, <2>5
<1> QED
  BY <1>1, <1>2

-----------------------------------------------------------------------------
(* A directive that is read up to its conversion.                          *)

\* The numbers a star stands for.
TakesStars(d, a) ==
  /\ Star(d.width) => a[1] \in Int
  /\ Star(d.precision) => a[IF Star(d.width) THEN 2 ELSE 1] \in Int

\* vsprintf has read a directive up to its conversion.
Ready(d, a) ==
  /\ TakesStars(d, a)
  /\ flags = FlagsOf(d, a) /\ field_width = WidthOf(d, a) /\ precision = PrecisionTaken(d, a)
  /\ qualifier = "h" <=> d.qualifier = <<"h">>

\* What a directive may be.
LEMMA DirectiveIs ==
  ASSUME NEW d \in Directives
  PROVE  /\ d.width \in Int /\ d.precision \in Int /\ d.conv \in Conversions
         /\ d.width >= -2 /\ d.width # 0 /\ d.precision >= -2
         /\ d.width < LONG /\ d.precision < LONG
         /\ d.qualifier \in {<<>>, <<"h">>, <<"l">>, <<"L">>}
BY MostIs, ArgumentsAssumption DEF Directives

\* The width and the precision a directive comes to.
LEMMA NumbersTaken ==
  ASSUME NEW d \in Directives, NEW a, TakesStars(d, a)
  PROVE  /\ PrecisionTaken(d, a) \in Int /\ WidthWanted(d, a) \in Nat /\ WidthOf(d, a) \in Int
         /\ WidthOf(d, a) = -1 <=> d.width = -1
         /\ d.width # -1 => WidthOf(d, a) = WidthWanted(d, a)
         /\ d.width = -1 => WidthWanted(d, a) = IF d.conv = "p" THEN 8 ELSE 0
<1>1. PrecisionTaken(d, a) \in Int
  BY DirectiveIs DEF PrecisionTaken, TakesStars, Larger
<1>2. CASE d.width = -1
  <2>1. WidthWanted(d, a) = IF d.conv = "p" THEN 8 ELSE 0
    BY <1>2 DEF WidthWanted, Star
  <2> QED
    BY <1>1, <1>2, <2>1 DEF WidthOf
<1>3. CASE d.width = -2
  <2>1. WidthWanted(d, a) = Larger(a[1], -a[1])
    BY <1>3 DEF WidthWanted, Star
  <2>2. a[1] \in Int
    BY <1>3 DEF TakesStars, Star
  <2>3. Larger(a[1], -a[1]) \in Nat
    BY <2>2 DEF Larger
  <2> QED
    BY <1>1, <1>3, <2>1, <2>3 DEF WidthOf
<1>4. CASE d.width # -1 /\ d.width # -2
  <2>1. WidthWanted(d, a) = d.width
    BY <1>4 DEF WidthWanted, Star
  <2>2. d.width \in Nat
    BY <1>4, DirectiveIs
  <2> QED
    BY <1>1, <1>4, <2>1, <2>2 DEF WidthOf
<1> QED
  BY <1>2, <1>3, <1>4

\* A conversion's own argument changes nothing of what was read before it.
LEMMA SameStars ==
  ASSUME NEW d, NEW a, NEW b,
         Star(d.width) => a[1] = b[1],
         Star(d.precision) => a[IF Star(d.width) THEN 2 ELSE 1] = b[IF Star(d.width) THEN 2 ELSE 1],
         Ready(d, a)
  PROVE  Ready(d, b)
<1>1. StarWidth(d, a) = StarWidth(d, b)
  BY DEF StarWidth
<1>2. PrecisionTaken(d, a) = PrecisionTaken(d, b)
  BY DEF PrecisionTaken
<1>3. WidthOf(d, a) = WidthOf(d, b)
  <2>1. CASE Star(d.width)
    BY <2>1 DEF WidthOf, WidthWanted
  <2>2. CASE ~Star(d.width)
    BY <2>2 DEF WidthOf, WidthWanted
  <2> QED
    BY <2>1, <2>2
<1>4. FlagsOf(d, a) = FlagsOf(d, b)
  BY <1>1, Zenon DEF FlagsOf
<1>5. TakesStars(d, b)
  BY DEF TakesStars, Ready
<1> QED
  BY <1>2, <1>3, <1>4, <1>5, Zenon DEF Ready

\* convert_pointer writes what %p promises.
LEMMA PointerRight ==
  ASSUME NEW d \in Directives, d.conv = "p", NEW a, a[Len(a)] \in Words, Ready(d, a)
  PROVE  LET t == IF field_width = -1 THEN number(a[Len(a)], 16, 8, precision, flags \cup {"ZEROPAD"})
                  ELSE number(a[Len(a)], 16, field_width, precision, flags)
         IN t \in Text /\ NumberRight(t, d, a)
<1> DEFINE num == a[Len(a)]
           v == ValueOf(d, a)
           size == IF field_width = -1 THEN 8 ELSE field_width
           type == IF field_width = -1 THEN flags \cup {"ZEROPAD"} ELSE flags
<1>1. num \in 0..(LONG - 1)
  BY ArgumentsAssumption
<1>2. v = num
  <2>1. v = num % LONG
    BY DEF ValueOf
  <2>2. LONG \in Nat \ {0}
    BY ArgumentsAssumption
  <2> QED
    BY <1>1, <2>1, <2>2, Modulo, Zenon
<1>3. /\ "LEFT" \in flags <=> LeftWanted(d, a)
      /\ "PLUS" \in flags <=> HasFlag(d, "+")
      /\ "SPACE" \in flags <=> HasFlag(d, " ")
      /\ "SPECIAL" \in flags <=> HasFlag(d, "#")
      /\ "ZEROPAD" \in flags <=> HasFlag(d, "0")
      /\ "SIGN" \notin flags /\ "SMALL" \notin flags
  BY FlagsMean, Zenon DEF Ready
<1>4. /\ PrecisionTaken(d, a) \in Int /\ precision = PrecisionTaken(d, a) /\ WidthWanted(d, a) \in Int
      /\ size = WidthWanted(d, a) /\ size \in Int
      /\ field_width = -1 <=> d.width = -1
  BY NumbersTaken DEF Ready
<1>5. /\ "SMALL" \in type <=> d.conv = "x"
      /\ "SIGN" \in type <=> d.conv \in {"d", "i"}
      /\ "LEFT" \in type <=> LeftWanted(d, a)
      /\ "PLUS" \in type <=> HasFlag(d, "+")
      /\ "SPACE" \in type <=> HasFlag(d, " ")
      /\ "SPECIAL" \in type <=> HasFlag(d, "#")
      /\ "ZEROPAD" \in type <=> (HasFlag(d, "0") \/ (d.conv = "p" /\ d.width = -1))
  <2> HIDE DEF type
  <2>1. \A f \in {"SMALL", "SIGN", "LEFT", "PLUS", "SPACE", "SPECIAL"} : f \in type <=> f \in flags
    BY DEF type
  <2>2. "ZEROPAD" \in type <=> ("ZEROPAD" \in flags \/ field_width = -1)
    BY DEF type
  <2> QED
    BY <1>3, <1>4, <2>1, <2>2
<1>6. BaseOf(d) = 16
  BY DEF BaseOf
<1> HIDE DEF size, type, v
<1>7. Means(num, type, v)
  <2>1. "SIGN" \notin type
    BY <1>5
  <2>2. Means(num, type, num)
    BY <1>1, <2>1, UnsignedMeans
  <2> QED
    BY <1>2, <2>2
<1> HIDE DEF num
<1> DEFINE t == number(num, 16, size, precision, type)
<1>8. t \in Text /\ NumberRight(t, d, a)
  <2>1. /\ v \in Int /\ (sign(num, type) = <<"-">> <=> v < 0)
        /\ magnitude(num, type) = IF v < 0 THEN -v ELSE v
    BY <1>7 DEF Means
  <2> QED
    BY <1>1, <1>4, <1>5, <1>6, <2>1, NumberRightBy, Zenon DEF v
<1>9. t = IF field_width = -1 THEN number(num, 16, 8, precision, flags \cup {"ZEROPAD"})
          ELSE number(num, 16, field_width, precision, flags)
  BY Zenon DEF size, type
<1> QED
  BY <1>8, <1>9, Zenon DEF num

\* The base and the type that convert_number gives to number.
LEMMA NumberedRight ==
  ASSUME NEW d \in Directives, d.conv \in {"o", "x", "X", "d", "i", "u"},
         NEW a, a[Len(a)] \in Words, Ready(d, a),
         NEW base, base = IF d.conv = "o" THEN 8 ELSE IF d.conv \in {"x", "X"} THEN 16 ELSE 10,
         NEW type, type = IF d.conv = "x" THEN flags \cup {"SMALL"}
                          ELSE IF d.conv \in {"d", "i"} THEN flags \cup {"SIGN"} ELSE flags
  PROVE  LET t == number(Fetched(a[Len(a)], type), base, field_width, precision, type)
         IN t \in Text /\ NumberRight(t, d, a)
<1> DEFINE word == a[Len(a)]
           v == ValueOf(d, a)
           num == Fetched(word, type)
<1>1. word \in 0..(LONG - 1)
  BY ArgumentsAssumption
<1>2. /\ "LEFT" \in flags <=> LeftWanted(d, a)
      /\ "PLUS" \in flags <=> HasFlag(d, "+")
      /\ "SPACE" \in flags <=> HasFlag(d, " ")
      /\ "SPECIAL" \in flags <=> HasFlag(d, "#")
      /\ "ZEROPAD" \in flags <=> HasFlag(d, "0")
      /\ "SIGN" \notin flags /\ "SMALL" \notin flags
  BY FlagsMean, Zenon DEF Ready
<1>3. /\ PrecisionTaken(d, a) \in Int /\ precision = PrecisionTaken(d, a) /\ WidthWanted(d, a) \in Int
      /\ field_width = WidthWanted(d, a) \/ (field_width = -1 /\ WidthWanted(d, a) = 0)
      /\ field_width \in Int
  BY NumbersTaken DEF Ready
<1>4. /\ "SMALL" \in type <=> d.conv = "x"
      /\ "SIGN" \in type <=> d.conv \in {"d", "i"}
      /\ "LEFT" \in type <=> LeftWanted(d, a)
      /\ "PLUS" \in type <=> HasFlag(d, "+")
      /\ "SPACE" \in type <=> HasFlag(d, " ")
      /\ "SPECIAL" \in type <=> HasFlag(d, "#")
      /\ "ZEROPAD" \in type <=> (HasFlag(d, "0") \/ (d.conv = "p" /\ d.width = -1))
  <2>1. \A f \in {"LEFT", "PLUS", "SPACE", "SPECIAL", "ZEROPAD"} : f \in type <=> f \in flags
    OBVIOUS
  <2>2. "SMALL" \in type <=> d.conv = "x"
    BY <1>2
  <2>3. "SIGN" \in type <=> d.conv \in {"d", "i"}
    BY <1>2
  <2> QED
    BY <1>2, <2>1, <2>2, <2>3
<1>5. BaseOf(d) = base
  BY DEF BaseOf
<1>6. Means(num, type, v)
  BY <1>1, <1>4, FetchedMeans DEF Ready
<1> HIDE DEF v, num
<1>7. number(num, base, field_width, precision, type) \in Text
      /\ NumberRight(number(num, base, field_width, precision, type), d, a)
  <2>1. /\ num \in 0..(LONG - 1) /\ v \in Int /\ (sign(num, type) = <<"-">> <=> v < 0)
        /\ magnitude(num, type) = IF v < 0 THEN -v ELSE v
    BY <1>6 DEF Means
  <2> QED
    BY <1>3, <1>4, <1>5, <2>1, NumberRightBy, ZenonT(30) DEF v
<1> QED
  BY <1>7 DEF num, word

\* The spaces the other conversions pad with are those asked for.
LEMMA SpacesFit ==
  ASSUME NEW d \in Directives, d.conv # "p", NEW a, Ready(d, a), NEW n \in Nat
  PROVE  Spaces(n) \in Text /\ Spaces(n) = Repeat(" ", WidthWanted(d, a) - n)
<1>1. /\ field_width \in Int /\ WidthWanted(d, a) \in Int
      /\ field_width = WidthWanted(d, a) \/ (field_width = -1 /\ WidthWanted(d, a) = 0)
  BY NumbersTaken DEF Ready
<1> DEFINE W == WidthWanted(d, a)
<1> HIDE DEF W
<1>2. /\ field_width - n \in Int /\ W - n \in Int
      /\ field_width # W => field_width - n <= 0 /\ W - n <= 0
  BY <1>1 DEF W
<1>3. Repeat(" ", field_width - n) \in Text /\ Repeat(" ", field_width - n) = Repeat(" ", W - n)
  <2>1. CASE field_width = W
    BY <1>2, <2>1, Padding, Zenon
  <2>2. CASE field_width # W
    <3>1. field_width - n <= 0 /\ W - n <= 0
      BY <1>2, <2>2
    <3> QED
      BY <1>2, <3>1, Padding, Zenon
  <2> QED
    BY <2>1, <2>2
<1> QED
  BY <1>3 DEF Spaces, W

\* A text with the spaces vsprintf writes is justified as asked.
LEMMA JustifiedBy ==
  ASSUME NEW d \in Directives, d.conv # "p", NEW a, Ready(d, a), NEW body \in Text
  PROVE  LET t == IF left_justified THEN body \o Spaces(Len(body)) ELSE Spaces(Len(body)) \o body
         IN t \in Text /\ Justified(t, body, d, a)
<1>1. Len(body) \in Nat
  BY TextConcat
<1>2. Spaces(Len(body)) \in Text /\ Spaces(Len(body)) = Repeat(" ", WidthWanted(d, a) - Len(body))
  BY <1>1, SpacesFit
<1>3. left_justified <=> LeftWanted(d, a)
  BY FlagsMean, Zenon DEF Ready, left_justified
<1>4. body \o Spaces(Len(body)) \in Text /\ Spaces(Len(body)) \o body \in Text
  BY <1>2, TextConcat
<1> QED
  BY <1>2, <1>3, <1>4, Zenon DEF Justified

\* convert_char writes what %c promises.
LEMMA CharRight ==
  ASSUME NEW d \in Directives, d.conv = "c", NEW a, NEW x \in Chars, a[Len(a)] = x, Ready(d, a)
  PROVE  LET t == IF left_justified THEN <<x>> \o Spaces(1) ELSE Spaces(1) \o <<x>>
         IN t \in Text /\ Justified(t, <<a[Len(a)]>>, d, a)
<1>1. <<x>> \in Text /\ Len(<<x>>) = 1
  <2>1. x \in Letter
    BY ArgumentsAssumption DEF Letter
  <2> QED
    BY <2>1 DEF Text
<1>2. d.conv # "p"
  OBVIOUS
<1> QED
  BY <1>1, <1>2, JustifiedBy

\* A string is a text.
LEMMA StringText == ASSUME NEW s \in Seq(STRING) PROVE s \in Text
<1> DEFINE n == Len(s)
<1>1. n \in Nat /\ DOMAIN s = 1..n
  BY LenProperties
<1>2. \A k \in 1..n : s[k] \in STRING
  BY ElementOfSeq
<1>3. s \in [1..n -> STRING]
  BY <1>1, <1>2, SeqDef
<1>4. s \in [1..n -> Letter]
  BY <1>3 DEF Letter
<1> HIDE DEF n
<1> QED
  BY <1>1, <1>4, FunctionIsSeq DEF Text

\* What fits into the precision.
Cut(s, p) == IF p < 0 \/ p > Len(s) THEN s ELSE SubSeq(s, 1, p)

\* convert_string writes what %s promises.
LEMMA StringRight ==
  ASSUME NEW d \in Directives, d.conv = "s", NEW a, NEW s \in Strings, a[Len(a)] = s, Ready(d, a)
  PROVE  LET part == SubSeq(s, 1, strnlen(s, precision))
             t == IF left_justified THEN part \o Spaces(Len(part)) ELSE Spaces(Len(part)) \o part
         IN t \in Text /\ Justified(t, Cut(s, PrecisionTaken(d, a)), d, a)
<1> DEFINE p == precision
           part == SubSeq(s, 1, strnlen(s, p))
<1>1. s \in Seq(STRING) /\ Len(s) \in Nat
  BY ArgumentsAssumption
<1>2. p \in Int /\ p = PrecisionTaken(d, a)
  BY NumbersTaken DEF Ready
<1>3. SubSeq(s, 1, Len(s)) = s
  BY <1>1
<1>4. part = Cut(s, p)
  <2>1. CASE p >= 0 /\ p < Len(s)
    BY <1>1, <1>2, <2>1 DEF strnlen, Cut
  <2>2. CASE ~(p >= 0 /\ p < Len(s))
    <3>1. part = s
      BY <1>3, <2>2 DEF strnlen
    <3>2. p < 0 \/ p > Len(s) \/ p = Len(s)
      BY <1>1, <1>2, <2>2
    <3>3. Cut(s, p) = s
      BY <1>3, <3>2 DEF Cut
    <3> QED
      BY <3>1, <3>3
  <2> QED
    BY <2>1, <2>2
<1>5. part \in Text
  <2>1. strnlen(s, p) \in 0..Len(s)
    BY <1>1, <1>2 DEF strnlen
  <2>2. part \in Seq(STRING)
    BY <1>1, <2>1
  <2> QED
    BY <2>2, StringText
<1> HIDE DEF part
<1>6. d.conv # "p"
  OBVIOUS
<1> DEFINE t == IF left_justified THEN part \o Spaces(Len(part)) ELSE Spaces(Len(part)) \o part
<1>7. t \in Text /\ Justified(t, part, d, a)
  BY <1>5, <1>6, JustifiedBy, Zenon
<1> HIDE DEF t
<1>8. Justified(t, Cut(s, PrecisionTaken(d, a)), d, a)
  BY <1>2, <1>4, <1>7
<1> QED
  BY <1>7, <1>8 DEF t, part

-----------------------------------------------------------------------------
(* The text of a directive and of a format.                                *)

\* A sequence of some characters is a text.
LEMMA TextOf == ASSUME NEW S \in SUBSET Letter, NEW s \in Seq(S) PROVE s \in Text
<1> DEFINE n == Len(s)
<1>1. n \in Nat /\ DOMAIN s = 1..n
  BY LenProperties
<1>2. \A k \in 1..n : s[k] \in S
  BY ElementOfSeq
<1>3. s \in [1..n -> S]
  BY <1>1, <1>2, SeqDef
<1>4. s \in [1..n -> Letter]
  BY <1>3
<1> HIDE DEF n
<1> QED
  BY <1>1, <1>4, FunctionIsSeq DEF Text

\* Where the parts of a directive's text end.
FlagEnd(d) == 1 + Len(d.flags)
WidthEnd(d) == FlagEnd(d) + Len(Count(d.width))
PrecText(d) == IF d.precision = -1 THEN <<>> ELSE <<".">> \o Count(d.precision)
PrecEnd(d) == WidthEnd(d) + Len(PrecText(d))
QualEnd(d) == PrecEnd(d) + Len(d.qualifier)

\* The text of a width or a precision.
LEMMA CountIs ==
  ASSUME NEW n \in Int, n >= -2, n < LONG
  PROVE  /\ Count(n) \in Text
         /\ n = -1 => Count(n) = <<>>
         /\ n = -2 => Count(n) = <<"*">>
         /\ n >= 0 => Denotes(Count(n), Upper, 10, n)
<1>1. CASE n = -1
  <2>1. Count(n) = <<>>
    BY <1>1 DEF Count
  <2>2. <<>> \in Text
    BY DEF Text
  <2> QED
    BY <1>1, <2>1, <2>2
<1>2. CASE n = -2
  <2>1. Count(n) = <<"*">>
    BY <1>2 DEF Count
  <2>2. <<"*">> \in Text
    <3>1. "*" \in Letter
      BY DEF Letter
    <3> QED
      BY <3>1 DEF Text
  <2> QED
    BY <1>2, <2>1, <2>2
<1>3. CASE n >= 0
  <2>1. Count(n) = numeral(Upper, 10)[n]
    BY <1>3 DEF Count
  <2>2. n \in 0..(LONG - 1)
    BY <1>3, ArgumentsAssumption
  <2>3. Denotes(Count(n), Upper, 10, n)
    BY <2>1, <2>2, NumeralDenotes
  <2> QED
    BY <1>3, <2>3 DEF Denotes
<1> QED
  BY <1>1, <1>2, <1>3

\* t is u and after it, from position m on, v up to position n.
Joins(t, u, v, m, n) ==
  /\ t \in Text /\ Len(t) = n /\ m \in Nat /\ n \in Nat /\ Len(v) \in Nat /\ m <= n /\ n = m + Len(v)
  /\ \A k \in 1..m : t[k] = u[k]
  /\ \A k \in 1..Len(v) : t[m + k] = v[k]

\* A text joined to another.
LEMMA Part ==
  ASSUME NEW u \in Text, NEW v \in Text, NEW m, m = Len(u), NEW n, n = m + Len(v)
  PROVE  Joins(u \o v, u, v, m, n)
<1>1. /\ u \o v \in Text /\ Len(u) \in Nat /\ Len(v) \in Nat /\ Len(u \o v) = Len(u) + Len(v)
      /\ \A k \in 1..Len(u) : (u \o v)[k] = u[k]
      /\ \A k \in 1..Len(v) : (u \o v)[Len(u) + k] = v[k]
  BY TextConcat, Zenon
<1> DEFINE t == u \o v
<1>2. /\ t \in Text /\ m \in Nat /\ Len(v) \in Nat /\ Len(t) = n
      /\ \A k \in 1..m : t[k] = u[k]
      /\ \A k \in 1..Len(v) : t[m + k] = v[k]
  BY <1>1, Zenon
<1> HIDE DEF t
<1>3. n \in Nat /\ m <= n
  BY <1>2
<1>4. Joins(t, u, v, m, n)
  BY <1>2, <1>3, Zenon DEF Joins
<1> QED
  BY <1>4 DEF t

\* Where the parts of a directive are in its text.
LEMMA Rendered ==
  ASSUME NEW d \in Directives
  PROVE  /\ Render(d) \in Text /\ Len(Render(d)) = QualEnd(d) + 1 /\ Len(d.flags) \in Nat
         /\ FlagEnd(d) \in Nat /\ WidthEnd(d) \in Nat /\ PrecEnd(d) \in Nat /\ QualEnd(d) \in Nat
         /\ FlagEnd(d) <= WidthEnd(d) /\ WidthEnd(d) <= PrecEnd(d) /\ PrecEnd(d) <= QualEnd(d)
         /\ Render(d)[1] = "%"
         /\ \A k \in 1..Len(d.flags) : Render(d)[1 + k] = d.flags[k]
         /\ \A k \in 1..Len(Count(d.width)) : Render(d)[FlagEnd(d) + k] = Count(d.width)[k]
         /\ \A k \in 1..Len(PrecText(d)) : Render(d)[WidthEnd(d) + k] = PrecText(d)[k]
         /\ \A k \in 1..Len(d.qualifier) : Render(d)[PrecEnd(d) + k] = d.qualifier[k]
         /\ Render(d)[QualEnd(d) + 1] = d.conv
<1> DEFINE f == d.flags
           w == Count(d.width)
           p == PrecText(d)
           q == d.qualifier
           r == <<d.conv>>
           a == <<"%">>
           t2 == a \o f
           t3 == t2 \o w
           t4 == t3 \o p
           t5 == t4 \o q
           t6 == t5 \o r
<1>1. a \in Text /\ Len(a) = 1 /\ a[1] = "%"
  <2>1. "%" \in Letter
    BY DEF Letter
  <2> QED
    BY <2>1 DEF Text
<1>2. f \in Text
  <2>1. DOMAIN Flag \subseteq Letter
    BY DEF Flag, Letter
  <2>2. f \in Seq(DOMAIN Flag)
    BY DEF Directives
  <2> QED
    BY <2>1, <2>2, TextOf
<1>3. w \in Text
  BY DirectiveIs, CountIs
<1>4. p \in Text
  <2>1. "." \in Letter
    BY DEF Letter
  <2>2. <<>> \in Text /\ <<".">> \in Text
    BY <2>1 DEF Text
  <2>3. Count(d.precision) \in Text
    BY DirectiveIs, CountIs
  <2>4. <<".">> \o Count(d.precision) \in Text
    BY <2>2, <2>3, TextConcat
  <2> QED
    BY <2>2, <2>4 DEF PrecText
<1>5. q \in Text
  <2>1. {"h", "l", "L"} \subseteq Letter
    BY DEF Letter
  <2>2. \A s \in Letter : <<s>> \in Text
    BY DEF Text
  <2>3. <<>> \in Text
    BY DEF Text
  <2>4. q \in {<<>>, <<"h">>, <<"l">>, <<"L">>}
    BY DirectiveIs
  <2> QED
    BY <2>1, <2>2, <2>3, <2>4, Zenon
<1>6. r \in Text /\ Len(r) = 1 /\ r[1] = d.conv
  <2>1. Conversions \subseteq Letter
    BY DEF Conversions, Letter
  <2>2. d.conv \in Letter
    BY <2>1, DirectiveIs
  <2> QED
    BY <2>2 DEF Text
<1>7. Render(d) = t6
  BY Zenon DEF Render, PrecText
<1>0. FlagEnd(d) = 1 + Len(f) /\ WidthEnd(d) = FlagEnd(d) + Len(w)
      /\ PrecEnd(d) = WidthEnd(d) + Len(p) /\ QualEnd(d) = PrecEnd(d) + Len(q)
  BY DEF FlagEnd, WidthEnd, PrecEnd, QualEnd
<1>s. t2 = a \o f /\ t3 = t2 \o w /\ t4 = t3 \o p /\ t5 = t4 \o q /\ t6 = t5 \o r
  OBVIOUS
<1> HIDE DEF a, f, w, p, q, r, t2, t3, t4, t5, t6
<1>8. Joins(t2, a, f, 1, FlagEnd(d))
  <2>1. Joins(a \o f, a, f, 1, FlagEnd(d))
    BY <1>0, <1>1, <1>2, Part, Zenon
  <2> QED
    BY <1>s, <2>1, Zenon
<1>9. Joins(t3, t2, w, FlagEnd(d), WidthEnd(d))
  <2>1. t2 \in Text /\ FlagEnd(d) = Len(t2)
    BY <1>8 DEF Joins
  <2>2. Joins(t2 \o w, t2, w, FlagEnd(d), WidthEnd(d))
    BY <1>0, <1>3, <2>1, Part, Zenon
  <2> QED
    BY <1>s, <2>2, Zenon
<1>10. Joins(t4, t3, p, WidthEnd(d), PrecEnd(d))
  <2>1. t3 \in Text /\ WidthEnd(d) = Len(t3)
    BY <1>9 DEF Joins
  <2>2. Joins(t3 \o p, t3, p, WidthEnd(d), PrecEnd(d))
    BY <1>0, <1>4, <2>1, Part, Zenon
  <2> QED
    BY <1>s, <2>2, Zenon
<1>11. Joins(t5, t4, q, PrecEnd(d), QualEnd(d))
  <2>1. t4 \in Text /\ PrecEnd(d) = Len(t4)
    BY <1>10 DEF Joins
  <2>2. Joins(t4 \o q, t4, q, PrecEnd(d), QualEnd(d))
    BY <1>0, <1>5, <2>1, Part, Zenon
  <2> QED
    BY <1>s, <2>2, Zenon
<1>12. Joins(t6, t5, r, QualEnd(d), QualEnd(d) + 1)
  <2>1. t5 \in Text /\ QualEnd(d) = Len(t5)
    BY <1>11 DEF Joins
  <2>2. QualEnd(d) + 1 = QualEnd(d) + Len(r)
    BY <1>6
  <2>3. Joins(t5 \o r, t5, r, QualEnd(d), QualEnd(d) + 1)
    BY <1>6, <2>1, <2>2, Part, Zenon
  <2> QED
    BY <1>s, <2>3, Zenon
<1>a. /\ FlagEnd(d) \in Nat /\ WidthEnd(d) \in Nat /\ PrecEnd(d) \in Nat /\ QualEnd(d) \in Nat
      /\ 1 <= FlagEnd(d) /\ FlagEnd(d) <= WidthEnd(d) /\ WidthEnd(d) <= PrecEnd(d) /\ PrecEnd(d) <= QualEnd(d)
      /\ Len(f) \in Nat /\ Len(w) \in Nat /\ Len(p) \in Nat /\ Len(q) \in Nat
      /\ t6 \in Text /\ Len(t6) = QualEnd(d) + 1
  BY <1>8, <1>9, <1>10, <1>11, <1>12, Zenon DEF Joins
<1>13. /\ \A k \in 1..QualEnd(d) : t6[k] = t5[k]
       /\ \A k \in 1..PrecEnd(d) : t6[k] = t4[k]
       /\ \A k \in 1..WidthEnd(d) : t6[k] = t3[k]
       /\ \A k \in 1..FlagEnd(d) : t6[k] = t2[k]
  <2>1. 1..FlagEnd(d) \subseteq 1..WidthEnd(d) /\ 1..WidthEnd(d) \subseteq 1..PrecEnd(d)
        /\ 1..PrecEnd(d) \subseteq 1..QualEnd(d)
    BY <1>a
  <2>0. \A k \in 1..QualEnd(d) : t6[k] = t5[k]
    BY <1>12, Zenon DEF Joins
  <2>2. \A k \in 1..PrecEnd(d) : t5[k] = t4[k]
    BY <1>11, Zenon DEF Joins
  <2>3. \A k \in 1..WidthEnd(d) : t4[k] = t3[k]
    BY <1>10, Zenon DEF Joins
  <2>4. \A k \in 1..FlagEnd(d) : t3[k] = t2[k]
    BY <1>9, Zenon DEF Joins
  <2>5. \A k \in 1..PrecEnd(d) : t6[k] = t4[k]
    BY <2>0, <2>1, <2>2
  <2>6. \A k \in 1..WidthEnd(d) : t6[k] = t3[k]
    BY <2>1, <2>3, <2>5
  <2>7. \A k \in 1..FlagEnd(d) : t6[k] = t2[k]
    BY <2>1, <2>4, <2>6
  <2> QED
    BY <2>0, <2>5, <2>6, <2>7
<1>14. t6[1] = "%"
  <2>1. 1 \in 1..FlagEnd(d) /\ 1 \in 1..1
    BY <1>a
  <2>2. \A k \in 1..1 : t2[k] = a[k]
    BY <1>8, Zenon DEF Joins
  <2> QED
    BY <1>1, <1>13, <2>1, <2>2, Zenon
<1>15. ASSUME NEW k \in 1..Len(f) PROVE t6[1 + k] = f[k]
  <2>1. 1 + k \in 1..FlagEnd(d)
    BY <1>0, <1>a
  <2>2. t2[1 + k] = f[k]
    BY <1>8, Zenon DEF Joins
  <2>3. t6[1 + k] = t2[1 + k]
    BY <1>13, <2>1, Zenon
  <2> QED
    BY <2>2, <2>3, Zenon
<1>16. ASSUME NEW k \in 1..Len(w) PROVE t6[FlagEnd(d) + k] = w[k]
  <2>1. FlagEnd(d) + k \in 1..WidthEnd(d)
    BY <1>0, <1>a
  <2>2. t3[FlagEnd(d) + k] = w[k]
    BY <1>9, Zenon DEF Joins
  <2>3. t6[FlagEnd(d) + k] = t3[FlagEnd(d) + k]
    BY <1>13, <2>1, Zenon
  <2> QED
    BY <2>2, <2>3, Zenon
<1>17. ASSUME NEW k \in 1..Len(p) PROVE t6[WidthEnd(d) + k] = p[k]
  <2>1. WidthEnd(d) + k \in 1..PrecEnd(d)
    BY <1>0, <1>a
  <2>2. t4[WidthEnd(d) + k] = p[k]
    BY <1>10, Zenon DEF Joins
  <2>3. t6[WidthEnd(d) + k] = t4[WidthEnd(d) + k]
    BY <1>13, <2>1, Zenon
  <2> QED
    BY <2>2, <2>3, Zenon
<1>18. ASSUME NEW k \in 1..Len(q) PROVE t6[PrecEnd(d) + k] = q[k]
  <2>1. PrecEnd(d) + k \in 1..QualEnd(d)
    BY <1>0, <1>a
  <2>2. t5[PrecEnd(d) + k] = q[k]
    BY <1>11, Zenon DEF Joins
  <2>3. t6[PrecEnd(d) + k] = t5[PrecEnd(d) + k]
    BY <1>13, <2>1, Zenon
  <2> QED
    BY <2>2, <2>3, Zenon
<1>19. t6[QualEnd(d) + 1] = d.conv
  <2>1. 1 \in 1..Len(r)
    BY <1>6
  <2> QED
    BY <1>6, <1>12, <2>1, Zenon DEF Joins
<1> QED
  BY <1>7, <1>a, <1>14, <1>15, <1>16, <1>17, <1>18, <1>19, Zenon DEF f, w, p, q

\* The recursive function of Upto is defined everywhere.
LEMMA UptoDef ==
  ASSUME NEW w \in Seq(Directives)
  PROVE  /\ Upto(w) \in [0..Len(w) -> Text] /\ Upto(w)[0] = <<>>
         /\ \A k \in 1..Len(w) : Upto(w)[k] = Upto(w)[k - 1] \o Render(w[k])
<1> DEFINE n == Len(w)
           Eq(f, k) == f[k] = f[k - 1] \o Render(w[k])
           Good == {m \in Nat : m <= n => \E f \in [0..n -> Text] : f[0] = <<>> /\ \A k \in 1..m : Eq(f, k)}
<1>1. n \in Nat /\ \A k \in 1..n : w[k] \in Directives
  BY ElementOfSeq
<1>2. \A k \in 1..n : Render(w[k]) \in Text
  BY <1>1, Rendered
<1>3. <<>> \in Text
  BY DEF Text
<1> HIDE DEF n
<1>4. ASSUME NEW m \in 1..n, NEW f \in [0..n -> Text], f[0] = <<>>, \A k \in 1..(m - 1) : Eq(f, k)
      PROVE  \E g \in [0..n -> Text] : g[0] = <<>> /\ \A k \in 1..m : Eq(g, k)
  <2> DEFINE e == f[m - 1] \o Render(w[m])
             g == [f EXCEPT ![m] = e]
  <2>0. m - 1 \in 0..n /\ m \in 0..n /\ m # 0
    BY <1>1
  <2>1. e \in Text
    <3>1. f[m - 1] \in Text /\ Render(w[m]) \in Text
      BY <1>2, <2>0
    <3> QED
      BY <3>1, TextConcat, Zenon
  <2> HIDE DEF e
  <2>2. g \in [0..n -> Text] /\ g[m] = e /\ \A k \in 0..(m - 1) : g[k] = f[k]
    BY <1>1, <1>4, <2>0, <2>1
  <2> HIDE DEF g
  <2>3. ASSUME NEW k \in 1..m PROVE Eq(g, k)
    <3>1. k - 1 \in 0..(m - 1) /\ (k # m => k \in 0..(m - 1) /\ k \in 1..(m - 1))
      BY <1>1
    <3>2. CASE k = m
      <4>1. g[m - 1] = f[m - 1]
        BY <2>2, <3>1, <3>2
      <4> QED
        BY <2>2, <3>2, <4>1 DEF e
    <3>3. CASE k # m
      BY <1>4, <2>2, <3>1, <3>3, Zenon
    <3> QED
      BY <3>2, <3>3
  <2>4. g[0] = <<>>
    <3>1. 0 \in 0..(m - 1)
      BY <2>0
    <3> QED
      BY <1>4, <2>2, <3>1, Zenon
  <2> QED
    BY <2>2, <2>3, <2>4
<1>5. ASSUME NEW m \in Nat PROVE m \in Good
  <2> SUFFICES ASSUME Nat \ Good # {} PROVE FALSE
    OBVIOUS
  <2>1. PICK l \in Nat \ Good : \A j \in Nat \ Good : l <= j
    BY Least
  <2>2. l <= n
    BY <2>1
  <2>3. CASE l = 0
    <3> DEFINE f == [k \in 0..n |-> <<>>]
    <3>1. f \in [0..n -> Text] /\ f[0] = <<>> /\ 1..l = {}
      BY <1>1, <1>3, <2>3
    <3> HIDE DEF f
    <3>2. \E g \in [0..n -> Text] : g[0] = <<>> /\ \A k \in 1..l : Eq(g, k)
      BY <3>1
    <3> QED
      BY <2>1, <3>2
  <2>4. CASE l # 0
    <3>1. l \in 1..n /\ l - 1 \in Nat /\ l - 1 <= n /\ ~(l <= l - 1)
      BY <1>1, <2>2, <2>4
    <3>2. l - 1 \in Good
      BY <2>1, <3>1
    <3>3. PICK f \in [0..n -> Text] : f[0] = <<>> /\ \A k \in 1..(l - 1) : Eq(f, k)
      BY <3>1, <3>2
    <3>4. \E g \in [0..n -> Text] : g[0] = <<>> /\ \A k \in 1..l : Eq(g, k)
      BY <1>4, <3>1, <3>3
    <3> QED
      BY <2>1, <3>4
  <2> QED
    BY <2>3, <2>4
<1>6. PICK f \in [0..n -> Text] : f[0] = <<>> /\ \A k \in 1..n : Eq(f, k)
  <2>1. n \in Good
    <3> HIDE DEF Good
    <3> QED
      BY <1>1, <1>5
  <2>2. n <= n
    BY <1>1
  <2> QED
    BY <2>1, <2>2
<1> DEFINE Step(g) == [k \in 0..n |-> IF k = 0 THEN <<>> ELSE g[k - 1] \o Render(w[k])]
           P == CHOOSE g : g = Step(g)
<1>0. \A k \in 0..n : k = 0 \/ k \in 1..n
  BY <1>1
<1>7. f = Step(f)
  <2>1. ASSUME NEW k \in 0..n PROVE f[k] = IF k = 0 THEN <<>> ELSE f[k - 1] \o Render(w[k])
    <3>1. CASE k = 0
      BY <1>6, <3>1
    <3>2. CASE k # 0
      BY <1>0, <1>6, <3>2, Zenon
    <3> QED
      BY <3>1, <3>2
  <2> QED
    BY <2>1
<1>8. P = [k \in 0..n |-> IF k = 0 THEN <<>> ELSE P[k - 1] \o Render(w[k])]
  BY <1>7
<1>9. Upto(w) = P
  BY DEF Upto, n
<1> HIDE DEF P
<1>10. \A k \in 1..n : k \in 0..n /\ k # 0 /\ k - 1 \in 0..n
  BY <1>1
<1>11. P[0] = <<>> /\ \A k \in 1..n : P[k] = P[k - 1] \o Render(w[k])
  <2>1. 0 \in 0..n
    BY <1>1
  <2>2. P[0] = <<>>
    BY <1>8, <2>1, Zenon
  <2>3. ASSUME NEW k \in 1..n PROVE P[k] = P[k - 1] \o Render(w[k])
    BY <1>8, <1>10, Zenon
  <2> QED
    BY <2>2, <2>3
<1>12. ASSUME NEW k \in 0..n PROVE P[k] \in Text
  <2> DEFINE Bad == {j \in 0..n : P[j] \notin Text}
  <2> SUFFICES ASSUME Bad # {} PROVE FALSE
    BY Zenon
  <2>1. Bad \in SUBSET Nat
    BY <1>1
  <2>2. PICK m \in Bad : \A j \in Bad : m <= j
    BY <2>1, Least
  <2>3. m \in 1..n
    BY <1>0, <1>3, <1>11, <2>2
  <2>4. m - 1 \in 0..n /\ ~(m <= m - 1)
    BY <1>1, <2>3
  <2>5. P[m - 1] \in Text
    BY <2>2, <2>4
  <2>6. P[m - 1] \o Render(w[m]) \in Text
    BY <1>2, <2>3, <2>5, TextConcat, Zenon
  <2> QED
    BY <1>11, <2>2, <2>3, <2>6
<1>13. P \in [0..n -> Text]
  BY <1>8, <1>12
<1> QED
  BY <1>9, <1>11, <1>13 DEF n

\* Where a directive begins in a format, and its text there.
Begin(w, k) == Len(Upto(w)[k - 1])

\* Where the directives of a format begin.
LEMMA BeginIs ==
  ASSUME NEW w \in Seq(Directives)
  PROVE  /\ Len(w) \in Nat /\ Begin(w, 1) = 0 /\ Format(w) \in Text
         /\ Begin(w, Len(w) + 1) = Len(Format(w))
         /\ \A k \in 1..(Len(w) + 1) : Begin(w, k) \in Nat
         /\ \A k \in 1..Len(w) : /\ w[k] \in Directives
                                 /\ Begin(w, k + 1) = Begin(w, k) + QualEnd(w[k]) + 1
                                 /\ Joins(Upto(w)[k], Upto(w)[k - 1], Render(w[k]), Begin(w, k), Begin(w, k + 1))
<1>1. /\ Upto(w) \in [0..Len(w) -> Text] /\ Upto(w)[0] = <<>>
      /\ \A k \in 1..Len(w) : Upto(w)[k] = Upto(w)[k - 1] \o Render(w[k])
  BY UptoDef
<1>2. Len(w) \in Nat /\ \A k \in 1..Len(w) : w[k] \in Directives
  BY ElementOfSeq
<1>3. Begin(w, 1) = 0
  <2>1. Len(<<>>) = 0
    OBVIOUS
  <2>2. 1 - 1 = 0
    OBVIOUS
  <2> QED
    BY <1>1, <2>1, <2>2, Zenon DEF Begin
<1>4. Format(w) \in Text /\ Begin(w, Len(w) + 1) = Len(Format(w))
  <2>1. Len(w) \in 0..Len(w) /\ Len(w) + 1 - 1 = Len(w)
    BY <1>2
  <2> QED
    BY <1>1, <2>1 DEF Begin, Format
<1>5. ASSUME NEW k \in 1..(Len(w) + 1) PROVE Begin(w, k) \in Nat
  <2>1. k - 1 \in 0..Len(w)
    BY <1>2
  <2>2. Upto(w)[k - 1] \in Text
    BY <1>1, <2>1
  <2> QED
    BY <2>2, TextConcat DEF Begin
<1>6. ASSUME NEW k \in 1..Len(w)
      PROVE  /\ Begin(w, k + 1) = Begin(w, k) + QualEnd(w[k]) + 1
             /\ Joins(Upto(w)[k], Upto(w)[k - 1], Render(w[k]), Begin(w, k), Begin(w, k + 1))
  <2> DEFINE u == Upto(w)[k - 1]
             v == Render(w[k])
  <2>1. k - 1 \in 0..Len(w) /\ k + 1 - 1 = k /\ k \in 0..Len(w)
    BY <1>2
  <2>2. u \in Text /\ Upto(w)[k] = u \o v /\ Begin(w, k) = Len(u) /\ Begin(w, k + 1) = Len(Upto(w)[k])
    BY <1>1, <2>1 DEF Begin
  <2>3. v \in Text /\ Len(v) = QualEnd(w[k]) + 1 /\ QualEnd(w[k]) \in Nat
    BY <1>2, Rendered
  <2> HIDE DEF u, v
  <2>4. Len(u \o v) = Len(u) + Len(v) /\ Len(u) \in Nat
    BY <2>2, <2>3, TextConcat, Zenon
  <2>5. Joins(u \o v, u, v, Begin(w, k), Begin(w, k + 1))
    BY <2>2, <2>3, <2>4, Part, Zenon
  <2>6. Begin(w, k + 1) = Begin(w, k) + QualEnd(w[k]) + 1
    <3>1. Begin(w, k + 1) = Len(u) + Len(v)
      BY <2>2, <2>4, Zenon
    <3> QED
      BY <2>2, <2>3, <2>4, <3>1
  <2>7. Joins(Upto(w)[k], u, v, Begin(w, k), Begin(w, k + 1))
    BY <2>2, <2>5, Zenon
  <2> QED
    BY <2>6, <2>7 DEF u, v
<1> QED
  BY <1>2, <1>3, <1>4, <1>5, <1>6

\* The characters of a directive in its format.
LEMMA FormatAt ==
  ASSUME NEW w \in Seq(Directives), NEW k \in 1..Len(w)
  PROVE  /\ Begin(w, k + 1) <= Len(Format(w)) /\ Len(Format(w)) \in Nat
         /\ \A j \in 1..(QualEnd(w[k]) + 1) : Format(w)[Begin(w, k) + j] = Render(w[k])[j]
<1> DEFINE n == Len(w)
           u == Upto(w)
           B(m) == Begin(w, m)
           Ok(m) == B(k + 1) <= B(m + 1) /\ \A i \in 1..B(k + 1) : u[m][i] = u[k][i]
           Bad == {m \in k..n : ~Ok(m)}
<1>1. /\ n \in Nat /\ u[n] = Format(w) /\ B(n + 1) = Len(Format(w))
      /\ \A m \in 1..(n + 1) : B(m) \in Nat
      /\ \A m \in 1..n : /\ B(m + 1) = B(m) + QualEnd(w[m]) + 1 /\ QualEnd(w[m]) \in Nat
                         /\ Joins(u[m], u[m - 1], Render(w[m]), B(m), B(m + 1))
  BY BeginIs, Rendered DEF Format
<1> HIDE DEF n, u, B
<1>2. \A m \in k..n : Ok(m)
  <2> SUFFICES ASSUME Bad # {} PROVE FALSE
    BY Zenon
  <2>1. Bad \in SUBSET Nat
    BY <1>1
  <2>2. PICK m \in Bad : \A j \in Bad : m <= j
    BY <2>1, Least
  <2>3. m # k
    <3>1. k \in 1..(n + 1) /\ k + 1 \in 1..(n + 1)
      BY <1>1 DEF n
    <3>2. B(k + 1) <= B(k + 1)
      BY <1>1, <3>1
    <3> QED
      BY <2>2, <3>2
  <2>4. m \in 1..n /\ m - 1 \in k..n /\ ~(m <= m - 1) /\ m \in 1..(n + 1) /\ m + 1 \in 1..(n + 1) /\ (m - 1) + 1 = m
        /\ k + 1 \in 1..(n + 1)
    BY <1>1, <2>2, <2>3
  <2>5. Ok(m - 1)
    BY <2>2, <2>4
  <2>6. B(m + 1) = B(m) + QualEnd(w[m]) + 1 /\ QualEnd(w[m]) \in Nat /\ B(k + 1) \in Nat /\ B(m) \in Nat /\ B(m + 1) \in Nat
    BY <1>1, <2>4
  <2>7. B(k + 1) <= B(m) /\ B(k + 1) <= B(m + 1)
    BY <2>4, <2>5, <2>6
  <2>8. \A i \in 1..B(m) : u[m][i] = u[m - 1][i]
    <3>1. Joins(u[m], u[m - 1], Render(w[m]), B(m), B(m + 1))
      BY <1>1, <2>4
    <3> QED
      BY <3>1, Zenon DEF Joins
  <2>9. \A i \in 1..B(k + 1) : i \in 1..B(m)
    BY <2>6, <2>7
  <2>10. \A i \in 1..B(k + 1) : u[m][i] = u[k][i]
    BY <2>5, <2>8, <2>9, Zenon
  <2> QED
    BY <2>2, <2>7, <2>10
<1>3. Ok(n)
  <2>1. n \in k..n
    BY <1>1 DEF n
  <2> QED
    BY <1>2, <2>1
<1>4. k \in 1..n /\ k \in 1..(n + 1) /\ k + 1 \in 1..(n + 1)
  BY <1>1 DEF n
<1>5. /\ B(k + 1) = B(k) + QualEnd(w[k]) + 1 /\ QualEnd(w[k]) \in Nat /\ B(k) \in Nat /\ B(k + 1) \in Nat
      /\ Joins(u[k], u[k - 1], Render(w[k]), B(k), B(k + 1))
  BY <1>1, <1>4
<1>6. ASSUME NEW j \in 1..(QualEnd(w[k]) + 1) PROVE Format(w)[B(k) + j] = Render(w[k])[j]
  <2>1. B(k) + j \in 1..B(k + 1)
    BY <1>5
  <2>2. Format(w)[B(k) + j] = u[k][B(k) + j]
    BY <1>1, <1>3, <2>1
  <2>3. j \in 1..Len(Render(w[k]))
    <3>1. w[k] \in Directives
      BY ElementOfSeq DEF n
    <3>2. Len(Render(w[k])) = QualEnd(w[k]) + 1
      BY <3>1, Rendered
    <3> QED
      BY <3>2
  <2>4. u[k][B(k) + j] = Render(w[k])[j]
    BY <1>5, <2>3, Zenon DEF Joins
  <2> QED
    BY <2>2, <2>4
<1>7. Len(Format(w)) \in Nat
  BY BeginIs, TextConcat
<1> QED
  BY <1>1, <1>3, <1>6, <1>7 DEF B

-----------------------------------------------------------------------------
(* Reading the digits of a width or a precision.                           *)

\* v is what the first j digits of t come to, and -1 before the first.
Accumulates(v, t, j) == \E f \in [0..Len(t) -> Nat] : Worth(f, t, 10) /\ v = IF j = 0 THEN -1 ELSE f[j]

\* Before its first digit, nothing of a number is read.
LEMMA ReadStart ==
  ASSUME NEW t, NEW n, Denotes(t, Upper, 10, n)
  PROVE  Accumulates(-1, t, 0)
BY DEF Denotes, Accumulates

\* A digit more is read.
LEMMA ReadStep ==
  ASSUME NEW t, NEW n, Denotes(t, Upper, 10, n), NEW j \in 0..(Len(t) - 1), NEW v, Accumulates(v, t, j)
  PROVE  /\ isdigit(t[j + 1]) /\ t[j + 1] \notin {"*", "."}
         /\ Accumulates(10 * Larger(v, 0) + ToDigit(t[j + 1]), t, j + 1)
<1> DEFINE s == t[j + 1]
<1>1. PICK f \in [0..Len(t) -> Nat] : Worth(f, t, 10) /\ v = IF j = 0 THEN -1 ELSE f[j]
  BY DEF Accumulates
<1>2. Len(t) \in Nat /\ j \in Nat /\ j \in 0..Len(t) /\ j + 1 \in 1..Len(t) /\ (j + 1) - 1 = j /\ j + 1 # 0
  BY DEF Denotes
<1>3. PICK e \in 0..9 : s = Upper[e + 1]
  <2>1. \E e \in 0..(10 - 1) : s = Upper[e + 1]
    BY <1>2, Zenon DEF Denotes
  <2> QED
    BY <2>1
<1>4. isdigit(s) /\ ToDigit(s) = e /\ Digit(s) = e
  <2>1. e \in 0..15
    OBVIOUS
  <2> QED
    BY <1>3, <2>1, DecimalDigit, DigitIs
<1>5. s \notin {"*", "."}
  BY <1>3 DEF Upper
<1>6. f[j + 1] = 10 * f[j] + e /\ f[j] \in Nat /\ f[0] = 0
  BY <1>1, <1>2, <1>4 DEF Worth
<1>7. Larger(v, 0) = f[j]
  <2>1. CASE j = 0
    BY <1>1, <1>6, <2>1 DEF Larger
  <2>2. CASE j # 0
    <3>1. v = f[j]
      BY <1>1, <2>2
    <3> QED
      BY <1>6, <3>1 DEF Larger
  <2> QED
    BY <2>1, <2>2
<1> HIDE DEF s
<1>8. 10 * Larger(v, 0) + ToDigit(s) = f[j + 1]
  BY <1>4, <1>6, <1>7
<1>9. Accumulates(10 * Larger(v, 0) + ToDigit(s), t, j + 1)
  BY <1>1, <1>2, <1>8 DEF Accumulates
<1> QED
  BY <1>4, <1>5, <1>9 DEF s

\* The digits read are the number.
LEMMA ReadEnd ==
  ASSUME NEW t, NEW n, Denotes(t, Upper, 10, n), NEW v, Accumulates(v, t, Len(t))
  PROVE  v = n
<1>1. Len(t) \in Nat /\ Len(t) # 0
  BY DEF Denotes
<1>2. PICK f \in [0..Len(t) -> Nat] : Worth(f, t, 10) /\ v = f[Len(t)]
  BY <1>1 DEF Accumulates
<1>3. PICK g \in [0..Len(t) -> Nat] : Worth(g, t, 10) /\ n = g[Len(t)]
  BY DEF Denotes
<1>4. Value(t, 10) = f[Len(t)] /\ Value(t, 10) = g[Len(t)]
  BY <1>1, <1>2, <1>3, ValueBy
<1> QED
  BY <1>2, <1>3, <1>4

-----------------------------------------------------------------------------
(* What character comes after each part of a directive.                    *)

Follower == {"h", "l", "L"} \cup Conversions

\* Such a character ends what is before it.
LEMMA FollowerIs ==
  ASSUME NEW s \in Follower \cup {"."}
  PROVE  /\ ~isdigit(s) /\ s # "*" /\ s \notin DOMAIN Flag /\ s # NUL
         /\ s \in Follower => s # "."
         /\ s \in Conversions => s \notin {"h", "l", "L"}
<1>1. \A d \in 1..10 : Upper[d] \in {"0", "1", "2", "3", "4", "5", "6", "7", "8", "9"}
  BY DEF Upper
<1>2. s \notin {"0", "1", "2", "3", "4", "5", "6", "7", "8", "9"}
  BY DEF Follower, Conversions
<1>3. ~isdigit(s)
  BY <1>1, <1>2 DEF isdigit
<1>4. DOMAIN Flag = {"-", "+", " ", "#", "0"}
  BY DEF Flag
<1> QED
  BY <1>3, <1>4 DEF Follower, Conversions, NUL

\* The character after each part of a directive.
LEMMA NextChars ==
  ASSUME NEW d \in Directives
  PROVE  LET R == Render(d)
         IN /\ d.qualifier = <<>> => QualEnd(d) = PrecEnd(d)
            /\ d.qualifier # <<>> => /\ QualEnd(d) = PrecEnd(d) + 1 /\ d.qualifier = <<R[PrecEnd(d) + 1]>>
                                     /\ R[PrecEnd(d) + 1] \in {"h", "l", "L"}
            /\ R[QualEnd(d) + 1] \in Conversions
            /\ R[PrecEnd(d) + 1] \in Follower
            /\ d.precision = -1 => PrecEnd(d) = WidthEnd(d)
            /\ d.precision # -1 => /\ R[WidthEnd(d) + 1] = "."
                                   /\ PrecEnd(d) = WidthEnd(d) + 1 + Len(Count(d.precision))
                                   /\ \A j \in 1..Len(Count(d.precision)) :
                                        R[WidthEnd(d) + 1 + j] = Count(d.precision)[j]
            /\ R[WidthEnd(d) + 1] \in Follower \cup {"."}
            /\ d.width = -1 => WidthEnd(d) = FlagEnd(d)
            /\ R[FlagEnd(d) + 1] \notin DOMAIN Flag
<1> DEFINE R == Render(d)
<1>1. /\ FlagEnd(d) \in Nat /\ WidthEnd(d) \in Nat /\ PrecEnd(d) \in Nat /\ QualEnd(d) \in Nat
      /\ \A k \in 1..Len(Count(d.width)) : R[FlagEnd(d) + k] = Count(d.width)[k]
      /\ \A k \in 1..Len(PrecText(d)) : R[WidthEnd(d) + k] = PrecText(d)[k]
      /\ \A k \in 1..Len(d.qualifier) : R[PrecEnd(d) + k] = d.qualifier[k]
      /\ R[QualEnd(d) + 1] = d.conv
  BY Rendered, Zenon
<1> HIDE DEF R
<1>2. d.conv \in Conversions /\ d.qualifier \in {<<>>, <<"h">>, <<"l">>, <<"L">>}
  BY DirectiveIs
<1>3. R[QualEnd(d) + 1] \in Conversions
  BY <1>1, <1>2
<1>4. d.qualifier = <<>> => QualEnd(d) = PrecEnd(d)
  BY <1>1 DEF QualEnd
<1>5. ASSUME d.qualifier # <<>>
      PROVE  /\ QualEnd(d) = PrecEnd(d) + 1 /\ d.qualifier = <<R[PrecEnd(d) + 1]>>
             /\ R[PrecEnd(d) + 1] \in {"h", "l", "L"}
  <2>1. PICK s \in {"h", "l", "L"} : d.qualifier = <<s>>
    BY <1>2, <1>5
  <2>2. Len(d.qualifier) = 1 /\ d.qualifier[1] = s
    BY <2>1
  <2>3. R[PrecEnd(d) + 1] = s
    BY <1>1, <2>2
  <2> QED
    BY <2>1, <2>2, <2>3 DEF QualEnd
<1>6. R[PrecEnd(d) + 1] \in Follower
  BY <1>3, <1>4, <1>5 DEF Follower
<1>7. d.precision = -1 => PrecEnd(d) = WidthEnd(d)
  BY <1>1 DEF PrecEnd, PrecText
<1>8. ASSUME d.precision # -1
      PROVE  /\ R[WidthEnd(d) + 1] = "."
             /\ PrecEnd(d) = WidthEnd(d) + 1 + Len(Count(d.precision))
             /\ \A j \in 1..Len(Count(d.precision)) : R[WidthEnd(d) + 1 + j] = Count(d.precision)[j]
  <2> DEFINE p == Count(d.precision)
             e == <<".">>
  <2>1. p \in Text
    BY DirectiveIs, CountIs
  <2>2. e \in Text /\ Len(e) = 1 /\ e[1] = "."
    <3>1. "." \in Letter
      BY DEF Letter
    <3> QED
      BY <3>1 DEF Text
  <2>3. PrecText(d) = e \o p
    BY <1>8 DEF PrecText
  <2> HIDE DEF e, p
  <2>4. Joins(e \o p, e, p, 1, 1 + Len(p))
    BY <2>1, <2>2, Part, Zenon
  <2>5. Joins(PrecText(d), e, p, 1, 1 + Len(p))
    BY <2>3, <2>4, Zenon
  <2>6. /\ Len(PrecText(d)) = 1 + Len(p) /\ Len(p) \in Nat
        /\ \A k \in 1..1 : PrecText(d)[k] = e[k]
        /\ \A k \in 1..Len(p) : PrecText(d)[1 + k] = p[k]
    BY <2>5, Zenon DEF Joins
  <2>7. R[WidthEnd(d) + 1] = "."
    <3>1. 1 \in 1..Len(PrecText(d)) /\ 1 \in 1..1
      BY <2>6
    <3> QED
      BY <1>1, <2>2, <2>6, <3>1, Zenon
  <2>8. ASSUME NEW j \in 1..Len(p) PROVE R[WidthEnd(d) + 1 + j] = p[j]
    <3>1. 1 + j \in 1..Len(PrecText(d)) /\ WidthEnd(d) + (1 + j) = WidthEnd(d) + 1 + j
      BY <1>1, <2>6
    <3>2. R[WidthEnd(d) + (1 + j)] = p[j]
      BY <1>1, <2>6, <3>1, Zenon
    <3> QED
      BY <3>1, <3>2, Zenon
  <2>9. PrecEnd(d) = WidthEnd(d) + 1 + Len(p)
    BY <1>1, <2>6 DEF PrecEnd
  <2> QED
    BY <2>7, <2>8, <2>9 DEF p
<1>9. R[WidthEnd(d) + 1] \in Follower \cup {"."}
  BY <1>6, <1>7, <1>8
<1>10. d.width = -1 => WidthEnd(d) = FlagEnd(d)
  <2>1. d.width = -1 => Count(d.width) = <<>>
    BY DirectiveIs, CountIs
  <2> QED
    BY <1>1, <2>1 DEF WidthEnd
<1>11. R[FlagEnd(d) + 1] \notin DOMAIN Flag
  <2>0. DOMAIN Flag = {"-", "+", " ", "#", "0"}
    BY DEF Flag
  <2>1. CASE d.width = -1
    BY <1>9, <1>10, <2>1, FollowerIs
  <2>2. CASE d.width = -2
    <3>1. Count(d.width) = <<"*">>
      BY <2>2, DirectiveIs, CountIs
    <3>2. R[FlagEnd(d) + 1] = "*"
      BY <1>1, <3>1
    <3> QED
      BY <2>0, <3>2
  <2>3. CASE d.width # -1 /\ d.width # -2
    <3> DEFINE t == Count(d.width)
    <3>1. d.width > 0 /\ Denotes(t, Upper, 10, d.width)
      BY <2>3, DirectiveIs, CountIs
    <3> HIDE DEF t
    <3>2. 1 \in 1..Len(t) /\ t[1] # Upper[1]
      BY <3>1 DEF Denotes
    <3>3. PICK e \in 0..(10 - 1) : t[1] = Upper[e + 1]
      BY <3>1, <3>2, Zenon DEF Denotes
    <3>4. t[1] \notin {"-", "+", " ", "#", "0"}
      <4>1. e # 0
        <5>1. 0 + 1 = 1
          OBVIOUS
        <5> QED
          BY <3>2, <3>3, <5>1, Zenon
      <4>2. e \in 1..9
        BY <4>1
      <4>3. Upper[e + 1] \in {"1", "2", "3", "4", "5", "6", "7", "8", "9"}
        BY <4>2 DEF Upper
      <4> QED
        BY <3>3, <4>3
    <3>5. R[FlagEnd(d) + 1] = t[1]
      BY <1>1, <3>2 DEF t
    <3> QED
      BY <2>0, <3>4, <3>5
  <2> QED
    BY <2>1, <2>2, <2>3
<1> QED
  BY <1>3, <1>4, <1>5, <1>6, <1>7, <1>8, <1>9, <1>10, <1>11, Zenon DEF R

-----------------------------------------------------------------------------
(* The inductive invariant of FormatsRight.                                *)

\* What a caller passes, or is told.
Arg == Int \cup Letter \cup Text
ArgsOf(d) == (IF Star(d.width) THEN 1 ELSE 0) + (IF Star(d.precision) THEN 1 ELSE 0)

\* The text a directive wrote.
Slice(i) == SubSeq(str, marks[i] + 1, IF i < Len(marks) THEN marks[i + 1] ELSE Len(str))
Promised(d, t, a, m) == /\ Len(a) = ArgsOf(d) + (IF d.conv = "%" THEN 0 ELSE 1)
                        /\ d.conv = "n" => a[ArgsOf(d) + 1] = m
                        /\ Right(t, d, a)

\* The directive being read, what it took and how far fmt is in it.
Now == want[Len(args)]
Took == args[Len(args)]
Seen(j) == at = Begin(want, Len(args)) + j
Named(d, j) == {Flag[d.flags[i]] : i \in 1..j}

Shape ==
  /\ want \in Seq(Directives) /\ fmt = Format(want)
  /\ str \in Text /\ args \in Seq(Seq(Arg)) /\ marks \in Seq(Nat)
  /\ Len(args) = Len(marks) /\ Len(args) <= Len(want)
Ordered == \A i \in 1..Len(marks) : /\ marks[i] <= Len(str)
                                    /\ i < Len(marks) => marks[i] <= marks[i + 1]
Kept == \A i \in 1..Len(marks) :
          i < Len(marks) \/ pc \in {"char", "done"} => Promised(want[i], Slice(i), args[i], marks[i])
InDirective == pc \notin {"char", "done"} => Len(args) > 0 /\ marks[Len(args)] = Len(str)

AtChar == pc = "char" => at = Begin(want, Len(args) + 1) + 1
AtDone == pc = "done" => Len(args) = Len(want)
AtFlags == pc = "flags" =>
  /\ Took = <<>> /\ field_width = -1 /\ precision = -1 /\ qualifier = ""
  /\ \E j \in 0..Len(Now.flags) : Seen(2 + j) /\ flags = Named(Now, j)
AtWidth == pc = "width" =>
  /\ Took = <<>> /\ precision = -1 /\ qualifier = "" /\ flags = Named(Now, Len(Now.flags))
  /\ IF Now.width < 0 THEN Seen(FlagEnd(Now) + 1) /\ field_width = -1
     ELSE \E j \in 0..Len(Count(Now.width)) :
            Seen(FlagEnd(Now) + j + 1) /\ Accumulates(field_width, Count(Now.width), j)
WidthTaken(d, a) == /\ Star(d.width) => a[1] \in Int
                    /\ flags = FlagsOf(d, a) /\ field_width = WidthOf(d, a) /\ qualifier = ""
AtPoint == pc = "point" =>
  /\ WidthTaken(Now, Took) /\ Len(Took) = (IF Star(Now.width) THEN 1 ELSE 0) /\ precision = -1
  /\ Seen(WidthEnd(Now) + 1)
AtPrecision == pc = "precision" =>
  /\ WidthTaken(Now, Took) /\ Len(Took) = (IF Star(Now.width) THEN 1 ELSE 0) /\ Now.precision # -1
  /\ IF Now.precision < 0 THEN Seen(WidthEnd(Now) + 2) /\ precision = -1
     ELSE \E j \in 0..Len(Count(Now.precision)) :
            Seen(WidthEnd(Now) + j + 2) /\ Accumulates(precision, Count(Now.precision), j)
AtQualifier == pc = "qualifier" =>
  /\ WidthTaken(Now, Took) /\ TakesStars(Now, Took) /\ precision = PrecisionTaken(Now, Took)
  /\ Len(Took) = ArgsOf(Now) /\ Seen(PrecEnd(Now) + 1)
AtConvert == pc = "convert" =>
  /\ Ready(Now, Took) /\ Len(Took) = ArgsOf(Now) /\ Seen(QualEnd(Now) + 1)

Reads == /\ pc \in {"char", "flags", "width", "point", "precision", "qualifier", "convert", "done"}
         /\ AtChar /\ AtDone /\ AtFlags /\ AtWidth /\ AtPoint /\ AtPrecision /\ AtQualifier /\ AtConvert
Parsing == Shape /\ Ordered /\ Kept /\ InDirective /\ Reads

\* A caller that means something.
Follows == want # <<>> => Parsing

-----------------------------------------------------------------------------
(* The steps that read a directive.                                        *)

InProgress == pc \in {"flags", "width", "point", "precision", "qualifier", "convert"}

\* The directive being read.
LEMMA Current ==
  ASSUME Parsing, InProgress
  PROVE  /\ Len(args) \in 1..Len(want) /\ Len(want) \in Nat /\ Len(marks) = Len(args) /\ Len(args) \in Nat
         /\ Now \in Directives /\ Took \in Seq(Arg) /\ Begin(want, Len(args)) \in Nat
         /\ marks[Len(args)] = Len(str) /\ marks[Len(args)] \in Nat
<1>1. /\ want \in Seq(Directives) /\ args \in Seq(Seq(Arg)) /\ marks \in Seq(Nat)
      /\ Len(args) = Len(marks) /\ Len(args) <= Len(want)
  BY DEF Parsing, Shape
<1>2. Len(args) > 0 /\ marks[Len(args)] = Len(str)
  BY DEF Parsing, InDirective, InProgress
<1>3. Len(want) \in Nat /\ Len(args) \in Nat /\ Len(args) \in 1..Len(want) /\ Len(args) \in 1..Len(marks)
  BY <1>1, <1>2
<1>4. Now \in Directives
  BY <1>1, <1>3, ElementOfSeq DEF Now
<1>5. Took \in Seq(Arg)
  BY <1>1, <1>3, ElementOfSeq DEF Took
<1>6. marks[Len(args)] \in Nat
  BY <1>1, <1>3, ElementOfSeq
<1>7. Begin(want, Len(args)) \in Nat
  <2>1. Len(args) \in 1..(Len(want) + 1)
    BY <1>3
  <2> QED
    BY <1>1, <2>1, BeginIs
<1> QED
  BY <1>1, <1>2, <1>3, <1>4, <1>5, <1>6, <1>7

\* The character fmt points to, in the middle of a directive.
LEMMA CharIs ==
  ASSUME Parsing, InProgress, NEW j \in 1..(QualEnd(Now) + 1), Seen(j)
  PROVE  c = Render(Now)[j]
<1> DEFINE k == Len(args)
           B == Begin(want, k)
<1>1. k \in 1..Len(want) /\ Now \in Directives /\ B \in Nat
  BY Current
<1>2. want \in Seq(Directives) /\ fmt = Format(want)
  BY DEF Parsing, Shape
<1>3. /\ Begin(want, k + 1) <= Len(Format(want)) /\ Len(Format(want)) \in Nat
      /\ Format(want)[B + j] = Render(Now)[j]
  BY <1>1, <1>2, FormatAt DEF Now
<1>4. Begin(want, k + 1) = B + QualEnd(Now) + 1 /\ QualEnd(Now) \in Nat
  <2>1. Begin(want, k + 1) = B + QualEnd(Now) + 1
    BY <1>1, <1>2, BeginIs DEF Now
  <2>2. QualEnd(Now) \in Nat
    BY <1>1, Rendered
  <2> QED
    BY <2>1, <2>2
<1>5. at = B + j
  BY DEF Seen
<1>6. at <= Len(fmt)
  BY <1>1, <1>2, <1>3, <1>4, <1>5
<1> QED
  BY <1>2, <1>3, <1>5, <1>6 DEF c

\* What a directive takes is kept with the others.
LEMMA TakesIs ==
  ASSUME args \in Seq(Seq(Arg)), Took \in Seq(Arg), Len(args) \in Nat \ {0}, NEW x \in Arg, Takes(x)
  PROVE  /\ args' \in Seq(Seq(Arg)) /\ Len(args') = Len(args) /\ args'[Len(args)] = Append(Took, x)
         /\ \A i \in 1..(Len(args) - 1) : args'[i] = args[i]
<1> DEFINE k == Len(args)
           e == Append(Took, x)
<1>1. args' = [args EXCEPT ![k] = Append(@, x)]
  BY DEF Takes
<1>2. args' = [args EXCEPT ![k] = e]
  BY <1>1 DEF Took
<1>3. e \in Seq(Arg)
  OBVIOUS
<1> HIDE DEF e
<1>4. args' \in Seq(Seq(Arg)) /\ Len(args') = k /\ args'[k] = e /\ \A i \in 1..(k - 1) : args'[i] = args[i]
  BY <1>2, <1>3
<1> QED
  BY <1>4 DEF e

\* What a step that only reads leaves as it was.
LEMMA OnlyReads ==
  ASSUME Parsing, InProgress, InProgress', UNCHANGED <<want, fmt, str, marks>>,
         \/ args' = args
         \/ \E x \in Arg : Takes(x)
  PROVE  /\ Shape' /\ Ordered' /\ Kept' /\ InDirective' /\ Len(args') = Len(args) /\ Now' = Now
         /\ args' = args => Took' = Took
         /\ \A x \in Arg : Takes(x) => Took' = Append(Took, x)
         /\ Begin(want, Len(args))' = Begin(want, Len(args))
<1> DEFINE k == Len(args)
<1>1. /\ k \in 1..Len(want) /\ Len(marks) = k /\ k \in Nat /\ Took \in Seq(Arg) /\ marks[k] = Len(str)
  BY Current
<1>2. args \in Seq(Seq(Arg))
  BY DEF Parsing, Shape
<1>3. ASSUME NEW x \in Arg, Takes(x)
      PROVE  args' \in Seq(Seq(Arg)) /\ Len(args') = k /\ args'[k] = Append(Took, x)
             /\ \A i \in 1..(k - 1) : args'[i] = args[i]
  BY <1>1, <1>2, <1>3, TakesIs
<1>4. args' \in Seq(Seq(Arg)) /\ Len(args') = k /\ \A i \in 1..(k - 1) : args'[i] = args[i]
  BY <1>2, <1>3
<1>5. Shape'
  BY <1>4 DEF Parsing, Shape
<1>6. Ordered'
  BY DEF Parsing, Ordered
<1>7. Kept'
  <2> SUFFICES ASSUME NEW i \in 1..Len(marks), i < Len(marks)
               PROVE  Promised(want[i], Slice(i), args'[i], marks[i])
    BY DEF Kept, Slice, InProgress
  <2>1. Promised(want[i], Slice(i), args[i], marks[i])
    BY DEF Parsing, Kept
  <2>2. i \in 1..(k - 1)
    BY <1>1
  <2>3. args'[i] = args[i]
    BY <1>4, <2>2
  <2> QED
    BY <2>1, <2>3
<1>8. InDirective'
  BY <1>1, <1>4 DEF InDirective
<1>9. Now' = Now
  BY <1>4 DEF Now
<1>10. /\ args' = args => Took' = Took
       /\ \A x \in Arg : Takes(x) => Took' = Append(Took, x)
  BY <1>3, <1>4 DEF Took
<1>11. Begin(want, Len(args))' = Begin(want, Len(args))
  BY <1>4
<1> QED
  BY <1>4, <1>5, <1>6, <1>7, <1>8, <1>9, <1>10, <1>11

\* Only what is said of the part that is next matters.
LEMMA NextPart ==
  /\ pc' = "flags" /\ AtFlags' => Reads'
  /\ pc' = "width" /\ AtWidth' => Reads'
  /\ pc' = "point" /\ AtPoint' => Reads'
  /\ pc' = "precision" /\ AtPrecision' => Reads'
  /\ pc' = "qualifier" /\ AtQualifier' => Reads'
  /\ pc' = "convert" /\ AtConvert' => Reads'
  /\ pc' = "char" /\ AtChar' => Reads'
  /\ pc' = "done" /\ AtDone' => Reads'
BY DEF Reads, AtChar, AtDone, AtFlags, AtWidth, AtPoint, AtPrecision, AtQualifier, AtConvert

\* The parts of the invariant, one by one.
LEMMA ParsingBy == Shape' /\ Ordered' /\ Kept' /\ InDirective' /\ Reads' => Parsing'
BY DEF Parsing

\* The flags are gathered up to the first character that is none.
LEMMA FlagStep == ASSUME Parsing, flag PROVE Parsing'
<1>0. pc = "flags" /\ args' = args /\ UNCHANGED <<want, fmt, str, marks, field_width, precision, qualifier>>
  BY DEF flag
<1>1. InProgress /\ InProgress'
  BY <1>0 DEF InProgress, flag
<1>2. PICK d \in Directives : d = Now
  BY <1>1, Current
<1>3. PICK b \in Nat : b = Begin(want, Len(args))
  BY <1>1, Current
<1>4. /\ Took = <<>> /\ field_width = -1 /\ precision = -1 /\ qualifier = ""
      /\ \E j \in 0..Len(d.flags) : at = b + (2 + j) /\ flags = Named(d, j)
  BY <1>0, <1>2, <1>3 DEF Parsing, Reads, AtFlags, Seen
<1>5. PICK j \in 0..Len(d.flags) : at = b + (2 + j) /\ flags = Named(d, j)
  BY <1>4
<1>6. /\ Shape' /\ Ordered' /\ Kept' /\ InDirective' /\ Now' = d /\ Took' = <<>>
      /\ Begin(want, Len(args))' = b
  BY <1>0, <1>1, <1>2, <1>3, <1>4, OnlyReads, Zenon
<1>7. /\ Len(d.flags) \in Nat /\ FlagEnd(d) \in Nat /\ QualEnd(d) \in Nat /\ FlagEnd(d) <= QualEnd(d)
      /\ FlagEnd(d) = 1 + Len(d.flags)
      /\ \A i \in 1..Len(d.flags) : Render(d)[1 + i] = d.flags[i]
      /\ Render(d)[FlagEnd(d) + 1] \notin DOMAIN Flag
  BY Rendered, NextChars DEF FlagEnd
<1>8. c = Render(d)[2 + j]
  <2>1. 2 + j \in 1..(QualEnd(d) + 1)
    BY <1>7
  <2>2. Seen(2 + j)
    BY <1>3, <1>5 DEF Seen
  <2> QED
    BY <1>1, <1>2, <2>1, <2>2, CharIs
<1>9. CASE j < Len(d.flags)
  <2>1. j + 1 \in 1..Len(d.flags) /\ 2 + j = 1 + (j + 1)
    BY <1>7, <1>9
  <2>2. c = d.flags[j + 1]
    BY <1>7, <1>8, <2>1
  <2>3. d.flags \in Seq(DOMAIN Flag)
    BY DEF Directives
  <2>4. c \in DOMAIN Flag
    BY <2>1, <2>2, <2>3, ElementOfSeq
  <2>5. flags' = flags \cup {Flag[c]} /\ at' = at + 1 /\ pc' = "flags"
    BY <1>0, <2>4 DEF flag, next_char
  <2>6. flags' = Named(d, j + 1)
    <3>1. 1..(j + 1) = 1..j \cup {j + 1}
      BY <1>7
    <3> QED
      BY <1>5, <2>2, <2>5, <3>1 DEF Named
  <2>7. j + 1 \in 0..Len(d.flags) /\ at' = b + (2 + (j + 1))
    BY <1>5, <1>7, <2>1, <2>5
  <2>8. AtFlags'
    BY <1>0, <1>4, <1>6, <2>6, <2>7 DEF AtFlags, Seen
  <2> QED
    BY <1>6, <2>5, <2>8, NextPart, ParsingBy
<1>10. CASE ~(j < Len(d.flags))
  <2>1. j = Len(d.flags) /\ 2 + j = FlagEnd(d) + 1
    BY <1>7, <1>10
  <2>2. c \notin DOMAIN Flag
    BY <1>7, <1>8, <2>1
  <2>3. pc' = "width" /\ UNCHANGED <<flags, at>>
    BY <2>2 DEF flag
  <2>4. at' = b + (FlagEnd(d) + 1)
    BY <1>5, <2>1, <2>3
  <2>5. flags' = Named(d, Len(d.flags)) /\ field_width' = -1 /\ precision' = -1 /\ qualifier' = ""
    BY <1>0, <1>4, <1>5, <2>1, <2>3
  <2>6. ASSUME ~(d.width < 0)
        PROVE  \E i \in 0..Len(Count(d.width)) :
                 at' = b + (FlagEnd(d) + i + 1) /\ Accumulates(-1, Count(d.width), i)
    <3>1. Denotes(Count(d.width), Upper, 10, d.width)
      BY <2>6, DirectiveIs, CountIs
    <3>2. 0 \in 0..Len(Count(d.width))
      BY <3>1 DEF Denotes
    <3>3. FlagEnd(d) + 0 + 1 = FlagEnd(d) + 1
      BY <1>7
    <3> QED
      BY <2>4, <3>1, <3>2, <3>3, ReadStart
  <2>7. AtWidth'
    BY <1>6, <2>4, <2>5, <2>6 DEF AtWidth, Seen
  <2> QED
    BY <1>6, <2>3, <2>7, NextPart, ParsingBy
<1> QED
  BY <1>9, <1>10

\* The flags of a directive whose stars are taken.
LEMMA FlagsNamed ==
  ASSUME NEW d \in Directives, NEW a
  PROVE  /\ ~Star(d.width) => FlagsOf(d, a) = Named(d, Len(d.flags))
         /\ Star(d.width) => FlagsOf(d, a) = Named(d, Len(d.flags)) \cup (IF a[1] < 0 THEN {"LEFT"} ELSE {})
BY DEF FlagsOf, Named, StarWidth

\* The width is read.
LEMMA WidthRead ==
  ASSUME NEW d \in Directives, NEW b \in Nat, Now' = d, Begin(want, Len(args))' = b, d.width # -2,
         Shape', Ordered', Kept', InDirective',
         pc' = "point", Took' = <<>>, flags' = Named(d, Len(d.flags)), field_width' = d.width,
         precision' = -1, qualifier' = "", at' = b + (WidthEnd(d) + 1)
  PROVE  Parsing'
<1>1. ~Star(d.width)
  BY DEF Star
<1>2. flags' = FlagsOf(d, Took')
  BY <1>1, FlagsNamed
<1>3. field_width' = WidthOf(d, Took')
  BY <1>1 DEF WidthOf, WidthWanted, Star
<1>4. WidthTaken(d, Took)'
  BY <1>1, <1>2, <1>3 DEF WidthTaken
<1>5. AtPoint'
  BY <1>1, <1>2, <1>3 DEF AtPoint, WidthTaken, Seen
<1> QED
  BY <1>5, NextPart, ParsingBy

\* The digits of a width come to the width, and a * takes it.
LEMMA WidthStep == ASSUME Parsing, width PROVE Parsing'
<1>0. pc = "width" /\ UNCHANGED <<want, fmt, str, marks, precision, qualifier>>
  BY DEF width
<1>1. InProgress /\ InProgress'
  BY <1>0 DEF InProgress, width
<1>2. PICK d \in Directives : d = Now
  BY <1>1, Current
<1>3. PICK b \in Nat : b = Begin(want, Len(args))
  BY <1>1, Current
<1>4. /\ Took = <<>> /\ precision = -1 /\ qualifier = "" /\ flags = Named(d, Len(d.flags))
      /\ IF d.width < 0 THEN at = b + (FlagEnd(d) + 1) /\ field_width = -1
         ELSE \E j \in 0..Len(Count(d.width)) :
                at = b + (FlagEnd(d) + j + 1) /\ Accumulates(field_width, Count(d.width), j)
  BY <1>0, <1>2, <1>3 DEF Parsing, Reads, AtWidth, Seen
<1>5. ASSUME args' = args
      PROVE  /\ Shape' /\ Ordered' /\ Kept' /\ InDirective' /\ Now' = d /\ Took' = <<>>
             /\ Begin(want, Len(args))' = b
  BY <1>0, <1>1, <1>2, <1>3, <1>4, <1>5, OnlyReads, Zenon
<1>6. /\ FlagEnd(d) \in Nat /\ WidthEnd(d) \in Nat /\ QualEnd(d) \in Nat /\ FlagEnd(d) <= WidthEnd(d) /\ WidthEnd(d) <= QualEnd(d)
      /\ WidthEnd(d) = FlagEnd(d) + Len(Count(d.width))
      /\ \A i \in 1..Len(Count(d.width)) : Render(d)[FlagEnd(d) + i] = Count(d.width)[i]
      /\ Render(d)[WidthEnd(d) + 1] \in Follower \cup {"."}
      /\ d.width = -1 => WidthEnd(d) = FlagEnd(d)
  <2>1. PrecEnd(d) \in Nat /\ WidthEnd(d) <= PrecEnd(d) /\ PrecEnd(d) <= QualEnd(d)
    BY Rendered
  <2> QED
    BY <2>1, Rendered, NextChars DEF WidthEnd
<1>7. ASSUME NEW j \in 1..(QualEnd(d) + 1), at = b + j PROVE c = Render(d)[j]
  BY <1>1, <1>2, <1>3, <1>7, CharIs DEF Seen
<1>8. ASSUME at = b + (WidthEnd(d) + 1), field_width = d.width, d.width # -2 PROVE Parsing'
  <2>1. WidthEnd(d) + 1 \in 1..(QualEnd(d) + 1)
    BY <1>6
  <2>2. c = Render(d)[WidthEnd(d) + 1]
    BY <1>7, <1>8, <2>1
  <2>3. ~isdigit(c) /\ c # "*"
    BY <1>6, <2>2, FollowerIs
  <2>4. pc' = "point" /\ UNCHANGED <<at, flags, field_width, args>>
    BY <2>3 DEF width
  <2> QED
    BY <1>0, <1>4, <1>5, <1>8, <2>4, WidthRead
<1>9. d.width \in Int /\ d.width >= -2 /\ d.width < LONG
  BY DirectiveIs
<1>a. ASSUME d.width < 0 PROVE at = b + (FlagEnd(d) + 1) /\ field_width = -1
  BY <1>4, <1>a, Zenon
<1>10. CASE d.width = -1
  <2>1. at = b + (FlagEnd(d) + 1) /\ field_width = -1
    BY <1>10, <1>a
  <2> QED
    BY <1>6, <1>8, <1>10, <2>1
<1>11. CASE d.width = -2
  <2>0. at = b + (FlagEnd(d) + 1) /\ field_width = -1
    BY <1>11, <1>a
  <2>1. Count(d.width) = <<"*">> /\ Star(d.width)
    BY <1>11, DirectiveIs, CountIs DEF Star
  <2>2. WidthEnd(d) = FlagEnd(d) + 1 /\ Render(d)[FlagEnd(d) + 1] = "*"
    BY <1>6, <2>1
  <2>3. c = "*"
    <3>1. FlagEnd(d) + 1 \in 1..(QualEnd(d) + 1)
      BY <1>6, <2>2
    <3> QED
      BY <1>7, <2>0, <2>2, <3>1
  <2>4. ~isdigit("*")
    BY DEF isdigit, Upper
  <2>5. PICK w \in Stars : /\ Takes(w) /\ field_width' = (IF w < 0 THEN -w ELSE w)
                           /\ flags' = IF w < 0 THEN flags \cup {"LEFT"} ELSE flags
    BY <2>0, <2>3, <2>4 DEF width
  <2>6. pc' = "point" /\ at' = at + 1
    BY <2>0, <2>3, <2>4 DEF width, next_char
  <2>7. w \in Int /\ w \in Arg
    BY MostIs DEF Arg
  <2>8. /\ Shape' /\ Ordered' /\ Kept' /\ InDirective' /\ Now' = d /\ Took' = Append(Took, w)
        /\ Begin(want, Len(args))' = b
    BY <1>0, <1>1, <1>2, <1>3, <2>5, <2>7, OnlyReads, Zenon
  <2>9. Took' = <<w>> /\ Len(Took') = 1 /\ Took'[1] = w
    <3>1. Took' = Append(<<>>, w)
      BY <1>4, <2>8, Zenon
    <3>2. Append(<<>>, w) = <<w>>
      OBVIOUS
    <3>3. Len(<<w>>) = 1 /\ <<w>>[1] = w
      OBVIOUS
    <3> QED
      BY <3>1, <3>2, <3>3, Zenon
  <2>10. flags' = FlagsOf(d, Took')
    <3>1. flags = Named(d, Len(d.flags))
      BY <1>4
    <3> QED
      BY <2>1, <2>5, <2>9, <3>1, FlagsNamed
  <2>11. field_width' = WidthOf(d, Took')
    <3>1. WidthOf(d, Took') = Larger(w, -w)
      BY <1>11, <2>1, <2>9 DEF WidthOf, WidthWanted
    <3> QED
      BY <2>5, <2>7, <3>1 DEF Larger
  <2>12. at' = b + (WidthEnd(d) + 1)
    BY <1>6, <2>0, <2>2, <2>6
  <2>13. AtPoint'
    <3>1. precision' = -1 /\ qualifier' = ""
      BY <1>0, <1>4
    <3> QED
      BY <2>1, <2>7, <2>8, <2>9, <2>10, <2>11, <2>12, <3>1 DEF AtPoint, WidthTaken, Seen
  <2> QED
    BY <2>6, <2>8, <2>13, NextPart, ParsingBy
<1>12. CASE ~(d.width < 0)
  <2> DEFINE t == Count(d.width)
  <2>1. PICK j \in 0..Len(t) : at = b + (FlagEnd(d) + j + 1) /\ Accumulates(field_width, t, j)
    BY <1>4, <1>12
  <2>2. Denotes(t, Upper, 10, d.width)
    BY <1>9, <1>12, CountIs
  <2>3. Len(t) \in Nat
    BY <2>2 DEF Denotes
  <2>4. CASE j < Len(t)
    <3>1. /\ j \in 0..(Len(t) - 1) /\ j + 1 \in 1..Len(t) /\ FlagEnd(d) + j + 1 = FlagEnd(d) + (j + 1)
          /\ FlagEnd(d) + (j + 1) \in 1..(QualEnd(d) + 1)
      BY <1>6, <2>3, <2>4
    <3>2. c = t[j + 1]
      BY <1>6, <1>7, <2>1, <3>1
    <3>3. /\ isdigit(c) /\ c # "*"
          /\ Accumulates(10 * Larger(field_width, 0) + ToDigit(c), t, j + 1)
      BY <2>1, <2>2, <3>1, <3>2, ReadStep
    <3>4. pc' = "width" /\ at' = at + 1 /\ UNCHANGED <<flags, args>>
          /\ field_width' = 10 * Larger(field_width, 0) + ToDigit(c)
      BY <1>0, <3>3 DEF width, next_char
    <3>5. at' = b + (FlagEnd(d) + (j + 1) + 1) /\ j + 1 \in 0..Len(t)
      BY <1>6, <2>1, <3>1, <3>4
    <3>6. Accumulates(field_width', t, j + 1)
      BY <3>3, <3>4
    <3>7. AtWidth'
      BY <1>0, <1>4, <1>5, <1>12, <3>4, <3>5, <3>6 DEF AtWidth, Seen
    <3> QED
      BY <1>5, <3>4, <3>7, NextPart, ParsingBy
  <2>5. CASE ~(j < Len(t))
    <3>1. j = Len(t)
      BY <2>3, <2>5
    <3>2. field_width = d.width
      BY <2>1, <2>2, <3>1, ReadEnd
    <3>3. at = b + (WidthEnd(d) + 1)
      BY <1>6, <2>1, <3>1
    <3> QED
      BY <1>8, <1>9, <1>12, <3>2, <3>3
  <2> QED
    BY <2>4, <2>5
<1> QED
  BY <1>9, <1>10, <1>11, <1>12

\* A precision begins with a point.
LEMMA PointStep == ASSUME Parsing, point PROVE Parsing'
<1>0. pc = "point" /\ args' = args /\ UNCHANGED <<want, fmt, str, marks, flags, field_width, precision, qualifier>>
  BY DEF point, directive
<1>1. InProgress /\ InProgress'
  BY <1>0 DEF InProgress, point
<1>2. PICK d \in Directives : d = Now
  BY <1>1, Current
<1>3. PICK b \in Nat : b = Begin(want, Len(args))
  BY <1>1, Current
<1>4. PICK a \in Seq(Arg) : a = Took
  BY <1>1, Current
<1>5. /\ WidthTaken(d, a) /\ Len(a) = (IF Star(d.width) THEN 1 ELSE 0) /\ precision = -1
      /\ at = b + (WidthEnd(d) + 1)
  BY <1>0, <1>2, <1>3, <1>4 DEF Parsing, Reads, AtPoint, Seen
<1>6. /\ Shape' /\ Ordered' /\ Kept' /\ InDirective' /\ Now' = d /\ Took' = a
      /\ Begin(want, Len(args))' = b
  BY <1>0, <1>1, <1>2, <1>3, <1>4, OnlyReads, Zenon
<1>7. /\ WidthEnd(d) \in Nat /\ QualEnd(d) \in Nat /\ WidthEnd(d) <= QualEnd(d)
      /\ d.precision = -1 => PrecEnd(d) = WidthEnd(d)
      /\ d.precision # -1 => Render(d)[WidthEnd(d) + 1] = "."
      /\ Render(d)[PrecEnd(d) + 1] \in Follower
  <2>1. PrecEnd(d) \in Nat /\ WidthEnd(d) <= PrecEnd(d) /\ PrecEnd(d) <= QualEnd(d)
    BY Rendered
  <2> QED
    BY <2>1, Rendered, NextChars
<1>8. c = Render(d)[WidthEnd(d) + 1]
  <2>1. WidthEnd(d) + 1 \in 1..(QualEnd(d) + 1)
    BY <1>7
  <2> QED
    BY <1>1, <1>2, <1>3, <1>5, <2>1, CharIs DEF Seen
<1>9. WidthTaken(d, a)'
  BY <1>0, <1>5 DEF WidthTaken
<1>10. CASE d.precision = -1
  <2>1. c # "."
    BY <1>7, <1>8, <1>10, FollowerIs
  <2>2. pc' = "qualifier" /\ at' = at
    BY <2>1 DEF point
  <2>3. ~Star(d.precision)
    BY <1>10 DEF Star
  <2>4. TakesStars(d, a) /\ PrecisionTaken(d, a) = -1
    BY <1>5, <1>10, <2>3 DEF TakesStars, PrecisionTaken, WidthTaken
  <2>5. Len(a) = ArgsOf(d)
    BY <1>5, <2>3 DEF ArgsOf
  <2>6. at' = b + (PrecEnd(d) + 1) /\ precision' = -1
    BY <1>0, <1>5, <1>7, <1>10, <2>2
  <2>7. AtQualifier'
    BY <1>6, <1>9, <2>4, <2>5, <2>6 DEF AtQualifier, Seen, WidthTaken
  <2> QED
    BY <1>6, <2>2, <2>7, NextPart, ParsingBy
<1>11. CASE d.precision # -1
  <2>1. c = "."
    BY <1>7, <1>8, <1>11
  <2>2. pc' = "precision" /\ at' = at + 1
    BY <2>1 DEF point, next_char
  <2>3. at' = b + (WidthEnd(d) + 2) /\ precision' = -1
    BY <1>0, <1>5, <1>7, <2>2
  <2>4. ASSUME ~(d.precision < 0)
        PROVE  \E i \in 0..Len(Count(d.precision)) :
                 at' = b + (WidthEnd(d) + i + 2) /\ Accumulates(-1, Count(d.precision), i)
    <3>1. Denotes(Count(d.precision), Upper, 10, d.precision)
      BY <2>4, DirectiveIs, CountIs
    <3>2. 0 \in 0..Len(Count(d.precision))
      BY <3>1 DEF Denotes
    <3>3. WidthEnd(d) + 0 + 2 = WidthEnd(d) + 2
      BY <1>7
    <3> QED
      BY <2>3, <3>1, <3>2, <3>3, ReadStart
  <2>5. AtPrecision'
    BY <1>5, <1>6, <1>9, <1>11, <2>3, <2>4 DEF AtPrecision, Seen, WidthTaken
  <2> QED
    BY <1>6, <2>2, <2>5, NextPart, ParsingBy
<1> QED
  BY <1>10, <1>11

\* The qualifier is kept.
LEMMA QualifyStep == ASSUME Parsing, qualify PROVE Parsing'
<1>0. pc = "qualifier" /\ args' = args /\ pc' = "convert"
      /\ UNCHANGED <<want, fmt, str, marks, flags, field_width, precision>>
  BY DEF qualify
<1>1. InProgress /\ InProgress'
  BY <1>0 DEF InProgress
<1>2. PICK d \in Directives : d = Now
  BY <1>1, Current
<1>3. PICK b \in Nat : b = Begin(want, Len(args))
  BY <1>1, Current
<1>4. PICK a \in Seq(Arg) : a = Took
  BY <1>1, Current
<1>5. /\ WidthTaken(d, a) /\ TakesStars(d, a) /\ precision = PrecisionTaken(d, a) /\ Len(a) = ArgsOf(d)
      /\ at = b + (PrecEnd(d) + 1)
  BY <1>0, <1>2, <1>3, <1>4 DEF Parsing, Reads, AtQualifier, Seen
<1>6. /\ Shape' /\ Ordered' /\ Kept' /\ InDirective' /\ Now' = d /\ Took' = a
      /\ Begin(want, Len(args))' = b
  BY <1>0, <1>1, <1>2, <1>3, <1>4, OnlyReads, Zenon
<1>7. /\ PrecEnd(d) \in Nat /\ QualEnd(d) \in Nat /\ PrecEnd(d) <= QualEnd(d)
      /\ d.qualifier = <<>> => QualEnd(d) = PrecEnd(d)
      /\ d.qualifier # <<>> => /\ QualEnd(d) = PrecEnd(d) + 1 /\ d.qualifier = <<Render(d)[PrecEnd(d) + 1]>>
                               /\ Render(d)[PrecEnd(d) + 1] \in {"h", "l", "L"}
      /\ Render(d)[QualEnd(d) + 1] \in Conversions
  BY Rendered, NextChars
<1>8. c = Render(d)[PrecEnd(d) + 1]
  <2>1. PrecEnd(d) + 1 \in 1..(QualEnd(d) + 1)
    BY <1>7
  <2> QED
    BY <1>1, <1>2, <1>3, <1>5, <2>1, CharIs DEF Seen
<1>9. at' = b + (QualEnd(d) + 1) /\ (qualifier' = "h" <=> d.qualifier = <<"h">>)
  <2>1. CASE d.qualifier = <<>>
    <3>1. c \notin {"h", "l", "L"}
      <4>1. c \in Conversions /\ c \in Follower \cup {"."}
        BY <1>7, <1>8, <2>1 DEF Follower
      <4> QED
        BY <4>1, FollowerIs
    <3>2. UNCHANGED <<qualifier, at>> /\ qualifier = ""
      BY <1>5, <3>1 DEF qualify, WidthTaken
    <3>3. <<>> # <<"h">>
      OBVIOUS
    <3> QED
      BY <1>5, <1>7, <2>1, <3>2, <3>3
  <2>2. CASE d.qualifier # <<>>
    <3>1. c \in {"h", "l", "L"} /\ d.qualifier = <<c>> /\ QualEnd(d) = PrecEnd(d) + 1
      BY <1>7, <1>8, <2>2
    <3>2. qualifier' = c /\ at' = at + 1
      BY <3>1 DEF qualify, next_char
    <3>3. at' = b + (QualEnd(d) + 1)
      BY <1>5, <1>7, <3>1, <3>2
    <3>4. <<"h">>[1] = "h" /\ <<c>>[1] = c
      OBVIOUS
    <3> QED
      BY <3>1, <3>2, <3>3, <3>4
  <2> QED
    BY <2>1, <2>2
<1>10. Ready(d, a)'
  BY <1>0, <1>5, <1>9 DEF Ready, WidthTaken
<1>11. AtConvert'
  BY <1>0, <1>5, <1>6, <1>9 DEF AtConvert, Seen, Ready, WidthTaken
<1> QED
  BY <1>0, <1>6, <1>11, NextPart, ParsingBy

\* What was taken before stays what it was.
LEMMA Earlier ==
  ASSUME NEW a \in Seq(Arg), NEW x \in Arg
  PROVE  /\ Append(a, x) \in Seq(Arg) /\ Len(Append(a, x)) = Len(a) + 1 /\ Append(a, x)[Len(a) + 1] = x
         /\ \A i \in 1..Len(a) : Append(a, x)[i] = a[i]
OBVIOUS

\* A later argument leaves the width as it is.
LEMMA SameWidth ==
  ASSUME NEW d \in Directives, NEW a, NEW e, WidthTaken(d, a), Star(d.width) => e[1] = a[1]
  PROVE  WidthTaken(d, e)
<1>1. FlagsOf(d, e) = FlagsOf(d, a)
  BY FlagsNamed
<1>2. WidthOf(d, e) = WidthOf(d, a)
  <2>1. CASE Star(d.width)
    BY <2>1 DEF WidthOf, WidthWanted
  <2>2. CASE ~Star(d.width)
    BY <2>2 DEF WidthOf, WidthWanted
  <2> QED
    BY <2>1, <2>2
<1> QED
  BY <1>1, <1>2 DEF WidthTaken

\* The precision is read.
LEMMA PrecisionRead ==
  ASSUME NEW d \in Directives, NEW b \in Nat, NEW a, Now' = d, Begin(want, Len(args))' = b, Took' = a,
         Shape', Ordered', Kept', InDirective', WidthTaken(d, a)', TakesStars(d, a), Len(a) = ArgsOf(d),
         pc' = "qualifier", precision' = PrecisionTaken(d, a), at' = b + (PrecEnd(d) + 1)
  PROVE  Parsing'
<1>1. AtQualifier'
  BY DEF AtQualifier, Seen, WidthTaken
<1> QED
  BY <1>1, NextPart, ParsingBy

\* The digits of a precision come to it, and a * takes it.
LEMMA PrecStep == ASSUME Parsing, prec PROVE Parsing'
<1>0. pc = "precision" /\ UNCHANGED <<want, fmt, str, marks, flags, field_width, qualifier>>
  BY DEF prec
<1>1. InProgress /\ InProgress'
  BY <1>0 DEF InProgress, prec
<1>2. PICK d \in Directives : d = Now
  BY <1>1, Current
<1>3. PICK b \in Nat : b = Begin(want, Len(args))
  BY <1>1, Current
<1>4. PICK a \in Seq(Arg) : a = Took
  BY <1>1, Current
<1>b. /\ WidthTaken(d, a) /\ Len(a) = (IF Star(d.width) THEN 1 ELSE 0) /\ d.precision # -1
      /\ IF d.precision < 0 THEN at = b + (WidthEnd(d) + 2) /\ precision = -1
         ELSE \E j \in 0..Len(Count(d.precision)) :
                at = b + (WidthEnd(d) + j + 2) /\ Accumulates(precision, Count(d.precision), j)
  BY <1>0, <1>2, <1>3, <1>4 DEF Parsing, Reads, AtPrecision, Seen
<1>5. WidthTaken(d, a) /\ Len(a) = (IF Star(d.width) THEN 1 ELSE 0) /\ d.precision # -1
  BY <1>b, Zenon
<1>6. ASSUME args' = args
      PROVE  /\ Shape' /\ Ordered' /\ Kept' /\ InDirective' /\ Now' = d /\ Took' = a
             /\ Begin(want, Len(args))' = b
  BY <1>0, <1>1, <1>2, <1>3, <1>4, <1>6, OnlyReads, Zenon
<1>7. /\ WidthEnd(d) \in Nat /\ PrecEnd(d) \in Nat /\ QualEnd(d) \in Nat /\ PrecEnd(d) <= QualEnd(d)
      /\ PrecEnd(d) = WidthEnd(d) + 1 + Len(Count(d.precision))
      /\ \A i \in 1..Len(Count(d.precision)) : Render(d)[WidthEnd(d) + 1 + i] = Count(d.precision)[i]
      /\ Render(d)[PrecEnd(d) + 1] \in Follower
  BY <1>5, Rendered, NextChars
<1>8. ASSUME NEW j \in 1..(QualEnd(d) + 1), at = b + j PROVE c = Render(d)[j]
  BY <1>1, <1>2, <1>3, <1>8, CharIs DEF Seen
<1>9. d.precision \in Int /\ d.precision >= -2 /\ d.precision < LONG
  BY DirectiveIs
<1>10. CASE d.precision < 0
  <2>0. at = b + (WidthEnd(d) + 2) /\ precision = -1
    BY <1>b, <1>10, Zenon
  <2>1. d.precision = -2
    BY <1>5, <1>9, <1>10
  <2>2. Count(d.precision) = <<"*">> /\ Star(d.precision)
    BY <2>1, DirectiveIs, CountIs DEF Star
  <2>3. PrecEnd(d) = WidthEnd(d) + 2 /\ Render(d)[WidthEnd(d) + 1 + 1] = "*" /\ WidthEnd(d) + 1 + 1 = WidthEnd(d) + 2
    BY <1>7, <2>2
  <2>4. c = "*"
    <3>1. WidthEnd(d) + 2 \in 1..(QualEnd(d) + 1)
      BY <1>7, <2>3
    <3> QED
      BY <1>8, <2>0, <2>3, <3>1
  <2>5. ~isdigit("*")
    BY DEF isdigit, Upper
  <2>6. PICK p \in Stars : Takes(p) /\ precision' = Larger(p, 0)
    BY <2>0, <2>4, <2>5 DEF prec
  <2>7. pc' = "qualifier" /\ at' = at + 1
    BY <2>0, <2>4, <2>5 DEF prec, next_char
  <2>8. p \in Int /\ p \in Arg
    BY MostIs DEF Arg
  <2> DEFINE e == Append(a, p)
  <2>9. /\ Shape' /\ Ordered' /\ Kept' /\ InDirective' /\ Now' = d /\ Took' = e
        /\ Begin(want, Len(args))' = b
    BY <1>0, <1>1, <1>2, <1>3, <1>4, <2>6, <2>8, OnlyReads, Zenon
  <2>10. Len(e) = Len(a) + 1 /\ e[Len(a) + 1] = p /\ \A i \in 1..Len(a) : e[i] = a[i]
    BY <2>8, Earlier
  <2> HIDE DEF e
  <2>11. Star(d.width) => e[1] = a[1] /\ e[1] \in Int
    <3>1. Star(d.width) => 1 \in 1..Len(a) /\ a[1] \in Int
      <4>1. Star(d.width) => a[1] \in Int
        BY <1>5, Zenon DEF WidthTaken
      <4>2. Star(d.width) => Len(a) = 1
        BY <1>5, Zenon
      <4>3. 1 \in 1..1
        OBVIOUS
      <4> QED
        BY <4>1, <4>2, <4>3, Zenon
    <3> QED
      BY <2>10, <3>1
  <2>12. WidthTaken(d, e)'
    <3>1. WidthTaken(d, e)
      BY <1>5, <2>11, SameWidth
    <3> QED
      BY <1>0, <3>1 DEF WidthTaken
  <2>13. e[IF Star(d.width) THEN 2 ELSE 1] = p
    BY <1>5, <2>10
  <2>14. TakesStars(d, e) /\ Larger(p, 0) = PrecisionTaken(d, e)
    BY <2>2, <2>8, <2>11, <2>13 DEF TakesStars, PrecisionTaken
  <2>15. Len(e) = ArgsOf(d)
    BY <1>5, <2>2, <2>10 DEF ArgsOf
  <2>16. at' = b + (PrecEnd(d) + 1)
    BY <1>7, <2>0, <2>3, <2>7
  <2> QED
    BY <2>6, <2>7, <2>9, <2>12, <2>14, <2>15, <2>16, PrecisionRead
<1>11. CASE ~(d.precision < 0)
  <2> DEFINE t == Count(d.precision)
  <2>1. PICK j \in 0..Len(t) : at = b + (WidthEnd(d) + j + 2) /\ Accumulates(precision, t, j)
    BY <1>b, <1>11
  <2>2. Denotes(t, Upper, 10, d.precision)
    BY <1>9, <1>11, CountIs
  <2>3. Len(t) \in Nat
    BY <2>2 DEF Denotes
  <2>4. CASE j < Len(t)
    <3>1. /\ j \in 0..(Len(t) - 1) /\ j + 1 \in 1..Len(t) /\ WidthEnd(d) + j + 2 = WidthEnd(d) + 1 + (j + 1)
          /\ WidthEnd(d) + 1 + (j + 1) \in 1..(QualEnd(d) + 1)
      BY <1>7, <2>3, <2>4
    <3>2. c = t[j + 1]
      BY <1>7, <1>8, <2>1, <3>1
    <3>3. /\ isdigit(c) /\ c # "*"
          /\ Accumulates(10 * Larger(precision, 0) + ToDigit(c), t, j + 1)
      BY <2>1, <2>2, <3>1, <3>2, ReadStep
    <3>4. pc' = "precision" /\ at' = at + 1 /\ args' = args
          /\ precision' = 10 * Larger(precision, 0) + ToDigit(c)
      BY <1>0, <3>3 DEF prec, next_char
    <3>5. at' = b + (WidthEnd(d) + (j + 1) + 2) /\ j + 1 \in 0..Len(t)
      <4>1. j \in Int /\ WidthEnd(d) \in Int /\ at = b + (WidthEnd(d) + j + 2) /\ at' = at + 1
        BY <1>7, <2>1, <3>4
      <4>2. at' = b + (WidthEnd(d) + (j + 1) + 2)
        BY <4>1
      <4>3. j + 1 \in 0..Len(t)
        BY <2>3, <2>4
      <4> QED
        BY <4>2, <4>3
    <3>6. Accumulates(precision', t, j + 1)
      BY <3>3, <3>4
    <3>7. WidthTaken(d, a)'
      BY <1>0, <1>5 DEF WidthTaken
    <3>8. AtPrecision'
      BY <1>5, <1>6, <1>11, <3>4, <3>5, <3>6, <3>7 DEF AtPrecision, Seen, WidthTaken, Star
    <3> QED
      BY <1>6, <3>4, <3>8, NextPart, ParsingBy
  <2>5. CASE ~(j < Len(t))
    <3>1. j = Len(t)
      BY <2>3, <2>5
    <3>2. precision = d.precision
      BY <2>1, <2>2, <3>1, ReadEnd
    <3>3. at = b + (PrecEnd(d) + 1)
      BY <1>7, <2>1, <2>3, <3>1
    <3>4. c \in Follower \cup {"."}
      <4>1. PrecEnd(d) + 1 \in 1..(QualEnd(d) + 1)
        BY <1>7
      <4> QED
        BY <1>7, <1>8, <3>3, <4>1
    <3>5. ~isdigit(c) /\ c # "*"
      BY <3>4, FollowerIs
    <3>6. pc' = "qualifier" /\ UNCHANGED <<at, args>> /\ precision' = Larger(precision, 0)
      BY <3>5 DEF prec
    <3>7. ~Star(d.precision) /\ precision' = d.precision
      BY <1>9, <1>11, <3>2, <3>6 DEF Larger, Star
    <3>8. TakesStars(d, a) /\ PrecisionTaken(d, a) = d.precision /\ Len(a) = ArgsOf(d)
      <4>1. Star(d.width) => a[1] \in Int
        BY <1>5, Zenon DEF WidthTaken
      <4>2. TakesStars(d, a)
        BY <3>7, <4>1, Zenon DEF TakesStars
      <4>3. PrecisionTaken(d, a) = d.precision
        BY <3>7, Zenon DEF PrecisionTaken
      <4>4. Len(a) = ArgsOf(d)
        BY <1>5, <3>7 DEF ArgsOf
      <4> QED
        BY <4>2, <4>3, <4>4
    <3>9. WidthTaken(d, a)'
      BY <1>0, <1>5 DEF WidthTaken
    <3> QED
      BY <1>6, <3>3, <3>6, <3>7, <3>8, <3>9, PrecisionRead
  <2> QED
    BY <2>4, <2>5
<1> QED
  BY <1>10, <1>11

-----------------------------------------------------------------------------
(* The steps between two directives.                                       *)

\* What is written stays where it is, and what is written next comes after it.
LEMMA Writing ==
  ASSUME NEW u \in Text, NEW v \in Text
  PROVE  /\ \A m, n \in 0..Len(u) : SubSeq(u \o v, m + 1, n) = SubSeq(u, m + 1, n)
         /\ SubSeq(u \o v, Len(u) + 1, Len(u \o v)) = v
<1> DEFINE t == u \o v
<1>1. /\ t \in Text /\ Len(u) \in Nat /\ Len(v) \in Nat /\ Len(t) = Len(u) + Len(v)
      /\ u \in Seq(Letter) /\ v \in Seq(Letter)
  BY TextConcat DEF Text
<1>2. ASSUME NEW m \in 0..Len(u), NEW n \in 0..Len(u) PROVE SubSeq(t, m + 1, n) = SubSeq(u, m + 1, n)
  <2>1. CASE n < m + 1
    <3>1. m + 1 \in Int /\ n \in Int
      BY <1>1
    <3> HIDE DEF t
    <3> QED
      BY <2>1, <3>1, SubSeqEmpty
  <2>2. CASE ~(n < m + 1)
    <3>1. m + 1 \in 1..Len(u) /\ n \in 1..Len(u)
      BY <1>1, <2>2
    <3> QED
      BY <1>1, <3>1, SubSeqOfConcat1, Zenon
  <2> QED
    BY <2>1, <2>2
<1>3. SubSeq(t, Len(u) + 1, Len(t)) = v
  <2>1. CASE Len(v) = 0
    <3>1. v = <<>>
      BY <1>1, <2>1, EmptySeq
    <3>2. Len(u) + 1 \in Int /\ Len(t) \in Int /\ Len(t) < Len(u) + 1
      BY <1>1, <2>1
    <3> HIDE DEF t
    <3>3. SubSeq(t, Len(u) + 1, Len(t)) = <<>>
      BY <3>2, SubSeqEmpty
    <3> QED
      BY <3>1, <3>3
  <2>2. CASE Len(v) # 0
    <3> DEFINE m == Len(u) + 1
               n == Len(u) + Len(v)
    <3>1. /\ m \in (Len(u) + 1)..(Len(u) + Len(v)) /\ n \in (Len(u) + 1)..(Len(u) + Len(v))
          /\ m - Len(u) = 1 /\ n - Len(u) = Len(v)
      BY <1>1, <2>2
    <3> HIDE DEF m, n
    <3>2. SubSeq(u \o v, m, n) = SubSeq(v, m - Len(u), n - Len(u))
      BY <1>1, <3>1, SubSeqOfConcat2, Zenon
    <3>3. SubSeq(v, 1, Len(v)) = v
      BY <1>1, SubSeqFull, Zenon
    <3>4. Len(t) = n
      BY <1>1 DEF n
    <3> QED
      BY <3>1, <3>2, <3>3, <3>4, Zenon DEF m
  <2> QED
    BY <2>1, <2>2
<1> QED
  BY <1>2, <1>3

\* Between two directives fmt points to the next one or to the terminator.
LEMMA CharStart ==
  ASSUME Parsing, pc = "char"
  PROVE  /\ Len(args) \in Nat /\ Len(want) \in Nat
         /\ at = Begin(want, Len(args) + 1) + 1 /\ Begin(want, Len(args) + 1) \in Nat
         /\ Len(args) < Len(want) => c = "%"
         /\ Len(args) = Len(want) => c = NUL
<1> DEFINE k == Len(args)
           n == Len(want)
           B == Begin(want, k + 1)
<1>1. /\ want \in Seq(Directives) /\ fmt = Format(want) /\ k \in Nat /\ n \in Nat /\ k <= n
  BY DEF Parsing, Shape
<1>2. at = B + 1
  BY DEF Parsing, Reads, AtChar
<1>3. B \in Nat
  <2>1. k + 1 \in 1..(n + 1)
    BY <1>1
  <2> QED
    BY <1>1, <2>1, BeginIs
<1>4. ASSUME k < n PROVE c = "%"
  <2> DEFINE i == k + 1
             d == want[i]
  <2>1. i \in 1..n
    BY <1>1, <1>4
  <2>2. d \in Directives
    BY <1>1, <2>1, ElementOfSeq
  <2>3. /\ Begin(want, i + 1) <= Len(Format(want)) /\ Len(Format(want)) \in Nat
        /\ \A j \in 1..(QualEnd(d) + 1) : Format(want)[Begin(want, i) + j] = Render(d)[j]
    BY <1>1, <2>1, FormatAt
  <2>4. Begin(want, i + 1) = Begin(want, i) + QualEnd(d) + 1
    BY <1>1, <2>1, BeginIs
  <2>5. QualEnd(d) \in Nat /\ Render(d)[1] = "%"
    BY <2>2, Rendered
  <2> HIDE DEF d
  <2>6. 1 \in 1..(QualEnd(d) + 1)
    BY <2>5
  <2>7. Format(want)[B + 1] = "%"
    BY <2>3, <2>5, <2>6
  <2>8. B + 1 <= Len(fmt)
    BY <1>1, <1>3, <2>3, <2>4, <2>5
  <2> QED
    BY <1>1, <1>2, <2>7, <2>8 DEF c
<1>5. ASSUME k = n PROVE c = NUL
  <2>1. B = Len(fmt)
    BY <1>1, <1>5, BeginIs
  <2>2. ~(B + 1 <= Len(fmt))
    BY <1>3, <2>1
  <2> QED
    BY <1>2, <2>2 DEF c
<1> QED
  BY <1>1, <1>2, <1>3, <1>4, <1>5

\* A sequence with one more element.
LEMMA OneMore ==
  ASSUME NEW T, NEW u \in Seq(T), NEW x \in T, NEW k \in Nat, Len(u) = k
  PROVE  /\ Append(u, x) \in Seq(T) /\ Len(Append(u, x)) = k + 1 /\ Append(u, x)[k + 1] = x
         /\ \A i \in 1..k : Append(u, x)[i] = u[i]
OBVIOUS

\* A directive begins.
LEMMA PercentStep == ASSUME Parsing, percent PROVE Parsing'
<1>0. /\ pc = "char" /\ c = "%" /\ pc' = "flags" /\ UNCHANGED <<want, fmt, str>>
      /\ flags' = {} /\ field_width' = -1 /\ precision' = -1 /\ qualifier' = ""
      /\ at' = at + 1 /\ args' = Append(args, <<>>) /\ marks' = Append(marks, Len(str))
  BY DEF percent, next_char
<1>a. PICK k \in Nat : k = Len(args)
  BY <1>0, CharStart
<1>1. k < Len(want) /\ Len(want) \in Nat /\ at = Begin(want, k + 1) + 1 /\ Begin(want, k + 1) \in Nat
  <2>1. c # NUL
    BY <1>0 DEF NUL
  <2>2. k <= Len(want)
    BY <1>a DEF Parsing, Shape
  <2>3. /\ Len(want) \in Nat /\ at = Begin(want, k + 1) + 1 /\ Begin(want, k + 1) \in Nat
        /\ k = Len(want) => c = NUL
    BY <1>0, <1>a, CharStart, Zenon
  <2>4. k < Len(want)
    BY <2>1, <2>2, <2>3
  <2> QED
    BY <2>3, <2>4
<1>2. /\ want \in Seq(Directives) /\ fmt = Format(want)
      /\ str \in Text /\ args \in Seq(Seq(Arg)) /\ marks \in Seq(Nat) /\ Len(marks) = k
  BY <1>a DEF Parsing, Shape
<1>3. PICK m \in Nat : m = Len(str)
  BY <1>2, TextConcat
<1>4. <<>> \in Seq(Arg)
  OBVIOUS
<1>5. /\ args' \in Seq(Seq(Arg)) /\ Len(args') = k + 1 /\ args'[k + 1] = <<>>
      /\ \A i \in 1..k : args'[i] = args[i]
  <2>1. /\ Append(args, <<>>) \in Seq(Seq(Arg)) /\ Len(Append(args, <<>>)) = k + 1
        /\ Append(args, <<>>)[k + 1] = <<>> /\ \A i \in 1..k : Append(args, <<>>)[i] = args[i]
    BY <1>2, <1>a, <1>4, OneMore
  <2> QED
    BY <1>0, <2>1, Zenon
<1>6. /\ marks' \in Seq(Nat) /\ Len(marks') = k + 1 /\ marks'[k + 1] = m
      /\ \A i \in 1..k : marks'[i] = marks[i]
  <2>1. /\ Append(marks, m) \in Seq(Nat) /\ Len(Append(marks, m)) = k + 1
        /\ Append(marks, m)[k + 1] = m /\ \A i \in 1..k : Append(marks, m)[i] = marks[i]
    BY <1>2, OneMore
  <2> QED
    BY <1>0, <1>3, <2>1, Zenon
<1>s. Len(str') = m
  BY <1>0, <1>3
<1>7. Shape'
  <2>1. k + 1 <= Len(want)
    BY <1>1
  <2>2. UNCHANGED <<want, fmt, str>>
    BY <1>0
  <2> QED
    BY <1>2, <1>5, <1>6, <2>1, <2>2, Zenon DEF Shape
<1>8. \A i \in 1..k : marks[i] <= m /\ (i < k => marks[i] <= marks[i + 1])
  BY <1>2, <1>3 DEF Parsing, Ordered
<1>9. Ordered'
  <2> SUFFICES ASSUME NEW i \in 1..(k + 1)
               PROVE  marks'[i] <= m /\ (i < k + 1 => marks'[i] <= marks'[i + 1])
    BY <1>6, <1>s, Zenon DEF Ordered
  <2>1. CASE i = k + 1
    BY <1>6, <2>1
  <2>2. CASE i = k
    <3>1. k \in 1..k
      BY <2>2
    <3> QED
      BY <1>6, <1>8, <2>2, <3>1
  <2>3. CASE i # k + 1 /\ i # k
    <3>1. i \in 1..k /\ i + 1 \in 1..k /\ i < k
      BY <2>3
    <3>2. marks'[i] = marks[i] /\ marks'[i + 1] = marks[i + 1]
      BY <1>6, <3>1
    <3> QED
      BY <1>8, <3>1, <3>2
  <2> QED
    BY <2>1, <2>2, <2>3
<1>10. Kept'
  <2> SUFFICES ASSUME NEW i \in 1..(k + 1), i < k + 1
               PROVE  Promised(want[i], Slice(i)', args'[i], marks'[i])
    BY <1>0, <1>6 DEF Kept
  <2>1. i \in 1..k
    BY <1>1
  <2>2. Promised(want[i], Slice(i), args[i], marks[i])
    BY <1>0, <1>2, <2>1 DEF Parsing, Kept
  <2>3. args'[i] = args[i] /\ marks'[i] = marks[i]
    BY <1>5, <1>6, <2>1
  <2>4. (IF i < Len(marks') THEN marks'[i + 1] ELSE Len(str')) = IF i < Len(marks) THEN marks[i + 1] ELSE Len(str)
    <3>1. CASE i = k
      <4>1. i < k + 1 /\ ~(i < k)
        BY <3>1
      <4> QED
        BY <1>2, <1>3, <1>6, <3>1, <4>1, Zenon
    <3>2. CASE i # k
      <4>1. i + 1 \in 1..k /\ i < k /\ i < k + 1
        BY <2>1, <3>2
      <4> QED
        BY <1>2, <1>6, <4>1, Zenon
    <3> QED
      BY <3>1, <3>2
  <2>5. Slice(i)' = Slice(i)
    BY <1>0, <2>3, <2>4, Zenon DEF Slice
  <2> QED
    BY <2>2, <2>3, <2>5
<1>11. InDirective'
  <2>1. k + 1 > 0
    OBVIOUS
  <2> QED
    BY <1>5, <1>6, <1>s, <2>1, Zenon DEF InDirective
<1>12. AtFlags'
  <2>a. PICK d : d = want[k + 1]
    OBVIOUS
  <2>b. PICK b \in Nat : b = Begin(want, k + 1)
    BY <1>1
  <2>1. d \in Directives
    <3>1. k + 1 \in 1..Len(want)
      BY <1>1
    <3> QED
      BY <1>2, <2>a, <3>1, ElementOfSeq
  <2>2. Now' = d /\ Took' = <<>> /\ Begin(want, Len(args))' = b
    BY <1>0, <1>5, <2>a, <2>b, Zenon DEF Now, Took
  <2>3. Len(d.flags) \in Nat
    BY <2>1, Rendered
  <2>4. 0 \in 0..Len(d.flags)
    BY <2>3
  <2>6. at' = b + (2 + 0)
    <3>1. at = b + 1 /\ at' = at + 1
      BY <1>0, <1>1, <2>b
    <3> QED
      BY <3>1
  <2>5. flags' = Named(d, 0)
    <3>1. 1..0 = {}
      OBVIOUS
    <3>2. Named(d, 0) = {}
      BY <3>1 DEF Named
    <3> QED
      BY <1>0, <3>2
  <2>7. \E j \in 0..Len(d.flags) : at' = b + (2 + j) /\ flags' = Named(d, j)
    BY <2>4, <2>5, <2>6
  <2> QED
    BY <1>0, <2>2, <2>7, Zenon DEF AtFlags, Seen
<1> QED
  BY <1>0, <1>7, <1>9, <1>10, <1>11, <1>12, NextPart, ParsingBy

\* Every character belongs to a directive, so none is literal.
LEMMA LiteralStep == Parsing /\ literal => FALSE
<1> SUFFICES ASSUME Parsing, literal PROVE FALSE
  OBVIOUS
<1>1. pc = "char" /\ c # "%" /\ c # NUL
  BY DEF literal
<1>2. Len(args) <= Len(want)
  BY DEF Parsing, Shape
<1> QED
  BY <1>1, <1>2, CharStart

\* The terminator comes after the last directive.
LEMMA EndStep == ASSUME Parsing, end PROVE Parsing'
<1>0. pc = "char" /\ c = NUL /\ pc' = "done" /\ UNCHANGED <<want, fmt, at, directive, str, args, marks>>
  BY DEF end
<1>1. Len(args) = Len(want)
  <2>1. c # "%"
    BY <1>0 DEF NUL
  <2>2. Len(args) <= Len(want)
    BY DEF Parsing, Shape
  <2> QED
    BY <1>0, <2>1, <2>2, CharStart
<1>2. AtDone'
  BY <1>0, <1>1 DEF AtDone
<1>3. Shape' /\ Ordered'
  BY <1>0 DEF Parsing, Shape, Ordered
<1>4. Kept'
  BY <1>0 DEF Parsing, Kept, Slice
<1>5. InDirective'
  BY <1>0 DEF InDirective
<1> QED
  BY <1>0, <1>2, <1>3, <1>4, <1>5, NextPart, ParsingBy

-----------------------------------------------------------------------------
(* The steps that write.                                                   *)

\* What each conversion promises of its text.
LEMMA RightBy ==
  ASSUME NEW t, NEW d, NEW a
  PROVE  /\ d.conv = "%" => (Right(t, d, a) <=> t = <<"%">>)
         /\ d.conv = "c" => (Right(t, d, a) <=> Justified(t, <<a[Len(a)]>>, d, a))
         /\ d.conv = "s" => (Right(t, d, a) <=> Justified(t, Cut(a[Len(a)], PrecisionTaken(d, a)), d, a))
         /\ d.conv = "n" => (Right(t, d, a) <=> t = <<>>)
         /\ d.conv \in {"p", "o", "x", "X", "d", "i", "u"} => (Right(t, d, a) <=> NumberRight(t, d, a))
<1>1. CASE d.conv = "%"
  BY <1>1 DEF Right
<1>2. CASE d.conv = "c"
  BY <1>2 DEF Right
<1>3. CASE d.conv = "s"
  BY <1>3 DEF Right, Cut
<1>4. CASE d.conv = "n"
  BY <1>4 DEF Right
<1>5. CASE d.conv \in {"p", "o", "x", "X", "d", "i", "u"}
  BY <1>5 DEF Right
<1> QED
  BY <1>1, <1>2, <1>3, <1>4, <1>5

\* The argument a conversion takes comes after those of the stars.
LEMMA OwnArgument ==
  ASSUME NEW d \in Directives, NEW a \in Seq(Arg), Len(a) = ArgsOf(d), Ready(d, a), NEW x \in Arg
  PROVE  /\ Append(a, x) \in Seq(Arg) /\ Len(Append(a, x)) = ArgsOf(d) + 1
         /\ Append(a, x)[ArgsOf(d) + 1] = x /\ Append(a, x)[Len(Append(a, x))] = x
         /\ Ready(d, Append(a, x))
<1> DEFINE e == Append(a, x)
<1>1. e \in Seq(Arg) /\ Len(e) = Len(a) + 1 /\ e[Len(a) + 1] = x /\ \A i \in 1..Len(a) : e[i] = a[i]
  BY Earlier, Zenon
<1> HIDE DEF e
<1>2. Star(d.width) => 1 \in 1..Len(a)
  BY DEF ArgsOf
<1>3. Star(d.precision) => (IF Star(d.width) THEN 2 ELSE 1) \in 1..Len(a)
  BY DEF ArgsOf
<1>4. Ready(d, e)
  <2>1. Star(d.width) => a[1] = e[1]
    BY <1>1, <1>2, Zenon
  <2>2. Star(d.precision) => a[IF Star(d.width) THEN 2 ELSE 1] = e[IF Star(d.width) THEN 2 ELSE 1]
    BY <1>1, <1>3, Zenon
  <2> QED
    BY <2>1, <2>2, SameStars
<1>5. e \in Seq(Arg) /\ Len(e) = ArgsOf(d) + 1 /\ e[ArgsOf(d) + 1] = x /\ e[Len(e)] = x
  BY <1>1
<1> QED
  BY <1>4, <1>5 DEF e

\* A directive that has written what it promises leaves all that was written as it was.
LEMMA Wrote ==
  ASSUME Parsing, pc = "convert", pc' = "char", UNCHANGED <<want, fmt, marks>>, next_char,
         NEW t \in Text, Writes(t), NEW e, args' \in Seq(Seq(Arg)), Len(args') = Len(args),
         args'[Len(args)] = e, \A i \in 1..(Len(args) - 1) : args'[i] = args[i],
         Promised(Now, t, e, Len(str))
  PROVE  Parsing'
<1>0. InProgress
  BY DEF InProgress
<1>1. PICK k \in Nat : k = Len(args)
  BY <1>0, Current
<1>2. PICK d \in Directives : d = Now
  BY <1>0, Current
<1>3. /\ k \in 1..Len(want) /\ Len(want) \in Nat /\ Len(marks) = k /\ marks[k] = Len(str)
      /\ Begin(want, k) \in Nat
  BY <1>0, <1>1, Current, Zenon
<1>4. /\ want \in Seq(Directives) /\ fmt = Format(want) /\ str \in Text /\ marks \in Seq(Nat)
  BY DEF Parsing, Shape
<1>5. /\ str' \in Text /\ Len(str) \in Nat /\ Len(t) \in Nat /\ Len(str') = Len(str) + Len(t)
  BY <1>4, TextConcat DEF Writes
<1>6. Shape'
  <2>1. k <= Len(want)
    BY <1>3
  <2> QED
    BY <1>1, <1>3, <1>4, <1>5, <2>1, Zenon DEF Shape
<1>7. \A i \in 1..k : marks[i] \in 0..Len(str) /\ (i < k => marks[i] <= marks[i + 1])
  <2>1. \A i \in 1..k : marks[i] \in Nat
    BY <1>3, <1>4, ElementOfSeq
  <2> QED
    BY <1>3, <1>5, <2>1 DEF Parsing, Ordered
<1>8. Ordered'
  <2>1. ASSUME NEW i \in 1..k PROVE marks[i] <= Len(str')
    <3>1. \A m \in 0..Len(str) : m <= Len(str')
      <4>1. \A u, v \in Nat : \A m \in 0..u : m <= u + v
        OBVIOUS
      <4> QED
        BY <1>5, <4>1, Zenon
    <3> QED
      BY <1>7, <3>1, Zenon
  <2> QED
    BY <1>3, <1>7, <2>1, Zenon DEF Ordered
<1>9. Kept'
  <2> SUFFICES ASSUME NEW i \in 1..k PROVE Promised(want[i], Slice(i)', args'[i], marks[i])
    BY <1>3, Zenon DEF Kept
  <2>1. CASE i = k
    <3>1. Slice(i)' = SubSeq(str \o t, Len(str) + 1, Len(str \o t))
      <4>1. ~(i < Len(marks))
        BY <1>3, <2>1
      <4> QED
        BY <1>3, <2>1, <4>1, Zenon DEF Slice, Writes
    <3>2. Slice(i)' = t
      BY <1>4, <3>1, Writing, Zenon
    <3> QED
      BY <1>1, <1>3, <2>1, <3>2, Zenon DEF Now
  <2>2. CASE i # k
    <3>1. i < k /\ i \in 1..(k - 1) /\ i + 1 \in 1..k
      BY <2>2
    <3>2. Promised(want[i], Slice(i), args[i], marks[i])
      BY <1>3, <3>1 DEF Parsing, Kept
    <3>3. Slice(i)' = SubSeq(str \o t, marks[i] + 1, marks[i + 1]) /\ Slice(i) = SubSeq(str, marks[i] + 1, marks[i + 1])
      BY <1>3, <3>1, Zenon DEF Slice, Writes
    <3>4. Slice(i)' = Slice(i)
      BY <1>4, <1>7, <3>1, <3>3, Writing, Zenon
    <3>5. args'[i] = args[i]
      BY <1>1, <3>1
    <3> QED
      BY <3>2, <3>4, <3>5, Zenon
  <2> QED
    BY <2>1, <2>2
<1>10. InDirective'
  BY DEF InDirective
<1>11. AtChar'
  <2>1. at = Begin(want, k) + (QualEnd(d) + 1)
    BY <1>1, <1>2, Zenon DEF Parsing, Reads, AtConvert, Seen
  <2>2. d = want[k]
    BY <1>1, <1>2 DEF Now
  <2>3. Begin(want, k + 1) = Begin(want, k) + QualEnd(d) + 1
    BY <1>3, <1>4, <2>2, BeginIs
  <2>4. QualEnd(d) \in Nat
    BY Rendered
  <2>5. at' = Begin(want, k + 1) + 1
    BY <1>3, <2>1, <2>3, <2>4 DEF next_char
  <2> QED
    BY <1>1, <2>5, Zenon DEF AtChar
<1> QED
  BY <1>6, <1>8, <1>9, <1>10, <1>11, NextPart, ParsingBy

\* A conversion with an argument of its own.
LEMMA Converted ==
  ASSUME Parsing, pc = "convert", pc' = "char", UNCHANGED <<want, fmt, marks>>, next_char,
         NEW d \in Directives, d = Now, d.conv # "%", NEW a \in Seq(Arg), a = Took, NEW x \in Arg, Takes(x),
         d.conv = "n" => x = Len(str), NEW t \in Text, Writes(t), Right(t, d, Append(a, x))
  PROVE  Parsing'
<1>0. InProgress
  BY DEF InProgress
<1>1. Len(args) \in Nat /\ Len(args) # 0
  BY <1>0, Current
<1>2. args \in Seq(Seq(Arg))
  BY DEF Parsing, Shape
<1>3. Ready(d, a) /\ Len(a) = ArgsOf(d)
  BY Zenon DEF Parsing, Reads, AtConvert
<1> DEFINE e == Append(a, x)
<1>4. /\ args' \in Seq(Seq(Arg)) /\ Len(args') = Len(args) /\ args'[Len(args)] = e
      /\ \A i \in 1..(Len(args) - 1) : args'[i] = args[i]
  BY <1>1, <1>2, TakesIs
<1>5. Len(e) = ArgsOf(d) + 1 /\ e[ArgsOf(d) + 1] = x
  BY <1>3, OwnArgument, Zenon
<1> HIDE DEF e
<1>6. Promised(d, t, e, Len(str))
  BY <1>5 DEF Promised, e
<1> QED
  BY <1>4, <1>6, Wrote

\* What the conversion is, and what was read before it.
LEMMA AtConversion ==
  ASSUME Parsing, pc = "convert"
  PROVE  /\ Now \in Directives /\ Took \in Seq(Arg) /\ Ready(Now, Took) /\ Len(Took) = ArgsOf(Now)
         /\ c = Now.conv /\ c \in Conversions
<1>0. InProgress
  BY DEF InProgress
<1>1. Now \in Directives /\ Took \in Seq(Arg)
  BY <1>0, Current
<1>2. Ready(Now, Took) /\ Len(Took) = ArgsOf(Now) /\ Seen(QualEnd(Now) + 1)
  BY DEF Parsing, Reads, AtConvert
<1>3. PICK d \in Directives : d = Now
  BY <1>1
<1>4. QualEnd(d) + 1 \in 1..(QualEnd(d) + 1) /\ Render(d)[QualEnd(d) + 1] = d.conv /\ d.conv \in Conversions
  BY Rendered, DirectiveIs
<1>5. c = Render(Now)[QualEnd(Now) + 1]
  BY <1>0, <1>2, <1>3, <1>4, CharIs, Zenon
<1> QED
  BY <1>1, <1>2, <1>3, <1>4, <1>5, Zenon

\* What a caller passes.
LEMMA ArgumentsAre ==
  /\ Words \subseteq Arg /\ Chars \subseteq Arg /\ Strings \subseteq Arg
<1>1. Words \subseteq Int /\ Chars \subseteq STRING /\ Strings \subseteq Seq(STRING)
  <2>1. 0..(LONG - 1) \subseteq Int
    OBVIOUS
  <2> QED
    BY <2>1, ArgumentsAssumption
<1>2. STRING \subseteq Letter
  BY DEF Letter
<1>3. \A s \in Strings : s \in Text
  BY <1>1, StringText
<1> QED
  BY <1>1, <1>2, <1>3 DEF Arg

\* Whatever the conversion, the directive writes what it promises.
LEMMA ConvertStep == ASSUME Parsing, convert PROVE Parsing'
<1>0. pc = "convert" /\ pc' = "char" /\ UNCHANGED <<want, fmt, marks>>
  BY DEF convert
<1>1. PICK d \in Directives : d = Now
  BY <1>0, AtConversion
<1>2. PICK a \in Seq(Arg) : a = Took
  BY <1>0, AtConversion
<1>3. c = d.conv /\ c \in Conversions /\ Ready(d, a) /\ Len(a) = ArgsOf(d)
  BY <1>0, <1>1, <1>2, AtConversion, Zenon
<1>4. \A x \in Arg : Ready(d, Append(a, x)) /\ Append(a, x)[Len(Append(a, x))] = x
  BY <1>3, OwnArgument, Zenon
<1>5. CASE convert_char
  <2>1. PICK x \in Chars : /\ Takes(x)
                           /\ Writes(IF left_justified THEN <<x>> \o Spaces(1) ELSE Spaces(1) \o <<x>>)
    BY <1>5 DEF convert_char
  <2>2. next_char /\ d.conv = "c"
    BY <1>3, <1>5 DEF convert_char
  <2>3. x \in Arg
    BY ArgumentsAre
  <2> DEFINE e == Append(a, x)
             t == IF left_justified THEN <<x>> \o Spaces(1) ELSE Spaces(1) \o <<x>>
  <2>4. Ready(d, e) /\ e[Len(e)] = x
    BY <1>4, <2>3
  <2> HIDE DEF e
  <2>5. t \in Text /\ Justified(t, <<e[Len(e)]>>, d, e)
    BY <2>2, <2>4, CharRight, Zenon
  <2> HIDE DEF t
  <2>6. Right(t, d, e)
    BY <2>2, <2>5, RightBy, Zenon
  <2>7. d.conv # "%" /\ d.conv # "n"
    BY <2>2
  <2> QED
    BY <1>0, <1>1, <1>2, <2>1, <2>2, <2>3, <2>5, <2>6, <2>7, Converted, Zenon DEF e, t
<1>6. CASE convert_string
  <2>1. PICK s \in Strings :
          LET part == SubSeq(s, 1, strnlen(s, precision))
          IN /\ Takes(s)
             /\ Writes(IF left_justified THEN part \o Spaces(Len(part)) ELSE Spaces(Len(part)) \o part)
    BY <1>6 DEF convert_string
  <2>2. next_char /\ d.conv = "s"
    BY <1>3, <1>6 DEF convert_string
  <2>3. s \in Arg
    BY ArgumentsAre
  <2> DEFINE e == Append(a, s)
             part == SubSeq(s, 1, strnlen(s, precision))
             t == IF left_justified THEN part \o Spaces(Len(part)) ELSE Spaces(Len(part)) \o part
  <2>a. Takes(s) /\ Writes(t)
    BY <2>1
  <2>4. Ready(d, e) /\ e[Len(e)] = s
    BY <1>4, <2>3
  <2> HIDE DEF e
  <2>5. t \in Text /\ Justified(t, Cut(s, PrecisionTaken(d, e)), d, e)
    BY <2>2, <2>4, StringRight, Zenon
  <2> HIDE DEF t
  <2>6. Right(t, d, e)
    BY <2>2, <2>4, <2>5, RightBy, Zenon
  <2>7. d.conv # "%" /\ d.conv # "n"
    BY <2>2
  <2> QED
    BY <1>0, <1>1, <1>2, <2>a, <2>2, <2>3, <2>5, <2>6, <2>7, Converted, Zenon DEF e
<1>7. CASE convert_pointer
  <2> DEFINE T(x) == IF field_width = -1 THEN number(x, 16, 8, precision, flags \cup {"ZEROPAD"})
                     ELSE number(x, 16, field_width, precision, flags)
  <2>1. PICK x \in Words : Takes(x) /\ Writes(T(x))
    BY <1>7 DEF convert_pointer
  <2>2. next_char /\ d.conv = "p"
    BY <1>3, <1>7 DEF convert_pointer
  <2>3. x \in Arg
    BY ArgumentsAre
  <2> DEFINE e == Append(a, x)
             t == T(x)
  <2>4. Ready(d, e) /\ e[Len(e)] = x
    BY <1>4, <2>3
  <2> HIDE DEF e
  <2>5. t \in Text /\ NumberRight(t, d, e)
    BY <2>2, <2>4, PointerRight
  <2> HIDE DEF t, T
  <2>6. Right(t, d, e)
    BY <2>2, <2>5, RightBy
  <2>7. d.conv # "%" /\ d.conv # "n"
    BY <2>2
  <2> QED
    BY <1>0, <1>1, <1>2, <2>1, <2>2, <2>3, <2>5, <2>6, <2>7, Converted, Zenon DEF e, t
<1>8. CASE convert_count
  <2>1. Takes(Len(str)) /\ Writes(<<>>) /\ next_char /\ d.conv = "n"
    BY <1>3, <1>8 DEF convert_count
  <2>2. Len(str) \in Arg
    <3>1. Len(str) \in Nat
      BY TextConcat DEF Parsing, Shape
    <3> QED
      BY <3>1 DEF Arg
  <2>3. <<>> \in Text /\ Right(<<>>, d, Append(a, Len(str)))
    <3>1. <<>> \in Text
      BY DEF Text
    <3>2. Right(<<>>, d, Append(a, Len(str)))
      BY <2>1, RightBy, Zenon
    <3> QED
      BY <3>1, <3>2
  <2>4. d.conv # "%"
    BY <2>1
  <2> QED
    BY <1>0, <1>1, <1>2, <2>1, <2>2, <2>3, <2>4, Converted, Zenon
<1>9. CASE convert_percent
  <2>1. Writes(<<"%">>) /\ next_char /\ UNCHANGED args /\ d.conv = "%"
    BY <1>3, <1>9 DEF convert_percent
  <2>2. <<"%">> \in Text /\ Right(<<"%">>, d, a)
    <3>1. "%" \in Letter
      BY DEF Letter
    <3>2. <<"%">> \in Text
      BY <3>1 DEF Text
    <3>3. Right(<<"%">>, d, a)
      BY <2>1, RightBy, Zenon
    <3> QED
      BY <3>2, <3>3
  <2>3. Len(a) = ArgsOf(d) + 0
    <3>1. ArgsOf(d) \in Nat
      BY DEF ArgsOf
    <3> QED
      BY <1>3, <3>1
  <2>4. Promised(d, <<"%">>, a, Len(str))
    BY <2>1, <2>2, <2>3 DEF Promised
  <2>5. args' \in Seq(Seq(Arg)) /\ Len(args') = Len(args) /\ args'[Len(args)] = a /\ args' = args
    BY <1>2, <2>1 DEF Parsing, Shape, Took
  <2> QED
    BY <1>0, <1>1, <2>1, <2>2, <2>4, <2>5, Wrote
<1>10. CASE convert_number
  <2> DEFINE base == CASE c = "o" -> 8 [] c \in {"x", "X"} -> 16 [] OTHER -> 10
             type == CASE c = "x" -> flags \cup {"SMALL"} [] c \in {"d", "i"} -> flags \cup {"SIGN"} [] OTHER -> flags
  <2>1. PICK x \in Words : Takes(x) /\ Writes(number(Fetched(x, type), base, field_width, precision, type))
    BY <1>10 DEF convert_number
  <2>2. next_char /\ d.conv \in {"o", "x", "X", "d", "i", "u"}
    BY <1>3, <1>10 DEF convert_number
  <2>3. x \in Arg
    BY ArgumentsAre
  <2>a. base = IF d.conv = "o" THEN 8 ELSE IF d.conv \in {"x", "X"} THEN 16 ELSE 10
    BY <1>3, <2>2
  <2>b. type = IF d.conv = "x" THEN flags \cup {"SMALL"}
               ELSE IF d.conv \in {"d", "i"} THEN flags \cup {"SIGN"} ELSE flags
    BY <1>3, <2>2
  <2> DEFINE e == Append(a, x)
             t == number(Fetched(x, type), base, field_width, precision, type)
  <2>4. Ready(d, e) /\ e[Len(e)] = x
    BY <1>4, <2>3
  <2> HIDE DEF e, base, type
  <2>5. t \in Text /\ NumberRight(t, d, e)
    BY <2>2, <2>4, <2>a, <2>b, NumberedRight
  <2> HIDE DEF t
  <2>6. d.conv \in {"p", "o", "x", "X", "d", "i", "u"} /\ d.conv # "%" /\ d.conv # "n"
    BY <2>2
  <2>7. Right(t, d, e)
    BY <2>5, <2>6, RightBy, Zenon
  <2> QED
    BY <1>0, <1>1, <1>2, <2>1, <2>2, <2>3, <2>5, <2>6, <2>7, Converted, Zenon DEF e, t
<1>11. CASE convert_other
  BY <1>3, <1>11 DEF convert_other, Conversions
<1> QED
  BY <1>5, <1>6, <1>7, <1>8, <1>9, <1>10, <1>11 DEF convert

-----------------------------------------------------------------------------
(* Every directive of every format.                                        *)

\* The invariant holds at first.
LEMMA FollowsInit == Init => Follows
<1> SUFFICES ASSUME Init, want # <<>> PROVE Parsing
  BY DEF Follows
<1>1. /\ want \in Wanted /\ fmt = Format(want)
      /\ at = 1 /\ pc = "char" /\ str = <<>> /\ args = <<>> /\ marks = <<>>
  BY DEF Init
<1>2. want \in Seq(Directives)
  BY <1>1, DirectivesAssumption
<1>3. Len(args) = 0 /\ Len(marks) = 0 /\ Len(want) \in Nat
  BY <1>1, <1>2
<1>4. Shape
  <2>1. str \in Text /\ args \in Seq(Seq(Arg)) /\ marks \in Seq(Nat)
    BY <1>1 DEF Text
  <2>2. Len(args) <= Len(want)
    BY <1>3
  <2> QED
    BY <1>1, <1>2, <1>3, <2>1, <2>2 DEF Shape
<1>5. 1..Len(marks) = {}
  BY <1>3
<1>6. Ordered /\ Kept
  BY <1>5 DEF Ordered, Kept
<1>7. InDirective
  BY <1>1 DEF InDirective
<1>8. AtChar
  <2>1. Begin(want, Len(args) + 1) = 0
    <3>1. Begin(want, 1) = 0
      BY <1>2, BeginIs
    <3>2. Len(args) + 1 = 1
      BY <1>3
    <3> QED
      BY <3>1, <3>2
  <2> QED
    BY <1>1, <2>1 DEF AtChar
<1>9. Reads
  BY <1>1, <1>8 DEF Reads, AtChar, AtDone, AtFlags, AtWidth, AtPoint, AtPrecision, AtQualifier, AtConvert
<1> QED
  BY <1>4, <1>6, <1>7, <1>9 DEF Parsing

\* Nothing of the invariant looks beyond the state.
LEMMA FollowsStutter == Parsing /\ UNCHANGED vars => Parsing'
<1> SUFFICES ASSUME Parsing, UNCHANGED vars PROVE Parsing'
  OBVIOUS
<1>0. UNCHANGED <<want, fmt, at, pc, flags, field_width, precision, qualifier, str, args, marks>>
  BY DEF vars
<1>1. Shape' /\ Ordered' /\ InDirective'
  BY <1>0 DEF Parsing, Shape, Ordered, InDirective
<1>2. Kept'
  BY <1>0 DEF Parsing, Kept, Slice
<1>3. Reads'
  BY <1>0 DEF Parsing, Reads, AtChar, AtDone, AtFlags, AtWidth, AtPoint, AtPrecision, AtQualifier,
              AtConvert, Now, Took, Seen, WidthTaken, Ready
<1> QED
  BY <1>1, <1>2, <1>3, ParsingBy

\* And every step keeps it.
LEMMA FollowsNext == Follows /\ [Next]_vars => Follows'
<1> SUFFICES ASSUME Follows, [Next]_vars, want' # <<>> PROVE Parsing'
  BY DEF Follows
<1>1. want' = want
  BY DEF Next, vars, literal, percent, flag, width, point, prec, qualify, convert, end
<1>2. Parsing
  BY <1>1 DEF Follows
<1>3. CASE literal
  BY <1>2, <1>3, LiteralStep
<1>4. CASE percent
  BY <1>2, <1>4, PercentStep
<1>5. CASE flag
  BY <1>2, <1>5, FlagStep
<1>6. CASE width
  BY <1>2, <1>6, WidthStep
<1>7. CASE point
  BY <1>2, <1>7, PointStep
<1>8. CASE prec
  BY <1>2, <1>8, PrecStep
<1>9. CASE qualify
  BY <1>2, <1>9, QualifyStep
<1>10. CASE convert
  BY <1>2, <1>10, ConvertStep
<1>11. CASE end
  BY <1>2, <1>11, EndStep
<1>12. CASE UNCHANGED vars
  BY <1>2, <1>12, FollowsStutter
<1> QED
  BY <1>3, <1>4, <1>5, <1>6, <1>7, <1>8, <1>9, <1>10, <1>11, <1>12, Zenon DEF Next

\* At the end of a format every directive is done.
LEMMA FollowsRight == Follows => FormatsRight
<1> SUFFICES ASSUME Follows, pc = "done", want # <<>>
             PROVE  /\ Len(marks) = Len(want)
                    /\ \A k \in 1..Len(want) :
                         LET d == want[k]
                             t == SubSeq(str, marks[k] + 1, IF k < Len(want) THEN marks[k + 1] ELSE Len(str))
                             stars == (IF Star(d.width) THEN 1 ELSE 0) + (IF Star(d.precision) THEN 1 ELSE 0)
                         IN /\ Len(args[k]) = stars + (IF d.conv = "%" THEN 0 ELSE 1)
                            /\ d.conv = "n" => args[k][stars + 1] = marks[k]
                            /\ Right(t, d, args[k])
  BY Zenon DEF FormatsRight
<1>1. Parsing
  BY DEF Follows
<1>2. Len(marks) = Len(want)
  BY <1>1 DEF Parsing, Shape, Reads, AtDone
<1>3. ASSUME NEW k \in 1..Len(want)
      PROVE  Promised(want[k], Slice(k), args[k], marks[k])
  BY <1>1, <1>2, <1>3 DEF Parsing, Kept
<1> QED
  BY <1>2, <1>3, Zenon DEF Promised, Slice, ArgsOf

\* Every directive of a format, of any length and with any flags, takes its own arguments in
\* their order, stores the right count for %n and writes what it promises.
THEOREM Formats == Spec => []FormatsRight
<1>1. Init => Follows
  BY FollowsInit
<1>2. Follows /\ [Next]_vars => Follows'
  BY FollowsNext
<1>3. Follows => FormatsRight
  BY FollowsRight
<1> QED
  BY <1>1, <1>2, <1>3, PTL DEF Spec
=============================================================================

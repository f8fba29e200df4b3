--------------------------- MODULE ConsoleProofs ----------------------------
(***************************************************************************)
(* Proofs about Console, for a buffer, names and lines of any length: the  *)
(* console edits one line and runs what it says, as LineEditor promises,   *)
(* until a byte is stored outside the buffer.                              *)
(***************************************************************************)
EXTENDS Console, TLAPS, SequenceTheorems, WellFoundedInduction

Byte == Char \cup {NUL}

\* The line lies in the buffer, until a byte is stored outside.
LineInside == ~wild => cmd.pos <= MAXSIZE_CMD

-----------------------------------------------------------------------------
(* The operators of the model.                                             *)

\* A set of natural numbers has a least element.
LEMMA Least ==
  ASSUME NEW T \in SUBSET Nat, T # {}
  PROVE  \E m \in T : \A n \in T : m <= n
<1> DEFINE R == OpToRel(<, Nat)
<1>1. IsWellFoundedOn(R, Nat)
  BY NatLessThanWellFounded
<1>2. \A x, y \in Nat : <<y, x>> \in R <=> y < x
  BY DEF OpToRel
<1> HIDE DEF R
<1>3. PICK x \in T : \A y \in T : ~ (<<y, x>> \in R)
  BY <1>1, WFMin
<1>4. \A y \in T : ~ (y < x)
  BY <1>2, <1>3
<1> QED
  BY <1>4

\* findcmd finds the first of the names the buffer starts with, if there is one.
LEMMA FindCmd ==
  ASSUME NEW buffer
  PROVE  LET found == {k \in 1..Len(Names) : strncmp_zero(Names[k], buffer, Len(Names[k]))}
         IN IF found = {} THEN findcmd(buffer) = NOT_FOUND
            ELSE /\ findcmd(buffer) = Names[CHOOSE k \in found : \A other \in found : k <= other]
                 /\ (CHOOSE k \in found : \A other \in found : k <= other) \in found
<1> DEFINE found == {k \in 1..Len(Names) : strncmp_zero(Names[k], buffer, Len(Names[k]))}
<1>1. Len(Names) \in Nat /\ found \subseteq 1..Len(Names)
  BY NamesAssumption
<1>2. found = {k \in 1..Len(Names) : strncmp_zero(Names[k], buffer, Len(Names[k]))}
  OBVIOUS
<1> HIDE DEF found
<1>3. CASE found = {}
  BY <1>2, <1>3 DEF findcmd, SelectInSeq
<1>4. CASE found # {}
  <2>1. found \in SUBSET Nat
    BY <1>1
  <2>2. \E k \in found : \A other \in found : k <= other
    BY <1>4, <2>1, Least
  <2> DEFINE first == CHOOSE k \in found : \A other \in found : k <= other
  <2>3. first \in found
    BY <2>2
  <2>4. Min(found) = first
    BY DEF Min
  <2> HIDE DEF first
  <2>5. first # 0
    BY <1>1, <2>3
  <2>6. findcmd(buffer) = Names[first]
    BY <1>2, <1>4, <2>4, <2>5 DEF findcmd, SelectInSeq
  <2> QED
    BY <2>3, <2>6 DEF first, found
<1> QED
  BY <1>3, <1>4 DEF found

-----------------------------------------------------------------------------
(* Types.                                                                  *)

Lines == [cmd : [0..(MAXSIZE_CMD - 1) -> Char \cup {NUL}], pos : 0..LineLimit, count : 0..LineLimit]

\* Storing a byte changes no more than the buffer, and nothing outside it.
LEMMA PutTyped ==
  ASSUME TypeOK, NEW ch \in Byte, NEW k \in Nat
  PROVE  /\ Put(k, ch) \in Lines /\ Put(k, ch).pos = cmd.pos /\ Put(k, ch).count = cmd.count
         /\ \A m \in 0..(MAXSIZE_CMD - 1) : Put(k, ch).cmd[m] = IF m = k THEN ch ELSE cmd.cmd[m]
<1>1. cmd \in Lines /\ cmd.cmd \in [0..(MAXSIZE_CMD - 1) -> Char \cup {NUL}]
  BY DEF TypeOK, Lines
<1>2. CASE k < MAXSIZE_CMD
  <2>1. [cmd.cmd EXCEPT ![k] = ch] \in [0..(MAXSIZE_CMD - 1) -> Char \cup {NUL}]
    BY <1>1 DEF Byte
  <2>2. Put(k, ch) = [cmd EXCEPT !.cmd = [cmd.cmd EXCEPT ![k] = ch]]
    BY <1>1, <1>2 DEF Put, Inside, Lines
  <2> QED
    BY <1>1, <1>2, <2>1, <2>2, LimitAssumption DEF Lines
<1>3. CASE ~(k < MAXSIZE_CMD)
  BY <1>1, <1>3, LimitAssumption DEF Put, Inside
<1> QED
  BY <1>2, <1>3

LEMMA InitTyped == Init => TypeOK /\ LineInside
<1> SUFFICES ASSUME Init PROVE TypeOK /\ LineInside
  OBVIOUS
<1> QED
  BY LimitAssumption DEF Init, TypeOK, LineInside

LEMMA StepTyped == TypeOK /\ LineInside /\ [Next]_vars => TypeOK' /\ LineInside'
<1> SUFFICES ASSUME TypeOK, LineInside, [Next]_vars PROVE TypeOK' /\ LineInside'
  OBVIOUS
<1> DEFINE Results == {NOTHING, NOT_FOUND, TOO_LONG} \cup {Names[k] : k \in 1..Len(Names)}
<1>1. ASSUME NEW ch \in Byte, insert_char(ch) PROVE TypeOK' /\ LineInside'
  <2> DEFINE stored == Put(cmd.pos, ch)
  <2>1. stored \in Lines /\ stored.pos = cmd.pos /\ stored.count = cmd.count
    BY PutTyped, LimitAssumption DEF TypeOK
  <2> HIDE DEF stored
  <2>2. cmd' = [stored EXCEPT !.pos = cmd.pos + 1, !.count = cmd.count + 1]
    BY <1>1, <2>1 DEF insert_char, stored, Lines
  <2>3. cmd.pos = cmd.count /\ cmd.pos \in Nat /\ cmd.pos + 1 \in 0..LineLimit
    BY <1>1, LimitAssumption DEF insert_char, TypeOK
  <2>4. cmd' \in Lines /\ cmd'.pos = cmd.pos + 1 /\ cmd'.count = cmd.count + 1
    <3> DEFINE next == cmd.pos + 1
    <3>1. next \in 0..LineLimit /\ cmd' = [stored EXCEPT !.pos = next, !.count = next]
      BY <2>2, <2>3
    <3> HIDE DEF next
    <3>2. cmd' \in Lines /\ cmd'.pos = next /\ cmd'.count = next
      BY <2>1, <3>1 DEF Lines
    <3> QED
      BY <2>3, <3>2 DEF next
  <2>5. ran' = ran /\ unseen' \in BOOLEAN /\ wild' \in BOOLEAN
    BY <1>1, Zenon DEF insert_char, TypeOK
  <2>6. ~wild' => cmd.pos < MAXSIZE_CMD
    BY <1>1 DEF insert_char, Inside
  <2>7. cmd'.pos = cmd'.count
    BY <2>3, <2>4
  <2>8. TypeOK'
    BY <2>4, <2>5, <2>7, Zenon DEF TypeOK, Lines
  <2>9. LineInside'
    BY <2>3, <2>4, <2>6, LimitAssumption DEF LineInside
  <2> QED
    BY <2>8, <2>9
<1>2. CASE delete_char
  <2> DEFINE buffer == [cmd.cmd EXCEPT ![cmd.pos - 1] = NUL]
  <2>1. cmd \in Lines /\ buffer \in [0..(MAXSIZE_CMD - 1) -> Char \cup {NUL}]
    BY DEF TypeOK, Lines
  <2>2. cmd' = [cmd EXCEPT !.pos = cmd.pos - 1, !.count = cmd.pos - 1, !.cmd = buffer]
    BY <1>2, <2>1 DEF delete_char, TypeOK, Lines
  <2>3. cmd.pos - 1 \in 0..LineLimit
    BY <1>2, <2>1, LimitAssumption DEF delete_char, Lines
  <2> HIDE DEF buffer
  <2>4. cmd' \in Lines /\ cmd'.pos = cmd.pos - 1 /\ cmd'.count = cmd.pos - 1
    BY <2>1, <2>2, <2>3 DEF Lines
  <2>5. UNCHANGED <<ran, unseen, wild>>
    BY <1>2 DEF delete_char
  <2>6. TypeOK'
    BY <2>4, <2>5 DEF TypeOK, Lines
  <2>7. LineInside'
    BY <2>1, <2>4, <2>5, LimitAssumption DEF LineInside, Lines
  <2> QED
    BY <2>6, <2>7
<1>3. CASE enter
  <2>1. ran' \in Results
    <3>1. findcmd(Terminated.cmd) \in Results
      BY FindCmd
    <3> QED
      BY <1>3, <3>1 DEF enter
  <2>2. Terminated \in Lines
    <3>1. cmd.pos \in Nat /\ NUL \in Byte
      BY LimitAssumption DEF TypeOK, Byte
    <3> QED
      BY <3>1, PutTyped DEF Terminated
  <2>3. cmd' = [Terminated EXCEPT !.pos = 0, !.count = 0, !.cmd = [Terminated.cmd EXCEPT ![0] = NUL]]
    BY <1>3, <2>2 DEF enter, Lines
  <2>4. cmd' \in Lines /\ cmd'.pos = 0 /\ cmd'.count = 0
    <3>1. [Terminated.cmd EXCEPT ![0] = NUL] \in [0..(MAXSIZE_CMD - 1) -> Char \cup {NUL}]
      BY <2>2 DEF Lines
    <3>2. 0 \in 0..LineLimit
      BY LimitAssumption
    <3> QED
      BY <2>2, <2>3, <3>1, <3>2 DEF Lines
  <2>5. unseen' \in BOOLEAN /\ wild' \in BOOLEAN
    BY <1>3 DEF enter
  <2> QED
    BY <2>1, <2>4, <2>5, LimitAssumption DEF TypeOK, LineInside, Lines
<1>4. CASE UNCHANGED vars
  BY <1>4 DEF TypeOK, LineInside, vars
<1> QED
  BY <1>1, <1>2, <1>3, <1>4 DEF Next, Byte

\* pos and count stay together and the buffer holds bytes, for lines of any length,
\* even beyond the buffer.
THEOREM ConsoleTypeCorrect == Spec => []TypeOK
<1> QED
  BY InitTyped, StepTyped, PTL DEF Spec

-----------------------------------------------------------------------------
(* The line.                                                               *)

LEMMA LineProperties ==
  ASSUME TypeOK, cmd.pos <= MAXSIZE_CMD
  PROVE  /\ Line \in Seq(Byte) /\ Len(Line) = cmd.pos /\ cmd.pos \in Nat
         /\ \A k \in 1..cmd.pos : Line[k] = cmd.cmd[k - 1]
<1>1. cmd.pos \in Nat /\ \A k \in 1..cmd.pos : cmd.cmd[k - 1] \in Byte
  BY LimitAssumption DEF TypeOK, Byte
<1> QED
  BY <1>1 DEF Line

\* A name is found in the buffer exactly if the line starts with it: the NUL after the
\* line is in no name.
LEMMA StartsWithName ==
  ASSUME TypeOK, cmd.pos < MAXSIZE_CMD, NEW k \in 1..Len(Names)
  PROVE  strncmp_zero(Names[k], Terminated.cmd, Len(Names[k])) <=> Editor!StartsWith(Names[k])
<1> DEFINE name == Names[k]
           n == Len(name)
<1>1. name \in Seq(Char) /\ n \in Nat /\ \A m \in 1..n : name[m] \in Char /\ name[m] # NUL
  BY NamesAssumption
<1>2. Line \in Seq(Byte) /\ Len(Line) = cmd.pos /\ cmd.pos \in Nat
      /\ \A m \in 1..cmd.pos : Line[m] = cmd.cmd[m - 1]
  BY LineProperties, LimitAssumption DEF TypeOK
<1>3. /\ Terminated.cmd[cmd.pos] = NUL
      /\ \A m \in 0..(cmd.pos - 1) : Terminated.cmd[m] = Line[m + 1]
  BY <1>2, LimitAssumption DEF Terminated, Put, Inside, TypeOK
<1> HIDE DEF name
<1>4. ASSUME strncmp_zero(name, Terminated.cmd, n) PROVE Editor!StartsWith(name)
  <2>1. n <= cmd.pos
    <3> SUFFICES ASSUME n > cmd.pos PROVE FALSE
      BY <1>1, <1>2
    <3>1. cmd.pos \in 0..(n - 1)
      BY <1>1, <1>2
    <3> QED
      BY <1>3, <1>4, <3>1 DEF strncmp_zero
  <2>2. ASSUME NEW m \in 1..n PROVE Line[m] = name[m]
    <3>1. m - 1 \in 0..(n - 1) /\ m - 1 \in 0..(cmd.pos - 1) /\ (m - 1) + 1 = m
      BY <1>1, <1>2, <2>1
    <3>2. name[m] = Terminated.cmd[m - 1]
      BY <1>4, <3>1 DEF strncmp_zero
    <3> QED
      BY <1>3, <3>1, <3>2
  <2>3. SubSeq(Line, 1, n) = name
    BY <1>1, <1>2, <2>1, <2>2
  <2> QED
    BY <1>2, <2>1, <2>3 DEF Editor!StartsWith
<1>5. ASSUME Editor!StartsWith(name) PROVE strncmp_zero(name, Terminated.cmd, n)
  <2>1. n <= cmd.pos /\ SubSeq(Line, 1, n) = name
    BY <1>2, <1>5 DEF Editor!StartsWith
  <2>2. ASSUME NEW m \in 0..(n - 1) PROVE name[m + 1] # NUL /\ name[m + 1] = Terminated.cmd[m]
    <3>1. m + 1 \in 1..n /\ m \in 0..(cmd.pos - 1)
      BY <1>1, <1>2, <2>1
    <3>2. SubSeq(Line, 1, n)[m + 1] = Line[m + 1]
      BY <1>1, <1>2, <2>1, <3>1
    <3> QED
      BY <1>1, <1>3, <2>1, <3>1, <3>2
  <2> QED
    BY <2>2 DEF strncmp_zero
<1> QED
  BY <1>4, <1>5 DEF name

LEMMA EditorInit == Init => Editor!Init
BY LimitAssumption DEF Init, Editor!Init, Line, NOTHING

\* The three ways a line changes: by a byte at its end, by its last one, and by all.
LEMMA LineGrows ==
  ASSUME TypeOK, LineInside, NEW ch \in Byte, insert_char(ch), ~wild'
  PROVE  Line' = Append(Line, ch)
<1>1. cmd.pos <= MAXSIZE_CMD /\ cmd.pos \in Nat
  BY LimitAssumption DEF LineInside, TypeOK, insert_char
<1>2. /\ Line \in Seq(Byte) /\ Len(Line) = cmd.pos
      /\ \A k \in 1..cmd.pos : Line[k] = cmd.cmd[k - 1]
  BY <1>1, LineProperties
<1>3. Line' = [k \in 1..cmd'.pos |-> cmd'.cmd[k - 1]]
  BY DEF Line
<1>4. Line' = Append(Line, ch)
  <2> DEFINE stored == Put(cmd.pos, ch)
  <2>1. cmd.pos < MAXSIZE_CMD
    BY DEF insert_char, Inside
  <2>2. /\ stored \in Lines /\ stored.pos = cmd.pos /\ stored.count = cmd.count
        /\ \A m \in 0..(MAXSIZE_CMD - 1) : stored.cmd[m] = IF m = cmd.pos THEN ch ELSE cmd.cmd[m]
    BY <1>1, PutTyped
  <2>3. cmd'.pos = cmd.pos + 1 /\ cmd'.cmd = stored.cmd
    <3>1. cmd' = [stored EXCEPT !.pos = cmd.pos + 1, !.count = cmd.count + 1]
      BY <2>2 DEF insert_char, Lines
    <3> HIDE DEF stored
    <3> QED
      BY <2>2, <3>1 DEF Lines
  <2> HIDE DEF stored
  <2>4. Line' = [k \in 1..(cmd.pos + 1) |-> IF k = cmd.pos + 1 THEN ch ELSE Line[k]]
    <3>1. \A k \in 1..(cmd.pos + 1) : stored.cmd[k - 1] = IF k = cmd.pos + 1 THEN ch ELSE Line[k]
      BY <1>1, <1>2, <2>1, <2>2, LimitAssumption
    <3> QED
      BY <1>3, <2>3, <3>1
  <2>5. Append(Line, ch) = [k \in 1..(cmd.pos + 1) |-> IF k = cmd.pos + 1 THEN ch ELSE Line[k]]
    <3> DEFINE line == Line
               n == cmd.pos
    <3>1. line \in Seq(Byte) /\ Len(line) = n /\ n \in Nat
      BY <1>1, <1>2
    <3> HIDE DEF line, n
    <3>2. /\ Append(line, ch) \in Seq(Byte) /\ Len(Append(line, ch)) = n + 1
          /\ \A k \in 1..n : Append(line, ch)[k] = line[k]
          /\ Append(line, ch)[n + 1] = ch
      BY <3>1, AppendProperties
    <3>3. Append(line, ch) = [k \in 1..(n + 1) |-> Append(line, ch)[k]]
      <4>1. Append(line, ch) \in [1..(n + 1) -> Byte]
        BY <3>2, LenProperties
      <4> QED
        BY <4>1, Zenon
    <3>4. \A k \in 1..(n + 1) : Append(line, ch)[k] = IF k = n + 1 THEN ch ELSE line[k]
      BY <3>1, <3>2
    <3> QED
      BY <3>3, <3>4 DEF line, n
  <2> QED
    BY <2>4, <2>5
<1> QED
  BY <1>4

LEMMA LineShrinks ==
  ASSUME TypeOK, LineInside, delete_char
  PROVE  Line # <<>> /\ Line' = SubSeq(Line, 1, Len(Line) - 1)
<1>1. cmd.pos <= MAXSIZE_CMD /\ cmd.pos \in Nat /\ cmd.pos > 0
  BY LimitAssumption DEF LineInside, TypeOK, delete_char
<1>2. /\ Line \in Seq(Byte) /\ Len(Line) = cmd.pos
      /\ \A k \in 1..cmd.pos : Line[k] = cmd.cmd[k - 1]
  BY <1>1, LineProperties
<1>3. Line' = [k \in 1..cmd'.pos |-> cmd'.cmd[k - 1]]
  BY DEF Line
<1>4. /\ cmd'.pos = cmd.pos - 1
      /\ \A m \in 0..(cmd.pos - 2) : cmd'.cmd[m] = cmd.cmd[m]
  BY <1>1, LimitAssumption DEF delete_char, TypeOK
<1>5. Line' = [k \in 1..(cmd.pos - 1) |-> Line[k]]
  <2>1. \A k \in 1..(cmd.pos - 1) : cmd'.cmd[k - 1] = Line[k]
    BY <1>1, <1>2, <1>4
  <2> QED
    BY <1>3, <1>4, <2>1
<1>6. SubSeq(Line, 1, Len(Line) - 1) = [k \in 1..(cmd.pos - 1) |-> Line[k]]
  BY <1>1, <1>2
<1> QED
  BY <1>1, <1>2, <1>5, <1>6

LEMMA LineCleared ==
  ASSUME TypeOK, LineInside, enter PROVE Line' = <<>>
<1>1. Line' = [k \in 1..cmd'.pos |-> cmd'.cmd[k - 1]]
  BY DEF Line
<1>2. Terminated \in Lines
  <2>1. cmd.pos \in Nat /\ NUL \in Byte
    BY LimitAssumption DEF TypeOK, Byte
  <2> QED
    BY <2>1, PutTyped DEF Terminated
<1>3. cmd'.pos = 0
  BY <1>2 DEF enter, Lines
<1> QED
  BY <1>1, <1>3

\* While the buffer lasts, every step of serial_console is one of LineEditor's.
LEMMA EditorStep ==
  ASSUME TypeOK, TypeOK', LineInside, ~wild, ~wild', [Next]_vars
  PROVE  [Editor!Next]_(Editor!vars)
<1>1. cmd.pos <= MAXSIZE_CMD /\ cmd.pos \in Nat
  BY LimitAssumption DEF LineInside, TypeOK
<1>2. /\ Line \in Seq(Byte) /\ Len(Line) = cmd.pos
      /\ \A k \in 1..cmd.pos : Line[k] = cmd.cmd[k - 1]
  BY <1>1, LineProperties
<1>3. Line' = [k \in 1..cmd'.pos |-> cmd'.cmd[k - 1]]
  BY DEF Line
<1>4. ASSUME NEW ch \in Byte, insert_char(ch) PROVE Editor!Type(ch)
  BY <1>4, LineGrows DEF Editor!Type, insert_char
<1>5. CASE delete_char
  BY <1>5, LineShrinks DEF Editor!Next, Editor!Erase, delete_char
<1>6. CASE enter
  <2>1. cmd.pos < MAXSIZE_CMD /\ ~(cmd.count > MAXSIZE_CMD)
    <3>1. cmd.pos < MAXSIZE_CMD
      BY <1>6 DEF enter, Inside
    <3>2. cmd.pos = cmd.count
      BY DEF TypeOK
    <3> QED
      BY <1>1, <3>1, <3>2, LimitAssumption
  <2>2. Line' = <<>>
    BY <1>6, LineCleared
  <2>3. ran' = Editor!Meaning
    <3>1. CASE cmd.pos = 0
      <4>1. Line = <<>> /\ ran' = NOTHING
        BY <1>2, <1>6, <2>1, <3>1 DEF enter
      <4> QED
        BY <4>1 DEF Editor!Meaning, NOTHING
    <3>2. CASE cmd.pos # 0
      <4>1. Line # <<>> /\ ran' = findcmd(Terminated.cmd)
        BY <1>1, <1>2, <1>6, <2>1, <3>2 DEF enter
      <4>2. {k \in 1..Len(Names) : strncmp_zero(Names[k], Terminated.cmd, Len(Names[k]))}
              = {k \in 1..Len(Names) : Editor!StartsWith(Names[k])}
        BY <2>1, StartsWithName
      <4> DEFINE found == {k \in 1..Len(Names) : Editor!StartsWith(Names[k])}
      <4>3. IF found = {} THEN findcmd(Terminated.cmd) = NOT_FOUND
            ELSE findcmd(Terminated.cmd) = Names[CHOOSE k \in found : \A other \in found : k <= other]
        BY <4>2, FindCmd
      <4> QED
        BY <4>1, <4>3 DEF Editor!Meaning
    <3> QED
      BY <3>1, <3>2
  <2> QED
    BY <2>2, <2>3 DEF Editor!Next, Editor!Enter
<1>7. CASE UNCHANGED vars
  <2>1. Line' = Line /\ ran' = ran
    BY <1>7 DEF vars, Line
  <2> QED
    BY <2>1 DEF Editor!vars
<1> QED
  BY <1>4, <1>5, <1>6, <1>7 DEF Next, Editor!Next, Byte

\* The console is the editor that LineEditor describes, for any buffer, names and lines,
\* for as long as every byte is stored inside the buffer.
THEOREM ConsoleEdits == Spec /\ []InsideBuffer => EditsLine
<1> QED
  BY InitTyped, StepTyped, EditorInit, EditorStep, PTL DEF Spec, EditsLine, InsideBuffer, Editor!Spec

\* A line shorter than the buffer never leaves it.
LEMMA ShortLinesInside ==
  ASSUME LineLimit < MAXSIZE_CMD PROVE Spec => []InsideBuffer
<1>1. Init => ~wild
  BY DEF Init
<1>2. TypeOK /\ ~wild /\ [Next]_vars => ~wild'
  <2> SUFFICES ASSUME TypeOK, ~wild, [Next]_vars PROVE ~wild'
    OBVIOUS
  <2>1. cmd.pos < MAXSIZE_CMD
    BY LimitAssumption DEF TypeOK
  <2> QED
    BY <2>1 DEF Next, insert_char, delete_char, enter, Inside, vars
<1> QED
  BY <1>1, <1>2, InitTyped, StepTyped, PTL DEF Spec, InsideBuffer

\* So as long as lines stay shorter than the buffer, nothing is stored outside it and
\* Enter runs what the line says.
THEOREM ShortLinesEdited ==
  ASSUME LineLimit < MAXSIZE_CMD PROVE Spec => []InsideBuffer /\ EditsLine
BY ConsoleEdits, ShortLinesInside, PTL

-----------------------------------------------------------------------------
(* The terminal.                                                           *)

Glyph == Char \cup {SP, PROMPT, TABLE, NOT_FOUND[1]}
Terminal == [text : Seq(Glyph), col : Nat]

\* What EchoShown says of a line, in one place: t shows the characters of shown, with the
\* cursor behind them and blanks after it.
Echoes(t, shown) ==
  /\ t \in Terminal /\ t.col = Len(shown) /\ Len(shown) <= Len(t.text)
  /\ \A k \in 1..Len(t.text) : t.text[k] = IF k <= Len(shown) THEN shown[k] ELSE SP

\* A transmitter that keeps up prints every byte: the terminal goes through the states t.
Goes(t, string, n) ==
  /\ Len(string) = n /\ t[0] = term
  /\ \A k \in 1..n : t[k] = IF string[k] = NUL THEN t[k - 1] ELSE TermPut(t[k - 1], string[k])

LEMMA PrintedBy ==
  ASSUME TxReady = {TRUE}, NEW t, NEW string, NEW n \in Nat, Goes(t, string, n)
  PROVE  Printed(string)[n] = {t[n]}
<1>1. /\ Len(string) = n /\ t[0] = term
      /\ \A k \in 1..n : write_serial({t[k - 1]}, string[k]) = {t[k]}
  BY DEF write_serial, Goes
<1> DEFINE Step(f) == [k \in 0..n |-> IF k = 0 THEN {term} ELSE write_serial(f[k - 1], string[k])]
           g == [k \in 0..n |-> {t[k]}]
           P == CHOOSE f : f = Step(f)
<1>2. g = Step(g)
  <2> SUFFICES ASSUME NEW k \in 0..n
               PROVE  {t[k]} = IF k = 0 THEN {term} ELSE write_serial(g[k - 1], string[k])
    OBVIOUS
  <2>1. CASE k = 0
    BY <1>1, <2>1
  <2>2. CASE k # 0
    <3>1. k \in 1..n /\ k - 1 \in 0..n
      BY <2>2
    <3>2. g[k - 1] = {t[k - 1]}
      BY <3>1
    <3> QED
      BY <1>1, <2>2, <3>1, <3>2
  <2> QED
    BY <2>1, <2>2
<1>3. P = [k \in 0..n |-> IF k = 0 THEN {term} ELSE write_serial(P[k - 1], string[k])]
  BY <1>2
<1>4. Printed(string) = P
  BY <1>1 DEF Printed
<1> HIDE DEF P, g
<1> DEFINE Same == {k \in Nat : k <= n => P[k] = {t[k]}}
<1>5. P[0] = {t[0]} /\ \A k \in 1..n : P[k] = write_serial(P[k - 1], string[k])
  <2>1. 0 \in 0..n /\ \A k \in 1..n : k \in 0..n /\ k # 0
    OBVIOUS
  <2>2. P[0] = {term}
    BY <1>3, <2>1, Zenon
  <2>3. ASSUME NEW k \in 1..n PROVE P[k] = write_serial(P[k - 1], string[k])
    BY <1>3, <2>1, Zenon
  <2> QED
    BY <1>1, <2>2, <2>3
<1>6. ASSUME NEW k \in Nat PROVE k \in Same
  <2> SUFFICES ASSUME Nat \ Same # {} PROVE FALSE
    OBVIOUS
  <2>1. PICK m \in Nat \ Same : \A j \in Nat \ Same : m <= j
    BY Least
  <2>2. m # 0 /\ m - 1 \in Nat /\ m \in 1..n
    BY <1>5, <2>1
  <2>3. m - 1 \in Same
    BY <2>1, <2>2
  <2>4. P[m - 1] = {t[m - 1]}
    BY <2>2, <2>3
  <2>5. P[m] = {t[m]}
    BY <1>1, <1>5, <2>2, <2>4
  <2> QED
    BY <2>1, <2>5
<1> QED
  BY <1>4, <1>6

\* A printing character appears at the cursor, and leaves the terminal a terminal.
LEMMA Overwrites ==
  ASSUME NEW t \in Terminal, NEW ch \in Glyph
  PROVE  /\ TermPut(t, ch) \in Terminal /\ TermPut(t, ch).col = t.col + 1
         /\ Len(TermPut(t, ch).text) = IF t.col < Len(t.text) THEN Len(t.text) ELSE t.col + 1
         /\ \A k \in 1..Len(TermPut(t, ch).text) :
              TermPut(t, ch).text[k] = IF k = t.col + 1 THEN ch
                                       ELSE IF k <= Len(t.text) THEN t.text[k] ELSE SP
<1>1. TermPut(t, ch) = Overwrite(t, ch)
  BY NamesAssumption DEF TermPut, Glyph, SP, PROMPT, TABLE, NOT_FOUND, BS, CR, LF
<1> DEFINE n == Len(t.text)
           m == IF t.col < n THEN n ELSE t.col + 1
           text == [k \in 1..m |-> IF k = t.col + 1 THEN ch ELSE IF k <= n THEN t.text[k] ELSE SP]
<1>2. t.text \in Seq(Glyph) /\ n \in Nat /\ t.col \in Nat /\ \A k \in 1..n : t.text[k] \in Glyph
  BY DEF Terminal
<1>3. Overwrite(t, ch) = [text |-> text, col |-> t.col + 1]
  BY DEF Overwrite
<1> HIDE DEF n
<1>4. m \in Nat
  BY <1>2
<1> HIDE DEF m
<1>5. SP \in Glyph
  BY DEF Glyph
<1>6. text \in Seq(Glyph) /\ Len(text) = m
  BY <1>2, <1>4, <1>5
<1>7. \A k \in 1..m : text[k] = IF k = t.col + 1 THEN ch ELSE IF k <= n THEN t.text[k] ELSE SP
  OBVIOUS
<1> HIDE DEF text
<1>8. t.col + 1 \in Nat
  BY <1>2
<1> QED
  BY <1>1, <1>3, <1>6, <1>7, <1>8 DEF m, n, Terminal

\* Backspace moves the cursor back, carriage return to the start; a line feed starts an
\* empty line.
LEMMA Controls ==
  ASSUME NEW t \in Terminal
  PROVE  /\ TermPut(t, BS) = [text |-> t.text, col |-> IF t.col > 0 THEN t.col - 1 ELSE 0]
         /\ TermPut(t, CR) = [text |-> t.text, col |-> 0]
         /\ TermPut(t, LF) = [text |-> <<>>, col |-> t.col]
         /\ TermPut(t, BS) \in Terminal /\ TermPut(t, CR) \in Terminal
         /\ TermPut(t, LF) \in Terminal
<1>1. /\ t \in [text : Seq(Glyph), col : Nat] /\ t.text \in Seq(Glyph) /\ t.col \in Nat
      /\ <<>> \in Seq(Glyph)
  BY DEF Terminal
<1>2. \A S : \A r \in [text : S, col : Nat], a \in S, b \in Nat :
        /\ [r EXCEPT !.col = b] = [text |-> r.text, col |-> b]
        /\ [r EXCEPT !.text = a] = [text |-> a, col |-> r.col]
  OBVIOUS
<1>3. TermPut(t, BS) = [text |-> t.text, col |-> IF t.col > 0 THEN t.col - 1 ELSE 0]
  <2> DEFINE back == IF t.col > 0 THEN t.col - 1 ELSE 0
  <2>1. TermPut(t, BS) = [t EXCEPT !.col = back] /\ back \in Nat
    BY <1>1 DEF TermPut, LF, CR, BS
  <2> QED
    BY <1>1, <1>2, <2>1
<1>4. TermPut(t, CR) = [text |-> t.text, col |-> 0]
  <2>1. TermPut(t, CR) = [t EXCEPT !.col = 0]
    BY DEF TermPut, LF, CR, BS
  <2> QED
    BY <1>1, <1>2, <2>1
<1>5. TermPut(t, LF) = [text |-> <<>>, col |-> t.col]
  <2>1. TermPut(t, LF) = [t EXCEPT !.text = <<>>]
    BY DEF TermPut, LF, CR, BS
  <2> QED
    BY <1>1, <1>2, <2>1
<1>6. (IF t.col > 0 THEN t.col - 1 ELSE 0) \in Nat
  BY <1>1
<1> QED
  BY <1>1, <1>3, <1>4, <1>5, <1>6 DEF Terminal

\* What each of the three prints.
LEMMA InsertShows ==
  ASSUME TxReady = {TRUE}, NEW ch \in Byte, Shows(<<ch>>)
  PROVE  term' = IF ch = NUL THEN term ELSE TermPut(term, ch)
<1> DEFINE t == [k \in 0..1 |-> IF k = 0 \/ ch = NUL THEN term ELSE TermPut(term, ch)]
<1>1. t[0] = term /\ t[1] = IF ch = NUL THEN term ELSE TermPut(term, ch)
  OBVIOUS
<1> DEFINE string == <<ch>>
<1>2. string[1] = ch /\ Len(string) = 1 /\ 1 \in Nat
  OBVIOUS
<1> HIDE DEF t, string
<1>3. Goes(t, string, 1)
  <2>1. \A k \in 1..1 : k = 1 /\ k - 1 = 0
    OBVIOUS
  <2> QED
    BY <1>1, <1>2, <2>1 DEF Goes
<1>4. Printed(string)[1] = {t[1]}
  BY <1>2, <1>3, PrintedBy
<1> QED
  BY <1>1, <1>2, <1>4 DEF Shows, string

LEMMA DeleteShows ==
  ASSUME TxReady = {TRUE}, Shows(<<BS, SP, BS>>)
  PROVE  term' = TermPut(TermPut(TermPut(term, BS), SP), BS)
<1> DEFINE t1 == TermPut(term, BS)
           t2 == TermPut(t1, SP)
           t3 == TermPut(t2, BS)
           t == [k \in 0..3 |-> IF k = 0 THEN term ELSE IF k = 1 THEN t1 ELSE IF k = 2 THEN t2 ELSE t3]
           string == <<BS, SP, BS>>
<1>1. t[0] = term /\ t[1] = t1 /\ t[2] = t2 /\ t[3] = t3
  BY DEF t
<1>2. /\ Len(string) = 3 /\ 3 \in Nat /\ string[1] = BS /\ string[2] = SP /\ string[3] = BS
      /\ BS # NUL /\ SP # NUL
  BY DEF BS, SP, NUL
<1> HIDE DEF string, t
<1>3. Goes(t, string, 3)
  <2>1. \A k \in 1..3 : k = 1 \/ k = 2 \/ k = 3
    OBVIOUS
  <2>2. 1 - 1 = 0 /\ 2 - 1 = 1 /\ 3 - 1 = 2
    OBVIOUS
  <2> QED
    BY <1>1, <1>2, <2>1, <2>2 DEF Goes
<1>4. Printed(string)[3] = {t[3]}
  BY <1>2, <1>3, PrintedBy
<1> QED
  BY <1>1, <1>2, <1>4 DEF Shows, string

\* After Enter the terminal shows the prompt alone, whatever the command printed.
Prompt == [text |-> <<PROMPT>>, col |-> 1]
Blank == [text |-> <<>>, col |-> 0]

LEMMA Blanked ==
  ASSUME NEW t \in Terminal
  PROVE  /\ TermPut(TermPut(t, CR), LF) = Blank /\ TermPut(TermPut(t, LF), CR) = Blank
         /\ Blank \in Terminal /\ TermPut(Blank, PROMPT) = Prompt
         /\ \A ch \in Glyph : TermPut(Blank, ch) \in Terminal
<1>1. Blank \in Terminal
  BY DEF Blank, Terminal
<1>2. TermPut(t, CR) \in Terminal /\ TermPut(t, CR).col = 0
  BY Controls
<1>3. TermPut(t, LF) \in Terminal /\ TermPut(t, LF).text = <<>>
  BY Controls
<1>4. TermPut(TermPut(t, CR), LF) = Blank
  BY <1>2, Controls DEF Blank
<1>5. TermPut(TermPut(t, LF), CR) = Blank
  BY <1>3, Controls DEF Blank
<1>6. TermPut(Blank, PROMPT) = Prompt
  <2> DEFINE s == TermPut(Blank, PROMPT)
  <2>1. PROMPT \in Glyph
    BY DEF Glyph
  <2>2. Blank.col = 0 /\ Len(Blank.text) = 0
    BY DEF Blank
  <2>3. /\ s \in Terminal /\ s.col = Blank.col + 1
        /\ Len(s.text) = IF Blank.col < Len(Blank.text) THEN Len(Blank.text) ELSE Blank.col + 1
        /\ \A k \in 1..Len(s.text) :
             s.text[k] = IF k = Blank.col + 1 THEN PROMPT
                         ELSE IF k <= Len(Blank.text) THEN Blank.text[k] ELSE SP
    BY <1>1, <2>1, Overwrites
  <2> HIDE DEF s
  <2>4. s \in Terminal /\ s.col = 1 /\ Len(s.text) = 1 /\ s.text[1] = PROMPT
    BY <2>2, <2>3
  <2>5. s.text \in Seq(Glyph) /\ s = [text |-> s.text, col |-> s.col]
    BY <2>4 DEF Terminal
  <2>6. s.text = <<PROMPT>>
    BY <2>4, <2>5
  <2> QED
    BY <2>4, <2>5, <2>6 DEF Prompt, s
<1>7. \A ch \in Glyph : TermPut(Blank, ch) \in Terminal
  BY <1>1, Overwrites
<1> QED
  BY <1>1, <1>4, <1>5, <1>6, <1>7

LEMMA EnterPrints ==
  ASSUME TxReady = {TRUE}, term \in Terminal, NEW result, result # TOO_LONG,
         Shows(<<CR, LF>> \o (Report(result) \o <<PROMPT>>))
  PROVE  term' = Prompt
<1>1. CR # NUL /\ LF # NUL /\ PROMPT # NUL /\ NOT_FOUND[1] # NUL /\ TABLE # NUL
  BY DEF CR, LF, PROMPT, NUL, NOT_FOUND, TABLE
<1>2. NOT_FOUND[1] \in Glyph /\ TABLE \in Glyph
  BY DEF Glyph
<1>3. CASE Report(result) = <<>>
  <2> DEFINE string == <<CR, LF, PROMPT>>
             t1 == TermPut(term, CR)
             t == [k \in 0..3 |-> IF k = 0 THEN term ELSE IF k = 1 THEN t1
                                  ELSE IF k = 2 THEN Blank ELSE Prompt]
  <2>1. t[0] = term /\ t[1] = t1 /\ t[2] = Blank /\ t[3] = Prompt
    BY DEF t
  <2>2. /\ Len(string) = 3 /\ 3 \in Nat /\ string[1] = CR /\ string[2] = LF /\ string[3] = PROMPT
        /\ string = <<CR, LF>> \o (Report(result) \o <<PROMPT>>)
    BY <1>3
  <2>3. t1 = TermPut(term, CR) /\ TermPut(t1, LF) = Blank /\ TermPut(Blank, PROMPT) = Prompt
    BY Blanked
  <2> HIDE DEF string, t, t1
  <2>4. Goes(t, string, 3)
    <3>1. \A k \in 1..3 : k = 1 \/ k = 2 \/ k = 3
      OBVIOUS
    <3>2. 1 - 1 = 0 /\ 2 - 1 = 1 /\ 3 - 1 = 2
      OBVIOUS
    <3> QED
      BY <1>1, <2>1, <2>2, <2>3, <3>1, <3>2 DEF Goes
  <2>5. Printed(string)[3] = {t[3]}
    BY <2>2, <2>4, PrintedBy
  <2> QED
    BY <2>1, <2>2, <2>5 DEF Shows
<1>4. ASSUME NEW a1 \in Glyph \ {NUL}, NEW a2, NEW a3, Report(result) = <<a1, a2, a3>>,
             (a2 = CR /\ a3 = LF) \/ (a2 = LF /\ a3 = CR)
      PROVE  term' = Prompt
  <2> DEFINE string == <<CR, LF, a1, a2, a3, PROMPT>>
             t1 == TermPut(term, CR)
             t3 == TermPut(Blank, a1)
             t4 == TermPut(t3, a2)
             t == [k \in 0..6 |-> IF k = 0 THEN term ELSE IF k = 1 THEN t1
                                  ELSE IF k = 2 THEN Blank ELSE IF k = 3 THEN t3
                                  ELSE IF k = 4 THEN t4 ELSE IF k = 5 THEN Blank ELSE Prompt]
  <2>1. /\ t[0] = term /\ t[1] = t1 /\ t[2] = Blank /\ t[3] = t3 /\ t[4] = t4
        /\ t[5] = Blank /\ t[6] = Prompt
    BY DEF t
  <2>2. /\ Len(string) = 6 /\ 6 \in Nat /\ string[1] = CR /\ string[2] = LF /\ string[3] = a1
        /\ string[4] = a2 /\ string[5] = a3 /\ string[6] = PROMPT
    BY DEF string
  <2>3. string = <<CR, LF>> \o (Report(result) \o <<PROMPT>>)
    BY <1>4
  <2>5. a1 # NUL /\ a2 # NUL /\ a3 # NUL
    BY <1>1, <1>4
  <2>6. t1 = TermPut(term, CR) /\ TermPut(t1, LF) = Blank /\ t3 = TermPut(Blank, a1)
        /\ t4 = TermPut(t3, a2) /\ TermPut(t4, a3) = Blank /\ TermPut(Blank, PROMPT) = Prompt
    <3>1. t3 \in Terminal
      BY Blanked
    <3> QED
      BY <1>4, <3>1, Blanked
  <2> HIDE DEF string, t, t1, t3, t4
  <2>7. Goes(t, string, 6)
    <3>1. \A k \in 1..6 : k = 1 \/ k = 2 \/ k = 3 \/ k = 4 \/ k = 5 \/ k = 6
      OBVIOUS
    <3>2. 1 - 1 = 0 /\ 2 - 1 = 1 /\ 3 - 1 = 2 /\ 4 - 1 = 3 /\ 5 - 1 = 4 /\ 6 - 1 = 5
      OBVIOUS
    <3> QED
      BY <1>1, <2>1, <2>2, <2>5, <2>6, <3>1, <3>2 DEF Goes
  <2>8. Printed(string)[6] = {t[6]}
    BY <2>2, <2>7, PrintedBy
  <2> QED
    BY <2>1, <2>2, <2>3, <2>8 DEF Shows
<1>5. CASE Report(result) = NOT_FOUND \o <<LF, CR>>
  <2>1. Report(result) = <<NOT_FOUND[1], LF, CR>>
    <3>1. NOT_FOUND = <<NOT_FOUND[1]>>
      BY DEF NOT_FOUND
    <3>2. ASSUME NEW S, NEW x \in S, NEW y \in S, NEW z \in S
          PROVE  <<x>> \o <<y, z>> = <<x, y, z>>
      <4>1. <<x>> \in Seq(S) /\ <<y, z>> \in Seq(S)
        OBVIOUS
      <4> DEFINE a == <<x>>
                 b == <<y, z>>
                 c == <<x, y, z>>
      <4>2. /\ Len(a) = 1 /\ Len(b) = 2 /\ a[1] = x /\ b[1] = y /\ b[2] = z
            /\ c \in Seq(S) /\ Len(c) = 3 /\ c[1] = x /\ c[2] = y /\ c[3] = z
        OBVIOUS
      <4> HIDE DEF a, b, c
      <4>3. /\ a \o b \in Seq(S) /\ Len(a \o b) = 3
            /\ \A k \in 1..3 : (a \o b)[k] = IF k <= 1 THEN a[k] ELSE b[k - 1]
        BY <4>1, <4>2, ConcatProperties DEF a, b
      <4>4. \A k \in 1..3 : (a \o b)[k] = c[k]
        BY <4>2, <4>3
      <4>5. a \o b = c
        BY <4>2, <4>3, <4>4, SeqEqual
      <4> QED
        BY <4>5 DEF a, b, c
    <3> QED
      <4>1. /\ NOT_FOUND[1] \in {NOT_FOUND[1], LF, CR} /\ LF \in {NOT_FOUND[1], LF, CR}
            /\ CR \in {NOT_FOUND[1], LF, CR}
        OBVIOUS
      <4> QED
        BY <1>5, <3>1, <3>2, <4>1
  <2> QED
    BY <1>1, <1>2, <1>4, <2>1
<1>6. CASE Report(result) = <<TABLE, CR, LF>>
  BY <1>1, <1>2, <1>4, <1>6
<1>7. \/ Report(result) = NOT_FOUND \o <<LF, CR>>
      \/ Report(result) = <<TABLE, CR, LF>> \/ Report(result) = <<>>
  BY DEF Report
<1> QED
  BY <1>3, <1>5, <1>6, <1>7

\* A character typed and a character erased, as the terminal shows them.
LEMMA EchoTyped ==
  ASSUME NEW t, NEW shown \in Seq(Byte \cup {PROMPT}), Echoes(t, shown), NEW ch \in Char
  PROVE  Echoes(TermPut(t, ch), Append(shown, ch))
<1>1. ch \in Glyph /\ t \in Terminal /\ t.col = Len(shown) /\ Len(shown) <= Len(t.text)
  BY DEF Glyph, Echoes
<1> DEFINE next == TermPut(t, ch)
           longer == Append(shown, ch)
           n == Len(shown)
           m == Len(t.text)
<1>2. n \in Nat /\ m \in Nat
  BY <1>1 DEF Terminal
<1>3. /\ next \in Terminal /\ next.col = n + 1 /\ Len(next.text) = IF n < m THEN m ELSE n + 1
      /\ \A k \in 1..Len(next.text) :
           next.text[k] = IF k = n + 1 THEN ch ELSE IF k <= m THEN t.text[k] ELSE SP
  BY <1>1, Overwrites
<1>4. /\ Len(longer) = n + 1 /\ longer[n + 1] = ch
      /\ \A k \in 1..n : longer[k] = shown[k]
  BY AppendProperties DEF Byte
<1>5. \A k \in 1..m : t.text[k] = IF k <= n THEN shown[k] ELSE SP
  BY DEF Echoes
<1> HIDE DEF next, longer, n, m
<1>6. ASSUME NEW k \in 1..Len(next.text)
      PROVE  next.text[k] = IF k <= n + 1 THEN longer[k] ELSE SP
  <2>1. k \in Nat /\ k >= 1
    BY <1>2, <1>3
  <2>2. CASE k = n + 1
    BY <1>2, <1>3, <1>4, <2>2
  <2>3. CASE k <= n
    BY <1>1, <1>2, <1>3, <1>4, <1>5, <2>1, <2>3 DEF n, m
  <2>4. CASE k > n + 1
    BY <1>2, <1>3, <1>5, <2>1, <2>4
  <2> QED
    BY <1>2, <2>1, <2>2, <2>3, <2>4
<1>7. n + 1 <= Len(next.text)
  BY <1>2, <1>3
<1> QED
  BY <1>3, <1>4, <1>6, <1>7 DEF Echoes, next, longer

LEMMA ButLast ==
  ASSUME NEW S, NEW seq \in Seq(S), seq # <<>>
  PROVE  LET shorter == SubSeq(seq, 1, Len(seq) - 1)
         IN  /\ shorter \in Seq(S) /\ Len(shorter) = Len(seq) - 1 /\ Len(seq) > 0
             /\ \A k \in 1..(Len(seq) - 1) : shorter[k] = seq[k]
<1> DEFINE n == Len(seq) - 1
<1>1. n \in Nat /\ Len(seq) = n + 1
  OBVIOUS
<1>2. n <= Len(seq) /\ \A k \in 1..n : k \in 1..Len(seq) /\ seq[k] \in S
  BY <1>1
<1> HIDE DEF n
<1>3. SubSeq(seq, 1, n) = [k \in 1..n |-> seq[k]]
  BY <1>1, <1>2
<1> QED
  BY <1>1, <1>2, <1>3 DEF n

LEMMA EchoErased ==
  ASSUME NEW t, NEW shown \in Seq(Byte \cup {PROMPT}), shown # <<>>, Echoes(t, shown)
  PROVE  Echoes(TermPut(TermPut(TermPut(t, BS), SP), BS), SubSeq(shown, 1, Len(shown) - 1))
<1> DEFINE shorter == SubSeq(shown, 1, Len(shown) - 1)
           n == Len(shown)
           m == Len(t.text)
           t1 == TermPut(t, BS)
           t2 == TermPut(t1, SP)
           t3 == TermPut(t2, BS)
<1>1. t \in Terminal /\ t.col = n /\ n <= m /\ n \in Nat /\ m \in Nat /\ n > 0
  BY DEF Echoes, Terminal
<1>2. Len(shorter) = n - 1 /\ \A k \in 1..(n - 1) : shorter[k] = shown[k]
  BY ButLast
<1>3. t1 \in Terminal /\ t1.text = t.text /\ t1.col = n - 1
  <2>1. t1 = [text |-> t.text, col |-> IF t.col > 0 THEN t.col - 1 ELSE 0] /\ t1 \in Terminal
    BY <1>1, Controls
  <2> HIDE DEF t1, n
  <2> QED
    BY <1>1, <2>1
<1>4. SP \in Glyph
  BY DEF Glyph
<1>5. /\ t2 \in Terminal /\ t2.col = t1.col + 1
      /\ Len(t2.text) = IF t1.col < Len(t1.text) THEN Len(t1.text) ELSE t1.col + 1
      /\ \A k \in 1..Len(t2.text) :
           t2.text[k] = IF k = t1.col + 1 THEN SP ELSE IF k <= Len(t1.text) THEN t1.text[k] ELSE SP
  BY <1>3, <1>4, Overwrites
<1> HIDE DEF t1
<1>6. t2.col = n /\ Len(t2.text) = m /\ n - 1 + 1 = n
  BY <1>1, <1>3, <1>5
<1> HIDE DEF t2
<1>7. t3 \in Terminal /\ t3.text = t2.text /\ t3.col = n - 1
  <2>1. t3 = [text |-> t2.text, col |-> IF t2.col > 0 THEN t2.col - 1 ELSE 0] /\ t3 \in Terminal
    BY <1>5, Controls
  <2> HIDE DEF t3, n
  <2> QED
    BY <1>1, <1>6, <2>1
<1> HIDE DEF t3, shorter, n, m
<1>8. \A k \in 1..m : t.text[k] = IF k <= n THEN shown[k] ELSE SP
  BY DEF Echoes, n, m
<1>9. ASSUME NEW k \in 1..m PROVE t3.text[k] = IF k <= n - 1 THEN shorter[k] ELSE SP
  <2>1. k \in Nat /\ k >= 1 /\ t1.col + 1 = n
    BY <1>1, <1>3
  <2>2. t3.text[k] = IF k = n THEN SP ELSE t.text[k]
    BY <1>1, <1>3, <1>5, <1>6, <1>7, <2>1 DEF m
  <2>3. CASE k <= n - 1
    BY <1>1, <1>2, <1>8, <2>1, <2>2, <2>3
  <2>4. CASE k > n - 1
    BY <1>1, <1>8, <2>1, <2>2, <2>4
  <2> QED
    BY <1>1, <2>1, <2>3, <2>4
<1>10. t3 \in Terminal /\ t3.col = Len(shorter) /\ Len(shorter) <= Len(t3.text)
       /\ Len(t3.text) = m /\ Len(shorter) = n - 1
  BY <1>1, <1>2, <1>6, <1>7
<1>11. Echoes(t3, shorter)
  BY <1>9, <1>10 DEF Echoes
<1> QED
  BY <1>11 DEF t1, t2, t3, shorter, n

Heads == {<<>>, <<PROMPT>>}

\* Appending to the line, or taking its last character, does the same to what is shown.
LEMMA Shown ==
  ASSUME NEW S, NEW head \in Seq(S), NEW line \in Seq(S), NEW ch \in S
  PROVE  /\ head \o Append(line, ch) = Append(head \o line, ch)
         /\ head \o line \in Seq(S)
         /\ line # <<>> =>
              /\ head \o line # <<>>
              /\ head \o SubSeq(line, 1, Len(line) - 1)
                   = SubSeq(head \o line, 1, Len(head \o line) - 1)
<1> DEFINE h == Len(head)
           n == Len(line)
           all == head \o line
<1>1. h \in Nat /\ n \in Nat /\ line \in Seq(S) /\ head \in Seq(S)
  OBVIOUS
<1>2. /\ all \in Seq(S) /\ Len(all) = h + n
      /\ \A k \in 1..(h + n) : all[k] = IF k <= h THEN head[k] ELSE line[k - h]
  BY ConcatProperties
<1>3. head \o Append(line, ch) = Append(all, ch)
  <2> DEFINE longer == Append(line, ch)
             left == head \o longer
             right == Append(all, ch)
  <2>1. /\ longer \in Seq(S) /\ Len(longer) = n + 1 /\ longer[n + 1] = ch
        /\ \A k \in 1..n : longer[k] = line[k]
    BY AppendProperties
  <2>2. /\ right \in Seq(S) /\ Len(right) = h + n + 1 /\ right[h + n + 1] = ch
        /\ \A k \in 1..(h + n) : right[k] = all[k]
    BY <1>2, AppendProperties
  <2> HIDE DEF longer, right, all
  <2>3. /\ left \in Seq(S) /\ Len(left) = h + (n + 1)
        /\ \A k \in 1..(h + (n + 1)) : left[k] = IF k <= h THEN head[k] ELSE longer[k - h]
    <3>1. /\ left \in Seq(S) /\ Len(left) = h + Len(longer)
          /\ \A k \in 1..(h + Len(longer)) :
               left[k] = IF k <= h THEN head[k] ELSE longer[k - h]
      BY <2>1, ConcatProperties
    <3> QED
      BY <2>1, <3>1, Zenon
  <2> HIDE DEF left, h, n
  <2>4. ASSUME NEW k \in 1..(h + (n + 1)) PROVE left[k] = right[k]
    <3>1. CASE k <= h
      BY <1>1, <1>2, <2>2, <2>3, <3>1
    <3>2. CASE k > h /\ k <= h + n
      <4>1. k - h \in 1..n /\ k \in 1..(h + n) /\ ~(k <= h)
        BY <1>1, <3>2
      <4> QED
        BY <1>2, <2>1, <2>2, <2>3, <4>1
    <3>3. CASE k = h + n + 1
      <4>1. k - h = n + 1 /\ ~(k <= h)
        BY <1>1, <3>3
      <4> QED
        BY <2>1, <2>2, <2>3, <3>3, <4>1
    <3> QED
      BY <1>1, <3>1, <3>2, <3>3
  <2>5. Len(left) = Len(right) /\ \A k \in 1..Len(left) : left[k] = right[k]
    BY <1>1, <2>2, <2>3, <2>4
  <2>6. left = right
    BY <2>2, <2>3, <2>5, SeqEqual
  <2> QED
    BY <2>6 DEF left, right, longer
<1>4. ASSUME line # <<>>
      PROVE  all # <<>> /\ head \o SubSeq(line, 1, n - 1) = SubSeq(all, 1, Len(all) - 1)
  <2> DEFINE shorter == SubSeq(line, 1, n - 1)
             left == head \o shorter
             right == SubSeq(all, 1, h + n - 1)
  <2>1. n > 0
    BY <1>4
  <2>2. /\ shorter \in Seq(S) /\ Len(shorter) = n - 1
        /\ \A k \in 1..(n - 1) : shorter[k] = line[k]
    BY <1>4, ButLast
  <2> HIDE DEF shorter, all
  <2>3. /\ left \in Seq(S) /\ Len(left) = h + (n - 1)
        /\ \A k \in 1..(h + (n - 1)) : left[k] = IF k <= h THEN head[k] ELSE shorter[k - h]
    <3>1. /\ left \in Seq(S) /\ Len(left) = h + Len(shorter)
          /\ \A k \in 1..(h + Len(shorter)) :
               left[k] = IF k <= h THEN head[k] ELSE shorter[k - h]
      BY <2>2, ConcatProperties
    <3> QED
      BY <2>2, <3>1, Zenon
  <2>10. all # <<>>
    BY <1>1, <1>2, <2>1
  <2>9. /\ SubSeq(all, 1, Len(all) - 1) \in Seq(S)
        /\ Len(SubSeq(all, 1, Len(all) - 1)) = Len(all) - 1
        /\ \A k \in 1..(Len(all) - 1) : SubSeq(all, 1, Len(all) - 1)[k] = all[k]
    BY <1>2, <2>10, ButLast
  <2>4. /\ right \in Seq(S) /\ Len(right) = h + n - 1
        /\ \A k \in 1..(h + n - 1) : right[k] = all[k]
    BY <1>2, <2>9
  <2> HIDE DEF left, h, n
  <2> HIDE DEF right
  <2>5. ASSUME NEW k \in 1..(h + (n - 1)) PROVE left[k] = right[k]
    <3>1. k \in 1..(h + n - 1) /\ k \in 1..(h + n) /\ (k > h => k - h \in 1..(n - 1))
      BY <1>1, <2>1
    <3> QED
      <4>1. h \in Int /\ k \in Int /\ left[k] = IF k <= h THEN head[k] ELSE shorter[k - h]
        BY <1>1, <2>3
      <4>2. right[k] = all[k] /\ all[k] = IF k <= h THEN head[k] ELSE line[k - h]
        BY <1>2, <2>4, <3>1, Zenon
      <4>3. k > h => shorter[k - h] = line[k - h]
        BY <2>2, <3>1, Zenon
      <4> QED
        BY <4>1, <4>2, <4>3
  <2>6. Len(left) = Len(right) /\ \A k \in 1..Len(left) : left[k] = right[k]
    BY <1>1, <2>3, <2>4, <2>5
  <2>7. left = right
    BY <2>3, <2>4, <2>6, SeqEqual
  <2> QED
    BY <1>2, <2>7, <2>10 DEF left, right, shorter, n, h
<1> QED
  BY <1>2, <1>3, <1>4

\* The inductive invariant behind EchoShown.
Echoing ==
  TxReady = {TRUE} =>
    /\ term \in Terminal
    /\ ~unseen /\ ~wild => \E head \in Heads : Echoes(term, head \o Line)

LEMMA HeadsTyped == Heads \subseteq Seq(Byte \cup {PROMPT}) /\ Seq(Byte) \subseteq Seq(Byte \cup {PROMPT})
<1>1. <<PROMPT>> \in Seq(Byte \cup {PROMPT}) /\ <<>> \in Seq(Byte \cup {PROMPT})
  OBVIOUS
<1>2. ASSUME NEW s \in Seq(Byte) PROVE s \in Seq(Byte \cup {PROMPT})
  OBVIOUS
<1> QED
  BY <1>1, <1>2 DEF Heads

LEMMA InitEchoing == Init => Echoing
<1> SUFFICES ASSUME Init PROVE term \in Terminal /\ Echoes(term, <<>> \o Line)
  BY DEF Echoing, Heads
<1>1. Line = <<>>
  BY DEF Init, Line
<1>2. <<>> \o Line = <<>>
  BY <1>1
<1>3. term \in Terminal /\ term.col = 0 /\ Len(term.text) = 0
  BY DEF Init, Terminal
<1> QED
  BY <1>2, <1>3 DEF Echoes

LEMMA StepEchoing == TypeOK /\ LineInside /\ Echoing /\ [Next]_vars => Echoing'
<1> SUFFICES ASSUME TypeOK, LineInside, Echoing, [Next]_vars, TxReady = {TRUE}
             PROVE  /\ term' \in Terminal
                    /\ ~unseen' /\ ~wild' => \E head \in Heads : Echoes(term', head \o Line')
  BY DEF Echoing
<1>1. term \in Terminal
  BY DEF Echoing
<1>2. ASSUME NEW ch \in Byte, insert_char(ch)
      PROVE  /\ term' \in Terminal
             /\ ~unseen' /\ ~wild' => \E head \in Heads : Echoes(term', head \o Line')
  <2>1. term' = IF ch = NUL THEN term ELSE TermPut(term, ch)
    BY <1>2, InsertShows DEF insert_char
  <2>2. term' \in Terminal
    <3>1. ch # NUL => ch \in Glyph
      BY DEF Byte, Glyph
    <3> QED
      BY <1>1, <2>1, <3>1, Overwrites
  <2>3. ASSUME ~unseen', ~wild' PROVE \E head \in Heads : Echoes(term', head \o Line')
    <3>1. ~wild /\ ~unseen /\ ch # NUL
      BY <1>2, <2>3 DEF insert_char
    <3>2. PICK head \in Heads : Echoes(term, head \o Line)
      BY <3>1 DEF Echoing
    <3>3. Line \in Seq(Byte)
      BY <3>1, LineProperties DEF LineInside
    <3>4. ch \in Char /\ ch \in Byte \cup {PROMPT}
      BY <3>1 DEF Byte
    <3>5. Line' = Append(Line, ch)
      BY <1>2, <2>3, LineGrows
    <3>6. /\ head \o Append(Line, ch) = Append(head \o Line, ch)
          /\ head \o Line \in Seq(Byte \cup {PROMPT})
      BY <3>3, <3>4, HeadsTyped, Shown
    <3>7. Echoes(TermPut(term, ch), Append(head \o Line, ch))
      BY <3>2, <3>4, <3>6, EchoTyped
    <3> QED
      BY <2>1, <3>1, <3>5, <3>6, <3>7
  <2> QED
    BY <2>2, <2>3
<1>3. CASE delete_char
  <2>1. term' = TermPut(TermPut(TermPut(term, BS), SP), BS)
    BY <1>3, DeleteShows DEF delete_char
  <2>2. term' \in Terminal
    <3>1. SP \in Glyph /\ TermPut(term, BS) \in Terminal
      BY <1>1, Controls DEF Glyph
    <3>2. TermPut(TermPut(term, BS), SP) \in Terminal
      BY <3>1, Overwrites
    <3> QED
      BY <2>1, <3>2, Controls
  <2>3. ASSUME ~unseen', ~wild' PROVE \E head \in Heads : Echoes(term', head \o Line')
    <3>1. ~wild /\ ~unseen
      BY <1>3, <2>3 DEF delete_char
    <3>2. PICK head \in Heads : Echoes(term, head \o Line)
      BY <3>1 DEF Echoing
    <3>3. Line \in Seq(Byte)
      BY <3>1, LineProperties DEF LineInside
    <3>4. Line # <<>> /\ Line' = SubSeq(Line, 1, Len(Line) - 1)
      BY <1>3, LineShrinks
    <3>5. /\ head \o Line # <<>> /\ head \o Line \in Seq(Byte \cup {PROMPT})
          /\ head \o SubSeq(Line, 1, Len(Line) - 1)
               = SubSeq(head \o Line, 1, Len(head \o Line) - 1)
      <4>1. PROMPT \in Byte \cup {PROMPT}
        OBVIOUS
      <4> QED
        BY <3>3, <3>4, <4>1, HeadsTyped, Shown
    <3>6. Echoes(term', SubSeq(head \o Line, 1, Len(head \o Line) - 1))
      BY <2>1, <3>2, <3>5, EchoErased
    <3> QED
      BY <3>4, <3>5, <3>6
  <2> QED
    BY <2>2, <2>3
<1>4. CASE enter
  <2> DEFINE result == CASE cmd.count > MAXSIZE_CMD -> TOO_LONG
                         [] cmd.pos = 0 -> NOTHING
                         [] OTHER -> findcmd(Terminated.cmd)
  <2>1. /\ ~wild
        /\ Shows(<<CR, LF>> \o IF result = TOO_LONG THEN TOO_LONG ELSE Report(result) \o <<PROMPT>>)
    BY <1>4 DEF enter
  <2>2. result # TOO_LONG
    <3>1. ~(cmd.count > MAXSIZE_CMD)
      BY <2>1, LimitAssumption DEF LineInside, TypeOK
    <3>2. NOTHING # TOO_LONG
      BY DEF NOTHING, TOO_LONG
    <3>3. findcmd(Terminated.cmd) # TOO_LONG
      <4>1. \A k \in 1..Len(Names) : Names[k] # TOO_LONG
        BY NamesAssumption
      <4>2. NOT_FOUND # TOO_LONG
        BY DEF NOT_FOUND, TOO_LONG
      <4> QED
        BY <4>1, <4>2, FindCmd
    <3> QED
      BY <3>1, <3>2, <3>3
  <2> HIDE DEF result
  <2>3. term' = Prompt
    BY <1>1, <2>1, <2>2, EnterPrints
  <2>4. Line' = <<>>
    BY <1>4, LineCleared
  <2>5. <<PROMPT>> \o Line' = <<PROMPT>>
    BY <2>4
  <2>6. Prompt \in Terminal /\ Echoes(Prompt, <<PROMPT>>)
    <3>1. PROMPT \in Glyph
      BY DEF Glyph
    <3> QED
      BY <3>1 DEF Prompt, Terminal, Echoes
  <2> QED
    BY <2>3, <2>5, <2>6 DEF Heads
<1>5. CASE UNCHANGED vars
  BY <1>5 DEF Echoing, vars, Line
<1> QED
  BY <1>2, <1>3, <1>4, <1>5 DEF Next, Byte

LEMMA EchoingShows == TypeOK /\ LineInside /\ Echoing => EchoShown
<1> SUFFICES ASSUME TypeOK, LineInside, Echoing, TxReady = {TRUE}, ~unseen, ~wild
             PROVE  \E head \in {<<>>, <<PROMPT>>} :
                      LET shown == head \o Line
                      IN  /\ IsPrefix(shown, term.text) /\ term.col = Len(shown)
                          /\ \A k \in (Len(shown) + 1)..Len(term.text) : term.text[k] = SP
  BY DEF EchoShown
<1>1. PICK head \in Heads : Echoes(term, head \o Line)
  BY DEF Echoing
<1> DEFINE shown == head \o Line
<1>2. Line \in Seq(Byte)
  BY LineProperties DEF LineInside
<1>3. shown \in Seq(Byte \cup {PROMPT})
  BY <1>2, HeadsTyped, ConcatProperties
<1> HIDE DEF shown
<1>4. /\ term.col = Len(shown) /\ Len(shown) <= Len(term.text) /\ term.text \in Seq(Glyph)
      /\ \A k \in 1..Len(term.text) : term.text[k] = IF k <= Len(shown) THEN shown[k] ELSE SP
  BY <1>1 DEF shown, Echoes, Terminal
<1> DEFINE n == Len(shown)
           m == Len(term.text)
<1>5. n \in Nat /\ m \in Nat
  BY <1>3, <1>4
<1>6. \A k \in 1..n : k \in 1..m /\ shown[k] = term.text[k]
  BY <1>4, <1>5
<1>7. IsPrefix(shown, term.text)
  <2>1. SubSeq(shown, 1, n) = [k \in 1..n |-> shown[k]]
    BY <1>3
  <2>2. SubSeq(term.text, 1, n) = [k \in 1..n |-> term.text[k]]
    BY <1>4, <1>5
  <2>3. [k \in 1..n |-> shown[k]] = [k \in 1..n |-> term.text[k]]
    BY <1>6
  <2> QED
    BY <1>4, <2>1, <2>2, <2>3 DEF IsPrefix
<1>8. \A k \in (n + 1)..m : term.text[k] = SP
  BY <1>4, <1>5
<1> QED
  BY <1>4, <1>7, <1>8 DEF Heads, shown

\* With a transmitter that keeps up, the terminal shows the prompt and the line that is
\* in the buffer, its cursor behind it, whatever was typed and erased, for lines of any
\* length the buffer holds.
THEOREM LineEchoed == Spec => []EchoShown
BY InitTyped, StepTyped, InitEchoing, StepEchoing, EchoingShows, PTL DEF Spec
=============================================================================

------------------------------ MODULE Console ------------------------------
(***************************************************************************)
(* The console on COM1 (console.c, serial.c, string.c): serial_console is  *)
(* called by the main loop for each byte received and edits one line; on   *)
(* Enter it runs a command.  Characters are strings, one for each byte     *)
(* that matters here; the texts it prints are one character each.          *)
(***************************************************************************)
EXTENDS Integers, SequencesExt

CONSTANTS
  Char,         \* the characters a line is made of
  Names,        \* the names of cmd_set, in order: "help" and "e820"
  MAXSIZE_CMD,  \* 1024
  LineLimit,    \* bound: the longest line the user types
  TxReady       \* what is_transmit_empty can answer: {TRUE} or BOOLEAN

NUL == "nul"
CR == "cr"
LF == "lf"
BS == "bs"
SP == " "

\* What serial_console prints or does, one character for each text.
PROMPT == "$"
TABLE == "table"
NOTHING == <<>>
NOT_FOUND == <<"not found">>
TOO_LONG == <<"too long">>

\* A line is made of printing characters, and so are the names; the text that
\* answers a line too long is no name.
ASSUME LimitAssumption == MAXSIZE_CMD \in Nat \ {0} /\ LineLimit \in Nat
ASSUME NamesAssumption == /\ Char \cap {NUL, CR, LF, BS} = {}
                          /\ Names \in Seq(Seq(Char)) /\ TOO_LONG \notin Seq(Char)

VARIABLES
  cmd,     \* the line: its bytes, pos and count
  term,    \* the line the terminal shows, and its cursor's column
  ran,     \* what the last Enter did
  unseen,  \* has a byte without an echo entered the line?
  wild     \* a byte was stored outside cmd[MAXSIZE_CMD]: what follows is undefined

vars == <<cmd, term, ran, unseen, wild>>

-----------------------------------------------------------------------------
(* The terminal, and write_serial: it prints no NUL, and drops a byte when *)
(* the transmitter is busy.                                                *)

Overwrite(t, c) ==
  [text |-> [i \in 1..(IF t.col < Len(t.text) THEN Len(t.text) ELSE t.col + 1) |->
               IF i = t.col + 1 THEN c ELSE IF i <= Len(t.text) THEN t.text[i] ELSE SP],
   col  |-> t.col + 1]

TermPut(t, c) ==
  CASE c = BS -> [t EXCEPT !.col = IF @ > 0 THEN @ - 1 ELSE 0]
    [] c = CR -> [t EXCEPT !.col = 0]
    [] c = LF -> [t EXCEPT !.text = <<>>]
    [] OTHER  -> Overwrite(t, c)

write_serial(terms, a) ==
  IF a = NUL THEN terms
  ELSE {TermPut(t, a) : t \in terms} \cup (IF FALSE \in TxReady THEN terms ELSE {})

\* What the terminal may show after the first k bytes of a string.
Printed(string) ==
  LET after[k \in 0..Len(string)] ==
        IF k = 0 THEN {term} ELSE write_serial(after[k - 1], string[k])
  IN after

Shows(string) == term' \in Printed(string)[Len(string)]

-----------------------------------------------------------------------------
(* Commands.                                                               *)

\* strncmp(name, line, n) = 0: comparing stops at n, at a NUL, or at the first
\* difference.
strncmp_zero(name, line, n) ==
  \A i \in 0..(n - 1) : name[i + 1] # NUL /\ name[i + 1] = line[i]

findcmd(line) ==
  LET found == SelectInSeq(Names, LAMBDA name : strncmp_zero(name, line, Len(name)))
  IN  IF found = 0 THEN NOT_FOUND ELSE Names[found]

\* help prints nothing, e820 a table.
Report(result) == CASE result = NOT_FOUND -> NOT_FOUND \o <<LF, CR>>
                    [] result = Names[2] -> <<TABLE, CR, LF>>
                    [] OTHER -> <<>>

Inside(i) == i < MAXSIZE_CMD
Put(i, c) == IF Inside(i) THEN [cmd EXCEPT !.cmd[i] = c] ELSE cmd

-----------------------------------------------------------------------------
(* read_cmdline and main_loop, for each byte get_serial_fifo can return.   *)

insert_char(c) ==
  /\ ~wild /\ cmd.count < LineLimit
  /\ cmd' = [Put(cmd.pos, c) EXCEPT !.pos = @ + 1, !.count = @ + 1]
  /\ wild' = ~Inside(cmd.pos)
  /\ Shows(<<c>>)
  /\ unseen' = (unseen \/ c = NUL)
  /\ UNCHANGED ran

\* Mutants: Delete leaves the character on the terminal; it ignores an empty line.
delete_char_Stays ==
  /\ ~wild /\ cmd.pos > 0
  /\ cmd' = [cmd EXCEPT !.pos = @ - 1, !.count = @ - 1, !.cmd[cmd.pos - 1] = NUL]
  /\ Shows(<<BS>>)
  /\ UNCHANGED <<ran, unseen, wild>>
delete_char_Empty ==
  /\ ~wild
  /\ cmd' = [cmd EXCEPT !.pos = @ - 1, !.count = @ - 1]
  /\ Shows(<<BS, SP, BS>>)
  /\ UNCHANGED <<ran, unseen, wild>>

delete_char ==
  /\ ~wild /\ cmd.pos > 0
  /\ cmd' = [cmd EXCEPT !.pos = @ - 1, !.count = @ - 1, !.cmd[cmd.pos - 1] = NUL]
  /\ Shows(<<BS, SP, BS>>)
  /\ UNCHANGED <<ran, unseen, wild>>

\* The line ends at a NUL (mutant: it does not).
Terminated_Stale == cmd
Terminated == Put(cmd.pos, NUL)

enter ==
  LET result == CASE cmd.count > MAXSIZE_CMD -> TOO_LONG
                  [] cmd.pos = 0 -> NOTHING
                  [] OTHER -> findcmd(Terminated.cmd)
  IN  /\ ~wild
      /\ ran' = result
      /\ Shows(<<CR, LF>> \o IF result = TOO_LONG THEN TOO_LONG
                             ELSE Report(result) \o <<PROMPT>>)
      /\ cmd' = [Terminated EXCEPT !.pos = 0, !.count = 0, !.cmd[0] = NUL]
      /\ wild' = ~Inside(cmd.pos)
      /\ unseen' = FALSE

Init == /\ cmd = [cmd |-> [i \in 0..(MAXSIZE_CMD - 1) |-> NUL], pos |-> 0, count |-> 0]
        /\ term = [text |-> <<>>, col |-> 0]
        /\ ran = NOTHING /\ unseen = FALSE /\ wild = FALSE

Next == (\E c \in Char \cup {NUL} : insert_char(c)) \/ delete_char \/ enter

Spec == Init /\ [][Next]_vars

-----------------------------------------------------------------------------
Line == [i \in 1..cmd.pos |-> cmd.cmd[i - 1]]

\* pos and count stay together and within the user's limit.
TypeOK ==
  /\ cmd \in [cmd : [0..(MAXSIZE_CMD - 1) -> Char \cup {NUL}],
              pos : 0..LineLimit, count : 0..LineLimit]
  /\ cmd.pos = cmd.count
  /\ ran \in {NOTHING, NOT_FOUND, TOO_LONG} \cup {Names[k] : k \in 1..Len(Names)}
  /\ unseen \in BOOLEAN /\ wild \in BOOLEAN

\* No byte is ever stored outside the buffer.  The length is tested only when the
\* line is complete.
InsideBuffer == ~wild

\* The bytes of earlier, longer lines stay in the buffer, and the name is compared
\* without the line's length; still Enter runs what the line says.
Editor == INSTANCE LineEditor WITH Char <- Char \cup {NUL}, line <- Line, NotFound <- NOT_FOUND
EditsLine == Editor!Spec

\* As long as the transmitter keeps up and every byte has an echo, the terminal
\* shows the prompt, the line and its cursor at the end, whatever was erased.
EchoShown ==
  TxReady = {TRUE} /\ ~unseen /\ ~wild =>
    \E head \in {<<>>, <<PROMPT>>} :
      LET shown == head \o Line
      IN  /\ IsPrefix(shown, term.text) /\ term.col = Len(shown)
          /\ \A i \in (Len(shown) + 1)..Len(term.text) : term.text[i] = SP
=============================================================================

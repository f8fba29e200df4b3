------------------------------- MODULE Screen -------------------------------
(***************************************************************************)
(* What is drawn on the 320 by 200 screen beside the mouse pointer: the    *)
(* desktop and the memory totals at boot, then the keys pressed (start.c,  *)
(* keyboard.c).  A glyph is eight by sixteen, drawn straight into the      *)
(* video memory; screen_pos is where the next key's glyph goes.            *)
(***************************************************************************)
EXTENDS Integers, Sequences

CONSTANTS
  Codes,      \* the scan codes the keyboard can send
  MapEntries  \* bound: the longest memory map

ASSUME CodesAssumption == Codes \subseteq 0..255 /\ MapEntries \in Nat

XSize == 320
YSize == 200

VARIABLES
  pc,          \* "desktop", "totals", then "keys"
  screen_pos,  \* [x, y]
  drawn,       \* the boxes [x0, y0, x1, y1] the last operation drew
  keys, shown  \* history: printing keys pressed, and those of them drawn, up to MaxKeys

vars == <<pc, screen_pos, drawn, keys, shown>>

MaxKeys == 1000

-----------------------------------------------------------------------------
(* Drawing.                                                                *)

Box(x0, y0, x1, y1) == [x0 |-> x0, y0 |-> y0, x1 |-> x1, y1 |-> y1]
putfont8(x, y) == Box(x, y, x + 7, y + 15)

\* One row of putfont8_string, on s = the column, the characters left, the cursor
\* and what is drawn so far.  The column is never set back.  (Mutant: the cursor
\* goes to the next line without going down.)
NextPlace_SameLine(p) == IF p.x + 2 >= 300 THEN [p EXCEPT !.x = 0] ELSE [p EXCEPT !.x = @ + 2]
NextPlace(p) == IF p.x + 2 >= 300 THEN [x |-> 0, y |-> p.y + 12] ELSE [p EXCEPT !.x = @ + 2]

Row(s, next, y1) ==
  LET columns == IF s.x1 < 310 THEN (319 - s.x1) \div 10 ELSE 0
      n == IF s.left < columns THEN s.left ELSE columns
  IN [x1   |-> s.x1 + 10 * n,
      left |-> s.left - n,
      pos  |-> next,
      out  |-> s.out \cup {putfont8(s.x1 + 10 * k, y1) : k \in 0..(n - 1)}]

\* How many rows there are from y1 on: above 190, 30 apart.  (Mutant: above 210.)
RowsFrom_Lower(y1) == IF y1 < 210 THEN (239 - y1) \div 30 ELSE 0
RowsFrom(y1) == IF y1 < 190 THEN (219 - y1) \div 30 ELSE 0

\* A string of len characters at x, y; at 0, 0 it goes to the cursor.
putfont8_string(x, y, len, pos) ==
  LET x1 == IF x = 0 THEN pos.x ELSE x
      y1 == IF y = 0 THEN pos.y ELSE y
      cursor(p) == IF x = 0 /\ y = 0 THEN NextPlace(p) ELSE p
      after[k \in 0..RowsFrom(y1)] ==
        IF k = 0 THEN [x1 |-> x1, left |-> len, pos |-> pos, out |-> {}]
        ELSE Row(after[k - 1], cursor(after[k - 1].pos), y1 + 30 * (k - 1))
  IN after[RowsFrom(y1)]

\* The boxes of the task bar, its button and its field.
TaskBar == {Box(0, YSize - 28, XSize - 1, YSize - 28), Box(0, YSize - 27, XSize - 1, YSize - 27),
            Box(0, YSize - 26, XSize - 1, YSize - 1),
            Box(3, YSize - 24, 59, YSize - 24), Box(2, YSize - 24, 2, YSize - 4),
            Box(3, YSize - 4, 59, YSize - 4), Box(59, YSize - 23, 59, YSize - 5),
            Box(2, YSize - 3, 59, YSize - 3), Box(60, YSize - 24, 60, YSize - 3),
            Box(XSize - 47, YSize - 24, XSize - 4, YSize - 24),
            Box(XSize - 47, YSize - 23, XSize - 47, YSize - 4),
            Box(XSize - 47, YSize - 3, XSize - 4, YSize - 3),
            Box(XSize - 3, YSize - 24, XSize - 3, YSize - 3)}

-----------------------------------------------------------------------------
(* Boot.                                                                   *)

drawing_desktop ==
  /\ pc = "desktop" /\ pc' = "totals"
  /\ drawn' = {Box(0, 0, XSize - 1, YSize - 29)} \cup TaskBar
              \cup putfont8_string(8, 8, 15, screen_pos).out
  /\ UNCHANGED <<screen_pos, keys, shown>>

\* A row for each entry of the memory map, "free" or "reserve", and three totals
\* below; d digits a number.
MapRow(y, d) == putfont8_string(8, y, 5 + d, screen_pos).out
                \cup putfont8_string(150, y, 4 + d, screen_pos).out
Totals(y, d) == UNION {putfont8_string(8, y + 16 * k, <<11, 16, 18>>[k + 1] + d, screen_pos).out :
                         k \in 0..2}

drawing_mem_map ==
  /\ pc = "totals" /\ pc' = "keys"
  /\ \E n \in 0..MapEntries, d \in 1..8, kind \in {4, 7} :
       LET y(k) == 20 + 16 * (k - 1)
           Types(k) == putfont8_string(270, y(k), kind, screen_pos).out
       IN drawn' = Totals(y(n + 1), d) \cup (UNION {MapRow(y(k), d) \cup Types(k) : k \in 1..n})
  /\ UNCHANGED <<screen_pos, keys, shown>>

-----------------------------------------------------------------------------
(* keyboard_handler.                                                       *)

LastScancode == 54  \* the table's
NoChar == {0, 1, 14, 15, 28, 29, 42, 54}
Key_b == 48

\* The table is read beyond its end up to code 0x80: what is there may be zero.
MayBeChar(code)   == code \in (0..128) \ NoChar
MayBeNoChar(code) == code \in NoChar \cup ((LastScancode + 1)..128)

\* A key that prints: its glyph at the cursor; for b also the message.
print(code) ==
  /\ MayBeChar(code)
  /\ LET glyph == putfont8_string(0, 0, 1, screen_pos)
         message == IF code = Key_b THEN putfont8_string(8, 100, 27, glyph.pos).out ELSE {}
     IN /\ screen_pos' = glyph.pos
        /\ drawn' = glyph.out \cup message
        /\ keys' = IF keys < MaxKeys THEN keys + 1 ELSE keys
        /\ shown' = IF keys < MaxKeys /\ glyph.left = 0 THEN shown + 1 ELSE shown

\* A key that does not: its code in two digits, on a fresh task bar.
show_code(code) ==
  /\ MayBeNoChar(code)
  /\ drawn' = TaskBar \cup putfont8_string(283, 180, 2, screen_pos).out
  /\ UNCHANGED <<screen_pos, keys, shown>>

\* A key released.
ignore(code) == /\ code >= 129
                /\ UNCHANGED <<screen_pos, drawn, keys, shown>>

keyboard_handler(code) == /\ pc = "keys" /\ UNCHANGED pc
                          /\ print(code) \/ show_code(code) \/ ignore(code)

-----------------------------------------------------------------------------
Init == /\ pc = "desktop" /\ screen_pos = [x |-> 0, y |-> 20]
        /\ drawn = {} /\ keys = 0 /\ shown = 0

Next == \/ drawing_desktop
        \/ drawing_mem_map
        \/ \E code \in Codes : keyboard_handler(code)

Spec == Init /\ [][Next]_vars

-----------------------------------------------------------------------------
\* Nothing is drawn beside the screen, nor beyond the 64 KB of video memory, wherever
\* the cursor has come to.  (The last line of keys, at 188, loses its lowest rows:
\* they fall behind the 200 lines shown, but still into video memory.)
InVideoMemory == \A b \in drawn : /\ 0 <= b.x0 /\ b.x0 <= b.x1 /\ b.x1 < XSize
                                  /\ 0 <= b.y0 /\ b.y0 <= b.y1
                                  /\ b.y1 * XSize + b.x1 < 65536

\* Keys appear in reading order: the cursor only goes right, or down to a new line.
ReadingOrder ==
  [][\/ screen_pos' = screen_pos
     \/ screen_pos'.y = screen_pos.y /\ screen_pos'.x > screen_pos.x
     \/ screen_pos'.y > screen_pos.y /\ screen_pos'.x < 14]_vars

\* putfont8_string moves the cursor once per row it walks, not once per glyph, and
\* the screen fills up: the first 965 keys are drawn and no later one ever is.
Room == 965
ShownUntilFull == shown = IF keys <= Room THEN keys ELSE Room
=============================================================================

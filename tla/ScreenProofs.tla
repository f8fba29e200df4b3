---------------------------- MODULE ScreenProofs ----------------------------
(***************************************************************************)
(* Proofs about Screen, for any keyboard and memory maps of any length:    *)
(* where the cursor is after any number of keys, that what is drawn stays  *)
(* inside the video memory, and how many keys the screen has room for.     *)
(***************************************************************************)
EXTENDS Screen, TLAPS, WellFoundedInduction

\* The cursor after p of NextPlace's steps: 150 places a line, two columns apart.
Place(p) == [x |-> 2 * (p % 150), y |-> 20 + 12 * (p \div 150)]

\* The steps it has taken after k printing keys: one for each row walked, six rows
\* from the first two lines, one from the last three, none below.
Places(k) == IF k <= 50 THEN 6 * k
             ELSE IF k <= 140 THEN 300 + 5 * (k - 50)
             ELSE IF k <= 215 THEN 750 + 4 * (k - 140)
             ELSE IF k <= 365 THEN 1050 + 3 * (k - 215)
             ELSE IF k <= 515 THEN 1500 + 2 * (k - 365)
             ELSE IF k <= 965 THEN 1800 + (k - 515)
             ELSE 2250

\* The number of keys says where the cursor is and what has been drawn.
CursorPlace == /\ keys \in 0..MaxKeys
               /\ screen_pos = Place(Places(keys))
               /\ ShownUntilFull

OnScreen(b) == /\ 0 <= b.x0 /\ b.x0 <= b.x1 /\ b.x1 < XSize
               /\ 0 <= b.y0 /\ b.y0 <= b.y1
               /\ b.y1 * XSize + b.x1 < 65536

-----------------------------------------------------------------------------
(* The operators of the model.                                             *)

\* A set of natural numbers has a least element.
LEMMA Least ==
  ASSUME NEW T \in SUBSET Nat, T # {}
  PROVE  \E m \in T : \A n \in T : m <= n
<1> DEFINE R == OpToRel(<, Nat)
<1>1. IsWellFoundedOn(R, Nat)
  BY NatLessThanWellFounded
<1>2. \A x, y \in Nat : <<y, x>> \in R <=> y < x
  BY DEF OpToRel
<1> HIDE DEF R
<1>3. PICK x \in T : \A y \in T : ~ (<<y, x>> \in R)
  BY <1>1, WFMin
<1>4. \A y \in T : ~ (y < x)
  BY <1>2, <1>3
<1> QED
  BY <1>4

\* The cursor's steps go through the places in order.
LEMMA NextPlaceIs ==
  ASSUME NEW p \in Nat
  PROVE  NextPlace(Place(p)) = Place(p + 1)
<1> DEFINE q == p \div 150
           r == p % 150
<1>1. q \in Nat /\ r \in 0..149 /\ p = 150 * q + r
  OBVIOUS
<1>2. CASE r = 149
  <2>1. (p + 1) \div 150 = q + 1 /\ (p + 1) % 150 = 0
    BY <1>1, <1>2
  <2> QED
    BY <1>1, <1>2, <2>1 DEF NextPlace, Place
<1>3. CASE r # 149
  <2>1. (p + 1) \div 150 = q /\ (p + 1) % 150 = r + 1
    BY <1>1, <1>3
  <2> QED
    BY <1>1, <1>3, <2>1 DEF NextPlace, Place
<1> QED
  BY <1>2, <1>3

\* From no line are there more than six rows, and from below 189 none.
LEMMA RowsAre ==
  /\ \A y \in Nat : RowsFrom(y) \in Nat /\ (RowsFrom(y) = 0 <=> y >= 190)
  /\ \A y \in Nat : y >= 20 => RowsFrom(y) <= 6
BY DEF RowsFrom

\* The glyphs of a row: as many as it has columns left, or characters are left.
Fits(x1, left) == LET columns == IF x1 < 310 THEN (319 - x1) \div 10 ELSE 0
                  IN IF left < columns THEN left ELSE columns
Glyphs(x1, y1, n) == {putfont8(x1 + 10 * k, y1) : k \in 0..(n - 1)}

LEMMA FitsBounds ==
  ASSUME NEW x1 \in Nat, NEW left \in Nat
  PROVE  /\ Fits(x1, left) \in Nat /\ Fits(x1, left) <= left
         /\ Fits(x1, left) > 0 => x1 + 10 * (Fits(x1, left) - 1) <= 309
         /\ Fits(x1, left) = left \/ x1 + 10 * Fits(x1, left) >= 310
         /\ x1 <= 300 /\ left = 1 => Fits(x1, left) = 1
         /\ x1 >= 310 \/ left = 0 => Fits(x1, left) = 0
BY DEF Fits

State(x1, left, pos, out) == [x1 |-> x1, left |-> left, pos |-> pos, out |-> out]

LEMMA RowIs ==
  ASSUME NEW x1, NEW left, NEW pos, NEW out, NEW next, NEW y1
  PROVE  Row(State(x1, left, pos, out), next, y1) =
           State(x1 + 10 * Fits(x1, left), left - Fits(x1, left), next,
                 out \cup Glyphs(x1, y1, Fits(x1, left)))
<1> DEFINE s == State(x1, left, pos, out)
           n == Fits(x1, left)
<1>1. s.x1 = x1 /\ s.left = left /\ s.pos = pos /\ s.out = out
  BY DEF State
<1> HIDE DEF s
<1>2. Row(s, next, y1) =
        [x1 |-> s.x1 + 10 * n, left |-> s.left - n,
         pos |-> next,
         out |-> s.out \cup {putfont8(s.x1 + 10 * k, y1) : k \in 0..(n - 1)}]
  BY <1>1 DEF Row, Fits
<1> HIDE DEF n
<1>3. Row(s, next, y1) =
        [x1 |-> x1 + 10 * n, left |-> left - n,
         pos |-> next,
         out |-> out \cup {putfont8(x1 + 10 * k, y1) : k \in 0..(n - 1)}]
  BY <1>1, <1>2
<1> QED
  BY <1>3 DEF State, Glyphs, s, n

\* A row that starts beyond the last column, or with nothing left, draws nothing.
LEMMA LaterRow ==
  ASSUME NEW x1 \in Nat, NEW left \in Nat, NEW pos, NEW out, NEW next, NEW y1,
         x1 >= 310 \/ left = 0
  PROVE  Row(State(x1, left, pos, out), next, y1) =
           State(x1, left, next, out)
<1> DEFINE row == Row(State(x1, left, pos, out), next, y1)
           n == Fits(x1, left)
<1>1. row = State(x1 + 10 * n, left - n, next, out \cup Glyphs(x1, y1, n))
  BY RowIs
<1>2. n = 0
  BY FitsBounds
<1> HIDE DEF row, n
<1>3. Glyphs(x1, y1, n) = {}
  BY <1>2 DEF Glyphs
<1>4. x1 + 10 * n = x1 /\ left - n = left
  BY <1>2
<1>5. row = State(x1, left, next, out)
  <2>1. out \cup {} = out
    OBVIOUS
  <2> QED
    BY <1>1, <1>3, <1>4, <2>1
<1> QED
  BY <1>5 DEF row

\* A string is drawn in its first row, as far as it fits, and moves the cursor once a
\* row if it goes there.
Column(x, p) == IF x = 0 THEN Place(p).x ELSE x
Line(y, p)   == IF y = 0 THEN Place(p).y ELSE y

StringFrom(x, y, len, p, k) ==
  LET x1 == Column(x, p)
      n == Fits(x1, len)
      pos == IF x = 0 /\ y = 0 THEN Place(p + k) ELSE Place(p)
  IN IF k = 0 THEN State(x1, len, Place(p), {})
     ELSE State(x1 + 10 * n, len - n, pos, Glyphs(x1, Line(y, p), n))

LEMMA StringRow ==
  ASSUME NEW x \in Nat, NEW y \in Nat, NEW len \in Nat, NEW p \in Nat, NEW k \in Nat
  PROVE  LET s == StringFrom(x, y, len, p, k)
         IN Row(s, IF x = 0 /\ y = 0 THEN NextPlace(s.pos) ELSE s.pos, Line(y, p) + 30 * k) =
              StringFrom(x, y, len, p, k + 1)
<1> DEFINE x1 == Column(x, p)
           n == Fits(x1, len)
           y1 == Line(y, p)
           s == StringFrom(x, y, len, p, k)
           next == IF x = 0 /\ y = 0 THEN Place(p + (k + 1)) ELSE Place(p)
<1>1. x1 \in Nat /\ y1 \in Nat
  BY DEF Column, Line, Place
<1> HIDE DEF x1, y1
<1>2. n \in Nat /\ n <= len /\ (n = len \/ x1 + 10 * n >= 310)
  BY <1>1, FitsBounds
<1> HIDE DEF n
<1>3. /\ NextPlace(Place(p + k)) = Place(p + (k + 1)) /\ k + 1 # 0
      /\ k = 0 => NextPlace(Place(p)) = Place(p + (k + 1))
  <2>1. p + k + 1 = p + (k + 1) /\ p + k \in Nat /\ (k = 0 => p + 1 = p + (k + 1))
    OBVIOUS
  <2> QED
    BY <2>1, NextPlaceIs
<1>4. StringFrom(x, y, len, p, k + 1) = State(x1 + 10 * n, len - n, next, Glyphs(x1, y1, n))
  BY <1>3 DEF StringFrom, x1, y1, n
<1>5. (IF x = 0 /\ y = 0 THEN NextPlace(s.pos) ELSE s.pos) = next
  <2>1. s.pos = IF x = 0 /\ y = 0 /\ k # 0 THEN Place(p + k) ELSE Place(p)
    BY DEF StringFrom, State
  <2> HIDE DEF s
  <2> QED
    BY <1>3, <2>1
<1> HIDE DEF next
<1>6. CASE k = 0
  <2>1. s = State(x1, len, Place(p), {})
    BY <1>6 DEF StringFrom, x1
  <2>2. y1 + 30 * k = y1
    BY <1>1, <1>6
  <2> HIDE DEF s
  <2>3. Row(s, next, y1) = State(x1 + 10 * n, len - n, next, {} \cup Glyphs(x1, y1, n))
    BY <2>1, RowIs DEF n
  <2>4. {} \cup Glyphs(x1, y1, n) = Glyphs(x1, y1, n)
    OBVIOUS
  <2> QED
    BY <1>4, <1>5, <2>2, <2>3, <2>4 DEF y1, s
<1>7. CASE k # 0
  <2> DEFINE pos == IF x = 0 /\ y = 0 THEN Place(p + k) ELSE Place(p)
             out == Glyphs(x1, y1, n)
             right == x1 + 10 * n
             left == len - n
  <2>1. s = State(right, left, pos, out)
    BY <1>7 DEF StringFrom, x1, y1, n
  <2>2. right \in Nat /\ left \in Nat /\ (right >= 310 \/ left = 0)
    BY <1>1, <1>2
  <2> HIDE DEF pos, out, right, left, s
  <2>3. Row(s, next, y1 + 30 * k) = State(right, left, next, out)
    BY <2>1, <2>2, LaterRow
  <2> QED
    BY <1>4, <1>5, <2>3 DEF y1, out, right, left, s
<1> QED
  BY <1>6, <1>7

LEMMA StringIs ==
  ASSUME NEW x \in Nat, NEW y \in Nat, NEW len \in Nat, NEW p \in Nat
  PROVE  putfont8_string(x, y, len, Place(p)) = StringFrom(x, y, len, p, RowsFrom(Line(y, p)))
<1> DEFINE y1 == Line(y, p)
           n == RowsFrom(y1)
           t(k) == StringFrom(x, y, len, p, k)
           cursor(q) == IF x = 0 /\ y = 0 THEN NextPlace(q) ELSE q
           Step(f) == [k \in 0..n |->
                         IF k = 0 THEN [x1 |-> Column(x, p), left |-> len, pos |-> Place(p), out |-> {}]
                         ELSE Row(f[k - 1], cursor(f[k - 1].pos), y1 + 30 * (k - 1))]
           g == [k \in 0..n |-> t(k)]
           F == CHOOSE f : f = Step(f)
<1>1. y1 \in Nat /\ n \in Nat
  BY RowsAre DEF Line, Place
<1>2. putfont8_string(x, y, len, Place(p)) = F[n]
  BY DEF putfont8_string, Column, Line
<1>3. t(0) = [x1 |-> Column(x, p), left |-> len, pos |-> Place(p), out |-> {}]
  BY DEF StringFrom, State
<1>4. ASSUME NEW k \in Nat, k # 0
      PROVE  Row(t(k - 1), cursor(t(k - 1).pos), y1 + 30 * (k - 1)) = t(k)
  <2>1. k - 1 \in Nat /\ (k - 1) + 1 = k
    BY <1>4
  <2> QED
    BY <2>1, StringRow
<1> HIDE DEF n, t, y1
<1>5. g = Step(g)
  <2> SUFFICES ASSUME NEW k \in 0..n
               PROVE  t(k) = IF k = 0 THEN [x1 |-> Column(x, p), left |-> len, pos |-> Place(p), out |-> {}]
                             ELSE Row(g[k - 1], cursor(g[k - 1].pos), y1 + 30 * (k - 1))
    OBVIOUS
  <2>1. k \in Nat /\ (k # 0 => k - 1 \in 0..n)
    BY <1>1
  <2>2. k # 0 => g[k - 1] = t(k - 1)
    BY <2>1
  <2> QED
    BY <1>3, <1>4, <2>1, <2>2
<1>6. F = Step(F)
  BY <1>5
<1> HIDE DEF F, g
<1>7. F[0] = t(0)
  BY <1>1, <1>3, <1>6
<1>8. ASSUME NEW k \in 1..n
      PROVE  F[k] = Row(F[k - 1], cursor(F[k - 1].pos), y1 + 30 * (k - 1))
  <2>1. k \in 0..n /\ k # 0
    BY <1>1
  <2> QED
    BY <1>6, <2>1
<1> DEFINE Same == {k \in Nat : k <= n => F[k] = t(k)}
<1>9. ASSUME NEW k \in Nat PROVE k \in Same
  <2> SUFFICES ASSUME Nat \ Same # {} PROVE FALSE
    OBVIOUS
  <2>1. PICK m \in Nat \ Same : \A j \in Nat \ Same : m <= j
    BY Least
  <2>2. m # 0 /\ m - 1 \in Nat /\ m \in 1..n
    BY <1>1, <1>7, <2>1
  <2>3. m - 1 \in Same
    BY <2>1, <2>2
  <2>4. F[m - 1] = t(m - 1)
    BY <1>1, <2>2, <2>3
  <2>5. F[m] = t(m)
    BY <1>4, <1>8, <2>2, <2>4
  <2> QED
    BY <2>1, <2>5
<1> QED
  BY <1>1, <1>2, <1>9 DEF n, t, y1

\* What a string draws lies in the video memory, whatever it says and wherever the
\* cursor is, but from line 189, which no string starts at.
LEMMA StringOnScreen ==
  ASSUME NEW x \in Nat, NEW y \in Nat, NEW len \in Nat, NEW p \in Nat, y # 189
  PROVE  \A b \in putfont8_string(x, y, len, Place(p)).out : OnScreen(b)
<1> DEFINE x1 == Column(x, p)
           y1 == Line(y, p)
           n == Fits(x1, len)
<1>1. x1 \in Nat /\ y1 \in Nat /\ y1 # 189
  BY DEF Column, Line, Place
<1>2. putfont8_string(x, y, len, Place(p)).out = IF RowsFrom(y1) = 0 THEN {} ELSE Glyphs(x1, y1, n)
  <2> DEFINE s == StringFrom(x, y, len, p, RowsFrom(y1))
  <2>1. putfont8_string(x, y, len, Place(p)) = s
    BY StringIs
  <2>2. s.out = IF RowsFrom(y1) = 0 THEN {} ELSE Glyphs(x1, y1, n)
    BY DEF StringFrom, State
  <2> HIDE DEF s
  <2> QED
    BY <2>1, <2>2
<1>3. RowsFrom(y1) = 0 \/ y1 <= 188
  BY <1>1, RowsAre
<1> HIDE DEF x1, y1
<1>4. n \in Nat /\ (n > 0 => x1 + 10 * (n - 1) <= 309)
  BY <1>1, FitsBounds
<1> HIDE DEF n
<1>5. SUFFICES ASSUME y1 <= 188, NEW k \in 0..(n - 1) PROVE OnScreen(putfont8(x1 + 10 * k, y1))
  BY <1>2, <1>3 DEF Glyphs
<1>6. x1 + 10 * k \in 0..309
  BY <1>1, <1>4
<1> QED
  BY <1>1, <1>5, <1>6 DEF OnScreen, putfont8, Box, XSize

\* A glyph at the cursor: drawn if there is a row, and a step to the right for each.
LEMMA KeyDrawn ==
  ASSUME NEW p \in Nat
  PROVE  LET glyph == putfont8_string(0, 0, 1, Place(p))
             n == RowsFrom(Place(p).y)
         IN glyph.pos = Place(p + n) /\ glyph.left = IF n = 0 THEN 1 ELSE 0
<1> DEFINE n == RowsFrom(Place(p).y)
<1>1. Place(p).x \in Nat /\ Place(p).x <= 300 /\ Place(p).y \in Nat
  BY DEF Place
<1>2. n \in Nat /\ Fits(Place(p).x, 1) = 1
  BY <1>1, RowsAre, FitsBounds
<1>3. Line(0, p) = Place(p).y /\ Column(0, p) = Place(p).x
  BY DEF Line, Column
<1>4. putfont8_string(0, 0, 1, Place(p)) = StringFrom(0, 0, 1, p, n)
  BY <1>3, StringIs
<1>5. p + 0 = p
  OBVIOUS
<1> HIDE DEF n
<1> QED
  BY <1>2, <1>3, <1>4, <1>5 DEF StringFrom, State, n

\* The keys on each line, and the lines below the last.
LEMMA PlacesStep ==
  ASSUME NEW k \in Nat
  PROVE  /\ Places(k) \in Nat /\ (Places(k) < 2250 <=> k < 965)
         /\ Places(k + 1) = Places(k) + RowsFrom(Place(Places(k)).y)
         /\ RowsFrom(Place(Places(k)).y) = 0 <=> k >= 965
<1> DEFINE p == Places(k)
           q == p \div 150
<1>1. p \in Nat /\ q \in Nat /\ 150 * q <= p /\ p < 150 * q + 150
  BY DEF Places
<1>2. Place(p).y = 20 + 12 * q
  BY DEF Place
<1> HIDE DEF q
<1>3. CASE k < 50
  <2>1. p = 6 * k /\ Places(k + 1) = p + 6
    BY <1>3 DEF Places
  <2>2. q = 0 \/ q = 1
    BY <1>1, <1>3, <2>1
  <2> QED
    BY <1>1, <1>2, <1>3, <2>1, <2>2 DEF RowsFrom
<1>4. CASE k >= 50 /\ k < 140
  <2>1. p = 300 + 5 * (k - 50) /\ Places(k + 1) = p + 5
    BY <1>4 DEF Places
  <2>2. q = 2 \/ q = 3 \/ q = 4
    BY <1>1, <1>4, <2>1
  <2> QED
    BY <1>1, <1>2, <1>4, <2>1, <2>2 DEF RowsFrom
<1>5. CASE k >= 140 /\ k < 215
  <2>1. p = 750 + 4 * (k - 140) /\ Places(k + 1) = p + 4
    BY <1>5 DEF Places
  <2>2. q = 5 \/ q = 6
    BY <1>1, <1>5, <2>1
  <2> QED
    BY <1>1, <1>2, <1>5, <2>1, <2>2 DEF RowsFrom
<1>6. CASE k >= 215 /\ k < 365
  <2>1. p = 1050 + 3 * (k - 215) /\ Places(k + 1) = p + 3
    BY <1>6 DEF Places
  <2>2. q = 7 \/ q = 8 \/ q = 9
    BY <1>1, <1>6, <2>1
  <2> QED
    BY <1>1, <1>2, <1>6, <2>1, <2>2 DEF RowsFrom
<1>7. CASE k >= 365 /\ k < 515
  <2>1. p = 1500 + 2 * (k - 365) /\ Places(k + 1) = p + 2
    BY <1>7 DEF Places
  <2>2. q = 10 \/ q = 11
    BY <1>1, <1>7, <2>1
  <2> QED
    BY <1>1, <1>2, <1>7, <2>1, <2>2 DEF RowsFrom
<1>8. CASE k >= 515 /\ k < 965
  <2>1. p = 1800 + (k - 515) /\ Places(k + 1) = p + 1
    BY <1>8 DEF Places
  <2>2. q = 12 \/ q = 13 \/ q = 14
    BY <1>1, <1>8, <2>1
  <2> QED
    BY <1>1, <1>2, <1>8, <2>1, <2>2 DEF RowsFrom
<1>9. CASE k >= 965
  <2>1. p = 2250 /\ Places(k + 1) = 2250
    BY <1>9 DEF Places
  <2>2. q = 15
    BY <1>1, <2>1
  <2> QED
    BY <1>1, <1>2, <1>9, <2>1, <2>2 DEF RowsFrom
<1> QED
  BY <1>3, <1>4, <1>5, <1>6, <1>7, <1>8, <1>9

-----------------------------------------------------------------------------
(* The cursor and the keys.                                                *)

LEMMA InitCursor == Init => CursorPlace
<1>1. Places(0) = 0 /\ Place(0) = [x |-> 0, y |-> 20]
  BY DEF Places, Place
<1> QED
  BY <1>1 DEF Init, CursorPlace, MaxKeys, ShownUntilFull, Room

\* A printing key.
LEMMA PrintCursor ==
  ASSUME CursorPlace, NEW code, print(code)
  PROVE  CursorPlace'
<1> DEFINE p == Places(keys)
           glyph == putfont8_string(0, 0, 1, screen_pos)
           n == RowsFrom(Place(p).y)
<1>1. keys \in Nat /\ keys <= 1000 /\ screen_pos = Place(p) /\ p \in Nat
  BY PlacesStep DEF CursorPlace, MaxKeys
<1>2. n \in Nat /\ (n = 0 <=> keys >= 965) /\ Places(keys + 1) = p + n
  <2>1. keys \in Nat
    BY <1>1
  <2> QED
    BY <2>1, PlacesStep, RowsAre DEF Place
<1>3. glyph.pos = Place(p + n) /\ glyph.left = IF n = 0 THEN 1 ELSE 0
  BY <1>1, KeyDrawn
<1>4. /\ screen_pos' = glyph.pos
      /\ keys' = IF keys < 1000 THEN keys + 1 ELSE keys
      /\ shown' = IF keys < 1000 /\ glyph.left = 0 THEN shown + 1 ELSE shown
  BY DEF print, MaxKeys
<1>5. shown = IF keys <= 965 THEN keys ELSE 965
  BY DEF CursorPlace, ShownUntilFull, Room
<1> HIDE DEF glyph, n, p
<1>6. keys' \in 0..1000
  BY <1>1, <1>4
<1>7. screen_pos' = Place(Places(keys'))
  <2>1. CASE keys < 1000
    BY <1>2, <1>3, <1>4, <2>1
  <2>2. CASE ~(keys < 1000)
    <3>1. n = 0 /\ p + n = p
      BY <1>1, <1>2, <2>2
    <3> QED
      BY <1>3, <1>4, <2>2, <3>1 DEF p
  <2> QED
    BY <2>1, <2>2
<1>8. shown' = IF keys' <= 965 THEN keys' ELSE 965
  BY <1>1, <1>2, <1>3, <1>4, <1>5
<1> QED
  BY <1>6, <1>7, <1>8 DEF CursorPlace, ShownUntilFull, Room, MaxKeys

\* The cursor is at one of the places.
LEMMA CursorSomewhere == CursorPlace => \E p \in Nat : screen_pos = Place(p)
<1> SUFFICES ASSUME CursorPlace PROVE \E p \in Nat : screen_pos = Place(p)
  OBVIOUS
<1>1. keys \in Nat /\ screen_pos = Place(Places(keys))
  BY DEF CursorPlace, MaxKeys
<1>2. Places(keys) \in Nat
  BY <1>1, PlacesStep
<1> QED
  BY <1>1, <1>2

LEMMA StepCursor == CursorPlace /\ [Next]_vars => CursorPlace'
<1> SUFFICES ASSUME CursorPlace, [Next]_vars PROVE CursorPlace'
  OBVIOUS
<1>1. CASE UNCHANGED <<screen_pos, keys, shown>>
  BY <1>1 DEF CursorPlace, ShownUntilFull
<1>2. ASSUME NEW code \in Codes, print(code) PROVE CursorPlace'
  BY <1>2, PrintCursor
<1>3. ASSUME NEW code \in Codes, show_code(code) \/ ignore(code)
      PROVE  UNCHANGED <<screen_pos, keys, shown>>
  BY <1>3 DEF show_code, ignore
<1>4. drawing_desktop \/ drawing_mem_map \/ UNCHANGED vars => UNCHANGED <<screen_pos, keys, shown>>
  BY DEF drawing_desktop, drawing_mem_map, vars
<1> QED
  BY <1>1, <1>2, <1>3, <1>4 DEF Next, keyboard_handler

\* The first 965 keys pressed are drawn, and no later one is.
THEOREM KeysShown == Spec => []ShownUntilFull
<1>1. CursorPlace => ShownUntilFull
  BY DEF CursorPlace
<1> QED
  BY <1>1, InitCursor, StepCursor, PTL DEF Spec

\* Every key goes to the right of the last one, or to the start of a lower line.
THEOREM KeysInOrder == Spec => ReadingOrder
<1> DEFINE Ordered == \/ screen_pos' = screen_pos
                      \/ screen_pos'.y = screen_pos.y /\ screen_pos'.x > screen_pos.x
                      \/ screen_pos'.y > screen_pos.y /\ screen_pos'.x < 14
<1>1. ASSUME NEW p \in Nat, NEW n \in 0..6
      PROVE  \/ Place(p + n) = Place(p)
             \/ Place(p + n).y = Place(p).y /\ Place(p + n).x > Place(p).x
             \/ Place(p + n).y > Place(p).y /\ Place(p + n).x < 14
  <2> DEFINE q == p \div 150
             r == p % 150
  <2>1. q \in Nat /\ r \in 0..149 /\ p = 150 * q + r
    OBVIOUS
  <2>2. CASE n = 0
    <3>1. p + n = p
      BY <2>2
    <3> QED
      BY <3>1
  <2>3. CASE n # 0 /\ r + n < 150
    <3>1. (p + n) \div 150 = q /\ (p + n) % 150 = r + n
      BY <2>1, <2>3
    <3> QED
      BY <2>1, <2>3, <3>1 DEF Place
  <2>4. CASE r + n >= 150
    <3>1. (p + n) \div 150 = q + 1 /\ (p + n) % 150 = r + n - 150
      BY <2>1, <2>4
    <3> QED
      BY <2>1, <2>4, <3>1 DEF Place
  <2> QED
    BY <2>1, <2>2, <2>3, <2>4
<1>2. ASSUME CursorPlace, NEW code, print(code) PROVE Ordered
  <2> DEFINE p == Places(keys)
             n == RowsFrom(Place(p).y)
  <2>1. keys \in Nat /\ screen_pos = Place(p) /\ p \in Nat
    BY <1>2, PlacesStep DEF CursorPlace, MaxKeys
  <2>2. Place(p).y \in Nat /\ Place(p).y >= 20
    BY <2>1 DEF Place
  <2>3. n \in 0..6
    BY <2>2, RowsAre
  <2>4. screen_pos' = Place(p + n)
    BY <1>2, <2>1, KeyDrawn DEF print
  <2> HIDE DEF p, n
  <2> QED
    BY <1>1, <2>1, <2>3, <2>4
<1>3. CursorPlace /\ [Next]_vars => [Ordered]_vars
  <2>1. ASSUME NEW code \in Codes, show_code(code) \/ ignore(code) PROVE screen_pos' = screen_pos
    BY <2>1 DEF show_code, ignore
  <2>2. drawing_desktop \/ drawing_mem_map \/ UNCHANGED vars => screen_pos' = screen_pos
    BY DEF drawing_desktop, drawing_mem_map, vars
  <2> QED
    BY <1>2, <2>1, <2>2 DEF Next, keyboard_handler
<1> QED
  BY <1>3, InitCursor, StepCursor, PTL DEF Spec, ReadingOrder

-----------------------------------------------------------------------------
(* What is drawn.                                                          *)

LEMMA TaskBarOnScreen == \A b \in TaskBar : OnScreen(b)
BY DEF TaskBar, OnScreen, Box, XSize, YSize

\* The rows of the memory map and the totals start at multiples of four.
LEMMA MapOnScreen ==
  ASSUME CursorPlace, drawing_mem_map
  PROVE  InVideoMemory'
<1>1. PICK p \in Nat : screen_pos = Place(p)
  BY CursorSomewhere
<1> DEFINE y(k) == 20 + 16 * (k - 1)
<1> DEFINE Types(k, kind) == putfont8_string(270, y(k), kind, screen_pos).out
<1>2. PICK n \in 0..MapEntries, d \in 1..8, kind \in {4, 7} :
        drawn' = Totals(y(n + 1), d) \cup (UNION {MapRow(y(k), d) \cup Types(k, kind) : k \in 1..n})
  BY DEF drawing_mem_map
<1>3. n \in Nat
  BY CodesAssumption
<1>4. ASSUME NEW x \in Nat, NEW k \in Nat, NEW len \in Nat
      PROVE  \A b \in putfont8_string(x, 4 + 16 * k, len, screen_pos).out : OnScreen(b)
  <2>1. 4 + 16 * k \in Nat /\ 4 + 16 * k # 189
    OBVIOUS
  <2> QED
    BY <1>1, <2>1, StringOnScreen
<1>5. ASSUME NEW k \in 1..n, NEW b \in MapRow(y(k), d) PROVE OnScreen(b)
  <2>1. y(k) = 4 + 16 * k /\ k \in Nat /\ 5 + d \in Nat /\ 4 + d \in Nat
    BY <1>3
  <2> QED
    BY <1>4, <1>5, <2>1 DEF MapRow
<1>6. ASSUME NEW b \in Totals(y(n + 1), d) PROVE OnScreen(b)
  <2>1. PICK k \in 0..2 : b \in putfont8_string(8, y(n + 1) + 16 * k, <<11, 16, 18>>[k + 1] + d, screen_pos).out
    BY <1>6 DEF Totals
  <2>2. y(n + 1) + 16 * k = 4 + 16 * (n + 1 + k) /\ n + 1 + k \in Nat
    BY <1>3
  <2>3. <<11, 16, 18>>[k + 1] + d \in Nat
    BY <2>1
  <2> QED
    BY <1>4, <2>1, <2>2, <2>3
<1>7. ASSUME NEW k \in 1..n, NEW b \in Types(k, kind) PROVE OnScreen(b)
  <2>1. y(k) = 4 + 16 * k /\ k \in Nat /\ kind \in Nat
    BY <1>3
  <2> QED
    BY <1>4, <1>7, <2>1
<1>8. \A b \in drawn' : OnScreen(b)
  <2> DEFINE rows == UNION {MapRow(y(k), d) \cup Types(k, kind) : k \in 1..n}
             totals == Totals(y(n + 1), d)
  <2>1. \A b \in rows : OnScreen(b)
    BY <1>5, <1>7
  <2>2. \A b \in totals : OnScreen(b)
    BY <1>6
  <2>3. drawn' = totals \cup rows
    BY <1>2
  <2> HIDE DEF rows, totals
  <2> QED
    BY <2>1, <2>2, <2>3
<1> QED
  BY <1>8 DEF InVideoMemory, OnScreen

LEMMA StepOnScreen == CursorPlace /\ InVideoMemory /\ [Next]_vars => InVideoMemory'
<1> SUFFICES ASSUME CursorPlace, InVideoMemory, [Next]_vars PROVE InVideoMemory'
  OBVIOUS
<1>1. PICK p \in Nat : screen_pos = Place(p)
  BY CursorSomewhere
<1>2. ASSUME drawing_desktop PROVE InVideoMemory'
  <2>1. \A b \in putfont8_string(8, 8, 15, screen_pos).out : OnScreen(b)
    <3>1. 8 \in Nat /\ 15 \in Nat /\ 8 # 189
      OBVIOUS
    <3> QED
      BY <1>1, <3>1, StringOnScreen, Zenon
  <2>2. OnScreen(Box(0, 0, XSize - 1, YSize - 29))
    BY DEF OnScreen, Box, XSize, YSize
  <2>3. \A b \in drawn' : OnScreen(b)
    BY <1>2, <2>1, <2>2, TaskBarOnScreen DEF drawing_desktop
  <2> QED
    BY <2>3 DEF InVideoMemory, OnScreen
<1>3. ASSUME NEW code \in Codes, print(code) PROVE InVideoMemory'
  <2> DEFINE glyph == putfont8_string(0, 0, 1, screen_pos)
             q == p + RowsFrom(Place(p).y)
  <2>1. glyph.pos = Place(q)
    BY <1>1, KeyDrawn
  <2>2. q \in Nat
    <3>1. Place(p).y \in Nat
      BY <1>1 DEF Place
    <3> QED
      BY <1>1, <3>1, RowsAre
  <2>3. \A b \in glyph.out : OnScreen(b)
    <3>1. 0 \in Nat /\ 1 \in Nat /\ 0 # 189
      OBVIOUS
    <3> QED
      BY <1>1, <3>1, StringOnScreen, Zenon
  <2>4. drawn' = glyph.out \cup IF code = Key_b THEN putfont8_string(8, 100, 27, glyph.pos).out ELSE {}
    BY <1>3 DEF print
  <2> HIDE DEF glyph, q
  <2>5. \A b \in putfont8_string(8, 100, 27, glyph.pos).out : OnScreen(b)
    BY <2>1, <2>2, StringOnScreen, SMTT(30)
  <2>6. \A b \in drawn' : OnScreen(b)
    BY <2>3, <2>4, <2>5
  <2> QED
    BY <2>6 DEF InVideoMemory, OnScreen
<1>4. ASSUME NEW code \in Codes, show_code(code) PROVE InVideoMemory'
  <2>1. \A b \in putfont8_string(283, 180, 2, screen_pos).out : OnScreen(b)
    BY <1>1, StringOnScreen
  <2>2. \A b \in drawn' : OnScreen(b)
    BY <1>4, <2>1, TaskBarOnScreen DEF show_code
  <2> QED
    BY <2>2 DEF InVideoMemory, OnScreen
<1>5. ASSUME NEW code \in Codes, ignore(code) PROVE InVideoMemory'
  BY <1>5 DEF ignore, InVideoMemory
<1>6. CASE UNCHANGED vars
  BY <1>6 DEF vars, InVideoMemory
<1> QED
  BY <1>2, <1>3, <1>4, <1>5, <1>6, MapOnScreen DEF Next, keyboard_handler

\* No string, wherever the cursor and however long the memory map, is drawn outside
\* the screen's columns or behind the video memory.
THEOREM DrawnInside == Spec => []InVideoMemory
<1>1. Init => InVideoMemory
  BY DEF Init, InVideoMemory
<1> QED
  BY <1>1, InitCursor, StepCursor, StepOnScreen, PTL DEF Spec
=============================================================================

----------------------------- MODULE ShellProofs -----------------------------
(***************************************************************************)
(* The line editor of Shell keeps screen, buffer, history and draft in     *)
(* step, for every size of screen, buffer and history, every prompt and    *)
(* every text that commands print.                                         *)
(***************************************************************************)
EXTENDS Shell, SequenceTheorems, WellFoundedInduction, TLAPS

-----------------------------------------------------------------------------
(* Induction over the natural numbers, on sets *)

LessThan == {p \in Nat \X Nat : p[1] < p[2]}

LEMMA LeastNat ==
  ASSUME NEW T \in SUBSET Nat, T # {}
  PROVE  \E m \in T : \A k \in T : m <= k
<1>1. LessThan = OpToRel(<, Nat)
  BY DEF LessThan, OpToRel
<1>2. IsWellFoundedOn(LessThan, Nat)
  BY <1>1, NatLessThanWellFounded
<1>3. PICK x \in T : \A y \in T : ~ (<<y, x>> \in LessThan)
  BY <1>2, WFMin
<1>4. ASSUME NEW y \in T PROVE x <= y
  <2>1. x \in Nat /\ y \in Nat
    OBVIOUS
  <2>2. y < x => <<y, x>> \in LessThan
    BY <2>1 DEF LessThan
  <2> QED
    BY <1>3, <2>1, <2>2
<1> QED
  BY <1>4

LEMMA SetInduction ==
  ASSUME NEW S, 0 \in S, \A n \in Nat : n \in S => n + 1 \in S
  PROVE  Nat \subseteq S
<1> SUFFICES ASSUME Nat \ S # {} PROVE FALSE
  OBVIOUS
<1>1. PICK m \in Nat \ S : \A k \in Nat \ S : m <= k
  BY LeastNat
<1>2. m - 1 \in Nat /\ m - 1 \notin Nat \ S
  BY <1>1
<1> QED
  BY <1>1, <1>2

\* What n steps lead to, one after the other, exists.
LEMMA Iteration ==
  ASSUME NEW S, NEW base \in S, NEW n \in Nat, NEW step \in [1 .. n -> [S -> S]]
  PROVE  \E f \in [0 .. n -> S] :
           f[0] = base /\ \A i \in 1 .. n : f[i] = step[i][f[i - 1]]
<1> DEFINE Path(k, f) == f[0] = base /\ \A i \in 1 .. k : f[i] = step[i][f[i - 1]]
<1> DEFINE K == {k \in Nat : k <= n => \E f \in [0 .. k -> S] : Path(k, f)}
<1>1. 0 \in K
  <2>1. [i \in 0 .. 0 |-> base] \in [0 .. 0 -> S] /\ Path(0, [i \in 0 .. 0 |-> base])
    OBVIOUS
  <2> QED
    BY <2>1
<1>2. ASSUME NEW k \in Nat, k \in K PROVE k + 1 \in K
  <2> SUFFICES ASSUME k + 1 <= n PROVE \E f \in [0 .. k + 1 -> S] : Path(k + 1, f)
    OBVIOUS
  <2>1. PICK f \in [0 .. k -> S] : Path(k, f)
    BY <1>2
  <2> DEFINE g == [i \in 0 .. k + 1 |-> IF i = k + 1 THEN step[k + 1][f[k]] ELSE f[i]]
  <2>2. step[k + 1] \in [S -> S] /\ f[k] \in S
    BY <1>2
  <2>3. g \in [0 .. k + 1 -> S]
    BY <2>2
  <2>4. ASSUME NEW i \in 1 .. k + 1 PROVE g[i] = step[i][g[i - 1]]
    <3>1. CASE i = k + 1
      <4>1. g[i] = step[k + 1][f[k]] /\ g[i - 1] = f[k]
        BY <3>1
      <4> QED
        BY <3>1, <4>1
    <3>2. CASE i \in 1 .. k
      <4>1. g[i] = f[i] /\ g[i - 1] = f[i - 1]
        BY <3>2
      <4> QED
        BY <2>1, <3>2, <4>1
    <3> QED
      BY <3>1, <3>2
  <2>5. Path(k + 1, g)
    BY <2>1, <2>4
  <2> QED
    BY <2>3, <2>5
<1>3. Nat \subseteq K
  <2> HIDE DEF K
  <2> QED
    BY <1>1, <1>2, SetInduction
<1> QED
  BY <1>3

-----------------------------------------------------------------------------
(* The screen *)

LEMMA ScreenFacts ==
  /\ SCREEN_WIDTH \in Nat /\ SCREEN_WIDTH > 0
  /\ SCREEN_SIZE \in Nat /\ SCREEN_WIDTH <= SCREEN_SIZE
<1>1. PICK h \in Nat : SCREEN_HEIGHT = h + 1
  BY ScreenAssumption, SCREEN_HEIGHT - 1 \in Nat, SCREEN_HEIGHT = (SCREEN_HEIGHT - 1) + 1
<1>2. SCREEN_WIDTH * SCREEN_HEIGHT = SCREEN_WIDTH * h + SCREEN_WIDTH /\ SCREEN_WIDTH * h \in Nat
  BY <1>1, ScreenAssumption
<1> QED
  BY <1>2, ScreenAssumption DEF SCREEN_SIZE

\* A newline moves on, and not past the row below the screen.
LEMMA NewRow ==
  ASSUME NEW c \in Cells
  PROVE  LET pos == ((c \div SCREEN_WIDTH) + 1) * SCREEN_WIDTH
         IN  pos \in Nat /\ c < pos /\ pos <= SCREEN_SIZE
<1> DEFINE W == SCREEN_WIDTH
<1> DEFINE H == SCREEN_HEIGHT
<1> DEFINE q == c \div W
<1>1. W \in Nat \ {0} /\ H \in Nat \ {0} /\ c \in Nat /\ c < W * H
  BY ScreenAssumption DEF Cells, SCREEN_SIZE
<1>2. q \in Nat /\ W * q <= c /\ c < W * q + W
  BY <1>1
<1> HIDE DEF q
<1>3. (q + 1) * W = W * q + W /\ (q + 1) * W \in Nat
  BY <1>1, <1>2
<1>4. q < H
  <2> SUFFICES ASSUME q >= H PROVE FALSE
    BY <1>1, <1>2
  <2>1. PICK d \in Nat : q = H + d
    BY <1>1, <1>2, q = H + (q - H), q - H \in Nat
  <2>2. W * q = W * H + W * d /\ W * d \in Nat
    BY <1>1, <2>1
  <2> QED
    BY <1>1, <1>2, <2>2
<1>5. PICK d \in Nat : H = q + 1 + d
  BY <1>1, <1>2, <1>4, H = q + 1 + (H - q - 1), H - q - 1 \in Nat
<1>6. W * H = (q + 1) * W + W * d /\ W * d \in Nat
  BY <1>1, <1>2, <1>5
<1>7. (q + 1) * W <= W * H
  BY <1>1, <1>3, <1>6
<1> QED
  BY <1>1, <1>2, <1>3, <1>7 DEF q, SCREEN_SIZE

\* The cursor moves past the last character, and the screen scrolls at most once.
LEMMA MovedToClean ==
  ASSUME NEW scr \in Screens, NEW pos \in Nat, scr.cursor <= pos, pos <= SCREEN_SIZE,
         \A i \in Cells : i >= pos => scr.cells[i] = Blank
  PROVE  /\ Clean(MovedTo(scr, pos))
         /\ \A i \in Cells : i < MovedTo(scr, pos).cursor =>
              MovedTo(scr, pos).cells[i] = scr.cells[i + pos - MovedTo(scr, pos).cursor]
         /\ MovedTo(scr, pos).cursor = IF pos < SCREEN_SIZE THEN pos ELSE SCREEN_SIZE - SCREEN_WIDTH
<1> DEFINE W == SCREEN_WIDTH
<1> DEFINE Z == SCREEN_SIZE
<1>1. W \in Nat /\ W > 0 /\ Z \in Nat /\ W <= Z
  BY ScreenFacts
<1>2. PICK cells \in [Cells -> Glyphs], cursor \in Cells : scr = [cells |-> cells, cursor |-> cursor]
  BY DEF Screens
<1>3. [scr EXCEPT !.cursor = pos].cells = cells /\ [scr EXCEPT !.cursor = pos].cursor = pos
  BY <1>2
<1>4. CASE pos < Z
  <2>1. MovedTo(scr, pos) = [scr EXCEPT !.cursor = pos]
    BY <1>4 DEF MovedTo
  <2>2. pos \in Cells
    BY <1>1, <1>4 DEF Cells
  <2>3. MovedTo(scr, pos) \in Screens
    BY <1>2, <2>1, <2>2 DEF Screens
  <2>4. MovedTo(scr, pos).cells = cells /\ MovedTo(scr, pos).cursor = pos /\ scr.cells = cells
    BY <1>2, <1>3, <2>1
  <2>5. \A i \in Cells : i + pos - pos = i
    BY DEF Cells
  <2> QED
    BY <1>4, <2>3, <2>4, <2>5 DEF Clean
<1>5. CASE pos = Z
  <2> DEFINE moved == [cells |-> [i \in Cells |-> IF i + W \in Cells THEN cells[i + W] ELSE Blank],
                       cursor |-> Z - W]
  <2>1. MovedTo(scr, pos) = moved
    BY <1>1, <1>3, <1>5 DEF MovedTo, Scrolled
  <2>2. Z - W \in Cells
    BY <1>1 DEF Cells
  <2>8. Blank \in Glyphs
    BY DEF Glyphs
  <2>3. moved.cells \in [Cells -> Glyphs]
    BY <1>2, <2>8
  <2>4. moved \in Screens
    BY <2>2, <2>3 DEF Screens
  <2>5. \A i \in Cells : i >= Z - W => moved.cells[i] = Blank
    BY <1>1 DEF Cells
  <2>6. \A i \in Cells : i < Z - W => moved.cells[i] = cells[i + W]
    BY <1>1 DEF Cells
  <2> HIDE DEF moved
  <2>7. moved.cursor = Z - W
    BY DEF moved
  <2> QED
    BY <1>1, <1>2, <1>5, <2>1, <2>4, <2>5, <2>6, <2>7 DEF Clean
<1> QED
  BY <1>1, <1>4, <1>5

\* A character of text leaves nothing behind the cursor, and is in front of it
\* unless it is a newline.
LEMMA TextCharClean ==
  ASSUME NEW scr, Clean(scr), NEW ch \in Glyphs
  PROVE  /\ Clean(TextChar(scr, ch))
         /\ ch # NewLine /\ TextChar(scr, ch).cursor > 0 =>
              TextChar(scr, ch).cells[TextChar(scr, ch).cursor - 1] = ch
<1>1. PICK cells \in [Cells -> Glyphs], cursor \in Cells : scr = [cells |-> cells, cursor |-> cursor]
  BY DEF Clean, Screens
<1>2. /\ cursor \in Nat /\ cursor < SCREEN_SIZE
      /\ SCREEN_WIDTH \in Nat /\ SCREEN_SIZE \in Nat
      /\ SCREEN_WIDTH <= SCREEN_SIZE /\ SCREEN_WIDTH > 0
  BY ScreenFacts DEF Cells
<1>3. CASE ch = NewLine
  <2> DEFINE pos == ((cursor \div SCREEN_WIDTH) + 1) * SCREEN_WIDTH
  <2>1. pos \in Nat /\ cursor < pos /\ pos <= SCREEN_SIZE
    BY NewRow
  <2>2. TextChar(scr, ch) = MovedTo(scr, pos)
    BY <1>1, <1>3 DEF TextChar
  <2> HIDE DEF pos
  <2>3. \A i \in Cells : i >= pos => scr.cells[i] = Blank
    BY <1>1, <1>2, <2>1 DEF Clean, Cells
  <2>4. scr \in Screens /\ scr.cursor <= pos
    BY <1>1, <1>2, <2>1 DEF Clean
  <2> QED
    BY <1>3, <2>1, <2>2, <2>3, <2>4, MovedToClean
<1>4. CASE ch # NewLine
  <2> DEFINE put == [scr EXCEPT !.cells[scr.cursor] = ch]
  <2>1. put = [cells |-> [cells EXCEPT ![cursor] = ch], cursor |-> cursor]
    BY <1>1
  <2>2. put \in Screens /\ put.cursor = cursor
    BY <2>1 DEF Screens
  <2>3. /\ put.cells[cursor] = ch
        /\ \A i \in Cells : i >= cursor + 1 => put.cells[i] = Blank
    BY <1>1, <1>2, <2>1 DEF Clean, Cells
  <2>4. TextChar(scr, ch) = MovedTo(put, cursor + 1)
    BY <1>1, <1>4 DEF TextChar
  <2> HIDE DEF put
  <2> DEFINE after == MovedTo(put, cursor + 1)
  <2>5. /\ Clean(after)
        /\ \A i \in Cells : i < after.cursor =>
             after.cells[i] = put.cells[i + (cursor + 1) - after.cursor]
    BY <1>2, <2>2, <2>3, MovedToClean
  <2> HIDE DEF after
  <2>6. after.cursor \in Cells
    BY <2>5 DEF Clean, Screens
  <2>7. after.cursor > 0 => after.cells[after.cursor - 1] = put.cells[cursor]
    <3> SUFFICES ASSUME after.cursor > 0
                 PROVE after.cells[after.cursor - 1] = put.cells[cursor]
      OBVIOUS
    <3> DEFINE i == after.cursor - 1
    <3>1. i \in Cells /\ i < after.cursor /\ i + (cursor + 1) - after.cursor = cursor
      BY <1>2, <2>6 DEF Cells
    <3> QED
      BY <2>5, <3>1
  <2> QED
    BY <2>3, <2>4, <2>5, <2>7 DEF after
<1> QED
  BY <1>3, <1>4

\* print_text prints its characters one by one.
LEMMA PrintTextSteps ==
  ASSUME NEW scr, Clean(scr), NEW text \in Seq(Glyphs)
  PROVE  \E f : /\ f[0] = scr /\ PrintText(scr, text) = f[Len(text)]
                /\ \A i \in 1 .. Len(text) : f[i] = TextChar(f[i - 1], text[i])
<1> DEFINE n == Len(text)
<1> DEFINE S == {s \in Screens : Clean(s)}
<1> DEFINE step == [i \in 1 .. n |-> [s \in S |-> TextChar(s, text[i])]]
<1> DEFINE F(f) == [i \in 0 .. n |-> IF i = 0 THEN scr ELSE TextChar(f[i - 1], text[i])]
<1>1. n \in Nat /\ scr \in S
  BY DEF Clean
<1>2. \A i \in 1 .. n : text[i] \in Glyphs
  OBVIOUS
<1>3. \A i \in 1 .. n, s \in S : TextChar(s, text[i]) \in S
  BY <1>2, TextCharClean DEF Clean
<1> HIDE DEF S
<1>4. step \in [1 .. n -> [S -> S]]
  BY <1>3
<1>5. PICK f \in [0 .. n -> S] : f[0] = scr /\ \A i \in 1 .. n : f[i] = step[i][f[i - 1]]
  <2> HIDE DEF step, n
  <2>1. ASSUME NEW m \in Nat, NEW base \in S, NEW st \in [1 .. m -> [S -> S]]
        PROVE  \E f \in [0 .. m -> S] : f[0] = base /\ \A i \in 1 .. m : f[i] = st[i][f[i - 1]]
    BY Iteration, SMTT(30)
  <2> QED
    BY <1>1, <1>4, <2>1
<1>6. \A i \in 1 .. n : f[i] = TextChar(f[i - 1], text[i])
  <2> TAKE i \in 1 .. n
  <2>1. i - 1 \in 0 .. n
    BY <1>1
  <2>2. f[i - 1] \in S
    BY <2>1
  <2> QED
    BY <1>5, <2>2
<1>7. f = F(f)
  BY <1>5, <1>6
<1> DEFINE a == CHOOSE after : after = F(after)
<1>8. a = F(a)
  BY <1>7
<1>9. PrintText(scr, text) = a[n]
  BY DEF PrintText
<1> HIDE DEF a
<1>10. a[0] = scr /\ \A i \in 1 .. n : a[i] = TextChar(a[i - 1], text[i])
  BY <1>1, <1>8
<1> QED
  BY <1>9, <1>10

\* After a text nothing is behind the cursor, and its last character is in front.
LEMMA PrintTextClean ==
  ASSUME NEW scr, Clean(scr), NEW text \in Seq(Glyphs)
  PROVE  /\ Clean(PrintText(scr, text))
         /\ text # <<>> /\ Last(text) # NewLine /\ PrintText(scr, text).cursor > 0 =>
              PrintText(scr, text).cells[PrintText(scr, text).cursor - 1] = Last(text)
<1> DEFINE n == Len(text)
<1>1. PICK f : /\ f[0] = scr /\ PrintText(scr, text) = f[n]
               /\ \A i \in 1 .. n : f[i] = TextChar(f[i - 1], text[i])
  BY PrintTextSteps
<1>2. n \in Nat /\ \A i \in 1 .. n : text[i] \in Glyphs
  OBVIOUS
<1> DEFINE K == {k \in Nat : k <= n => Clean(f[k])}
<1>3. Nat \subseteq K
  <2>1. 0 \in K
    BY <1>1
  <2>2. ASSUME NEW k \in Nat, k \in K PROVE k + 1 \in K
    <3> SUFFICES ASSUME k + 1 <= n PROVE Clean(f[k + 1])
      OBVIOUS
    <3>1. k + 1 \in 1 .. n /\ (k + 1) - 1 = k /\ Clean(f[k])
      BY <1>2, <2>2
    <3>2. f[k + 1] = TextChar(f[k], text[k + 1])
      BY <1>1, <3>1
    <3> QED
      BY <1>2, <3>1, <3>2, TextCharClean
  <2> HIDE DEF K
  <2> QED
    BY <2>1, <2>2, SetInduction
<1>4. \A k \in 0 .. n : Clean(f[k])
  BY <1>2, <1>3
<1>5. ASSUME text # <<>>, Last(text) # NewLine, f[n].cursor > 0
      PROVE  f[n].cells[f[n].cursor - 1] = Last(text)
  <2>1. n \in 1 .. n /\ n - 1 \in 0 .. n /\ Last(text) = text[n]
    BY <1>5, <1>2 DEF Last
  <2>2. f[n] = TextChar(f[n - 1], text[n]) /\ Clean(f[n - 1]) /\ text[n] \in Glyphs
    BY <1>1, <1>2, <1>4, <2>1
  <2> QED
    BY <1>5, <2>1, <2>2, TextCharClean
<1> QED
  BY <1>1, <1>2, <1>4, <1>5

-----------------------------------------------------------------------------
(* The line on the screen *)

\* A character that fits the buffer appears after the line; when the screen
\* scrolls for it, the line moves up with the screen.
LEMMA TypeShows ==
  ASSUME NEW scr, NEW line \in Seq(Chars), NEW n \in Nat, n + 1 <= Len(line),
         n + 1 < SHELL_BUFFER_SIZE, Shows(scr, line, n)
  PROVE  Shows(PrintChar(scr, line[n + 1]), line, n + 1)
<1> DEFINE ch == line[n + 1]
<1>1. PICK cells \in [Cells -> Glyphs], cursor \in Cells : scr = [cells |-> cells, cursor |-> cursor]
  BY DEF Shows, Clean, Screens
<1>2. /\ cursor \in Nat /\ cursor < SCREEN_SIZE
      /\ SCREEN_WIDTH \in Nat /\ SCREEN_SIZE \in Nat
      /\ SCREEN_WIDTH <= SCREEN_SIZE /\ SCREEN_WIDTH > 0
  BY ScreenFacts DEF Cells
<1>3. ch \in Chars /\ ch \in Glyphs /\ ch # NewLine /\ ch # Backspace
  <2>1. n + 1 \in 1 .. Len(line)
    OBVIOUS
  <2>2. ch \in Chars
    BY <2>1
  <2> QED
    BY <2>2, ShellAssumption DEF Glyphs
<1> HIDE DEF ch
<1> DEFINE put == [scr EXCEPT !.cells[scr.cursor] = ch]
<1>4. put = [cells |-> [cells EXCEPT ![cursor] = ch], cursor |-> cursor]
  BY <1>1
<1>5. put \in Screens /\ put.cursor = cursor
  BY <1>3, <1>4 DEF Screens
<1>6. /\ put.cells[cursor] = ch
      /\ \A i \in Cells : i # cursor => put.cells[i] = cells[i]
  BY <1>4
<1>7. PrintChar(scr, ch) = MovedTo(put, cursor + 1)
  BY <1>1, <1>3 DEF TextChar, PrintChar
<1> HIDE DEF put
<1> DEFINE after == MovedTo(put, cursor + 1)
<1>8. \A i \in Cells : i >= cursor + 1 => put.cells[i] = Blank
  <2>1. \A i \in Cells : i >= cursor => cells[i] = Blank
    BY <1>1 DEF Shows, Clean
  <2>2. \A i \in Cells : i >= cursor + 1 => i >= cursor /\ i # cursor
    BY <1>2 DEF Cells
  <2> QED
    BY <1>6, <2>1, <2>2
<1>9. /\ Clean(after)
      /\ \A i \in Cells : i < after.cursor =>
           after.cells[i] = put.cells[i + (cursor + 1) - after.cursor]
      /\ after.cursor = IF cursor + 1 < SCREEN_SIZE THEN cursor + 1 ELSE SCREEN_SIZE - SCREEN_WIDTH
  BY SMTT(30), <1>2, <1>5, <1>8, MovedToClean
<1> HIDE DEF after
<1>10. n + 1 <= SCREEN_SIZE - SCREEN_WIDTH /\ n <= cursor
  BY <1>1, <1>2, ShellAssumption DEF Shows
<1>11. PICK c \in Nat : /\ after.cursor = c
                        /\ n + 1 <= c /\ c < SCREEN_SIZE /\ c <= cursor + 1
  <2>1. CASE cursor + 1 < SCREEN_SIZE
    BY <1>2, <1>9, <1>10, <2>1
  <2>2. CASE cursor + 1 = SCREEN_SIZE
    <3>1. SCREEN_SIZE - SCREEN_WIDTH \in Nat /\ SCREEN_SIZE - SCREEN_WIDTH <= cursor + 1
      BY <1>2, <2>2
    <3>2. after.cursor = SCREEN_SIZE - SCREEN_WIDTH
      BY <1>2, <1>9, <2>2
    <3> QED
      BY <1>2, <1>10, <3>1, <3>2
  <2> QED
    BY <1>2, <2>1, <2>2
<1>12. ASSUME NEW i \in 1 .. n + 1
       PROVE  after.cells[c - (n + 1) + i - 1] = line[i]
  <2> DEFINE j == c - (n + 1) + i - 1
  <2>1. j \in Cells /\ j < c /\ j + (cursor + 1) - c = cursor - n + i - 1
    BY <1>2, <1>11 DEF Cells
  <2>2. after.cells[j] = put.cells[cursor - n + i - 1]
    BY <1>9, <1>11, <2>1
  <2>3. CASE i = n + 1
    <3>1. cursor - n + i - 1 = cursor
      BY <1>2, <2>3
    <3> QED
      BY <1>6, <2>2, <2>3, <3>1 DEF ch
  <2>4. CASE i \in 1 .. n
    <3>1. cursor - n + i - 1 \in Cells /\ cursor - n + i - 1 # cursor
      BY <1>2, <1>10, <2>4 DEF Cells
    <3>2. cells[cursor - n + i - 1] = line[i]
      BY <1>1, <2>4 DEF Shows
    <3> QED
      BY <1>6, <2>2, <3>1, <3>2
  <2> QED
    BY <2>3, <2>4
<1>13. ASSUME n + 1 < c
       PROVE  after.cells[c - (n + 1) - 1] = Last(Prompt)
  <2> DEFINE j == c - (n + 1) - 1
  <2>1. /\ j \in Cells /\ j < c /\ j + (cursor + 1) - c = cursor - n - 1
        /\ n < cursor /\ cursor - n - 1 \in Cells /\ cursor - n - 1 # cursor
    BY <1>2, <1>11, <1>13 DEF Cells
  <2>2. after.cells[j] = put.cells[cursor - n - 1]
    BY <1>9, <1>11, <2>1
  <2>3. cells[cursor - n - 1] = Last(Prompt)
    BY <1>1, <2>1 DEF Shows
  <2> QED
    BY <1>6, <2>1, <2>2, <2>3
<1>14. Shows(after, line, n + 1)
  BY <1>9, <1>11, <1>12, <1>13 DEF Shows
<1> QED
  BY <1>7, <1>14 DEF after, ch

\* A backspace takes the last character of the line off the screen.
LEMMA EraseShows ==
  ASSUME NEW scr, NEW line, NEW n \in Nat, n > 0, Shows(scr, line, n)
  PROVE  Shows(PrintChar(scr, Backspace), line, n - 1)
<1>1. PICK cells \in [Cells -> Glyphs], cursor \in Cells : scr = [cells |-> cells, cursor |-> cursor]
  BY DEF Shows, Clean, Screens
<1>2. cursor \in Nat /\ cursor < SCREEN_SIZE /\ SCREEN_SIZE \in Nat /\ n <= cursor
  BY <1>1, ScreenFacts DEF Cells, Shows
<1> DEFINE after == [cells |-> [cells EXCEPT ![cursor - 1] = Blank], cursor |-> cursor - 1]
<1>3. PrintChar(scr, Backspace) = after
  BY <1>1, <1>2 DEF PrintChar, Erased
<1>4. cursor - 1 \in Cells /\ Blank \in Glyphs
  BY <1>2 DEF Cells, Glyphs
<1>5. after \in Screens
  BY <1>4 DEF Screens
<1>6. /\ after.cursor = cursor - 1
      /\ after.cells[cursor - 1] = Blank
      /\ \A i \in Cells : i # cursor - 1 => after.cells[i] = cells[i]
  BY <1>4
<1> HIDE DEF after
<1>7. \A i \in Cells : i >= cursor - 1 => after.cells[i] = Blank
  BY SMTT(30), <1>1, <1>2, <1>6 DEF Shows, Clean, Cells
<1>8. ASSUME NEW i \in 1 .. n - 1
      PROVE  after.cells[(cursor - 1) - (n - 1) + i - 1] = line[i]
  <2>1. /\ (cursor - 1) - (n - 1) + i - 1 = cursor - n + i - 1
        /\ cursor - n + i - 1 \in Cells /\ cursor - n + i - 1 # cursor - 1 /\ i \in 1 .. n
    BY <1>2 DEF Cells
  <2>2. cells[cursor - n + i - 1] = line[i]
    BY <1>1, <2>1 DEF Shows
  <2> QED
    BY <1>6, <2>1, <2>2
<1>9. ASSUME n - 1 < cursor - 1
      PROVE  after.cells[(cursor - 1) - (n - 1) - 1] = Last(Prompt)
  <2>1. /\ (cursor - 1) - (n - 1) - 1 = cursor - n - 1 /\ n < cursor
        /\ cursor - n - 1 \in Cells /\ cursor - n - 1 # cursor - 1
    BY <1>2, <1>9 DEF Cells
  <2>2. cells[cursor - n - 1] = Last(Prompt)
    BY <1>1, <2>1 DEF Shows
  <2> QED
    BY <1>6, <2>1, <2>2
<1> QED
  BY <1>2, <1>3, <1>5, <1>6, <1>7, <1>8, <1>9 DEF Shows, Clean

\* print_char leaves nothing behind the cursor.
LEMMA PrintCharClean ==
  ASSUME NEW scr, Clean(scr), NEW ch \in Glyphs \cup {Backspace}
  PROVE  Clean(PrintChar(scr, ch))
<1>1. CASE ch # Backspace
  BY <1>1, TextCharClean DEF PrintChar
<1>2. CASE ch = Backspace
  <2>1. PICK cells \in [Cells -> Glyphs], cursor \in Cells : scr = [cells |-> cells, cursor |-> cursor]
    BY DEF Clean, Screens
  <2>2. cursor \in Nat /\ SCREEN_SIZE \in Nat /\ cursor < SCREEN_SIZE
    BY ScreenFacts DEF Cells
  <2>3. CASE cursor = 0
    BY <1>2, <2>1, <2>3 DEF PrintChar, Erased
  <2>4. CASE cursor > 0
    <3> DEFINE after == [cells |-> [cells EXCEPT ![cursor - 1] = Blank], cursor |-> cursor - 1]
    <3>1. PrintChar(scr, ch) = after
      BY <1>2, <2>1, <2>2, <2>4 DEF PrintChar, Erased
    <3>2. cursor - 1 \in Cells /\ Blank \in Glyphs
      BY <2>2, <2>4 DEF Cells, Glyphs
    <3>3. after \in Screens /\ after.cursor = cursor - 1
      BY <3>2 DEF Screens
    <3>4. \A i \in Cells : i >= cursor => cells[i] = Blank
      BY <2>1 DEF Clean
    <3>5. \A i \in Cells : i >= cursor - 1 => after.cells[i] = Blank
      BY <2>2, <3>2, <3>4 DEF Cells
    <3> HIDE DEF after
    <3> QED
      BY <3>1, <3>3, <3>5 DEF Clean
  <2> QED
    BY <2>2, <2>3, <2>4
<1> QED
  BY <1>1, <1>2

\* Printing a sequence of characters prints them one by one.
LEMMA PrintCharsSteps ==
  ASSUME NEW scr, Clean(scr), NEW chars \in Seq(Glyphs \cup {Backspace})
  PROVE  \E f : /\ f[0] = scr /\ PrintChars(scr, chars) = f[Len(chars)]
                /\ \A i \in 1 .. Len(chars) : f[i] = PrintChar(f[i - 1], chars[i])
<1> DEFINE n == Len(chars)
<1> DEFINE S == {s \in Screens : Clean(s)}
<1> DEFINE step == [i \in 1 .. n |-> [s \in S |-> PrintChar(s, chars[i])]]
<1> DEFINE F(f) == [i \in 0 .. n |-> IF i = 0 THEN scr ELSE PrintChar(f[i - 1], chars[i])]
<1>1. n \in Nat /\ scr \in S
  BY DEF Clean
<1>2. \A i \in 1 .. n : chars[i] \in Glyphs \cup {Backspace}
  OBVIOUS
<1>3. \A i \in 1 .. n, s \in S : PrintChar(s, chars[i]) \in S
  BY <1>2, PrintCharClean DEF Clean
<1> HIDE DEF S
<1>4. step \in [1 .. n -> [S -> S]]
  BY <1>3
<1>5. PICK f \in [0 .. n -> S] : f[0] = scr /\ \A i \in 1 .. n : f[i] = step[i][f[i - 1]]
  <2> HIDE DEF step, n
  <2>1. ASSUME NEW m \in Nat, NEW base \in S, NEW st \in [1 .. m -> [S -> S]]
        PROVE  \E f \in [0 .. m -> S] : f[0] = base /\ \A i \in 1 .. m : f[i] = st[i][f[i - 1]]
    BY Iteration, SMTT(30)
  <2> QED
    BY <1>1, <1>4, <2>1
<1>6. \A i \in 1 .. n : f[i] = PrintChar(f[i - 1], chars[i])
  <2> TAKE i \in 1 .. n
  <2>1. i - 1 \in 0 .. n
    BY <1>1
  <2>2. f[i - 1] \in S
    BY <2>1
  <2> QED
    BY <1>5, <2>2
<1>7. f = F(f)
  BY <1>5, <1>6
<1> DEFINE a == CHOOSE after : after = F(after)
<1>8. a = F(a)
  BY <1>7
<1>9. PrintChars(scr, chars) = a[n]
  BY DEF PrintChars
<1> HIDE DEF a
<1>10. a[0] = scr /\ \A i \in 1 .. n : a[i] = PrintChar(a[i - 1], chars[i])
  BY <1>1, <1>8
<1> QED
  BY <1>9, <1>10

\* redraw_line takes the old line off the screen, character by character, and
\* prints the new one in its place.
LEMMA RedrawShows ==
  ASSUME NEW scr, NEW old \in Lines, NEW new \in Lines, Shows(scr, old, Len(old))
  PROVE  Shows(PrintChars(scr, [i \in 1 .. Len(old) |-> Backspace] \o new), new, Len(new))
<1> DEFINE n == Len(old)
<1> DEFINE m == Len(new)
<1> DEFINE chars == [i \in 1 .. n |-> Backspace] \o new
<1>1. n \in Nat /\ m \in Nat /\ m < SHELL_BUFFER_SIZE /\ new \in Seq(Chars)
  BY DEF Lines
<1>2. /\ chars \in Seq(Glyphs \cup {Backspace}) /\ Len(chars) = n + m
      /\ \A i \in 1 .. n : chars[i] = Backspace
      /\ \A j \in 1 .. m : chars[n + j] = new[j]
  <2>1. [i \in 1 .. n |-> Backspace] \in Seq({Backspace}) /\ Len([i \in 1 .. n |-> Backspace]) = n
    BY <1>1
  <2>2. new \in Seq(Glyphs)
    BY <1>1 DEF Glyphs
  <2> QED
    BY <1>1, <2>1, <2>2
<1> HIDE DEF chars
<1>3. PICK f : /\ f[0] = scr /\ PrintChars(scr, chars) = f[n + m]
               /\ \A i \in 1 .. n + m : f[i] = PrintChar(f[i - 1], chars[i])
  <2>1. Clean(scr)
    BY DEF Shows
  <2> QED
    BY <1>2, <2>1, PrintCharsSteps
<1> DEFINE E == {k \in Nat : k <= n => Shows(f[k], old, n - k)}
<1>4. Nat \subseteq E
  <2>1. 0 \in E
    BY <1>1, <1>3
  <2>2. ASSUME NEW k \in Nat, k \in E PROVE k + 1 \in E
    <3> SUFFICES ASSUME k + 1 <= n PROVE Shows(f[k + 1], old, n - (k + 1))
      OBVIOUS
    <3>1. /\ k + 1 \in 1 .. n + m /\ k + 1 \in 1 .. n /\ (k + 1) - 1 = k
          /\ n - k \in Nat /\ n - k > 0 /\ (n - k) - 1 = n - (k + 1)
      BY <1>1
    <3>2. f[k + 1] = PrintChar(f[k], Backspace) /\ Shows(f[k], old, n - k)
      BY <1>1, <1>2, <1>3, <2>2, <3>1
    <3> QED
      BY <3>1, <3>2, EraseShows
  <2> HIDE DEF E
  <2> QED
    BY <2>1, <2>2, SetInduction
<1>5. Shows(f[n], new, 0)
  <2>1. Shows(f[n], old, 0)
    BY <1>1, <1>4
  <2> QED
    BY <2>1 DEF Shows
<1> DEFINE P == {k \in Nat : k <= m => Shows(f[n + k], new, k)}
<1>6. Nat \subseteq P
  <2>1. 0 \in P
    BY <1>1, <1>5
  <2>2. ASSUME NEW k \in Nat, k \in P PROVE k + 1 \in P
    <3> SUFFICES ASSUME k + 1 <= m PROVE Shows(f[n + (k + 1)], new, k + 1)
      OBVIOUS
    <3>1. /\ n + (k + 1) \in 1 .. n + m /\ k + 1 \in 1 .. m /\ (n + (k + 1)) - 1 = n + k
          /\ k + 1 < SHELL_BUFFER_SIZE
      BY <1>1, ShellAssumption
    <3>2. f[n + (k + 1)] = PrintChar(f[n + k], new[k + 1]) /\ Shows(f[n + k], new, k)
      BY <1>1, <1>2, <1>3, <2>2, <3>1
    <3> QED
      BY <1>1, <3>1, <3>2, TypeShows
  <2> HIDE DEF P
  <2> QED
    BY <2>1, <2>2, SetInduction
<1> QED
  BY <1>1, <1>3, <1>6 DEF chars

-----------------------------------------------------------------------------
(* The history *)

\* Slots are counted modulo the size of the ring.
LEMMA WrapsOnce ==
  ASSUME NEW x \in Nat, x < 2 * HISTORY_SIZE
  PROVE  x % HISTORY_SIZE = IF x < HISTORY_SIZE THEN x ELSE x - HISTORY_SIZE
<1>1. HISTORY_SIZE \in Nat \ {0}
  BY ShellAssumption
<1>2. CASE x < HISTORY_SIZE
  BY <1>1, <1>2
<1>3. CASE x >= HISTORY_SIZE
  BY <1>1, <1>3
<1> QED
  BY <1>1, <1>2, <1>3

\* The slot of the command that many runs ago.
Slot(next, back) == (next + HISTORY_SIZE - 1 - back) % HISTORY_SIZE

LEMMA SlotIs ==
  ASSUME NEW next \in Slots, NEW back \in Slots
  PROVE  /\ Slot(next, back) = IF back < next THEN next - 1 - back
                                              ELSE next + HISTORY_SIZE - 1 - back
         /\ Slot(next, back) \in Slots
<1>1. HISTORY_SIZE \in Nat /\ HISTORY_SIZE > 0
  BY ShellAssumption
<1>2. next \in Nat /\ back \in Nat /\ next < HISTORY_SIZE /\ back < HISTORY_SIZE
  BY <1>1 DEF Slots
<1> DEFINE x == next + HISTORY_SIZE - 1 - back
<1>3. x \in Nat /\ x < 2 * HISTORY_SIZE
  BY <1>1, <1>2
<1>4. x % HISTORY_SIZE = IF x < HISTORY_SIZE THEN x ELSE x - HISTORY_SIZE
  BY <1>3, WrapsOnce
<1> QED
  BY <1>1, <1>2, <1>4 DEF Slot, Slots

LEMMA NextSlotIs ==
  ASSUME NEW i \in Slots
  PROVE  /\ NextSlot(i) = IF i + 1 = HISTORY_SIZE THEN 0 ELSE i + 1
         /\ NextSlot(i) \in Slots
<1>1. HISTORY_SIZE \in Nat /\ HISTORY_SIZE > 0
  BY ShellAssumption
<1> DEFINE x == i + 1
<1>2. x \in Nat /\ x < 2 * HISTORY_SIZE /\ x <= HISTORY_SIZE /\ x > 0
  BY <1>1 DEF Slots
<1>3. NextSlot(i) = x % HISTORY_SIZE
  BY DEF NextSlot
<1>4. (i + 1 = HISTORY_SIZE) = (x = HISTORY_SIZE)
  OBVIOUS
<1> HIDE DEF x
<1>5. x % HISTORY_SIZE = IF x < HISTORY_SIZE THEN x ELSE x - HISTORY_SIZE
  BY <1>2, WrapsOnce
<1>6. NextSlot(i) = IF x = HISTORY_SIZE THEN 0 ELSE x
  BY <1>1, <1>2, <1>3, <1>5
<1> QED
  BY <1>1, <1>2, <1>6 DEF Slots, x

\* After a command the slots of the earlier ones are a step further back.
LEMMA SlotShifts ==
  ASSUME NEW next \in Slots
  PROVE  /\ Slot(NextSlot(next), 0) = next
         /\ \A back \in Slots : back > 0 =>
              /\ Slot(NextSlot(next), back) = Slot(next, back - 1)
              /\ Slot(next, back - 1) # next
<1>1. HISTORY_SIZE \in Nat /\ HISTORY_SIZE > 0
  BY ShellAssumption
<1>2. next \in Nat /\ next < HISTORY_SIZE /\ 0 \in Slots
  BY <1>1 DEF Slots
<1>3. NextSlot(next) = (IF next + 1 = HISTORY_SIZE THEN 0 ELSE next + 1) /\ NextSlot(next) \in Slots
  BY NextSlotIs
<1>4. Slot(NextSlot(next), 0) = next
  BY <1>1, <1>2, <1>3, SlotIs
<1>5. ASSUME NEW back \in Slots, back > 0
      PROVE  /\ Slot(NextSlot(next), back) = Slot(next, back - 1)
             /\ Slot(next, back - 1) # next
  <2>1. back \in Nat /\ back < HISTORY_SIZE /\ back - 1 \in Slots /\ back - 1 \in Nat
    BY <1>1, <1>5 DEF Slots
  <2>2. Slot(next, back - 1) = IF back - 1 < next THEN next - 1 - (back - 1)
                                                  ELSE next + HISTORY_SIZE - 1 - (back - 1)
    BY <2>1, SlotIs
  <2>3. Slot(NextSlot(next), back) = IF back < NextSlot(next) THEN NextSlot(next) - 1 - back
                                       ELSE NextSlot(next) + HISTORY_SIZE - 1 - back
    BY <1>3, SlotIs
  <2> QED
    BY <1>1, <1>2, <1>3, <1>5, <2>1, <2>2, <2>3
<1> QED
  BY <1>4, <1>5

\* history_add: the ring holds the new command and the ones before it.
LEMMA HistoryAddOK ==
  ASSUME RingOK, NEW cmd \in Lines, HistoryAdd(cmd)
  PROVE  RingOK'
<1>1. CASE cmd = <<>>
  BY <1>1 DEF HistoryAdd, ring, RingOK, HistoryGet
<1>2. CASE cmd # <<>>
  <2> DEFINE H == HISTORY_SIZE
  <2>1. /\ history' = [history EXCEPT ![history_next] = cmd]
        /\ history_next' = NextSlot(history_next)
        /\ history_count' = IF history_count < H THEN history_count + 1 ELSE history_count
        /\ commands' = IF Len(commands) < H THEN Append(commands, cmd)
                                            ELSE Append(Tail(commands), cmd)
    BY <1>2 DEF HistoryAdd
  <2>2. /\ H \in Nat /\ H > 0 /\ history_count \in Nat /\ history_count <= H
        /\ history \in [Slots -> Lines] /\ history_next \in Slots
        /\ commands \in Seq(Lines) /\ Len(commands) = history_count
    BY ShellAssumption DEF RingOK
  <2>3. /\ history' \in [Slots -> Lines] /\ history_next' \in Slots
        /\ history_count' \in Nat /\ history_count' <= H /\ history_count' > 0
    BY <2>1, <2>2, NextSlotIs
  <2>6. PICK c \in Nat : c = history_count' /\ c <= H /\ c > 0
    BY <2>2, <2>3
  <2>4. /\ commands' \in Seq(Lines) /\ Len(commands') = history_count'
        /\ commands'[history_count'] = cmd
        /\ \A back \in 1 .. history_count' - 1 :
             commands'[history_count' - back] = commands[history_count - (back - 1)]
    <3>1. CASE history_count < H
      BY <2>1, <2>2, <3>1
    <3>2. CASE history_count = H
      <4>1. commands' = Append(Tail(commands), cmd) /\ commands # <<>> /\ history_count' = H
        BY <2>1, <2>2, <3>2
      <4>2. /\ Tail(commands) \in Seq(Lines) /\ Len(Tail(commands)) = H - 1
            /\ \A i \in 1 .. H - 1 : Tail(commands)[i] = commands[i + 1]
        BY <2>2, <3>2, <4>1
      <4>3. /\ commands' \in Seq(Lines) /\ Len(commands') = H /\ commands'[H] = cmd
            /\ \A i \in 1 .. H - 1 : commands'[i] = Tail(commands)[i]
        BY <2>2, <4>1, <4>2
      <4>4. \A back \in 1 .. H - 1 : H - back \in 1 .. H - 1 /\ (H - back) + 1 = H - (back - 1)
        BY <2>2
      <4>5. ASSUME NEW back \in 1 .. H - 1 PROVE commands'[H - back] = commands[H - (back - 1)]
        <5>1. commands'[H - back] = Tail(commands)[H - back]
          BY <4>3, <4>4
        <5>2. Tail(commands)[H - back] = commands[(H - back) + 1]
          BY <4>2, <4>4
        <5> QED
          BY <4>4, <5>1, <5>2
      <4> QED
        BY <2>2, <3>2, <4>1, <4>3, <4>5
    <3> QED
      BY <2>2, <3>1, <3>2
  <2>5. ASSUME NEW back \in 0 .. c - 1
        PROVE  HistoryGet(back)' = commands'[history_count' - back]
    <3>1. /\ back \in Slots /\ back \in Nat
          /\ HistoryGet(back)' = history'[Slot(history_next', back)]
      <4>1. back \in Slots /\ back \in Nat
        BY <2>2, <2>6 DEF Slots
      <4> QED
        BY <4>1 DEF HistoryGet, Slot
    <3>2. CASE back = 0
      BY <2>1, <2>2, <2>3, <2>4, <3>1, <3>2, SlotShifts
    <3>3. CASE back > 0
      <4>1. /\ Slot(history_next', back) = Slot(history_next, back - 1)
            /\ Slot(history_next, back - 1) # history_next
        BY <2>1, <2>2, <3>1, <3>3, SlotShifts
      <4>2. back - 1 \in 0 .. history_count - 1 /\ back - 1 \in Slots /\ back \in 1 .. history_count' - 1
        BY <2>1, <2>2, <2>6, <3>1, <3>3 DEF Slots
      <4>3. Slot(history_next, back - 1) \in Slots
        BY <2>2, <4>2, SlotIs
      <4>4. history'[Slot(history_next', back)] = history[Slot(history_next, back - 1)]
        BY <2>1, <2>2, <4>1, <4>3
      <4>5. history[Slot(history_next, back - 1)] = commands[history_count - (back - 1)]
        BY <4>2 DEF RingOK, HistoryGet, Slot
      <4> QED
        BY <2>4, <3>1, <4>2, <4>4, <4>5
    <3> QED
      BY <3>1, <3>2, <3>3
  <2>7. history_count' \in 0 .. HISTORY_SIZE
    BY <2>2, <2>6
  <2> QED
    BY <2>3, <2>4, <2>5, <2>6, <2>7 DEF RingOK
<1> QED
  BY <1>1, <1>2

\* What the arrows find in the ring is a line.
LEMMA HistoryGetLine ==
  ASSUME RingOK, NEW back \in 0 .. history_count - 1
  PROVE  /\ HistoryGet(back) \in Lines
         /\ HistoryGet(back) = commands[history_count - back]
<1>1. HISTORY_SIZE \in Nat /\ history_count \in Nat /\ history_count <= HISTORY_SIZE
  BY ShellAssumption DEF RingOK
<1>2. back \in Slots
  BY <1>1 DEF Slots
<1>3. Slot(history_next, back) \in Slots
  BY <1>2, SlotIs DEF RingOK
<1> QED
  BY <1>3 DEF RingOK, HistoryGet, Slot

-----------------------------------------------------------------------------
(* The invariant *)

\* The prompt on a screen with nothing behind the cursor shows an empty line.
LEMMA PromptShows ==
  ASSUME NEW scr, Clean(scr), NEW line
  PROVE  Shows(PrintText(scr, Prompt), line, 0)
<1> DEFINE after == PrintText(scr, Prompt)
<1>1. Prompt \in Seq(Glyphs) /\ Prompt # <<>> /\ Last(Prompt) # NewLine
  BY ShellAssumption
<1>2. Clean(after) /\ (after.cursor > 0 => after.cells[after.cursor - 1] = Last(Prompt))
  BY <1>1, PrintTextClean
<1> HIDE DEF after
<1>3. after.cursor \in Nat
  BY <1>2, ScreenFacts DEF Clean, Screens, Cells
<1>4. Shows(after, line, 0)
  BY <1>2, <1>3 DEF Shows
<1> QED
  BY <1>4 DEF after

LEMMA ClearedClean == Clean(Cleared)
<1>1. 0 \in Cells /\ Blank \in Glyphs
  BY ScreenFacts DEF Cells, Glyphs
<1> QED
  BY <1>1 DEF Clean, Cleared, Screens

LEMMA EmptyLine == <<>> \in Lines /\ Len(<<>>) = 0
  BY ShellAssumption DEF Lines

LEMMA InitInv == Init => ShellInv
<1> SUFFICES ASSUME Init PROVE ShellInv
  OBVIOUS
<1>1. Shows(screen, shell_buffer, Len(shell_buffer))
  BY PromptShows, ClearedClean, EmptyLine DEF Init
<1>2. RingOK
  <2>1. HISTORY_SIZE \in Nat /\ HISTORY_SIZE > 0 /\ 0 \in Slots
    BY ShellAssumption DEF Slots
  <2>2. history \in [Slots -> Lines] /\ commands \in Seq(Lines) /\ Len(commands) = 0
    BY EmptyLine DEF Init
  <2> QED
    BY <2>1, <2>2 DEF Init, RingOK
<1>3. LineOK
  <2>1. history_browse_index \in -1 .. history_count - 1 /\ ~(history_browse_index >= 0)
    BY DEF Init
  <2> QED
    BY <2>1, EmptyLine DEF Init, LineOK
<1> QED
  BY <1>1, <1>2, <1>3 DEF ShellInv

\* RingOK is about the ring and the commands alone.
LEMMA RingKept ==
  ASSUME RingOK, UNCHANGED <<ring, commands>>
  PROVE  RingOK'
  BY DEF RingOK, ring, HistoryGet

\* The arrows replace the line, on the screen and in the buffer.
LEMMA RedrawInv ==
  ASSUME ShellInv, NEW new \in Lines, RedrawLine(new)
  PROVE  /\ Shows(screen, shell_buffer, Len(shell_buffer))'
         /\ shell_buffer' = new
  BY RedrawShows DEF ShellInv, LineOK, RedrawLine

LEMMA ArrowUpInv == ShellInv /\ ArrowUp => ShellInv'
<1> SUFFICES ASSUME ShellInv, ArrowUp PROVE ShellInv'
  OBVIOUS
<1>1. RingOK' /\ RingOK
  BY RingKept DEF ArrowUp, ShellInv
<1>2. /\ history_count \in Nat /\ history_count' = history_count /\ commands' = commands
      /\ history_browse_index \in -1 .. history_count - 1
      /\ saved_current' \in Lines
      /\ saved_current' = draft' /\ draft' = draft
  <2>1. history_count \in Nat /\ history_browse_index \in -1 .. history_count - 1
    BY <1>1 DEF RingOK, ShellInv, LineOK
  <2> QED
    BY <2>1 DEF ShellInv, LineOK, ArrowUp, SaveLine, ring
<1>3. CASE history_browse_index + 1 < history_count
  <2> DEFINE back == history_browse_index + 1
  <2>1. back \in 0 .. history_count - 1 /\ back # -1
    BY <1>2, <1>3
  <2>2. /\ history_browse_index' = back /\ RedrawLine(HistoryGet(back)) /\ edited' = FALSE
    BY <1>3 DEF ArrowUp
  <2> HIDE DEF back
  <2>3. /\ HistoryGet(back) \in Lines
        /\ HistoryGet(back) = commands[history_count - back]
    BY <1>1, <2>1, HistoryGetLine
  <2>4. Shows(screen, shell_buffer, Len(shell_buffer))' /\ shell_buffer' = HistoryGet(back)
    BY <2>2, <2>3, RedrawInv
  <2>5. LineOK'
    <3>1. history_browse_index' \in -1 .. history_count' - 1 /\ history_browse_index' # -1
      BY <1>2, <2>1, <2>2
    <3>2. shell_buffer' \in Lines /\ saved_current' \in Lines /\ edited' \in BOOLEAN
      BY <1>2, <2>2, <2>3, <2>4
    <3>3. shell_buffer' = commands'[history_count' - history_browse_index']
      BY <1>2, <2>2, <2>3, <2>4
    <3> QED
      BY <1>2, <3>1, <3>2, <3>3 DEF LineOK
  <2> QED
    BY <1>1, <2>4, <2>5 DEF ShellInv
<1>4. CASE ~(history_browse_index + 1 < history_count)
  <2>1. UNCHANGED <<history_browse_index, screen, shell_buffer, edited>>
    BY <1>4 DEF ArrowUp
  <2>2. Shows(screen, shell_buffer, Len(shell_buffer))'
    BY <2>1 DEF ShellInv
  <2>3. LineOK'
    BY <1>2, <2>1 DEF ShellInv, LineOK
  <2> QED
    BY <1>1, <2>2, <2>3 DEF ShellInv
<1> QED
  BY <1>3, <1>4

LEMMA ArrowDownInv == ShellInv /\ (ArrowDown \/ ArrowDownToLine) => ShellInv'
<1> SUFFICES ASSUME ShellInv, ArrowDown \/ ArrowDownToLine PROVE ShellInv'
  OBVIOUS
<1>1. RingOK' /\ RingOK
  BY RingKept DEF ArrowDown, ArrowDownToLine, ShellInv
<1>2. /\ history_count \in Nat /\ history_count' = history_count /\ commands' = commands
      /\ history_browse_index \in -1 .. history_count - 1 /\ history_browse_index # -1
      /\ saved_current \in Lines /\ saved_current' = saved_current
      /\ saved_current = draft /\ draft' = draft /\ edited' = FALSE
  <2>1. history_count \in Nat /\ history_browse_index \in -1 .. history_count - 1
    BY <1>1 DEF RingOK, ShellInv, LineOK
  <2> QED
    BY <2>1 DEF ShellInv, LineOK, ArrowDown, ArrowDownToLine, ring
<1>3. CASE ArrowDown
  <2> DEFINE back == history_browse_index - 1
  <2>1. back \in 0 .. history_count - 1 /\ back # -1
    BY <1>2, <1>3 DEF ArrowDown
  <2>2. /\ history_browse_index' = back /\ RedrawLine(HistoryGet(back))
    BY <1>3 DEF ArrowDown
  <2> HIDE DEF back
  <2>3. /\ HistoryGet(back) \in Lines
        /\ HistoryGet(back) = commands[history_count - back]
    BY <1>1, <2>1, HistoryGetLine
  <2>4. Shows(screen, shell_buffer, Len(shell_buffer))' /\ shell_buffer' = HistoryGet(back)
    BY <2>2, <2>3, RedrawInv
  <2>5. LineOK'
    <3>1. history_browse_index' \in -1 .. history_count' - 1 /\ history_browse_index' # -1
      BY <1>2, <2>1, <2>2
    <3>2. shell_buffer' \in Lines /\ saved_current' \in Lines /\ edited' \in BOOLEAN
      BY <1>2, <2>2, <2>3, <2>4
    <3>3. shell_buffer' = commands'[history_count' - history_browse_index']
      BY <1>2, <2>2, <2>3, <2>4
    <3> QED
      BY <1>2, <3>1, <3>2, <3>3 DEF LineOK
  <2> QED
    BY <1>1, <2>4, <2>5 DEF ShellInv
<1>4. CASE ArrowDownToLine
  <2>1. Shows(screen, shell_buffer, Len(shell_buffer))' /\ shell_buffer' = saved_current
    BY <1>2, <1>4, RedrawInv DEF ArrowDownToLine
  <2>2. history_browse_index' = -1
    BY <1>4 DEF ArrowDownToLine
  <2>3. LineOK'
    <3>1. history_browse_index' \in -1 .. history_count' - 1 /\ ~(history_browse_index' >= 0)
      BY <1>2, <2>2
    <3>2. shell_buffer' \in Lines /\ saved_current' \in Lines /\ edited' \in BOOLEAN
      BY <1>2, <2>1
    <3> QED
      BY <1>2, <2>1, <2>2, <3>1, <3>2 DEF LineOK
  <2> QED
    BY <1>1, <2>1, <2>3 DEF ShellInv
<1> QED
  BY <1>3, <1>4

LEMMA EnterInv == ShellInv /\ (Enter \/ EnterClear) => ShellInv'
<1> SUFFICES ASSUME ShellInv, Enter \/ EnterClear PROVE ShellInv'
  OBVIOUS
<1>1. /\ HistoryAdd(shell_buffer) /\ history_browse_index' = -1 /\ shell_buffer' = <<>>
      /\ draft' = <<>> /\ edited' = FALSE /\ saved_current' = saved_current
  BY DEF Enter, EnterClear
<1>2. RingOK'
  BY <1>1, HistoryAddOK DEF ShellInv, LineOK
<1>3. LineOK'
  <2>1. history_count' \in Nat
    BY <1>2 DEF RingOK
  <2>2. history_browse_index' \in -1 .. history_count' - 1 /\ ~(history_browse_index' >= 0)
    <3>1. history_browse_index' = -1
      BY <1>1
    <3>2. PICK c \in Nat : c = history_count'
      BY <2>1
    <3>3. -1 \in -1 .. c - 1
      OBVIOUS
    <3>4. ~(-1 >= 0)
      OBVIOUS
    <3> QED
      BY <3>1, <3>2, <3>3, <3>4
  <2>3. saved_current' \in Lines
    BY <1>1 DEF LineOK, ShellInv
  <2> QED
    BY <1>1, <2>2, <2>3, EmptyLine DEF LineOK
<1>4. \E scr : Clean(scr) /\ screen' = PrintText(scr, Prompt)
  <2>1. CASE Enter
    <3>1. PICK output \in Outputs :
            screen' = PrintText(PrintText(PrintChar(screen, NewLine), output), Prompt)
      BY <2>1 DEF Enter
    <3>2. Clean(PrintChar(screen, NewLine))
      BY PrintCharClean DEF ShellInv, Shows, Glyphs
    <3>3. output \in Seq(Glyphs)
      BY ShellAssumption
    <3> QED
      BY <3>1, <3>2, <3>3, PrintTextClean
  <2>2. CASE EnterClear
    BY <2>2, ClearedClean DEF EnterClear
  <2> QED
    BY <2>1, <2>2
<1>5. Shows(screen, shell_buffer, Len(shell_buffer))'
  BY <1>1, <1>4, PromptShows, EmptyLine
<1> QED
  BY <1>2, <1>3, <1>5 DEF ShellInv

\* The ring and the browsing stay as they are while the line is changed.
LEMMA EditInv ==
  ASSUME ShellInv, NEW line \in Lines, Edit(line), Shows(screen, shell_buffer, Len(shell_buffer))'
  PROVE  ShellInv'
<1>1. RingOK'
  BY RingKept DEF Edit, ShellInv
<1>2. LineOK'
  BY DEF LineOK, ShellInv, Edit, ring
<1> QED
  BY <1>1, <1>2 DEF ShellInv

LEMMA EraseInv == ShellInv /\ Erase => ShellInv'
<1> SUFFICES ASSUME ShellInv, Erase PROVE ShellInv'
  OBVIOUS
<1> DEFINE n == Len(shell_buffer)
<1> DEFINE line == Front(shell_buffer)
<1>1. shell_buffer \in Seq(Chars) /\ n < SHELL_BUFFER_SIZE /\ shell_buffer # <<>>
  BY DEF Erase, ShellInv, LineOK, Lines
<1>2. n \in Nat /\ n > 0
  BY <1>1
<1>3. /\ line \in Seq(Chars) /\ Len(line) = n - 1
      /\ \A i \in 1 .. n - 1 : line[i] = shell_buffer[i]
  <2>1. line = SubSeq(shell_buffer, 1, n - 1)
    BY DEF Front
  <2>2. n - 1 \in Int /\ \A i \in 1 .. n - 1 : shell_buffer[i] \in Chars
    BY <1>1, <1>2
  <2>3. /\ SubSeq(shell_buffer, 1, n - 1) \in Seq(Chars)
        /\ Len(SubSeq(shell_buffer, 1, n - 1)) = IF 1 <= n - 1 THEN (n - 1) - 1 + 1 ELSE 0
        /\ \A i \in 1 .. (n - 1) - 1 + 1 : SubSeq(shell_buffer, 1, n - 1)[i] = shell_buffer[1 + i - 1]
    BY <2>2, SubSeqProperties
  <2> HIDE DEF line
  <2> HIDE DEF n
  <2>4. Len(line) = n - 1
    <3>1. Len(line) = IF 1 <= n - 1 THEN (n - 1) - 1 + 1 ELSE 0
      BY <2>1, <2>3
    <3> QED
      BY <1>2, <3>1
  <2>5. \A i \in 1 .. n - 1 : i \in 1 .. (n - 1) - 1 + 1 /\ 1 + i - 1 = i
    BY <1>2
  <2> QED
    BY <2>1, <2>3, <2>4, <2>5
<1>4. line \in Lines
  BY <1>1, <1>2, <1>3, ShellAssumption DEF Lines
<1>5. screen' = PrintChar(screen, Backspace) /\ Edit(line) /\ shell_buffer' = line
  BY DEF Erase, Edit
<1>6. Shows(screen', shell_buffer, n - 1)
  BY <1>2, <1>5, EraseShows DEF ShellInv
<1>7. Shows(screen', line, n - 1)
  BY <1>3, <1>6 DEF Shows
<1> QED
  BY <1>3, <1>4, <1>5, <1>7, EditInv

LEMMA TypeInv ==
  ASSUME ShellInv, NEW ch \in Chars, Type(ch)
  PROVE  ShellInv'
<1> DEFINE n == Len(shell_buffer)
<1> DEFINE line == Append(shell_buffer, ch)
<1>1. shell_buffer \in Seq(Chars) /\ n + 1 < SHELL_BUFFER_SIZE /\ n \in Nat
  BY ShellAssumption DEF Type, HasRoom, ShellInv, LineOK, Lines
<1>2. /\ line \in Seq(Chars) /\ Len(line) = n + 1 /\ line[n + 1] = ch
      /\ \A i \in 1 .. n : line[i] = shell_buffer[i]
  BY <1>1
<1>3. line \in Lines
  BY <1>1, <1>2 DEF Lines
<1>4. screen' = PrintChar(screen, ch) /\ Edit(line) /\ shell_buffer' = line
  BY DEF Type, Edit
<1>5. Shows(screen, line, n)
  BY <1>2 DEF ShellInv, Shows
<1>6. Shows(screen', line, n + 1)
  <2> HIDE DEF line, n
  <2>1. Shows(PrintChar(screen, line[n + 1]), line, n + 1)
    BY <1>1, <1>2, <1>5, TypeShows
  <2> QED
    BY <1>2, <1>4, <2>1
<1> QED
  BY <1>2, <1>3, <1>4, <1>6, EditInv

LEMMA NextInv == ShellInv /\ [Next]_vars => ShellInv'
<1> SUFFICES ASSUME ShellInv, [Next]_vars PROVE ShellInv'
  OBVIOUS
<1>1. CASE UNCHANGED vars
  <2>1. UNCHANGED <<screen, shell_buffer>> /\ UNCHANGED <<ring, commands>>
    BY <1>1 DEF vars, ghosts
  <2>2. RingOK'
    BY <2>1, RingKept DEF ShellInv
  <2> QED
    BY <1>1, <2>1, <2>2 DEF vars, ghosts, ring, ShellInv, LineOK
<1>2. CASE Next
  BY <1>2, ArrowUpInv, ArrowDownInv, EnterInv, EraseInv, TypeInv DEF Next
<1> QED
  BY <1>1, <1>2

\* The inductive invariant of the editor: screen, buffer, ring and draft agree.
THEOREM ShellInvariant == Spec => []ShellInv
  BY InitInv, NextInv, PTL DEF Spec

\* Cursor, buffer and ring indices stay in range, through any keys.
THEOREM ShellTypeOK == Spec => []TypeOK
<1>1. ShellInv => TypeOK
  BY DEF ShellInv, Shows, Clean, Screens, RingOK, LineOK, Lines, TypeOK
<1> QED
  BY <1>1, ShellInvariant, PTL

\* The line that Enter would run is what stands between prompt and cursor.
THEOREM ShellLineOnScreen == Spec => []LineOnScreen
<1>1. ShellInv => LineOnScreen
  BY DEF ShellInv, Shows, LineOnScreen
<1> QED
  BY <1>1, ShellInvariant, PTL

\* No rest of a longer line stays behind the cursor.
THEOREM ShellBlankBehindCursor == Spec => []BlankBehindCursor
<1>1. ShellInv => BlankBehindCursor
  BY DEF ShellInv, Shows, Clean, BlankBehindCursor
<1> QED
  BY <1>1, ShellInvariant, PTL

\* The arrows bring back the commands in the order in which they ran, for every
\* size of the ring.
THEOREM ShellRecallsInOrder == Spec => []RecallsInOrder
<1>1. ShellInv => RecallsInOrder
  BY DEF ShellInv, RingOK, LineOK, RecallsInOrder
<1> QED
  BY <1>1, ShellInvariant, PTL

\* Back from the history the line typed before is there again.
THEOREM ShellDraftComesBack == Spec => []DraftComesBack
<1>1. ShellInv => DraftComesBack
  BY DEF ShellInv, LineOK, DraftComesBack
<1> QED
  BY <1>1, ShellInvariant, PTL

==============================================================================

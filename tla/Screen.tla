------------------------------- MODULE Screen -------------------------------
(***************************************************************************)
(* The text screen of print.c: a grid of cells written at a cursor, which  *)
(* scrolls when the cursor runs off its end.  A screen is a record of its  *)
(* cells and cursor_index; every operator returns the screen after a call. *)
(***************************************************************************)
EXTENDS Integers, Sequences, SequencesExt

CONSTANTS SCREEN_WIDTH, SCREEN_HEIGHT

ASSUME ScreenAssumption ==
  SCREEN_WIDTH \in Nat \ {0} /\ SCREEN_HEIGHT \in Nat \ {0}

SCREEN_SIZE == SCREEN_WIDTH * SCREEN_HEIGHT
Cells == 0 .. SCREEN_SIZE - 1

Blank == " "
NewLine == "LF"
Backspace == "BS"

\* clear_screen
Cleared == [cells |-> [i \in Cells |-> Blank], cursor |-> 0]

\* scroll_screen
Scrolled(scr) ==
  [cells |-> [i \in Cells |-> IF i + SCREEN_WIDTH \in Cells
                              THEN scr.cells[i + SCREEN_WIDTH] ELSE Blank],
   cursor |-> scr.cursor - SCREEN_WIDTH]

\* The cursor moves to position pos.  No move passes the end of the screen by
\* more than a line, so the loop of advance_cursor scrolls at most once.
MovedTo(scr, pos) ==
  LET moved == [scr EXCEPT !.cursor = pos]
  IN  IF pos < SCREEN_SIZE THEN moved ELSE Scrolled(moved)

\* A character of print_text, where only the newline is special.
TextChar(scr, ch) ==
  IF ch = NewLine
  THEN MovedTo(scr, ((scr.cursor \div SCREEN_WIDTH) + 1) * SCREEN_WIDTH)
  ELSE MovedTo([scr EXCEPT !.cells[scr.cursor] = ch], scr.cursor + 1)

PrintText(scr, text) ==
  LET after[n \in 0 .. Len(text)] ==
        IF n = 0 THEN scr ELSE TextChar(after[n - 1], text[n])
  IN  after[Len(text)]

\* Mutant: the cursor moves back over a character that stays.
ErasedKept(scr) ==
  IF scr.cursor = 0 THEN scr ELSE [scr EXCEPT !.cursor = @ - 1]

\* A backspace of print_char.
Erased(scr) ==
  IF scr.cursor = 0 THEN scr
  ELSE [cells |-> [scr.cells EXCEPT ![scr.cursor - 1] = Blank], cursor |-> scr.cursor - 1]

\* print_char
PrintChar(scr, ch) == IF ch = Backspace THEN Erased(scr) ELSE TextChar(scr, ch)

PrintChars(scr, chars) ==
  LET after[n \in 0 .. Len(chars)] ==
        IF n = 0 THEN scr ELSE PrintChar(after[n - 1], chars[n])
  IN  after[Len(chars)]

=============================================================================

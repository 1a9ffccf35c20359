------------------------------- MODULE Shell --------------------------------
(***************************************************************************)
(* The line editor of the shell (shell_start and the history functions of  *)
(* shell/shell.c) on the screen of print.c: typing, erasing, recalling     *)
(* earlier commands with the arrow keys, running the line.                 *)
(*                                                                         *)
(* shell_buffer is the sequence of its first idx characters.  A command is *)
(* what its output does to the screen.                                     *)
(***************************************************************************)
EXTENDS Screen

CONSTANTS
  SHELL_BUFFER_SIZE, HISTORY_SIZE,
  Chars,     \* printable characters
  Prompt,    \* the text print_prompt prints
  Outputs    \* the texts commands print

\* Everything that is ever on the screen.
Glyphs ==
  Chars \cup {Blank, NewLine} \cup Range(Prompt) \cup UNION {Range(text) : text \in Outputs}

ASSUME ShellAssumption ==
  /\ SHELL_BUFFER_SIZE \in Nat \ {0} /\ HISTORY_SIZE \in Nat \ {0}
  /\ SHELL_BUFFER_SIZE - 1 <= SCREEN_SIZE - SCREEN_WIDTH
  /\ Chars \cap {NewLine, Backspace} = {}
  /\ Prompt \in Seq(Glyphs) /\ Prompt # <<>> /\ Last(Prompt) # NewLine
  /\ Outputs \subseteq Seq(Glyphs)

VARIABLES
  screen,
  shell_buffer,
  history, history_count, history_next, history_browse_index, saved_current,
  commands,  \* history: the commands run, oldest first, the last HISTORY_SIZE
  draft,     \* history: the line as typed, without what the arrows brought
  edited     \* history: the line recalled was changed since

ring == <<history, history_count, history_next>>
ghosts == <<commands, draft, edited>>
vars == <<screen, shell_buffer, ring, history_browse_index, saved_current, ghosts>>

Slots == 0 .. HISTORY_SIZE - 1

-----------------------------------------------------------------------------
(* The history *)

\* Mutant: the slot is not advanced past the end of the array.
NextSlotStuck(i) == IF i + 1 < HISTORY_SIZE THEN i + 1 ELSE i

NextSlot(i) == (i + 1) % HISTORY_SIZE

\* history_add; the oldest command gives way.
HistoryAdd(cmd) ==
  IF cmd = <<>>
  THEN UNCHANGED <<ring, commands>>
  ELSE /\ history' = [history EXCEPT ![history_next] = cmd]
       /\ history_next' = NextSlot(history_next)
       /\ history_count' = IF history_count < HISTORY_SIZE THEN history_count + 1
                                                           ELSE history_count
       /\ commands' = IF Len(commands) < HISTORY_SIZE THEN Append(commands, cmd)
                                                      ELSE Append(Tail(commands), cmd)

\* history_get
HistoryGet(back) == history[(history_next + HISTORY_SIZE - 1 - back) % HISTORY_SIZE]

\* Mutant: a character too few is erased.
RedrawLineShort(content) ==
  /\ LET erased == IF shell_buffer = <<>> THEN <<>> ELSE Tail(shell_buffer)
     IN  screen' = PrintChars(screen, [i \in DOMAIN erased |-> Backspace] \o content)
  /\ shell_buffer' = content

\* redraw_line
RedrawLine(content) ==
  /\ screen' = PrintChars(screen, [i \in 1 .. Len(shell_buffer) |-> Backspace] \o content)
  /\ shell_buffer' = content

-----------------------------------------------------------------------------
(* One action per key *)

\* Mutant: every press of the key saves the line.
SaveLineAlways == saved_current' = shell_buffer

\* The line is stashed when browsing begins.
SaveLine ==
  saved_current' = IF history_browse_index = -1 THEN shell_buffer ELSE saved_current

ArrowUp ==
  /\ SaveLine
  /\ IF history_browse_index + 1 < history_count
     THEN /\ history_browse_index' = history_browse_index + 1
          /\ RedrawLine(HistoryGet(history_browse_index + 1))
          /\ edited' = FALSE
     ELSE UNCHANGED <<history_browse_index, screen, shell_buffer, edited>>
  /\ UNCHANGED <<ring, commands, draft>>

ArrowDown ==
  /\ history_browse_index > 0
  /\ history_browse_index' = history_browse_index - 1
  /\ RedrawLine(HistoryGet(history_browse_index - 1))
  /\ edited' = FALSE
  /\ UNCHANGED <<ring, saved_current, commands, draft>>

ArrowDownToLine ==
  /\ history_browse_index = 0
  /\ history_browse_index' = -1
  /\ RedrawLine(saved_current)
  /\ edited' = FALSE
  /\ UNCHANGED <<ring, saved_current, commands, draft>>

\* The line runs; what it prints comes between the newline and the prompt.
Enter ==
  /\ \E output \in Outputs :
       screen' = PrintText(PrintText(PrintChar(screen, NewLine), output), Prompt)
  /\ HistoryAdd(shell_buffer)
  /\ history_browse_index' = -1
  /\ shell_buffer' = <<>>
  /\ draft' = <<>> /\ edited' = FALSE
  /\ UNCHANGED saved_current

\* The command "clear".
EnterClear ==
  /\ screen' = PrintText(Cleared, Prompt)
  /\ HistoryAdd(shell_buffer)
  /\ history_browse_index' = -1
  /\ shell_buffer' = <<>>
  /\ draft' = <<>> /\ edited' = FALSE
  /\ UNCHANGED saved_current

\* The user changes the line; it is the draft unless it was recalled.
Edit(line) ==
  /\ shell_buffer' = line
  /\ draft' = IF history_browse_index = -1 THEN line ELSE draft
  /\ edited' = TRUE
  /\ UNCHANGED <<ring, history_browse_index, saved_current, commands>>

Erase ==
  /\ shell_buffer # <<>>
  /\ screen' = PrintChar(screen, Backspace)
  /\ Edit(Front(shell_buffer))

\* Mutant: the last byte of the buffer is used as well.
HasRoomFull == Len(shell_buffer) < SHELL_BUFFER_SIZE

HasRoom == Len(shell_buffer) < SHELL_BUFFER_SIZE - 1

Type(ch) ==
  /\ HasRoom
  /\ screen' = PrintChar(screen, ch)
  /\ Edit(Append(shell_buffer, ch))

Init ==
  /\ screen = PrintText(Cleared, Prompt)
  /\ shell_buffer = <<>>
  /\ history = [i \in Slots |-> <<>>]
  /\ history_count = 0 /\ history_next = 0
  /\ history_browse_index = -1
  /\ saved_current = <<>>
  /\ commands = <<>> /\ draft = <<>> /\ edited = FALSE

Next ==
  \/ ArrowUp \/ ArrowDown \/ ArrowDownToLine
  \/ Enter \/ EnterClear
  \/ Erase \/ \E ch \in Chars : Type(ch)

Spec == Init /\ [][Next]_vars

-----------------------------------------------------------------------------
(* Correctness *)

TypeOK ==
  /\ screen.cursor \in Cells
  /\ DOMAIN screen.cells = Cells
  /\ Len(shell_buffer) < SHELL_BUFFER_SIZE
  /\ Len(saved_current) < SHELL_BUFFER_SIZE
  /\ history_count \in 0 .. HISTORY_SIZE
  /\ history_next \in Slots
  /\ history_browse_index \in -1 .. history_count - 1

\* What the user sees between the prompt and the cursor is the line that Enter
\* would run, no more and no less, through wrapping, scrolling, erasing back
\* over the end of a row and recalled lines of other lengths (redraw_line and
\* print_char).
LineOnScreen ==
  LET n == Len(shell_buffer)
  IN  /\ n <= screen.cursor
      /\ \A i \in 1 .. n : screen.cells[screen.cursor - n + i - 1] = shell_buffer[i]
      /\ n < screen.cursor => screen.cells[screen.cursor - n - 1] = Last(Prompt)

\* Behind the cursor the screen is blank: no rest of a longer line stays.
BlankBehindCursor ==
  \A i \in Cells : i >= screen.cursor => screen.cells[i] = Blank

\* The arrows walk through the last HISTORY_SIZE commands, most recent first,
\* after any number of commands and wraps of the ring: a recalled line that was
\* not changed is the command that many runs ago (history_add, history_get).
RecallsInOrder ==
  /\ history_count = Len(commands)
  /\ history_browse_index >= 0 /\ ~edited =>
       shell_buffer = commands[Len(commands) - history_browse_index]

\* "what the user had typed before they started pressing Up, so Down can bring
\* them back to it" (shell.c:23): back on the live line it is there again, also
\* when a recalled line was changed in between.
DraftComesBack == history_browse_index = -1 => shell_buffer = draft

-----------------------------------------------------------------------------
(* The inductive invariant behind these *)

Lines == {line \in Seq(Chars) : Len(line) < SHELL_BUFFER_SIZE}

Screens == [cells : [Cells -> Glyphs], cursor : Cells]

\* Nothing is on the screen behind the cursor.
Clean(scr) == scr \in Screens /\ \A i \in Cells : i >= scr.cursor => scr.cells[i] = Blank

\* The first n characters of the line are in front of the cursor, and the prompt
\* in front of them.
Shows(scr, line, n) ==
  /\ Clean(scr)
  /\ n <= scr.cursor
  /\ \A i \in 1 .. n : scr.cells[scr.cursor - n + i - 1] = line[i]
  /\ n < scr.cursor => scr.cells[scr.cursor - n - 1] = Last(Prompt)

\* The ring holds the commands, the most recent one in front of history_next.
RingOK ==
  /\ history \in [Slots -> Lines] /\ history_next \in Slots
  /\ history_count \in 0 .. HISTORY_SIZE
  /\ commands \in Seq(Lines) /\ Len(commands) = history_count
  /\ \A back \in 0 .. history_count - 1 :
       HistoryGet(back) = commands[history_count - back]

\* The draft is in the buffer, or saved while an earlier command is.
LineOK ==
  /\ shell_buffer \in Lines /\ saved_current \in Lines
  /\ edited \in BOOLEAN
  /\ history_browse_index \in -1 .. history_count - 1
  /\ draft = IF history_browse_index = -1 THEN shell_buffer ELSE saved_current
  /\ history_browse_index >= 0 /\ ~edited =>
       shell_buffer = commands[history_count - history_browse_index]

ShellInv == Shows(screen, shell_buffer, Len(shell_buffer)) /\ RingOK /\ LineOK

=============================================================================

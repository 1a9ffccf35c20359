----------------------------- MODULE MCKeyboard -----------------------------
(* Keyboards for TLC. *)
EXTENDS Keyboard

Key(ext, code) == [ext |-> ext, code |-> code]

LShift == Key(FALSE, "LSHIFT")
RShift == Key(FALSE, "RSHIFT")
CapsLock == Key(FALSE, "CAPSLOCK")
Letter == Key(FALSE, "LETTER")

\* Both shift keys, caps lock, a letter, a digit, an arrow, the keypad key with
\* the arrow's code, and the fake shift some keyboards send as an extended key.
MCKeys ==
  {LShift, RShift, CapsLock, Letter, Key(FALSE, "DIGIT"), Key(TRUE, "ARROW_UP"),
   Key(FALSE, "ARROW_UP"), Key(TRUE, "LSHIFT")}

MCTypematic == {LShift, CapsLock, Letter}

\* The modifiers alone.
ModifierKeys == {LShift, RShift, CapsLock}
ModifierTypematic == {CapsLock}

=============================================================================

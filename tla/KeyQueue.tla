------------------------------ MODULE KeyQueue ------------------------------
(***************************************************************************)
(* What the keyboard buffer promises (drivers/ps2.h): a bounded queue of   *)
(* key presses.  A press that finds it full is dropped, unread keys are    *)
(* never overwritten, and the shell takes keys one at a time in the order  *)
(* they were pressed, or learns that none was waiting.                     *)
(***************************************************************************)
EXTENDS Integers, Sequences

CONSTANTS Chars, Capacity

VARIABLES queue, taken   \* taken: what the last completed pop returned

NoKey == 0

Init == queue = <<>> /\ taken = NoKey

Press(c) ==
  /\ Len(queue) < Capacity
  /\ queue' = Append(queue, c)
  /\ UNCHANGED taken

Take ==
  /\ queue # <<>>
  /\ taken' = Head(queue)
  /\ queue' = Tail(queue)

FindEmpty ==
  /\ queue = <<>>
  /\ taken' = NoKey
  /\ UNCHANGED queue

Next == (\E c \in Chars : Press(c)) \/ Take \/ FindEmpty

Spec == Init /\ [][Next]_<<queue, taken>>

=============================================================================

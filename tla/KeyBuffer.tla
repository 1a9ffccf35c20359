----------------------------- MODULE KeyBuffer ------------------------------
(***************************************************************************)
(* The ring buffer between the keyboard interrupt and the shell            *)
(* (drivers/ps2.c), and the loop of the shell that polls it and sleeps     *)
(* (shell/shell.c).                                                        *)
(*                                                                         *)
(* The interrupt handler runs with interrupts disabled and is one step.    *)
(* key_buffer_pop runs in the shell with interrupts enabled: one step per  *)
(* memory access, with the value held in eax in between, as the kernel is  *)
(* built (-O0, Makefile).  keyboard_stub loads the PIC's end-of-interrupt  *)
(* code into al after popa, so that every interrupt leaves it in eax of    *)
(* the code it interrupts; struck remembers whether that hit a pop at a    *)
(* point where it needs eax.                                               *)
(***************************************************************************)
EXTENDS Integers, Sequences

CONSTANTS
  KEY_BUFFER_SIZE,
  Chars,         \* what keyboard_handler can push
  EOI            \* the end-of-interrupt code, 0x20

ASSUME BufferAssumption ==
  /\ KEY_BUFFER_SIZE \in Nat /\ KEY_BUFFER_SIZE > 1
  /\ Chars \subseteq Nat \ {0}
  /\ EOI \in 0 .. KEY_BUFFER_SIZE - 1

VARIABLES
  key_buffer, key_buf_head, key_buf_tail,
  pc,       \* where the shell is
  eax, edx, \* registers of the shell
  c,        \* the local variable of key_buffer_pop
  got,      \* what the last pop handed to shell_start
  struck    \* history: the pop in progress lost eax to an interrupt

ring == <<key_buffer, key_buf_head, key_buf_tail>>
vars == <<ring, pc, eax, edx, c, got, struck>>

N == KEY_BUFFER_SIZE
Index == 0 .. N - 1
NoKey == 0

Init ==
  /\ key_buffer = [i \in Index |-> 0]
  /\ key_buf_head = 0
  /\ key_buf_tail = 0
  /\ pc = "tail"
  /\ eax = 0 /\ edx = 0 /\ c = 0 /\ got = NoKey /\ struck = FALSE

-----------------------------------------------------------------------------
(* IRQ1 *)

Successor(i) == (i + 1) % N

\* Mutant: unread characters are overwritten.
FullNever == FALSE

Full == Successor(key_buf_head) = key_buf_tail

\* key_buffer_push drops the character when the buffer is full.
KeyBufferPush(char) ==
  IF Full
  THEN UNCHANGED ring
  ELSE /\ key_buffer' = [key_buffer EXCEPT ![key_buf_head] = char]
       /\ key_buf_head' = Successor(key_buf_head)
       /\ UNCHANGED key_buf_tail

\* The points of key_buffer_pop at which eax holds what comes next.
EaxLive == {"test", "char", "save", "advance", "ret"}

\* keyboard_stub around keyboard_handler, which pushes one character or none
\* (a release, a modifier, a prefix); al is loaded after popa.  A halted
\* processor resumes behind hlt.
Interrupted ==
  /\ eax' = EOI
  /\ pc' = IF pc = "hlt" THEN "tail" ELSE pc
  /\ struck' = (struck \/ pc \in EaxLive)
  /\ UNCHANGED <<edx, c, got>>

IrqKey(char) == KeyBufferPush(char) /\ Interrupted

IrqOther == Interrupted /\ UNCHANGED ring

-----------------------------------------------------------------------------
(* key_buffer_pop *)

Goto(from, to) == pc = from /\ pc' = to

LoadTail ==
  /\ Goto("tail", "head")
  /\ edx' = key_buf_tail
  /\ UNCHANGED <<ring, eax, c, got, struck>>

LoadHead ==
  /\ Goto("head", "test")
  /\ eax' = key_buf_head
  /\ UNCHANGED <<ring, edx, c, got, struck>>

\* Mutant: a single waiting key is taken for none.
FoundEmptyShort == edx = eax \/ Successor(edx) = eax

FoundEmpty == edx = eax

\* if (key_buf_tail == key_buf_head) return 0;
TestEmpty ==
  /\ Goto("test", "ret")
  /\ FoundEmpty
  /\ eax' = NoKey
  /\ UNCHANGED <<ring, edx, c, got, struck>>

TestNonempty ==
  /\ Goto("test", "index")
  /\ ~FoundEmpty
  /\ UNCHANGED <<ring, eax, edx, c, got, struck>>

LoadIndex ==
  /\ Goto("index", "char")
  /\ eax' = key_buf_tail
  /\ UNCHANGED <<ring, edx, c, got, struck>>

LoadChar ==
  /\ Goto("char", "save")
  /\ eax' = key_buffer[eax]
  /\ UNCHANGED <<ring, edx, c, got, struck>>

SaveChar ==
  /\ Goto("save", "next")
  /\ c' = eax
  /\ UNCHANGED <<ring, eax, edx, got, struck>>

NextTail ==
  /\ Goto("next", "advance")
  /\ eax' = Successor(key_buf_tail)
  /\ UNCHANGED <<ring, edx, c, got, struck>>

Advance ==
  /\ Goto("advance", "result")
  /\ key_buf_tail' = eax
  /\ UNCHANGED <<key_buffer, key_buf_head, eax, edx, c, got, struck>>

LoadResult ==
  /\ Goto("result", "ret")
  /\ eax' = c
  /\ UNCHANGED <<ring, edx, c, got, struck>>

\* shell_start receives the character: it sleeps on 0, handles anything else
\* and polls again.
Return ==
  /\ Goto("ret", IF eax = NoKey THEN "hlt" ELSE "tail")
  /\ got' = eax
  /\ struck' = FALSE
  /\ UNCHANGED <<ring, eax, edx, c>>

Shell ==
  \/ LoadTail \/ LoadHead \/ TestEmpty \/ TestNonempty \/ LoadIndex
  \/ LoadChar \/ SaveChar \/ NextTail \/ Advance \/ LoadResult \/ Return

Irq == IrqOther \/ \E char \in Chars : IrqKey(char)

Next == Shell \/ Irq

Spec == Init /\ [][Next]_vars

\* The processor executes the shell whenever it is not halted.
FairSpec == Spec /\ WF_vars(Shell)

-----------------------------------------------------------------------------
(* Correctness *)

Labels == {"tail", "head", "test", "index", "char", "save", "next",
           "advance", "result", "ret", "hlt"}

TypeOK ==
  /\ key_buffer \in [Index -> Chars \cup {0}]
  /\ key_buf_head \in Index /\ key_buf_tail \in Index
  /\ pc \in Labels
  /\ eax \in Nat /\ edx \in Nat /\ c \in Nat /\ got \in Nat
  /\ pc = "char" => eax \in Index
  /\ pc = "advance" => eax \in Index
  /\ struck \in BOOLEAN

\* Number of unread characters, and the i-th of them.
Count == IF key_buf_tail <= key_buf_head
         THEN key_buf_head - key_buf_tail
         ELSE key_buf_head + N - key_buf_tail

Slot(i) == IF key_buf_tail + i - 1 < N
           THEN key_buf_tail + i - 1
           ELSE key_buf_tail + i - 1 - N

Unread == [i \in 1 .. Count |-> key_buffer[Slot(i)]]

\* What the pop in progress has already settled: that the buffer was empty
\* when its head was read, or the character it removed by moving the tail.
Settled ==
  IF pc = "test" /\ FoundEmpty THEN NoKey
  ELSE IF pc = "result" THEN c
  ELSE IF pc = "ret" THEN eax
  ELSE got

KQ == INSTANCE KeyQueue WITH Capacity <- N - 1, queue <- Unread, taken <- Settled

\* "safe to poll from the shell / main loop" (ps2.h:18): with the interrupt
\* striking between any two memory accesses, the ring is a bounded FIFO queue
\* that loses, duplicates, reorders and overwrites nothing.  It is not: the
\* stub changes eax.
IsQueue == KQ!Spec

\* What is left of it: whatever happened before, the steps of a pop that did not
\* lose eax, and of the interrupts that strike it elsewhere, are those of the
\* bounded FIFO queue or leave it alone, also when the ring wraps or is full.
QueueUnlessStruck ==
  /\ KQ!Init
  /\ [][~struck /\ ~struck' => [KQ!Next]_<<Unread, Settled>>]_vars

\* As long as the keyboard keeps interrupting, and from some point on misses the
\* points where a pop needs eax, every key pressed is read.
EveryKeyRead ==
  []<><<Irq>>_vars /\ <>[]~struck => (Unread # <<>> ~> pc = "result")

-----------------------------------------------------------------------------
(* The inductive invariant behind QueueUnlessStruck *)

\* The register contents on which the shell relies at each point of
\* key_buffer_pop.
RegistersOK ==
  /\ pc \in {"head", "test"} => edx = key_buf_tail
  /\ pc \in {"index", "char", "save", "next", "advance"} => Count > 0
  /\ pc = "test" /\ edx # eax => Count > 0
  /\ pc = "char" => eax = key_buf_tail
  /\ pc = "save" => eax = key_buffer[key_buf_tail]
  /\ pc \in {"next", "advance"} => c = key_buffer[key_buf_tail]
  /\ pc = "advance" => eax = Successor(key_buf_tail)

Inv == TypeOK /\ (~struck => RegistersOK)

=============================================================================

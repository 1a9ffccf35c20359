-------------------------- MODULE KeyBufferProofs ---------------------------
(***************************************************************************)
(* The ring buffer of drivers/ps2.c takes the steps of the bounded queue   *)
(* KeyQueue, for every buffer size and character set, except for a pop     *)
(* that keyboard_stub robs of eax.                                         *)
(***************************************************************************)
EXTENDS KeyBuffer, SequenceTheorems, TLAPS

\* Linear arithmetic for the ring.
LEMMA SuccessorIs ==
  ASSUME NEW i \in Index
  PROVE  /\ Successor(i) \in Index
         /\ Successor(i) = IF i + 1 = N THEN 0 ELSE i + 1
<1>1. N \in Nat /\ N > 1
  BY BufferAssumption DEF N
<1>2. i \in Nat /\ i < N
  BY <1>1 DEF Index
<1>3. CASE i + 1 = N
  BY <1>1, <1>2, <1>3 DEF Successor, Index
<1>4. CASE i + 1 < N
  BY <1>1, <1>2, <1>4 DEF Successor, Index
<1> QED
  BY <1>1, <1>2, <1>3, <1>4

\* The number of unread characters is less than the size of the ring.
LEMMA CountType ==
  ASSUME TypeOK
  PROVE  /\ N \in Nat /\ N > 1
         /\ key_buf_head \in Nat /\ key_buf_head < N
         /\ key_buf_tail \in Nat /\ key_buf_tail < N
         /\ Count \in Nat /\ Count < N
         /\ Count = 0 <=> key_buf_head = key_buf_tail
<1>1. N \in Nat /\ N > 1
  BY BufferAssumption DEF N
<1> QED
  BY <1>1 DEF TypeOK, Index, Count

\* Every unread character has a slot of the ring.
LEMMA SlotType ==
  ASSUME TypeOK, NEW i \in 1 .. Count
  PROVE  Slot(i) \in Index
  BY CountType DEF Slot, Index

\* The unread characters form a sequence.
LEMMA UnreadSeq ==
  ASSUME TypeOK
  PROVE  /\ Unread \in Seq(Chars \cup {0})
         /\ Len(Unread) = Count /\ DOMAIN Unread = 1 .. Count
         /\ \A i \in 1 .. Count : Unread[i] = key_buffer[Slot(i)]
         /\ Unread = <<>> <=> Count = 0
<1>1. Count \in Nat
  BY CountType
<1>2. \A i \in 1 .. Count : key_buffer[Slot(i)] \in Chars \cup {0}
  BY SlotType DEF TypeOK
<1>3. Unread \in Seq(Chars \cup {0}) /\ Len(Unread) = Count
  BY <1>1, <1>2 DEF Unread
<1>4. DOMAIN Unread = 1 .. Count /\ \A i \in 1 .. Count : Unread[i] = key_buffer[Slot(i)]
  BY DEF Unread
<1>5. Unread = <<>> <=> Count = 0
  BY <1>3, EmptySeq
<1> QED
  BY <1>3, <1>4, <1>5

\* key_buffer_push of a buffer that is not full appends.
LEMMA PushAppends ==
  ASSUME TypeOK, TypeOK', NEW char \in Chars, ~Full,
         key_buffer' = [key_buffer EXCEPT ![key_buf_head] = char],
         key_buf_head' = Successor(key_buf_head),
         key_buf_tail' = key_buf_tail
  PROVE  /\ Count' = Count + 1 /\ Count < N - 1
         /\ Unread' = Append(Unread, char)
<1>1. /\ N \in Nat /\ N > 1 /\ key_buf_head \in Nat /\ key_buf_head < N
      /\ key_buf_tail \in Nat /\ key_buf_tail < N
      /\ Count \in Nat /\ Count < N
  BY CountType
<1>2. /\ Successor(key_buf_head) = IF key_buf_head + 1 = N THEN 0 ELSE key_buf_head + 1
      /\ Successor(key_buf_head) # key_buf_tail
  BY SuccessorIs DEF TypeOK, Full
<1>3. Count' = Count + 1 /\ Count < N - 1
  BY <1>1, <1>2 DEF Count
<1>4. \A i \in 1 .. Count : Slot(i) \in Index /\ Slot(i) # key_buf_head
  BY <1>1 DEF Slot, Count, Index
<1>5. Slot(Count + 1) = key_buf_head
  BY <1>1, <1>3 DEF Slot, Count
<1>6. \A i \in 1 .. Count + 1 : Slot(i)' = Slot(i)
  BY DEF Slot
<1>7. /\ \A j \in Index \ {key_buf_head} : key_buffer'[j] = key_buffer[j]
      /\ key_buffer'[key_buf_head] = char
  BY DEF TypeOK
<1>8. Unread' = [i \in 1 .. Count + 1 |-> key_buffer'[Slot(i)]]
  BY <1>3, <1>6 DEF Unread
<1>9. \A i \in 1 .. Count + 1 :
        key_buffer'[Slot(i)] = IF i = Count + 1 THEN char ELSE key_buffer[Slot(i)]
  BY <1>1, <1>4, <1>5, <1>7
<1>10. /\ Unread \in Seq(Chars \cup {0}) /\ Len(Unread) = Count
       /\ \A i \in 1 .. Count : Unread[i] = key_buffer[Slot(i)]
  BY UnreadSeq
<1> DEFINE S == Chars \cup {0}
<1>11. /\ Append(Unread, char) \in Seq(S) /\ Len(Append(Unread, char)) = Count + 1
       /\ \A i \in 1 .. Count : Append(Unread, char)[i] = Unread[i]
       /\ Append(Unread, char)[Count + 1] = char
  BY <1>10, AppendProperties
<1>12. \A i \in 1 .. Count + 1 : key_buffer'[Slot(i)] \in S
  <2>1. \A i \in 1 .. Count + 1 : Slot(i) \in Index
    BY <1>1, <1>4, <1>5 DEF TypeOK
  <2>2. \A j \in Index : key_buffer'[j] \in S
    BY DEF TypeOK
  <2> QED
    BY <2>1, <2>2
<1>13. Unread' \in Seq(S) /\ Len(Unread') = Count + 1
  <2>1. Count + 1 \in Nat
    BY <1>1
  <2> QED
    BY <1>8, <1>12, <2>1
<1>14. \A i \in 1 .. Count + 1 : Unread'[i] = Append(Unread, char)[i]
  BY <1>1, <1>8, <1>9, <1>10, <1>11
<1>15. Unread' = Append(Unread, char)
  BY <1>11, <1>13, <1>14, SeqEqual
<1> QED
  BY <1>3, <1>15

\* Moving the tail removes the oldest character.
LEMMA AdvanceTakes ==
  ASSUME TypeOK, TypeOK', Count > 0,
         key_buffer' = key_buffer, key_buf_head' = key_buf_head,
         key_buf_tail' = Successor(key_buf_tail)
  PROVE  /\ Unread # <<>> /\ Head(Unread) = key_buffer[key_buf_tail]
         /\ Unread' = Tail(Unread)
<1>1. /\ N \in Nat /\ N > 1 /\ key_buf_head \in Nat /\ key_buf_head < N
      /\ key_buf_tail \in Nat /\ key_buf_tail < N
      /\ Count \in Nat /\ Count < N
  BY CountType
<1>2. Successor(key_buf_tail) = IF key_buf_tail + 1 = N THEN 0 ELSE key_buf_tail + 1
  BY SuccessorIs DEF TypeOK
<1>3. Count' = Count - 1
  BY <1>1, <1>2 DEF Count
<1>4. \A i \in 1 .. Count - 1 : Slot(i)' = Slot(i + 1)
  BY <1>1, <1>2 DEF Slot
<1>5. Slot(1) = key_buf_tail
  BY <1>1 DEF Slot
<1>6. /\ Unread \in Seq(Chars \cup {0}) /\ Len(Unread) = Count
      /\ \A i \in 1 .. Count : Unread[i] = key_buffer[Slot(i)]
      /\ Unread # <<>>
  BY <1>1, UnreadSeq
<1>7. Head(Unread) = key_buffer[key_buf_tail]
  BY <1>1, <1>5, <1>6
<1>8. Unread' = [i \in 1 .. Count - 1 |-> key_buffer[Slot(i + 1)]]
  BY <1>3, <1>4 DEF Unread
<1> DEFINE S == Chars \cup {0}
<1>9. /\ Tail(Unread) \in Seq(S) /\ Len(Tail(Unread)) = Count - 1
      /\ \A i \in 1 .. Count - 1 : Tail(Unread)[i] = Unread[i + 1]
  BY <1>6, HeadTailProperties
<1>10. \A i \in 1 .. Count - 1 : /\ Unread[i + 1] = key_buffer[Slot(i + 1)]
                                 /\ key_buffer[Slot(i + 1)] \in S
  <2>1. \A i \in 1 .. Count - 1 : i + 1 \in 1 .. Count
    BY <1>1
  <2> QED
    BY <1>6, <2>1, SlotType DEF TypeOK
<1>11. Unread' \in Seq(S) /\ Len(Unread') = Count - 1
  BY <1>1, <1>8, <1>10
<1>12. \A i \in 1 .. Count - 1 : Unread'[i] = Tail(Unread)[i]
  BY <1>8, <1>9, <1>10
<1>13. Unread' = Tail(Unread)
  BY <1>9, <1>11, <1>12, SeqEqual
<1> QED
  BY <1>6, <1>7, <1>13

-----------------------------------------------------------------------------
\* A step that leaves the ring alone leaves the queue alone.
LEMMA RingUnchanged ==
  ASSUME UNCHANGED ring
  PROVE  Unread' = Unread /\ Count' = Count
  BY DEF ring, Unread, Count, Slot

\* The invariant holds when the shell starts.
LEMMA InitInv ==
  ASSUME Init
  PROVE  Inv
<1>1. 0 \in Index /\ 0 \in Nat
  BY BufferAssumption DEF Index, N
<1> QED
  BY <1>1 DEF Init, Inv, TypeOK, RegistersOK, Labels, NoKey, FoundEmpty

\* An interrupt that pushes a character keeps the invariant.
LEMMA PushInv ==
  ASSUME Inv, NEW char \in Chars, KeyBufferPush(char)
  PROVE  /\ key_buffer' \in [Index -> Chars \cup {0}]
         /\ key_buf_head' \in Index /\ key_buf_tail' = key_buf_tail
         /\ Count > 0 => key_buffer'[key_buf_tail] = key_buffer[key_buf_tail]
<1>1. TypeOK
  BY DEF Inv
<1>2. CASE Full
  BY <1>1, <1>2 DEF KeyBufferPush, ring, TypeOK
<1>3. CASE ~Full
  <2>1. Successor(key_buf_head) \in Index
    BY <1>1, SuccessorIs DEF TypeOK
  <2>2. Count > 0 => key_buf_tail # key_buf_head
    BY <1>1, CountType
  <2> QED
    BY <1>1, <1>3, <2>1, <2>2 DEF KeyBufferPush, TypeOK
<1> QED
  BY <1>2, <1>3

\* What keyboard_stub does to the shell: it wakes it up and takes eax from it.
LEMMA InterruptedIs ==
  ASSUME Inv, Interrupted
  PROVE  /\ edx' = edx /\ c' = c /\ got' = got /\ eax' \in Index /\ eax' \in Nat
         /\ pc' \in Labels /\ struck' \in BOOLEAN
         /\ pc' # "tail" => pc' = pc
         /\ ~struck' => ~struck /\ pc' \notin EaxLive
<1>1. EOI \in Index /\ EOI \in Nat
  BY BufferAssumption DEF Index, N
<1> QED
  BY <1>1 DEF Interrupted, Inv, TypeOK, Labels, EaxLive

\* An interrupt keeps the types, and the registers of a pop it does not rob.
LEMMA IrqKeyInv ==
  ASSUME Inv, NEW char \in Chars, IrqKey(char)
  PROVE  Inv'
<1>1. /\ key_buffer' \in [Index -> Chars \cup {0}]
      /\ key_buf_head' \in Index /\ key_buf_tail' = key_buf_tail
      /\ Count > 0 => key_buffer'[key_buf_tail] = key_buffer[key_buf_tail]
  BY PushInv DEF IrqKey
<1>2. /\ edx' = edx /\ c' = c /\ got' = got /\ eax' \in Index /\ eax' \in Nat
      /\ pc' \in Labels /\ struck' \in BOOLEAN
      /\ pc' # "tail" => pc' = pc
      /\ ~struck' => ~struck /\ pc' \notin EaxLive
  BY InterruptedIs DEF IrqKey
<1>3. TypeOK'
  BY <1>1, <1>2 DEF Inv, TypeOK
<1>4. Count > 0 => Count' > 0
  <2>1. CASE Full
    BY <2>1, RingUnchanged DEF IrqKey, KeyBufferPush
  <2>2. CASE ~Full
    <3>1. Count' = Count + 1
      BY <1>3, <2>2, PushAppends DEF IrqKey, KeyBufferPush, Inv
    <3> QED
      BY <3>1, CountType DEF Inv
  <2> QED
    BY <2>1, <2>2
<1>5. ~struck' => RegistersOK'
  BY <1>1, <1>2, <1>4 DEF Inv, RegistersOK, EaxLive
<1> QED
  BY <1>3, <1>5 DEF Inv

\* An interrupt that pushes nothing does so too.
LEMMA IrqOtherInv ==
  ASSUME Inv, IrqOther
  PROVE  Inv'
<1>1. /\ edx' = edx /\ c' = c /\ got' = got /\ eax' \in Index /\ eax' \in Nat
      /\ pc' \in Labels /\ struck' \in BOOLEAN
      /\ pc' # "tail" => pc' = pc
      /\ ~struck' => ~struck /\ pc' \notin EaxLive
  BY InterruptedIs DEF IrqOther
<1>2. /\ Count' = Count /\ key_buffer' = key_buffer /\ key_buf_head' = key_buf_head
      /\ key_buf_tail' = key_buf_tail
  BY RingUnchanged DEF IrqOther, ring
<1>3. TypeOK'
  BY <1>1, <1>2 DEF Inv, TypeOK
<1>4. ~struck' => RegistersOK'
  BY <1>1, <1>2 DEF Inv, RegistersOK, EaxLive
<1> QED
  BY <1>3, <1>4 DEF Inv

\* Every step of key_buffer_pop keeps the invariant.
LEMMA ShellInv ==
  ASSUME Inv, Shell
  PROVE  Inv'
<1>0. /\ TypeOK /\ (~struck => RegistersOK) /\ N \in Nat /\ N > 1
      /\ Count \in Nat /\ (Count = 0 <=> key_buf_head = key_buf_tail)
      /\ key_buf_head \in Nat /\ key_buf_tail \in Nat
      /\ Successor(key_buf_tail) \in Index /\ Index \subseteq Nat
      /\ Chars \subseteq Nat
  <2>1. TypeOK /\ (~struck => RegistersOK)
    BY DEF Inv
  <2>2. Successor(key_buf_tail) \in Index
    BY <2>1, SuccessorIs DEF TypeOK
  <2> QED
    BY <2>1, <2>2, CountType, BufferAssumption DEF Index
<1> USE DEF Goto
<1>1. CASE LoadTail
  <2>1. Count' = Count
    BY <1>1, RingUnchanged DEF LoadTail
  <2> QED
    BY <1>0, <1>1, <2>1 DEF LoadTail, Inv, TypeOK, RegistersOK, Labels, ring, Successor
<1>2. CASE LoadHead
  <2>1. Count' = Count
    BY <1>2, RingUnchanged DEF LoadHead
  <2> QED
    BY <1>0, <1>2, <2>1 DEF LoadHead, Inv, TypeOK, RegistersOK, Labels, ring, Successor
<1>3. CASE TestEmpty
  <2>1. Count' = Count
    BY <1>3, RingUnchanged DEF TestEmpty
  <2> QED
    BY <1>0, <1>3, <2>1 DEF TestEmpty, Inv, TypeOK, RegistersOK, Labels, ring, Successor, NoKey
<1>4. CASE TestNonempty
  <2>1. Count' = Count
    BY <1>4, RingUnchanged DEF TestNonempty
  <2> QED
    BY <1>0, <1>4, <2>1 DEF TestNonempty, FoundEmpty, Inv, TypeOK, RegistersOK, Labels,
                            ring, Successor
<1>5. CASE LoadIndex
  <2>1. Count' = Count
    BY <1>5, RingUnchanged DEF LoadIndex
  <2> QED
    BY <1>0, <1>5, <2>1 DEF LoadIndex, Inv, TypeOK, RegistersOK, Labels, ring, Successor
<1>6. CASE LoadChar
  <2>1. Count' = Count
    BY <1>6, RingUnchanged DEF LoadChar
  <2>2. key_buffer[eax] \in Nat /\ (~struck => eax = key_buf_tail)
    BY <1>0, <1>6 DEF LoadChar, RegistersOK, TypeOK
  <2> QED
    BY <1>0, <1>6, <2>1, <2>2 DEF LoadChar, Inv, TypeOK, RegistersOK, Labels, ring, Successor
<1>7. CASE SaveChar
  <2>1. Count' = Count
    BY <1>7, RingUnchanged DEF SaveChar
  <2> QED
    BY <1>0, <1>7, <2>1 DEF SaveChar, Inv, TypeOK, RegistersOK, Labels, ring, Successor
<1>8. CASE NextTail
  <2>1. Count' = Count
    BY <1>8, RingUnchanged DEF NextTail
  <2>2. Successor(key_buf_tail)' = Successor(key_buf_tail)
    BY <1>8 DEF NextTail, ring, Successor
  <2> QED
    BY <1>0, <1>8, <2>1, <2>2 DEF NextTail, Inv, TypeOK, RegistersOK, Labels, ring
<1>9. CASE Advance
  BY <1>0, <1>9 DEF Advance, Inv, TypeOK, RegistersOK, Labels
<1>10. CASE LoadResult
  BY <1>0, <1>10 DEF LoadResult, Inv, TypeOK, RegistersOK, Labels, ring
<1>11. CASE Return
  BY <1>0, <1>11 DEF Return, Inv, TypeOK, RegistersOK, Labels, ring
<1> QED
  BY <1>1, <1>2, <1>3, <1>4, <1>5, <1>6, <1>7, <1>8, <1>9, <1>10, <1>11 DEF Shell

\* Every step keeps the invariant.
LEMMA NextInv ==
  ASSUME Inv, [Next]_vars
  PROVE  Inv'
<1>1. CASE Shell
  BY <1>1, ShellInv
<1>2. ASSUME NEW char \in Chars, IrqKey(char) PROVE Inv'
  BY <1>2, IrqKeyInv
<1>3. CASE IrqOther
  BY <1>3, IrqOtherInv
<1>4. CASE UNCHANGED vars
  <2>1. Count' = Count
    BY <1>4, RingUnchanged DEF vars
  <2> QED
    BY <1>4, <2>1 DEF vars, ring, Inv, TypeOK, RegistersOK, Successor
<1> QED
  BY <1>1, <1>2, <1>3, <1>4 DEF Next, Irq

-----------------------------------------------------------------------------
(* Every step is a step of the queue or leaves it alone *)

\* An interrupt that robs no pop changes nothing a pop has settled.
LEMMA InterruptedSettled ==
  ASSUME Inv, Interrupted, ~struck'
  PROVE  Settled' = Settled
<1>1. /\ got' = got /\ c' = c /\ pc \notin EaxLive
      /\ pc' = IF pc = "hlt" THEN "tail" ELSE pc
  BY DEF Interrupted
<1> QED
  BY <1>1 DEF Settled, EaxLive

\* An interrupt is a press of the queue, or a stutter when it is full.
LEMMA IrqKeySim ==
  ASSUME Inv, NEW char \in Chars, IrqKey(char), ~struck'
  PROVE  KQ!Press(char) \/ UNCHANGED <<Unread, Settled>>
<1>1. Settled' = Settled
  BY InterruptedSettled DEF IrqKey
<1>2. CASE Full
  BY <1>1, <1>2, RingUnchanged DEF IrqKey, KeyBufferPush
<1>3. CASE ~Full
  <2>1. TypeOK /\ TypeOK'
    BY IrqKeyInv DEF Inv
  <2>2. Count < N - 1 /\ Unread' = Append(Unread, char)
    BY <1>3, <2>1, PushAppends DEF IrqKey, KeyBufferPush
  <2>3. Len(Unread) = Count
    BY <2>1, UnreadSeq
  <2> QED
    BY <1>1, <2>2, <2>3 DEF KQ!Press
<1> QED
  BY <1>2, <1>3

\* A step of the shell is a step of the queue or a stutter.
LEMMA ShellSim ==
  ASSUME Inv, Shell, ~struck
  PROVE  KQ!Take \/ KQ!FindEmpty \/ UNCHANGED <<Unread, Settled>>
<1> USE DEF Goto
<1>1. CASE Advance
  <2>1. TypeOK /\ TypeOK' /\ RegistersOK
    BY ShellInv DEF Inv
  <2>2. /\ pc = "advance" /\ pc' = "result" /\ c' = c
        /\ key_buffer' = key_buffer /\ key_buf_head' = key_buf_head
        /\ key_buf_tail' = eax
    BY <1>1 DEF Advance
  <2>3. Count > 0 /\ eax = Successor(key_buf_tail) /\ c = key_buffer[key_buf_tail]
    BY <2>1, <2>2 DEF RegistersOK
  <2>4. Unread # <<>> /\ Head(Unread) = key_buffer[key_buf_tail] /\ Unread' = Tail(Unread)
    BY <2>1, <2>2, <2>3, AdvanceTakes
  <2>5. Settled' = c
    BY <2>2 DEF Settled
  <2> QED
    BY <2>3, <2>4, <2>5 DEF KQ!Take
<1>2. CASE LoadHead
  <2>1. TypeOK /\ RegistersOK
    BY DEF Inv
  <2>2. /\ pc = "head" /\ pc' = "test" /\ eax' = key_buf_head /\ edx' = edx
        /\ got' = got /\ edx = key_buf_tail /\ Unread' = Unread
    BY <1>2, <2>1, RingUnchanged DEF LoadHead, RegistersOK
  <2>3. CASE key_buf_head = key_buf_tail
    <3>1. Unread = <<>>
      BY <2>1, <2>3, UnreadSeq, CountType
    <3>2. Settled' = NoKey
      BY <2>2, <2>3 DEF Settled, FoundEmpty
    <3> QED
      BY <2>2, <3>1, <3>2 DEF KQ!FindEmpty, KQ!NoKey, NoKey
  <2>4. CASE key_buf_head # key_buf_tail
    BY <2>2, <2>4 DEF Settled, FoundEmpty
  <2> QED
    BY <2>3, <2>4
<1>3. CASE LoadTail
  BY <1>3, RingUnchanged DEF LoadTail, Settled
<1>4. CASE TestEmpty
  BY <1>4, RingUnchanged DEF TestEmpty, Settled
<1>5. CASE TestNonempty
  BY <1>5, RingUnchanged DEF TestNonempty, Settled
<1>6. CASE LoadIndex
  BY <1>6, RingUnchanged DEF LoadIndex, Settled
<1>7. CASE LoadChar
  BY <1>7, RingUnchanged DEF LoadChar, Settled
<1>8. CASE SaveChar
  BY <1>8, RingUnchanged DEF SaveChar, Settled
<1>9. CASE NextTail
  BY <1>9, RingUnchanged DEF NextTail, Settled
<1>10. CASE LoadResult
  BY <1>10, RingUnchanged DEF LoadResult, Settled
<1>11. CASE Return
  BY <1>11, RingUnchanged DEF Return, Settled
<1> QED
  BY <1>1, <1>2, <1>3, <1>4, <1>5, <1>6, <1>7, <1>8, <1>9, <1>10, <1>11 DEF Shell

\* Every step outside a pop that lost eax is a step of the queue or a stutter.
LEMMA NextSim ==
  ASSUME Inv, [Next]_vars, ~struck, ~struck'
  PROVE  [KQ!Next]_<<Unread, Settled>>
<1>1. CASE Shell
  BY <1>1, ShellSim DEF KQ!Next
<1>2. ASSUME NEW char \in Chars, IrqKey(char)
      PROVE  [KQ!Next]_<<Unread, Settled>>
  BY <1>2, IrqKeySim DEF KQ!Next
<1>3. CASE IrqOther
  BY <1>3, RingUnchanged, InterruptedSettled DEF IrqOther
<1>4. CASE UNCHANGED vars
  BY <1>4, RingUnchanged DEF vars, Settled, FoundEmpty
<1> QED
  BY <1>1, <1>2, <1>3, <1>4 DEF Next, Irq

\* With interrupts at any point that take eax from the shell, a pop that was not
\* at a point where it needs eax, and every interrupt that leaves it alone, takes
\* a step of the bounded FIFO queue, for every size of the ring.
THEOREM BufferIsQueue == Spec => QueueUnlessStruck
<1>1. Init => KQ!Init
  <2> SUFFICES ASSUME Init PROVE KQ!Init
    OBVIOUS
  <2>1. TypeOK /\ key_buf_head = key_buf_tail
    BY InitInv DEF Inv, Init
  <2>2. Unread = <<>>
    BY <2>1, UnreadSeq, CountType
  <2>3. Settled = NoKey
    BY DEF Init, Settled
  <2> QED
    BY <2>2, <2>3 DEF KQ!Init, KQ!NoKey, NoKey
<1>2. Init => Inv
  BY InitInv
<1>3. Inv /\ [Next]_vars => Inv'
  BY NextInv
<1>4. Inv /\ [Next]_vars =>
        [~struck /\ ~struck' => [KQ!Next]_<<Unread, Settled>>]_vars
  BY NextSim
<1> QED
  BY <1>1, <1>2, <1>3, <1>4, PTL DEF Spec, QueueUnlessStruck

=============================================================================

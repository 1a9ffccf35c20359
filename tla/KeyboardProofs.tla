--------------------------- MODULE KeyboardProofs ---------------------------
(***************************************************************************)
(* Proofs about Keyboard, for every set of keys, whichever of them repeat, *)
(* and any number of bytes on the wire.                                    *)
(***************************************************************************)
EXTENDS Keyboard, TLAPS

-----------------------------------------------------------------------------
(* One byte *)

\* The decoder's memory keeps its type.
LEMMA AfterType ==
  ASSUME NEW s \in States, NEW b \in WireBytes
  PROVE  After(s, b) \in States
<1>1. s.ext \in BOOLEAN /\ s.shift \in BOOLEAN /\ s.lock \in BOOLEAN
      /\ b.prefix \in BOOLEAN /\ b.release \in BOOLEAN
  BY DEF States, WireBytes
<1>2. /\ (IF ~s.ext /\ b.code \in ShiftCodes THEN ~b.release ELSE s.shift) \in BOOLEAN
      /\ (IF ~s.ext /\ b.code = "CAPSLOCK" /\ ~b.release THEN ~s.lock ELSE s.lock) \in BOOLEAN
  BY <1>1
<1> QED
  BY <1>1, <1>2 DEF After, States

\* A byte that is decoded as meant can be sent after the others.
LEMMA LeadsAppend ==
  ASSUME NEW w \in Seq(WireBytes), NEW s, NEW t, Leads(w, s, t),
         NEW b \in WireBytes, Decoded(t, b)
  PROVE  Leads(Append(w, b), s, After(t, b))
<1> DEFINE n == Len(w)
           v == Append(w, b)
<1>1. PICK f \in [0 .. n -> States] :
        /\ f[0] = s /\ f[n] = t
        /\ \A i \in 1 .. n : /\ f[i] = After(f[i - 1], w[i])
                           /\ Decoded(f[i - 1], w[i])
  BY DEF Leads
<1>2. n \in Nat /\ Len(v) = n + 1 /\ v[n + 1] = b /\ \A i \in 1 .. n : v[i] = w[i]
  OBVIOUS
<1> HIDE DEF n, v
<1>3. t \in States
  BY <1>1, <1>2
<1> DEFINE u == After(t, b)
<1>4. u \in States
  BY <1>3, AfterType
<1> HIDE DEF u
<1> DEFINE g == [i \in 0 .. n + 1 |-> IF i = n + 1 THEN u ELSE f[i]]
<1>5. g \in [0 .. n + 1 -> States]
  BY <1>2, <1>4
<1>6. g[0] = s /\ g[n + 1] = u
  BY <1>1, <1>2
<1>7. ASSUME NEW i \in 1 .. n + 1
      PROVE  /\ g[i] = After(g[i - 1], v[i])
             /\ Decoded(g[i - 1], v[i])
  <2>1. CASE i = n + 1
    <3>1. g[i] = u /\ g[i - 1] = t /\ v[i] = b
      BY <1>1, <1>2, <2>1
    <3> QED
      BY <3>1 DEF u
  <2>2. CASE i \in 1 .. n
    <3>1. g[i] = f[i] /\ g[i - 1] = f[i - 1] /\ v[i] = w[i]
      BY <1>2, <2>2
    <3> QED
      BY <1>1, <2>2, <3>1
  <2> QED
    BY <1>2, <2>1, <2>2
<1> HIDE DEF g
<1> QED
  BY <1>2, <1>5, <1>6, <1>7 DEF Leads, v, u

\* The first byte can be read.
LEMMA LeadsTail ==
  ASSUME NEW w \in Seq(WireBytes), w # <<>>, NEW s, NEW t, Leads(w, s, t)
  PROVE  /\ Head(w) \in WireBytes
         /\ Decoded(s, Head(w))
         /\ Leads(Tail(w), After(s, Head(w)), t)
<1> DEFINE n == Len(w)
           v == Tail(w)
<1>1. PICK f \in [0 .. n -> States] :
        /\ f[0] = s /\ f[n] = t
        /\ \A i \in 1 .. n : /\ f[i] = After(f[i - 1], w[i])
                           /\ Decoded(f[i - 1], w[i])
  BY DEF Leads
<1>2. /\ n \in Nat \ {0} /\ Len(v) = n - 1 /\ w[1] = Head(w) /\ Head(w) \in WireBytes
      /\ \A i \in 1 .. n - 1 : v[i] = w[i + 1]
  OBVIOUS
<1> HIDE DEF n, v
<1>3. f[1] = After(s, Head(w)) /\ (Decoded(s, Head(w)))
  <2>1. 1 \in 1 .. n /\ 1 - 1 = 0
    BY <1>2
  <2>2. f[1] = After(f[1 - 1], w[1]) /\ (Decoded(f[1 - 1], w[1]))
    BY <1>1, <2>1
  <2> QED
    BY <1>1, <1>2, <2>1, <2>2
<1> DEFINE g == [i \in 0 .. n - 1 |-> f[i + 1]]
<1>4. g \in [0 .. n - 1 -> States]
  BY <1>2
<1>5. g[0] = f[1] /\ g[n - 1] = t
  BY <1>1, <1>2
<1>6. ASSUME NEW i \in 1 .. n - 1
      PROVE  /\ g[i] = After(g[i - 1], v[i])
             /\ Decoded(g[i - 1], v[i])
  <2>1. i + 1 \in 1 .. n /\ (i + 1) - 1 = i /\ i - 1 \in 0 .. n - 1 /\ (i - 1) + 1 = i
    BY <1>2
  <2>2. g[i] = f[i + 1] /\ g[i - 1] = f[i] /\ v[i] = w[i + 1]
    BY <1>2, <2>1
  <2>3. /\ f[i + 1] = After(f[i], w[i + 1])
        /\ Decoded(f[i], w[i + 1])
    <3>1. /\ f[i + 1] = After(f[(i + 1) - 1], w[i + 1])
          /\ Decoded(f[(i + 1) - 1], w[i + 1])
      BY <1>1, <2>1
    <3> QED
      BY <2>1, <3>1
  <2> QED
    BY <2>2, <2>3
<1> HIDE DEF g
<1>7. Leads(v, f[1], t)
  BY <1>2, <1>4, <1>5, <1>6 DEF Leads
<1> QED
  BY <1>2, <1>3, <1>7 DEF v

\* With nothing on the wire the decoder has settled.
LEMMA LeadsNowhere ==
  ASSUME NEW s, NEW t, Leads(<<>>, s, t)
  PROVE  s = t
<1>1. Len(<<>>) = 0
  OBVIOUS
<1> QED
  BY <1>1 DEF Leads

-----------------------------------------------------------------------------
(* The keyboard *)

\* What a key means is a character.
LEMMA Meanings ==
  ASSUME NEW code \in Codes, NEW shift \in BOOLEAN, NEW lock \in BOOLEAN
  PROVE  ArrowOf(code) \in Glyphs /\ CharOf(code, shift, lock) \in Glyphs
<1>1. ArrowOf(code) \in Glyphs
  BY DEF ArrowOf, Glyphs
<1>2. Plain(code) \in Glyphs /\ Shifted(code) \in Glyphs
  BY DEF Plain, Shifted, Glyphs
<1> QED
  BY <1>1, <1>2 DEF CharOf

\* Shift and caps lock type nothing of their own.
LEMMA ModifiersMute ==
  ASSUME NEW code \in ShiftCodes \cup {"CAPSLOCK"}, NEW shift, NEW lock
  PROVE  CharOf(code, shift, lock) = NoKey
<1>1. Plain(code) = NoKey /\ Shifted(code) = NoKey
  BY DEF Plain, Shifted, ShiftCodes
<1> QED
  BY <1>1 DEF CharOf

\* Whether a shift key is down.
LEMMA ShiftDownType ==
  ASSUME NEW keys
  PROVE  ShiftDown(keys) \in BOOLEAN
  BY DEF ShiftDown

\* The bytes of a key, sent to a settled decoder, lead it to shift and lock.
LEMMA BytesLead ==
  ASSUME NEW w \in Seq(WireBytes), NEW s, NEW shift \in BOOLEAN, NEW lock \in BOOLEAN,
         Leads(w, s, [ext |-> FALSE, shift |-> shift, lock |-> lock]),
         NEW k \in Keys, NEW release \in BOOLEAN, NEW meant \in Glyphs, NEW sure \in BOOLEAN,
         NEW shift2 \in BOOLEAN, NEW lock2 \in BOOLEAN,
         shift2 = IF IsShift(k) THEN ~release ELSE shift,
         lock2 = IF IsCapsLock(k) /\ ~release THEN ~lock ELSE lock,
         sure => meant = IF release THEN NoKey
                         ELSE IF k.ext THEN ArrowOf(k.code)
                         ELSE CharOf(k.code, shift2, lock2)
  PROVE  /\ w \o Bytes(k, release, meant, sure) \in Seq(WireBytes)
         /\ Leads(w \o Bytes(k, release, meant, sure), s,
                  [ext |-> FALSE, shift |-> shift2, lock |-> lock2])
<1> DEFINE t == [ext |-> FALSE, shift |-> shift, lock |-> lock]
           b == Byte(FALSE, k.code, release, meant, sure)
           p == Byte(TRUE, k.code, FALSE, NoKey, TRUE)
           u == [ext |-> FALSE, shift |-> shift2, lock |-> lock2]
<1>1. k.code \in Codes /\ k.ext \in BOOLEAN
  BY KeyAssumption
<1>2. b \in WireBytes /\ p \in WireBytes
  BY <1>1 DEF Byte, WireBytes, Glyphs
<1>3. CASE k.ext
  <2> DEFINE x == [ext |-> TRUE, shift |-> shift, lock |-> lock]
  <2>1. After(t, p) = x /\ Decoded(t, p)
    BY DEF After, Output, Byte, Decoded
  <2>2. After(x, b) = u /\ Decoded(x, b)
    <3>1. shift2 = shift /\ lock2 = lock
      BY <1>3 DEF IsShift, IsCapsLock
    <3>2. sure => meant = IF release THEN NoKey ELSE ArrowOf(k.code)
      BY <1>3
    <3> QED
      BY <3>1, <3>2 DEF After, Output, Byte, Decoded
  <2> HIDE DEF t, b, p, u, x
  <2>3. Leads(Append(w, p), s, x)
    <3>1. Leads(w, s, t)
      BY DEF t
    <3> QED
      BY <1>2, <2>1, <3>1, LeadsAppend
  <2>4. Append(w, p) \in Seq(WireBytes)
    BY <1>2
  <2>5. Leads(Append(Append(w, p), b), s, u) /\ Append(Append(w, p), b) \in Seq(WireBytes)
    <3> DEFINE v == Append(w, p)
    <3>1. v \in Seq(WireBytes) /\ Leads(v, s, x)
      BY <2>3, <2>4
    <3> HIDE DEF v
    <3>2. Leads(Append(v, b), s, u) /\ Append(v, b) \in Seq(WireBytes)
      BY <1>2, <2>2, <3>1, LeadsAppend
    <3> QED
      BY <3>2 DEF v
  <2>6. w \o <<p, b>> = Append(Append(w, p), b)
    BY <1>2
  <2>7. Bytes(k, release, meant, sure) = <<p, b>>
    BY <1>3 DEF Bytes, p, b
  <2> QED
    BY <2>5, <2>6, <2>7 DEF u
<1>4. CASE ~k.ext
  <2>1. After(t, b) = u
    BY <1>4 DEF After, Byte, IsShift, IsCapsLock
  <2>2. Decoded(t, b)
    <3> SUFFICES ASSUME sure PROVE meant = Output(t, b)
      BY DEF Byte, Decoded
    <3>1. CASE release
      BY <3>1 DEF Output, Byte
    <3>2. CASE ~release /\ k.code \in ShiftCodes \cup {"CAPSLOCK"}
      <4>1. meant = NoKey
        BY <1>4, <3>2, ModifiersMute
      <4> QED
        BY <3>2, <4>1 DEF Output, Byte
    <3>3. CASE ~release /\ k.code \notin ShiftCodes \cup {"CAPSLOCK"}
      <4>1. shift2 = shift /\ lock2 = lock /\ meant = CharOf(k.code, shift2, lock2)
        BY <1>4, <3>3 DEF IsShift, IsCapsLock
      <4> QED
        BY <3>3, <4>1 DEF Output, Byte
    <3> QED
      BY <3>1, <3>2, <3>3
  <2> HIDE DEF t, b, u
  <2>3. Leads(w, s, t)
    BY DEF t
  <2>4. Leads(Append(w, b), s, u) /\ Append(w, b) \in Seq(WireBytes)
    BY <1>2, <2>1, <2>2, <2>3, LeadsAppend
  <2>5. w \o <<b>> = Append(w, b)
    BY <1>2
  <2>6. Bytes(k, release, meant, sure) = <<b>>
    BY <1>4 DEF Bytes, b
  <2> QED
    BY <2>4, <2>5, <2>6 DEF u
<1> QED
  BY <1>1, <1>3, <1>4

\* KeyInv after a key went down or up or repeated.
LEMMA KeyStep ==
  ASSUME KeyInv, NEW k \in Keys, NEW release \in BOOLEAN, NEW meant \in Glyphs,
         NEW sure \in BOOLEAN, UNCHANGED decoder, Send(Bytes(k, release, meant, sure)),
         down' \subseteq Keys, caps' \in BOOLEAN, odd' \in BOOLEAN, freed' \in BOOLEAN,
         freed' => ShiftDown(down'),
         (ShiftDown(down') /\ ~freed') =
           (IF IsShift(k) THEN ~release ELSE ShiftDown(down) /\ ~freed),
         (caps' # odd') =
           (IF IsCapsLock(k) /\ ~release THEN ~(caps # odd) ELSE caps # odd),
         sure => meant = IF release THEN NoKey
                         ELSE IF k.ext THEN ArrowOf(k.code)
                         ELSE CharOf(k.code, ShiftDown(down') /\ ~freed', caps' # odd')
  PROVE  KeyInv'
<1>1. Leads(wire, Decoder, [ext |-> FALSE, shift |-> ShiftDown(down) /\ ~freed, lock |-> caps # odd])
  BY DEF KeyInv, Settled
<1>2. wire' = wire \o Bytes(k, release, meant, sure) /\ wire \in Seq(WireBytes)
  BY DEF Send, KeyInv
<1>3. PICK shift \in BOOLEAN, lock \in BOOLEAN, shift2 \in BOOLEAN, lock2 \in BOOLEAN :
        /\ shift = (ShiftDown(down) /\ ~freed) /\ shift2 = (ShiftDown(down') /\ ~freed')
        /\ lock = (caps # odd) /\ lock2 = (caps' # odd')
  OBVIOUS
<1>4. /\ Leads(wire, Decoder, [ext |-> FALSE, shift |-> shift, lock |-> lock])
      /\ shift2 = IF IsShift(k) THEN ~release ELSE shift
      /\ lock2 = IF IsCapsLock(k) /\ ~release THEN ~lock ELSE lock
      /\ sure => meant = IF release THEN NoKey
                         ELSE IF k.ext THEN ArrowOf(k.code)
                         ELSE CharOf(k.code, shift2, lock2)
  BY <1>1, <1>3
<1>5. /\ wire' \in Seq(WireBytes)
      /\ Leads(wire', Decoder, [ext |-> FALSE, shift |-> shift2, lock |-> lock2])
  <2>1. /\ wire \o Bytes(k, release, meant, sure) \in Seq(WireBytes)
        /\ Leads(wire \o Bytes(k, release, meant, sure), Decoder,
                 [ext |-> FALSE, shift |-> shift2, lock |-> lock2])
    BY <1>2, <1>4, BytesLead, ZenonT(60)
  <2> QED
    BY <1>2, <2>1
<1>6. Decoder' = Decoder
  BY DEF decoder, Decoder
<1>7. Settled' = [ext |-> FALSE, shift |-> shift2, lock |-> lock2]
  BY <1>3 DEF Settled, ShiftDown
<1>8. Leads(wire', Decoder', Settled')
  BY <1>5, <1>6, <1>7
<1>9. Leads(wire, Decoder, Settled)'
  BY <1>8 DEF Leads
<1>10. Decoder' \in States
  BY <1>6 DEF KeyInv
<1>11. (freed => ShiftDown(down))'
  BY DEF ShiftDown
<1> QED
  BY <1>5, <1>9, <1>10, <1>11 DEF KeyInv

\* The modifiers a key depends on are those the handler will know, if it is sure.
LEMMA SureMeans ==
  ASSUME NEW k \in Keys, NEW keys, NEW lock \in BOOLEAN, NEW lost \in BOOLEAN,
         NEW wrong \in BOOLEAN
  PROVE  /\ Meant(k, keys, lock) \in Glyphs
         /\ Sure(k, lost, wrong) \in BOOLEAN
         /\ Sure(k, lost, wrong) =>
              Meant(k, keys, lock) = IF k.ext THEN ArrowOf(k.code)
                                     ELSE CharOf(k.code, ShiftDown(keys) /\ ~lost, lock # wrong)
<1>1. k.code \in Codes /\ k.ext \in BOOLEAN /\ ShiftDown(keys) \in BOOLEAN
  BY KeyAssumption, ShiftDownType
<1>2. Meant(k, keys, lock) \in Glyphs
  BY <1>1, Meanings DEF Meant
<1>3. Sure(k, lost, wrong) \in BOOLEAN
  BY <1>1 DEF Sure
<1>4. ASSUME ~k.ext, Sure(k, lost, wrong)
      PROVE  CharOf(k.code, ShiftDown(keys), lock) =
               CharOf(k.code, ShiftDown(keys) /\ ~lost, lock # wrong)
  <2>1. lost = FALSE /\ (k.code = "LETTER" => wrong = FALSE)
    BY <1>4 DEF Sure
  <2>2. (ShiftDown(keys) /\ ~lost) = ShiftDown(keys) /\ (k.code = "LETTER" => (lock # wrong) = lock)
    BY <1>1, <2>1
  <2> QED
    BY <2>2 DEF CharOf
<1> QED
  BY <1>2, <1>3, <1>4 DEF Meant

\* A key goes down.
LEMMA PressInv ==
  ASSUME KeyInv, NEW k \in Keys, Press(k)
  PROVE  KeyInv'
<1>1. /\ down' = down \cup {k} /\ UNCHANGED decoder /\ odd' = odd
      /\ caps' = (IF IsCapsLock(k) THEN ~caps ELSE caps)
      /\ freed' = (freed /\ ~IsShift(k))
      /\ Send(Bytes(k, FALSE, Meant(k, down', caps'), Sure(k, freed', odd')))
  BY DEF Press
<1>2. /\ down' \subseteq Keys /\ caps' \in BOOLEAN /\ odd' \in BOOLEAN /\ freed' \in BOOLEAN
      /\ caps \in BOOLEAN /\ freed \in BOOLEAN
  BY <1>1 DEF KeyInv
<1>3. ShiftDown(down') = (IF IsShift(k) THEN TRUE ELSE ShiftDown(down))
  BY <1>1 DEF ShiftDown
<1>4. freed' => ShiftDown(down')
  BY <1>1, <1>3 DEF KeyInv
<1>5. /\ (ShiftDown(down') /\ ~freed') = (IF IsShift(k) THEN TRUE ELSE ShiftDown(down) /\ ~freed)
      /\ (caps' # odd') = (IF IsCapsLock(k) THEN ~(caps # odd) ELSE caps # odd)
  BY <1>1, <1>2, <1>3
<1> QED
  BY <1>1, <1>2, <1>4, <1>5, SureMeans, KeyStep

\* A key repeats.
LEMMA RepeatInv ==
  ASSUME KeyInv, NEW k \in Keys, Repeat(k)
  PROVE  KeyInv'
<1>1. /\ k \in down /\ UNCHANGED decoder /\ down' = down /\ caps' = caps
      /\ odd' = (IF IsCapsLock(k) THEN ~odd ELSE odd)
      /\ freed' = (freed /\ ~IsShift(k))
      /\ Send(Bytes(k, FALSE, Meant(k, down', caps'), Sure(k, freed', odd')))
  BY DEF Repeat
<1>2. /\ down' \subseteq Keys /\ caps' \in BOOLEAN /\ odd' \in BOOLEAN /\ freed' \in BOOLEAN
      /\ odd \in BOOLEAN /\ freed \in BOOLEAN
  BY <1>1 DEF KeyInv
<1>3. ShiftDown(down') = (IF IsShift(k) THEN TRUE ELSE ShiftDown(down))
  BY <1>1 DEF ShiftDown
<1>4. freed' => ShiftDown(down')
  BY <1>1, <1>3 DEF KeyInv
<1>5. /\ (ShiftDown(down') /\ ~freed') = (IF IsShift(k) THEN TRUE ELSE ShiftDown(down) /\ ~freed)
      /\ (caps' # odd') = (IF IsCapsLock(k) THEN ~(caps # odd) ELSE caps # odd)
  BY <1>1, <1>2, <1>3
<1> QED
  BY <1>1, <1>2, <1>4, <1>5, SureMeans, KeyStep

\* A key goes up.
LEMMA ReleaseInv ==
  ASSUME KeyInv, NEW k \in Keys, Release(k)
  PROVE  KeyInv'
<1>1. /\ k \in down /\ down' = down \ {k} /\ UNCHANGED decoder /\ caps' = caps /\ odd' = odd
      /\ freed' = (IF IsShift(k) THEN ShiftDown(down') ELSE freed)
      /\ Send(Bytes(k, TRUE, NoKey, TRUE))
  BY DEF Release
<1>2. /\ down' \subseteq Keys /\ caps' \in BOOLEAN /\ odd' \in BOOLEAN /\ freed' \in BOOLEAN
      /\ freed \in BOOLEAN
  BY <1>1, ShiftDownType DEF KeyInv
<1>3. ~IsShift(k) => ShiftDown(down') = ShiftDown(down)
  BY <1>1 DEF ShiftDown
<1>4. freed' => ShiftDown(down')
  BY <1>1, <1>3 DEF KeyInv
<1>5. /\ (ShiftDown(down') /\ ~freed') = (IF IsShift(k) THEN FALSE ELSE ShiftDown(down) /\ ~freed)
      /\ (caps' # odd') = (caps # odd)
  BY <1>1, <1>2, <1>3
<1>6. NoKey \in Glyphs
  BY DEF Glyphs
<1> QED
  BY <1>1, <1>2, <1>4, <1>5, <1>6, KeyStep

\* Every way through keyboard_handler reads a byte, remembers and pushes what
\* After and Output say.
LEMMA HandlerReads ==
  ASSUME KeyInv, KeyboardHandler
  PROVE  /\ wire # <<>> /\ wire' = Tail(wire) /\ UNCHANGED <<down, caps, freed, odd>>
         /\ Decoder' = After(Decoder, Head(wire))
         /\ pushed' = Output(Decoder, Head(wire))
<1>1. wire # <<>> /\ wire' = Tail(wire) /\ UNCHANGED <<down, caps, freed, odd>>
  BY DEF KeyboardHandler, HandlePrefix, HandleExtended, HandleShift, HandleCapsLock,
         HandleRelease, HandleChar, ReadCode, Read
<1> DEFINE b == Head(wire)
<1>2. /\ extended_prefix \in BOOLEAN /\ shift_held \in BOOLEAN /\ capslock_on \in BOOLEAN
      /\ b \in WireBytes
  BY <1>1 DEF KeyInv, Decoder, States
<1>3. b.prefix \in BOOLEAN /\ b.release \in BOOLEAN /\ b.code \in Codes
  BY <1>2 DEF WireBytes
<1>4. byte = b
  BY DEF byte
<1> HIDE DEF b
<1> SUFFICES /\ Decoder' = After(Decoder, b)
             /\ pushed' = Output(Decoder, b)
  BY <1>1 DEF b
<1>5. /\ Decoder.ext = extended_prefix /\ Decoder.shift = shift_held
      /\ Decoder.lock = capslock_on
      /\ Decoder' = [ext |-> extended_prefix', shift |-> shift_held', lock |-> capslock_on']
  BY DEF Decoder
<1> HIDE DEF Decoder
<1>6. CASE HandlePrefix
  BY <1>3, <1>4, <1>5, <1>6 DEF HandlePrefix, After, Output
<1>7. CASE HandleExtended
  BY <1>2, <1>3, <1>4, <1>5, <1>7 DEF HandleExtended, ReadCode, After, Output
<1>8. CASE HandleShift
  BY <1>2, <1>3, <1>4, <1>5, <1>8 DEF HandleShift, ReadCode, After, Output, ShiftCodes
<1>9. CASE HandleCapsLock
  BY <1>2, <1>3, <1>4, <1>5, <1>9 DEF HandleCapsLock, ReadCode, After, Output, ShiftCodes
<1>10. CASE HandleRelease
  BY <1>2, <1>3, <1>4, <1>5, <1>10 DEF HandleRelease, ReadCode, After, Output
<1>11. CASE HandleChar
  BY <1>2, <1>3, <1>4, <1>5, <1>11 DEF HandleChar, ReadCode, After, Output
<1> QED
  BY <1>6, <1>7, <1>8, <1>9, <1>10, <1>11 DEF KeyboardHandler

\* The handler keeps the invariant, and pushes what was meant.
LEMMA HandlerInv ==
  ASSUME KeyInv, KeyboardHandler
  PROVE  KeyInv' /\ (Head(wire).sure => pushed' = Head(wire).meant)
<1>1. /\ wire # <<>> /\ wire' = Tail(wire) /\ UNCHANGED <<down, caps, freed, odd>>
      /\ Decoder' = After(Decoder, Head(wire))
      /\ pushed' = Output(Decoder, Head(wire))
  BY HandlerReads
<1>2. /\ wire \in Seq(WireBytes) /\ Decoder \in States
      /\ Leads(wire, Decoder, Settled)
  BY DEF KeyInv
<1>3. /\ Head(wire) \in WireBytes
      /\ Decoded(Decoder, Head(wire))
      /\ Leads(Tail(wire), After(Decoder, Head(wire)), Settled)
  BY <1>1, <1>2, LeadsTail
<1>4. Settled' = Settled
  BY <1>1 DEF Settled, ShiftDown
<1>5. Leads(wire, Decoder, Settled)'
  BY <1>1, <1>3, <1>4 DEF Leads
<1>6. Decoder' \in States
  BY <1>1, <1>2, <1>3, AfterType
<1>7. wire' \in Seq(WireBytes)
  BY <1>1, <1>2
<1>8. /\ down' \subseteq Keys /\ caps' \in BOOLEAN /\ odd' \in BOOLEAN /\ freed' \in BOOLEAN
      /\ (freed => ShiftDown(down))'
  BY <1>1 DEF KeyInv, ShiftDown
<1> QED
  BY <1>1, <1>3, <1>5, <1>6, <1>7, <1>8 DEF KeyInv, Decoded

\* Nothing is on the wire at first, and the decoder has settled.
LEMMA KeyInvInit ==
  ASSUME Init
  PROVE  KeyInv
<1>1. Decoder = [ext |-> FALSE, shift |-> FALSE, lock |-> FALSE]
  BY DEF Init, Decoder
<1>2. ShiftDown(down) = FALSE
  BY DEF Init, ShiftDown
<1>3. Settled = Decoder
  BY <1>1, <1>2 DEF Init, Settled
<1>4. Decoder \in States
  BY <1>1 DEF States
<1>5. Leads(wire, Decoder, Decoder)
  <2>1. wire = <<>> /\ Len(wire) = 0
    BY DEF Init
  <2> DEFINE f == [i \in 0 .. 0 |-> Decoder]
  <2>2. f \in [0 .. 0 -> States] /\ f[0] = Decoder
    BY <1>4
  <2> HIDE DEF f
  <2> QED
    BY <2>1, <2>2 DEF Leads
<1>6. Leads(wire, Decoder, Settled)
  BY <1>3, <1>5
<1>7. /\ down \subseteq Keys /\ caps \in BOOLEAN /\ odd \in BOOLEAN /\ freed \in BOOLEAN
      /\ (freed => ShiftDown(down)) /\ wire \in Seq(WireBytes)
  <2>1. down = {} /\ caps = FALSE /\ odd = FALSE /\ freed = FALSE /\ wire = <<>>
    BY DEF Init
  <2>2. <<>> \in Seq(WireBytes)
    OBVIOUS
  <2> QED
    BY <2>1, <2>2
<1> QED
  BY <1>4, <1>6, <1>7 DEF KeyInv

\* Every step keeps the invariant, and every character read that was sure is the
\* one meant.
LEMMA KeyInvStep ==
  ASSUME KeyInv, [Next]_vars
  PROVE  KeyInv' /\ [KeyboardHandler /\ Head(wire).sure => pushed' = Head(wire).meant]_vars
<1>1. ASSUME UNCHANGED vars PROVE KeyInv'
  <2>1. /\ Decoder' = Decoder /\ wire' = wire /\ Settled' = Settled
        /\ UNCHANGED <<down, caps, freed, odd>>
    BY <1>1 DEF vars, decoder, Decoder, Settled, ShiftDown
  <2> QED
    BY <2>1 DEF KeyInv, Leads, ShiftDown
<1>2. KeyboardHandler /\ Head(wire).sure => pushed' = Head(wire).meant
  BY HandlerInv
<1>3. KeyInv'
  BY <1>1, PressInv, RepeatInv, ReleaseInv, HandlerInv DEF Next
<1> QED
  BY <1>2, <1>3

\* However late it reads, the handler is on its way to where the keyboard's last
\* bytes leave it, on every keyboard.
THEOREM KeyboardInvariant == Spec => []KeyInv
<1>1. Init => KeyInv
  BY KeyInvInit
<1>2. KeyInv /\ [Next]_vars => KeyInv'
  BY KeyInvStep
<1> QED
  BY <1>1, <1>2, PTL DEF Spec

\* Once it has read every byte the handler's modifiers are the keyboard's, but for
\* a shift key released under another and for repetitions of caps lock
\* (ps2.c:131, 137).
THEOREM KeyboardModifiersInStep == Spec => []ModifiersInStep
<1>1. ASSUME KeyInv PROVE ModifiersInStep
  <2> SUFFICES ASSUME wire = <<>>
               PROVE  /\ shift_held # ShiftDown(down) <=> freed
                      /\ capslock_on # caps <=> odd
    BY DEF ModifiersInStep
  <2>1. Decoder = Settled
    BY <1>1, LeadsNowhere DEF KeyInv
  <2>2. /\ Decoder.shift = shift_held /\ Decoder.lock = capslock_on
        /\ Settled.shift = (ShiftDown(down) /\ ~freed) /\ Settled.lock = (caps # odd)
    BY DEF Decoder, Settled
  <2>3. /\ freed \in BOOLEAN /\ caps \in BOOLEAN /\ odd \in BOOLEAN
        /\ freed => ShiftDown(down)
    BY <1>1 DEF KeyInv
  <2>4. ShiftDown(down) \in BOOLEAN
    BY ShiftDownType
  <2>5. shift_held = (ShiftDown(down) /\ ~freed) /\ capslock_on = (caps # odd)
    BY <2>1, <2>2
  <2> QED
    BY <2>3, <2>4, <2>5
<1> QED
  BY <1>1, KeyboardInvariant, PTL

\* keyboard_handler pushes the character that was meant when its key went
\* down, however many bytes are waiting, unless the key depends on a modifier that
\* was lost in one of these two ways.
THEOREM KeyboardDecodedAsTyped == Spec => DecodedAsTyped
<1>1. KeyInv /\ [Next]_vars =>
        [KeyboardHandler /\ Head(wire).sure => pushed' = Head(wire).meant]_vars
  BY KeyInvStep
<1> QED
  BY <1>1, KeyboardInvariant, PTL DEF Spec, DecodedAsTyped

=============================================================================

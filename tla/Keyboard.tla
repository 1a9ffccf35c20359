------------------------------ MODULE Keyboard ------------------------------
(***************************************************************************)
(* keyboard_handler (drivers/ps2.c): decoding the byte stream of the PS/2  *)
(* keyboard into characters, with the prefix, shift and caps lock state    *)
(* kept from byte to byte.                                                 *)
(*                                                                         *)
(* The keyboard itself is external: keys go down and up and repeat, each   *)
(* sending its bytes to the controller, and the interrupt reads them one   *)
(* at a time, at any later moment.  Every byte on the wire also carries,   *)
(* unseen by the handler, the character its sender meant to type, and      *)
(* whether the handler is to know the modifiers by then: freed and odd say *)
(* when it does not.                                                       *)
(***************************************************************************)
EXTENDS Integers, Sequences

CONSTANTS
  Keys,        \* keys of this keyboard: records [ext, code]
  Typematic,   \* those that repeat while they are down
  WIRE_SIZE    \* bound: bytes the controller holds

VARIABLES
  extended_prefix, shift_held, capslock_on,  \* ps2.c
  pushed,       \* what the last call passed to key_buffer_push
  down, caps,   \* the keys that are down; caps lock as the user sees it
  freed,        \* history: the last shift key that moved went up under another
  odd,          \* history: caps lock has repeated an odd number of times
  wire          \* bytes sent and not yet read

decoder == <<extended_prefix, shift_held, capslock_on, pushed>>
vars == <<decoder, down, caps, freed, odd, wire>>

NoKey == "none"
Codes == {"LSHIFT", "RSHIFT", "CAPSLOCK", "ARROW_UP", "ARROW_DOWN",
          "LETTER", "DIGIT", "UNMAPPED"}
ShiftCodes == {"LSHIFT", "RSHIFT"}

ASSUME KeyAssumption ==
  /\ Keys \subseteq [ext : BOOLEAN, code : Codes]
  /\ Typematic \subseteq Keys
  /\ WIRE_SIZE \in Nat

\* scancode_to_ascii and scancode_to_ascii_shifted.
Plain(code)   == CASE code = "LETTER" -> "a" [] code = "DIGIT" -> "1" [] OTHER -> NoKey
Shifted(code) == CASE code = "LETTER" -> "A" [] code = "DIGIT" -> "!" [] OTHER -> NoKey

\* Caps lock and shift cancel out on a letter; caps lock has no effect on the
\* rest.
CharOf(code, shift, lock) ==
  LET use_upper == IF code = "LETTER" THEN shift # lock ELSE shift
  IN  IF use_upper THEN Shifted(code) ELSE Plain(code)

ArrowOf(code) ==
  CASE code = "ARROW_UP" -> "KEY_ARROW_UP" [] code = "ARROW_DOWN" -> "KEY_ARROW_DOWN"
    [] OTHER -> NoKey

-----------------------------------------------------------------------------
(* The keyboard *)

IsShift(k) == ~k.ext /\ k.code \in ShiftCodes
IsCapsLock(k) == ~k.ext /\ k.code = "CAPSLOCK"
ShiftDown(keys) == \E k \in keys : IsShift(k)

Byte(prefix, code, release, meant, sure) ==
  [prefix |-> prefix, code |-> code, release |-> release, meant |-> meant, sure |-> sure]

\* The bytes of a key: an extended key announces itself with a prefix.
Bytes(k, release, meant, sure) ==
  IF k.ext
  THEN <<Byte(TRUE, k.code, FALSE, NoKey, TRUE), Byte(FALSE, k.code, release, meant, sure)>>
  ELSE <<Byte(FALSE, k.code, release, meant, sure)>>

Meant(k, keys, lock) ==
  IF k.ext THEN ArrowOf(k.code)
  ELSE CharOf(k.code, ShiftDown(keys), lock)

\* Key k does not depend on a modifier the handler is wrong about.
Sure(k, lost, wrong) == k.ext \/ ~(lost \/ (wrong /\ k.code = "LETTER"))

Send(bytes) ==
  /\ Len(wire) + Len(bytes) <= WIRE_SIZE
  /\ wire' = wire \o bytes

Press(k) ==
  /\ k \notin down
  /\ down' = down \cup {k}
  /\ caps' = IF IsCapsLock(k) THEN ~caps ELSE caps
  /\ freed' = (freed /\ ~IsShift(k))
  /\ Send(Bytes(k, FALSE, Meant(k, down', caps'), Sure(k, freed', odd)))
  /\ UNCHANGED <<decoder, odd>>

Repeat(k) ==
  /\ k \in down \cap Typematic
  /\ freed' = (freed /\ ~IsShift(k))
  /\ odd' = IF IsCapsLock(k) THEN ~odd ELSE odd
  /\ Send(Bytes(k, FALSE, Meant(k, down, caps), Sure(k, freed', odd')))
  /\ UNCHANGED <<decoder, down, caps>>

Release(k) ==
  /\ k \in down
  /\ down' = down \ {k}
  /\ freed' = IF IsShift(k) THEN ShiftDown(down') ELSE freed
  /\ Send(Bytes(k, TRUE, NoKey, TRUE))
  /\ UNCHANGED <<decoder, caps, odd>>

-----------------------------------------------------------------------------
(* keyboard_handler, one action per way through it *)

byte == Head(wire)

Read ==
  /\ wire # <<>>
  /\ wire' = Tail(wire)
  /\ UNCHANGED <<down, caps, freed, odd>>

HandlePrefix ==
  /\ Read
  /\ byte.prefix
  /\ extended_prefix' = TRUE
  /\ pushed' = NoKey
  /\ UNCHANGED <<shift_held, capslock_on>>

\* Mutant: the prefix stays in force for the byte after the next.
ReadCodeSticky(extended) ==
  /\ Read
  /\ ~byte.prefix
  /\ extended_prefix = extended
  /\ UNCHANGED extended_prefix

\* is_extended is read and the prefix forgotten.
ReadCode(extended) ==
  /\ Read
  /\ ~byte.prefix
  /\ extended_prefix = extended
  /\ extended_prefix' = FALSE

HandleExtended ==
  /\ ReadCode(TRUE)
  /\ pushed' = IF byte.release THEN NoKey ELSE ArrowOf(byte.code)
  /\ UNCHANGED <<shift_held, capslock_on>>

HandleShift ==
  /\ ReadCode(FALSE)
  /\ byte.code \in ShiftCodes
  /\ shift_held' = ~byte.release
  /\ pushed' = NoKey
  /\ UNCHANGED capslock_on

\* Mutant: caps lock toggles on the press and on the release.
HandleCapsLockBoth ==
  /\ ReadCode(FALSE)
  /\ byte.code = "CAPSLOCK"
  /\ capslock_on' = ~capslock_on
  /\ pushed' = NoKey
  /\ UNCHANGED shift_held

HandleCapsLock ==
  /\ ReadCode(FALSE)
  /\ byte.code = "CAPSLOCK"
  /\ capslock_on' = IF byte.release THEN capslock_on ELSE ~capslock_on
  /\ pushed' = NoKey
  /\ UNCHANGED shift_held

HandleRelease ==
  /\ ReadCode(FALSE)
  /\ byte.code \notin ShiftCodes \cup {"CAPSLOCK"}
  /\ byte.release
  /\ pushed' = NoKey
  /\ UNCHANGED <<shift_held, capslock_on>>

HandleChar ==
  /\ ReadCode(FALSE)
  /\ byte.code \notin ShiftCodes \cup {"CAPSLOCK"}
  /\ ~byte.release
  /\ pushed' = CharOf(byte.code, shift_held, capslock_on)
  /\ UNCHANGED <<shift_held, capslock_on>>

KeyboardHandler ==
  \/ HandlePrefix \/ HandleExtended \/ HandleShift
  \/ HandleCapsLock \/ HandleRelease \/ HandleChar

\* ps2_init has drained the controller and no key is down.
Init ==
  /\ extended_prefix = FALSE /\ shift_held = FALSE /\ capslock_on = FALSE
  /\ pushed = NoKey
  /\ down = {} /\ caps = FALSE /\ freed = FALSE /\ odd = FALSE
  /\ wire = <<>>

Next ==
  \/ \E k \in Keys : Press(k)
  \/ \E k \in Keys : Repeat(k)
  \/ \E k \in Keys : Release(k)
  \/ KeyboardHandler

Spec == Init /\ [][Next]_vars

-----------------------------------------------------------------------------
(* Correctness *)

\* However late the interrupts read the bytes, the handler produces the
\* character that was meant when the key went down: the keys that share a
\* code with an arrow, the fake shifts in front of extended keys and the
\* order of modifier and key included.  The exceptions are the keys that
\* depend on a modifier the handler is wrong about when they go down.
DecodedAsTyped ==
  [][KeyboardHandler /\ Head(wire).sure => pushed' = Head(wire).meant]_vars

\* Once every byte has been read, the handler's modifiers are those of the
\* keyboard, with two exceptions and no other: shift_held is lost by the release
\* of one shift key while another is down, until a shift key is heard of again,
\* and capslock_on is inverted by every repetition of caps lock.
ModifiersInStep ==
  wire = <<>> =>
    /\ shift_held # ShiftDown(down) <=> freed
    /\ capslock_on # caps <=> odd

\* "shift is held for as long as the key is down" (ps2.c:131), and "caps lock
\* toggles once per press" (ps2.c:137): once every byte has been read, shift_held
\* says whether a shift key is down, and capslock_on has changed with every
\* press.  One of the two is asked for, so that a violation refutes both.
ModifiersAsCommented ==
  wire = <<>> => shift_held = ShiftDown(down) \/ capslock_on = caps

-----------------------------------------------------------------------------
(* The inductive invariant behind them *)

States == [ext : BOOLEAN, shift : BOOLEAN, lock : BOOLEAN]

\* What the decoder remembers, and what it will once the wire is empty.
Decoder == [ext |-> extended_prefix, shift |-> shift_held, lock |-> capslock_on]
Settled == [ext |-> FALSE, shift |-> ShiftDown(down) /\ ~freed, lock |-> caps # odd]

\* What it remembers after byte b, and what it pushes.
After(s, b) ==
  IF b.prefix THEN [ext |-> TRUE, shift |-> s.shift, lock |-> s.lock]
  ELSE [ext   |-> FALSE,
        shift |-> IF ~s.ext /\ b.code \in ShiftCodes THEN ~b.release ELSE s.shift,
        lock  |-> IF ~s.ext /\ b.code = "CAPSLOCK" /\ ~b.release THEN ~s.lock ELSE s.lock]

Output(s, b) ==
  IF b.prefix \/ b.release THEN NoKey
  ELSE IF s.ext THEN ArrowOf(b.code)
  ELSE IF b.code \in ShiftCodes \cup {"CAPSLOCK"} THEN NoKey
  ELSE CharOf(b.code, s.shift, s.lock)

\* Byte b is decoded as meant, if it is sure.
Decoded(s, b) == b.sure => b.meant = Output(s, b)

\* The bytes w lead the decoder from s to t, and each that is sure is decoded as
\* meant.
Leads(w, s, t) ==
  \E state \in [0 .. Len(w) -> States] :
    /\ state[0] = s
    /\ state[Len(w)] = t
    /\ \A i \in 1 .. Len(w) : /\ state[i] = After(state[i - 1], w[i])
                              /\ Decoded(state[i - 1], w[i])

Glyphs == {NoKey, "a", "A", "1", "!", "KEY_ARROW_UP", "KEY_ARROW_DOWN"}

WireBytes == [prefix : BOOLEAN, code : Codes, release : BOOLEAN, meant : Glyphs,
              sure : BOOLEAN]

\* Reading what is on the wire brings the decoder where the keyboard left it.
KeyInv ==
  /\ Decoder \in States
  /\ down \subseteq Keys
  /\ caps \in BOOLEAN /\ odd \in BOOLEAN /\ freed \in BOOLEAN
  /\ freed => ShiftDown(down)
  /\ wire \in Seq(WireBytes)
  /\ Leads(wire, Decoder, Settled)

=============================================================================

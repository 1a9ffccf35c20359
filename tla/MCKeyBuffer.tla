---------------------------- MODULE MCKeyBuffer -----------------------------
(* A ring of four slots, so that it wraps and fills, and two characters. *)
EXTENDS KeyBuffer

MCChars == {1, 2}

=============================================================================

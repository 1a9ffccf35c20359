------------------------------- MODULE MCAta --------------------------------
(* A drive of two sectors, of which the registers can name one more, and a    *)
(* wait of two polls.  The callers ask for both sectors, for the one behind   *)
(* the end and for one whose low bits name sector 0.                          *)
EXTENDS Ata

MCLbas == {0, 1}

MCRequests == {0, 1, 2, 3}

=============================================================================

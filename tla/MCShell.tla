------------------------------ MODULE MCShell -------------------------------
(* A shell on a small screen for TLC. *)
EXTENDS Shell

MCPrompt == <<NewLine, ">">>
\* No output, and a line of output that fills more than a row.
MCOutputs == {<<>>, <<"x", "x", "x", NewLine>>}

=============================================================================

--------------------------- MODULE MCInterpreter ----------------------------
(* A shell session for TLC. *)
EXTENDS Interpreter

\* The name that is too long is cut to the first characters.
MCNames == {"kernel", "shell", "README", "kernelspace"}
MCNameCopy == [n \in MCNames |-> IF n = "kernelspace" THEN "kernel" ELSE n]

MCLines ==
  { <<>>, <<SP, "pwd">>, <<"pwd">>, <<"clear">>,
    <<"ls">>, <<"ls", SP, "..">>, <<"ls", SP, "/">>,
    <<"cd">>, <<"cd", SP, "kernel">>, <<"cd", SP, "kernel", SP>>,
    <<"cat">>, <<"cat", SP, "README">>,
    <<"loop", SP>>, <<"loop", SP, "loop">>, <<"loop", SP, "halt">>,
    <<"loop", SP, "cd", SP, "kernel">>,
    <<"loop", SP, SP, "loop", SP, "cd", SP, "..">> }

\* A loop, and a loop around it.
LoopLines == { <<"loop", SP, "pwd">>, <<"loop", SP, "loop", SP, "pwd">> }

=============================================================================

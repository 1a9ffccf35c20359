---------------------------- MODULE Interpreter -----------------------------
(***************************************************************************)
(* The command interpreter (shell/interpreter.c), the commands on the      *)
(* in-RAM file system (shell/fs_commands.c), loop and halt                 *)
(* (shell/shell.c).                                                        *)
(*                                                                         *)
(* A line is a sequence of words, and of spaces where it has them.  loop   *)
(* calls the interpreter again, so the calls in progress form a stack.     *)
(* The keyboard fills its buffer meanwhile; for a loop only the number of  *)
(* unread keys counts, and the buffer is taken for the queue that it is    *)
(* while no pop loses eax (KeyBuffer!QueueUnlessStruck).                   *)
(***************************************************************************)
EXTENDS Vfs

CONSTANTS
  Lines,    \* what the user can enter
  NewNames, \* names of what is added to the tree
  KEYS      \* keys the buffer holds

SP == " "

ASSUME InterpreterAssumption ==
  KEYS \in Nat \ {0} /\ NewNames \subseteq Names /\ Lines \subseteq Seq(STRING)

VARIABLES
  nodes, vfs_cwd,
  pc,        \* where the shell is
  loops,     \* the calls of command_loop in progress, the innermost last
  keys,      \* unread keys
  stale,     \* history: those of them from before the last call of command_loop
  printed,   \* what the last command printed
  entered, ran   \* history: the line entered; the line interpreted last, and
                 \* the number of loops around it

vars == <<nodes, vfs_cwd, pc, loops, keys, stale, printed, entered, ran>>

-----------------------------------------------------------------------------
(* split_args *)

\* The command ends at the first space, where the line is cut off.
CommandOf(line) ==
  LET i == SelectInSeq(line, LAMBDA w : w = SP)
  IN  IF i = 0 THEN line ELSE SubSeq(line, 1, i - 1)

\* The argument begins behind the spaces that follow, and keeps those behind
\* it; <<>> is the null pointer.
ArgOf(line) ==
  LET rest == SubSeq(line, Len(CommandOf(line)) + 1, Len(line))
      i == SelectInSeq(rest, LAMBDA w : w # SP)
  IN  IF i = 0 THEN <<>> ELSE SubSeq(rest, i, Len(rest))

-----------------------------------------------------------------------------
(* Commands: the directory they leave and what they print *)

Arg(name) == <<name>>
Parent(node) == IF nodes[node].parent = NULL THEN node ELSE nodes[node].parent

\* The node an argument of one name stands for among the children.
Child(arg) ==
  IF Len(arg) = 1 THEN FindChild(nodes, vfs_cwd, arg[1]) ELSE NULL

CdTarget(arg) ==
  CASE arg \in {<<>>, Arg("/")} -> ROOT
    [] arg = Arg("..") -> Parent(vfs_cwd)
    [] OTHER -> Child(arg)

LsTarget(arg) ==
  CASE arg = <<>> -> vfs_cwd
    [] arg = Arg("/") -> ROOT
    [] arg = Arg("..") -> Parent(vfs_cwd)
    [] OTHER -> Child(arg)

Listing(dir) ==
  [i \in DOMAIN nodes[dir].children |-> nodes[nodes[dir].children[i]].name]

NoSuch(arg) == <<"no such">> \o arg

Shows(text) == printed' = text /\ UNCHANGED vfs_cwd

Cd(arg) ==
  IF IsDir(nodes, CdTarget(arg))
  THEN vfs_cwd' = CdTarget(arg) /\ printed' = <<>>
  ELSE Shows(NoSuch(arg))

Ls(arg) ==
  Shows(IF IsDir(nodes, LsTarget(arg)) THEN Listing(LsTarget(arg)) ELSE NoSuch(arg))

Pwd == Shows(Path(nodes, vfs_cwd))

Cat(arg) ==
  Shows(IF arg = <<>> THEN <<"usage">>
        ELSE IF IsFile(nodes, Child(arg)) THEN <<nodes[Child(arg)].content>>
        ELSE NoSuch(arg))

\* A command that only changes the directory or prints; the others of the
\* table print something too, as far as this module is concerned.
Simple(command, arg) ==
  CASE command = <<>> -> UNCHANGED <<vfs_cwd, printed>>
    [] command = <<"cd">> -> Cd(arg)
    [] command = <<"ls">> -> Ls(arg)
    [] command = <<"pwd">> -> Pwd
    [] command = <<"cat">> -> Cat(arg)
    [] command = <<"loop">> -> Shows(<<"usage">>)
    [] OTHER -> Shows(command)

-----------------------------------------------------------------------------
(* interpret_command, below a number of loops *)

\* command_halt: the processor stops with interrupts disabled.
Halt ==
  /\ pc' = "halted"
  /\ UNCHANGED <<vfs_cwd, loops, stale, printed>>

\* command_loop up to its loop.
Loop(stack, arg) ==
  /\ pc' = "drain"
  /\ loops' = Append(stack, [saved |-> arg, working |-> arg])
  /\ stale' = keys
  /\ UNCHANGED <<vfs_cwd, printed>>

Back(stack) == IF stack = <<>> THEN "prompt" ELSE "poll"

Interpret(line, stack) ==
  LET command == CommandOf(line)
      arg == ArgOf(line)
  IN  /\ CASE command = <<"halt">> -> Halt
           [] command = <<"loop">> /\ arg # <<>> -> Loop(stack, arg)
           [] OTHER -> /\ Simple(command, arg)
                       /\ pc' = Back(stack)
                       /\ loops' = stack
                       /\ UNCHANGED stale
      /\ ran' = [line |-> line, depth |-> Len(stack)]

Enter(line) ==
  /\ pc = "prompt"
  /\ Interpret(line, <<>>)
  /\ entered' = line
  /\ UNCHANGED <<nodes, keys>>

\* Keys that are not the end of a line go into it.
TypeAhead ==
  /\ pc = "prompt"
  /\ keys > 0
  /\ keys' = keys - 1
  /\ UNCHANGED <<nodes, vfs_cwd, pc, loops, stale, printed, entered, ran>>

-----------------------------------------------------------------------------
(* command_loop *)

\* The keys before the call are read first.
Older(n) == IF n > 0 THEN n - 1 ELSE 0

\* Mutant: one key is read.
DrainOne ==
  /\ pc = "drain"
  /\ pc' = "poll"
  /\ keys' = Older(keys)
  /\ stale' = Older(stale)
  /\ UNCHANGED <<nodes, vfs_cwd, loops, printed, entered, ran>>

Drain ==
  /\ pc = "drain"
  /\ IF keys > 0 THEN keys' = keys - 1 /\ stale' = Older(stale) /\ UNCHANGED pc
                 ELSE pc' = "poll" /\ UNCHANGED <<keys, stale>>
  /\ UNCHANGED <<nodes, vfs_cwd, loops, printed, entered, ran>>

\* The innermost loop takes a key and returns to its caller, the next loop or
\* the shell.
StopLoop ==
  /\ pc = "poll"
  /\ keys > 0
  /\ keys' = keys - 1
  /\ loops' = Front(loops)
  /\ pc' = Back(Front(loops))
  /\ UNCHANGED <<nodes, vfs_cwd, stale, printed, entered, ran>>

\* Mutant: the line that the interpreter cut off is used again.
WorkingAgain(loop) == loop.working

\* The line is copied anew for every iteration.
WorkingCopy(loop) == loop.saved

\* An iteration.  The interpreter cuts off the copy behind the command.
Iterate ==
  /\ pc = "poll"
  /\ keys = 0
  /\ LET line == WorkingCopy(Last(loops))
     IN  Interpret(line, [loops EXCEPT ![Len(loops)].working = CommandOf(line)])
  /\ UNCHANGED <<nodes, keys, entered>>

Shell == Drain \/ StopLoop \/ Iterate

-----------------------------------------------------------------------------
(* The keyboard, and other code of the kernel that uses vfs.h *)

Press ==
  /\ pc # "halted"
  /\ keys < KEYS
  /\ keys' = keys + 1
  /\ UNCHANGED <<nodes, vfs_cwd, pc, loops, stale, printed, entered, ran>>

Added(made) ==
  /\ pc = "prompt"
  /\ nodes' = made.tree
  /\ UNCHANGED <<vfs_cwd, pc, loops, keys, stale, printed, entered, ran>>

VfsMkdir(parent, name) == Added(Mkdir(nodes, parent, name))

VfsCreateFile(parent, name) == Added(CreateFile(nodes, parent, name, "text"))

Init ==
  /\ nodes = BootTree
  /\ vfs_cwd = ROOT
  /\ pc = "prompt"
  /\ loops = <<>>
  /\ keys = 0
  /\ stale = 0
  /\ printed = <<>>
  /\ entered = <<>>
  /\ ran = [line |-> <<>>, depth |-> 0]

Next ==
  \/ \E line \in Lines : Enter(line)
  \/ TypeAhead
  \/ Shell
  \/ Press
  \/ \E parent \in DOMAIN nodes, name \in NewNames :
       /\ IsDir(nodes, parent)
       /\ VfsMkdir(parent, name) \/ VfsCreateFile(parent, name)

Spec == Init /\ [][Next]_vars

\* The processor executes the loop; nobody has to press a key.
FairSpec == Spec /\ WF_vars(Shell)

-----------------------------------------------------------------------------
(* Correctness *)

\* The ranges of the variables; a directory never has more children than its
\* array has room for (vfs.c:48).
TypeOK ==
  /\ vfs_cwd \in DOMAIN nodes
  /\ \A n \in DOMAIN nodes :
       /\ nodes[n].parent \in 0..(n - 1)
       /\ Len(nodes[n].children) <= VFS_MAX_CHILDREN
  /\ pc \in {"prompt", "drain", "poll", "halted"}
  /\ pc = "prompt" => loops = <<>>
  /\ pc \in {"drain", "poll"} => loops # <<>>
  /\ keys \in 0..KEYS

\* cd / and then cd to each of the names.
Follow(tree, path) ==
  LET enter(node, name) == IF node = NULL THEN NULL ELSE FindChild(tree, node, name)
  IN  FoldLeft(enter, ROOT, path)

\* The prompt and pwd print a path that leads here: cd / and then cd to each
\* of its names enters the current directory again, and no other of the same
\* name, whatever is added to the tree and however full its directories are
\* (vfs_find_child and print_path_recursive).
PathLeadsHome == Follow(nodes, Path(nodes, vfs_cwd)) = vfs_cwd

\* A line without its first n words.
Rest(line, n) ==
  LET rest[i \in 0..Len(line)] == IF i = 0 THEN line ELSE ArgOf(rest[i - 1])
  IN  rest[n]

\* "interpret_command mutates its input, so re-copy from `saved` every time"
\* (shell.c:257): below n loops the interpreter gets the line that was entered
\* without its first n words, in every iteration.
RunsAsEntered == ran.line = Rest(entered, ran.depth)

\* "drain anything already buffered ... so the loop doesn't instantly stop on
\* entry" (shell.c:245): where a loop looks for a key, at whatever depth and after
\* whatever loops inside it, none is left from before it was called, so that a
\* loop is stopped by a key pressed while it ran.
FreshKeysStop == pc = "poll" => stale = 0

\* "until any key is pressed" (shell.c:228), "press any key to stop"
\* (shell.c:243): a key that a loop finds ends the loops, and so the command that
\* was entered.
AnyKeyStops ==
  pc = "poll" /\ keys > 0 ~> loops = <<>> \/ pc = "halted"

-----------------------------------------------------------------------------
(* The inductive invariants behind them *)

\* Each loop has its own words in `saved`, and there are fewer loops than words.
LoopsOK ==
  /\ loops \in Seq([saved : Seq(STRING), working : Seq(STRING)])
  /\ \A i \in DOMAIN loops :
       /\ loops[i].saved = Rest(entered, i) /\ loops[i].saved # <<>>
       /\ i + Len(loops[i].saved) <= Len(entered)

SessionInv ==
  /\ TypeOK /\ TreeOK(nodes)
  /\ \E among \in SUBSET DOMAIN nodes : vfs_cwd \in among /\ Reached(nodes, among)
  /\ entered \in Seq(STRING) /\ LoopsOK
  /\ ran.depth \in 0..Len(entered) /\ RunsAsEntered

\* Keys from before the call are left only while it drains them.
StaleOK == stale \in 0..keys /\ (pc # "drain" => stale = 0)

=============================================================================

------------------------------- MODULE MCDisk -------------------------------
(* A small drive for TLC, put to one of two uses: a client that calls the      *)
(* file system in any order, or the shell with its commands.                   *)
EXTENDS DiskCommands

CONSTANTS
  CLIENT_FORMATS, CLIENT_FAILURES,  \* bounds: FORMATS and FAT_FAILURES for the client
  ClientNames                       \* bound: what the client makes

VARIABLE use

\* Two directories of the tree of command_install, one with its placeholder and
\* one with an empty file.
MCTree ==
  << [dir |-> "APPS", file |-> "none"], [dir |-> "APPS", file |-> "EMPTY"],
     [dir |-> "KERNEL", file |-> "none"], [dir |-> "KERNEL", file |-> "KERNEL.ELF"] >>

\* A file of two clusters that ends inside the second, one of a part of a cluster
\* and an empty one.
MCSizeOf == [f \in Files |-> CASE f = "KERNEL.ELF" -> 1 [] f = "LONG" -> 3 [] OTHER -> 0]

\* No table, one with a partition of another kind, and one with two, the first of
\* them for FAT16.
MCTables ==
  LET types(first, second) == [i \in 0..3 |-> CASE i = 0 -> first [] i = 1 -> second [] OTHER -> NONE]
  IN  { [valid |-> FALSE, types |-> types(OTHER_TYPE, NONE)],
        [valid |-> TRUE, types |-> types(OTHER_TYPE, NONE)],
        [valid |-> TRUE, types |-> types(FAT16_TYPE, OTHER_TYPE)] }

MCInit ==
  /\ use \in {"client", "shell"}
  /\ DiskInit
  /\ mbr \in MCTables
  /\ use = "client" => mbr.valid /\ mbr.types[0] = OTHER_TYPE

MCNext ==
  /\ \/ /\ use = "client"
        /\ Next
        /\ formats' <= CLIENT_FORMATS /\ fat_failures' <= CLIENT_FAILURES
        /\ call'.name \in ClientNames \cup {"none"}
        /\ UNCHANGED commands
     \/ use = "shell" /\ DiskNext
  /\ UNCHANGED use

MCSpec == MCInit /\ [][MCNext]_<<allvars, use>>

=============================================================================

------------------------------ MODULE MCMemory ------------------------------
(* Small machines for TLC: pages of 16 bytes, headers of 8, words of 8 bits. *)
(* A machine is put to one of two uses: clients of kmalloc and kfree that    *)
(* call them in any order, or the kernel with its commands.                  *)
EXTENDS Programs

VARIABLE use

Entry(base, len, type) == [base_addr |-> base, length |-> len, type |-> type]

\* One region; two regions with a reserved hole between them; a region that
\* a second entry overlaps; a region that starts and ends inside a page and one
\* that reaches past the managed memory; a region so high that the number of its
\* first page is cut, to 6; a machine with no memory map, hence no free page.
ClientMaps ==
  { <<Entry(0, 48, 1)>>,
    <<Entry(0, 64, 1), Entry(64, 16, 2), Entry(80, 16, 1)>>,
    <<Entry(16, 48, 1), Entry(32, 48, 1)>>,
    <<Entry(40, 36, 1), Entry(118, 40, 1)>>,
    <<Entry(16, 32, 1), Entry(16 * (256 + 6), 32, 1)>>,
    <<>> }

\* Memory with a hole in it that takes the nodes of the VFS and a file, and
\* memory that is full with the first node.
CommandMaps ==
  { <<Entry(0, 80, 1), Entry(96, 16, 1)>>,
    <<Entry(0, 32, 1)>>,
    <<>> }

MCMaps == ClientMaps \cup CommandMaps

\* 250 asks for more than there is, and its page count wraps to one page; 254
\* is wrapped to 0 by align_up.
MCRequests == {1, 20, 250, 254}

Segment(type, offset, filesz, memsz, vaddr) ==
  [type |-> type, offset |-> offset, filesz |-> filesz, memsz |-> memsz, vaddr |-> vaddr]

\* Segments that overlap, one that is not to be loaded, ones that end with the
\* image or one byte behind it, one whose end wraps around, one that has less
\* memory than contents, and one whose addresses wrap around.
MCSegments ==
  { Segment(PT_LOAD, 0, 3, 3, 0), Segment(PT_LOAD, 7, 1, 3, 2),
    Segment(4, 200, 9, 9, 1),
    Segment(PT_LOAD, 11, 1, 1, 4), Segment(PT_LOAD, 11, 2, 2, 4),
    Segment(PT_LOAD, 12, 0, 2, 3),
    Segment(PT_LOAD, 250, 8, 8, 1), Segment(PT_LOAD, 0, 3, 2, 1),
    Segment(PT_LOAD, 0, 3, 5, 254) }

Image(size, stored, good, phoff, phentsize, segments) ==
  [size |-> size, stored |-> stored, good |-> good, phoff |-> phoff,
   phentsize |-> phentsize, segments |-> segments]

First == <<Segment(PT_LOAD, 0, 3, 3, 0)>>

\* Tables of any two of the segments; headers that are cut short or unexpected,
\* tables that end with the image or behind it, entries of no length; chains
\* that end early; and the sizes align_up wraps, with little and much behind.
MCImages ==
  { Image(12, 16, TRUE, 3, 2, s) : s \in BoundedSeq(MCSegments, 2) }
    \cup { Image(size, 16, good, 3, 2, First) : size \in {0, 2, 3, 4, 8}, good \in BOOLEAN }
    \cup { Image(8, 16, TRUE, 250, 2, First), Image(8, 16, TRUE, 3, 6, First),
           Image(8, 16, TRUE, 8, 0, First \o First) }
    \cup { Image(8, stored, TRUE, 3, 2, First) : stored \in {0, 4} }
    \cup { Image(size, stored, TRUE, 3, 2, First) : size \in 251 .. 255, stored \in {0, 16, 32} }

MCAddresses == 0..5

-----------------------------------------------------------------------------
MemoryInit ==
  /\ ProgramsInit
  /\ \/ use = "clients" /\ mmap \in ClientMaps
     \/ use = "commands" /\ mmap \in CommandMaps

MemoryNext ==
  /\ \/ /\ use = "clients"
        /\ Next
        /\ kept' = DOMAIN live'
        /\ UNCHANGED <<job, memory, nodes, halted>>
     \/ use = "commands" /\ ProgramsNext
  /\ UNCHANGED use

MemorySpec == MemoryInit /\ [][MemoryNext]_<<allvars, use>>

=============================================================================

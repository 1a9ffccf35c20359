-------------------------------- MODULE Elf ---------------------------------
(***************************************************************************)
(* The ELF32 loader (elf/elf32.c), as a function of the image and the      *)
(* memory.  An image is its size, whether the identification, type and     *)
(* machine are the expected ones, where its table of program headers is,   *)
(* how far apart the headers are, and what is found there: the headers of  *)
(* a table whose entries are shorter than a header overlap, and the last   *)
(* ones may lie behind the image.  Byte k of an image is the number k + 1. *)
(***************************************************************************)
EXTENDS Integers, Sequences, SequencesExt

CONSTANTS
  EHDR,           \* size of the ELF header
  SPAN            \* 2^32: addresses, sizes and offsets are below it

PT_LOAD == 1

\* A program header; its fields are unsigned.
Phdr == [type : Nat, offset : Nat, filesz : Nat, memsz : Nat, vaddr : Nat]

\* What lies behind the image.
Beyond == -1

Byte(image, k) == IF k < image.size THEN k + 1 ELSE Beyond

\* What elf32_load checks before it looks at a segment.
HeaderFits(image) ==
  /\ image.size >= EHDR
  /\ image.good
  /\ image.segments # <<>>
  /\ image.phoff <= image.size
  /\ image.phentsize * Len(image.segments) <= image.size - image.phoff

\* Mutant: the end of the segment is computed first, and wraps around.
SegmentFitsWrapped(image, ph) ==
  /\ (ph.offset + ph.filesz) % SPAN <= image.size
  /\ ph.filesz <= ph.memsz

SegmentFits(image, ph) ==
  /\ ph.offset <= image.size
  /\ ph.filesz <= image.size - ph.offset
  /\ ph.filesz <= ph.memsz

\* How far address a is behind the start of a segment; addresses wrap around.
Into(ph, a) == (a - ph.vaddr) % SPAN

\* The addresses a segment covers.
Covers(ph, a) == ph.type = PT_LOAD /\ Into(ph, a) < ph.memsz

\* The copy of a segment followed by zeros, in memory mem.
Copied(image, ph, mem) ==
  [a \in DOMAIN mem |->
     IF ~Covers(ph, a) THEN mem[a]
     ELSE IF Into(ph, a) < ph.filesz THEN Byte(image, ph.offset + Into(ph, a))
     ELSE 0]

\* One turn of the loop over the program headers.
LoadSegment(image, s, ph) ==
  IF ~s.ok \/ ph.type # PT_LOAD THEN s
  ELSE IF SegmentFits(image, ph) THEN [ok |-> TRUE, mem |-> Copied(image, ph, s.mem)]
  ELSE [ok |-> FALSE, mem |-> s.mem]

\* elf32_load.  The segments before one that is refused stay in memory.
Load(image, mem) ==
  LET after[n \in 0 .. Len(image.segments)] ==
        IF n = 0 THEN [ok |-> TRUE, mem |-> mem]
        ELSE LoadSegment(image, after[n - 1], image.segments[n])
  IN  IF HeaderFits(image) THEN after[Len(image.segments)] ELSE [ok |-> FALSE, mem |-> mem]

\* What a program expects to find at address a, and whether the image has it:
\* the last segment there says so, and its part that is not in the file is
\* zero.
Expected(image, a, before) ==
  LET i == SelectLastInSeq(image.segments, LAMBDA ph : Covers(ph, a))
  IN  IF i = 0 THEN before
      ELSE LET ph == image.segments[i]
               k == Into(ph, a)
           IN  IF k >= ph.filesz THEN 0 ELSE ph.offset + k + 1

=============================================================================

------------------------------ MODULE Programs ------------------------------
(***************************************************************************)
(* The commands that use the kernel heap: catdisk and runelf               *)
(* (shell/sysinfo_commands.c), which read a file of the FAT16 volume into  *)
(* a buffer, and the system calls of req-syscallop (syscalls/syscall.c).   *)
(* The shell runs one command at a time; its calls of kmalloc and kfree    *)
(* are those of Heap, its call of elf32_load is that of Elf.               *)
(***************************************************************************)
EXTENDS Heap, Elf

CONSTANTS
  Images,                  \* the files of the volume
  SYSCALL_TEST_ALLOC_SIZE,
  VFS_NODE_SIZE,           \* sizeof(vfs_node_t)
  VFS_BOOT_NODES,          \* nodes vfs_init makes
  Addresses                \* where programs are linked to

\* The size of a file is a field of its directory entry that nothing checks, and
\* stored is how many bytes its chain of clusters has.
ASSUME ProgramsAssumption ==
  /\ SPAN = WORD
  /\ Addresses \subseteq 0 .. SPAN - 1
  /\ SYSCALL_TEST_ALLOC_SIZE \in Sizes
  /\ VFS_NODE_SIZE \in Sizes
  /\ VFS_BOOT_NODES \in Nat
  /\ Images \subseteq [size : 0 .. WORD - 1, stored : Nat, good : BOOLEAN, phoff : Nat,
                       phentsize : Nat, segments : Seq(Phdr)]

VARIABLES
  job,      \* the command in progress and its locals
  memory,   \* memory at Addresses, forgotten between commands
  kept,     \* history: what sys_request_ram and the VFS were given
  nodes,    \* how far vfs_init is
  halted    \* the processor has stopped

programVars == <<job, memory, kept, nodes, halted>>
allvars == <<vars, programVars>>

\* What memory held before the command.
Before == -2
Untouched == [a \in Addresses |-> Before]

Prompt == [pc |-> "prompt"]
AtPrompt == up /\ nodes = VFS_BOOT_NODES /\ job = Prompt /\ ~halted

\* The command is over.
Done == job' = Prompt /\ memory' = Untouched /\ UNCHANGED <<kept, nodes, halted>>

-----------------------------------------------------------------------------
(* kmalloc, and the pointer it returns *)

Kmalloc(req) ==
  \/ req = 0 /\ UNCHANGED vars
  \/ /\ req # 0
     /\ \/ KmallocFit(req) \/ KmallocGrow(req)
        \/ KmallocTooShort(req) \/ KmallocNoMemory(req)

Returned ==
  IF DOMAIN live' = DOMAIN live THEN Null
  ELSE CHOOSE p \in DOMAIN live' : p \notin DOMAIN live

\* vfs_alloc_node keeps what it gets, and goes on without when there is none.
VfsAllocNode ==
  /\ up
  /\ nodes < VFS_BOOT_NODES
  /\ nodes' = nodes + 1
  /\ Kmalloc(VFS_NODE_SIZE)
  /\ kept' = kept \cup ({Returned} \ {Null})
  /\ UNCHANGED <<job, memory, halted>>

-----------------------------------------------------------------------------
(* syscall_dispatch *)

\* sys_request_ram keeps what it gets.
RequestRam ==
  /\ AtPrompt
  /\ Kmalloc(SYSCALL_TEST_ALLOC_SIZE)
  /\ kept' = kept \cup ({Returned} \ {Null})
  /\ UNCHANGED <<job, memory, nodes, halted>>

\* The processor stops, in sys_panic or in isr_exception_handler.
Stop == halted' = TRUE /\ UNCHANGED <<vars, job, memory, kept, nodes>>

SysPanic == AtPrompt /\ Stop

\* sys_test_divzero raises an exception, whose handler does not return.
SysTestDivzero == AtPrompt /\ Stop

-----------------------------------------------------------------------------
(* catdisk and runelf *)

\* Mutant: no room for the end of the text.
BufferSizeShort(command, file) == file.size

\* catdisk puts a 0 behind the contents; the largest size wraps to 0.
BufferSize(command, file) ==
  IF command = "catdisk" THEN (file.size + 1) % WORD ELSE file.size

\* The volume is mounted and the file found, and it is not empty; otherwise
\* the command is over before it began.
Open(command, file) ==
  /\ AtPrompt
  /\ file.size > 0
  /\ Kmalloc(BufferSize(command, file))
  /\ job' = IF Returned = Null THEN Prompt
            ELSE [pc |-> "read", command |-> command, file |-> file, ptr |-> Returned,
                  written |-> 0]
  /\ UNCHANGED <<memory, kept, nodes, halted>>

CommandCatdisk(file) == Open("catdisk", file)

CommandRunelf(file) == Open("runelf", file)

\* The bytes of the block the command was given.
Room == hdr[job.ptr - HDR].size

\* fat16_read_file fills the buffer up to the size it is told, the file's, or up
\* to the end of the chain.
ReadLength(file) == Smaller(file.size, file.stored)

\* What the buffer holds then: behind the end of a chain that is too short it is
\* whatever the heap held, hence any image of that size.
Found(file) == IF file.stored >= file.size THEN {file} ELSE {f \in Images : f.size = file.size}

Read ==
  /\ job.pc = "read"
  /\ ReadLength(job.file) <= Room
  /\ \E seen \in Found(job.file) :
       job' = [job EXCEPT !.pc = IF job.command = "catdisk" THEN "show" ELSE "load",
                          !.file = seen,
                          !.written = ReadLength(job.file)]
  /\ UNCHANGED <<vars, memory, kept, nodes, halted>>

\* The block has not the room that was asked for, and the contents run over
\* the blocks behind it.  What the kernel does after that is not modelled.
ReadOverruns ==
  /\ job.pc = "read"
  /\ ReadLength(job.file) > Room
  /\ job' = [job EXCEPT !.pc = "wild", !.written = ReadLength(job.file)]
  /\ UNCHANGED <<vars, memory, kept, nodes, halted>>

\* Mutant: the buffer is kept when the file cannot be read.
ReadFailsKeeping ==
  /\ job.pc = "read"
  /\ Done
  /\ UNCHANGED vars

\* A sector cannot be read, the first or a later one of those that fit.
ReadFails ==
  /\ job.pc = "read"
  /\ Kfree(job.ptr)
  /\ Done

\* catdisk ends the text behind the contents and prints it.
Show ==
  /\ job.pc = "show"
  /\ job.file.size < Room
  /\ job' = [job EXCEPT !.pc = "free", !.written = job.file.size + 1]
  /\ UNCHANGED <<vars, memory, kept, nodes, halted>>

\* That end is not in the block; far behind it is in front of it, as addresses
\* wrap around.
ShowOverruns ==
  /\ job.pc = "show"
  /\ job.file.size >= Room
  /\ job' = [job EXCEPT !.pc = "wild", !.written = job.file.size + 1]
  /\ UNCHANGED <<vars, memory, kept, nodes, halted>>

LoadElf ==
  /\ job.pc = "load"
  /\ Load(job.file, memory).ok
  /\ memory' = Load(job.file, memory).mem
  /\ job' = [job EXCEPT !.pc = "run"]
  /\ UNCHANGED <<vars, kept, nodes, halted>>

LoadElfFails ==
  /\ job.pc = "load"
  /\ ~Load(job.file, memory).ok
  /\ Kfree(job.ptr)
  /\ Done

\* The program, which is trusted, returns.
RunElf ==
  /\ job.pc = "run"
  /\ job' = [job EXCEPT !.pc = "free"]
  /\ UNCHANGED <<vars, memory, kept, nodes, halted>>

Free ==
  /\ job.pc = "free"
  /\ Kfree(job.ptr)
  /\ Done

-----------------------------------------------------------------------------
ProgramsInit ==
  /\ Init
  /\ job = Prompt
  /\ memory = Untouched
  /\ kept = {}
  /\ nodes = 0
  /\ halted = FALSE

Boot == (HeapInit \/ HeapInitNoMemory) /\ UNCHANGED programVars

ProgramsNext ==
  \/ Boot \/ VfsAllocNode
  \/ RequestRam \/ SysPanic \/ SysTestDivzero
  \/ \E file \in Images : CommandCatdisk(file) \/ CommandRunelf(file)
  \/ Read \/ ReadOverruns \/ ReadFails \/ Show \/ ShowOverruns
  \/ LoadElf \/ LoadElfFails \/ RunElf
  \/ Free

ProgramsSpec == ProgramsInit /\ [][ProgramsNext]_allvars

-----------------------------------------------------------------------------
(* Correctness *)

\* Back at the prompt, nothing is allocated but what sys_request_ram and the
\* nodes of the VFS keep: every way out of catdisk and runelf gives the buffer
\* back, and no other.
NothingLeaks == job = Prompt => DOMAIN live = kept

\* A size that align_up rounds up to 0: kmalloc gives a block that need not have
\* a single byte.
Wraps(size) == size > WORD - ALIGNMENT

\* What a command writes to its buffer stays in the block kmalloc gave it, clear
\* of the header behind, also when the size of the file is a multiple of
\* ALIGNMENT and the block has no byte to spare, and when the chain is shorter
\* or longer than the size says.  The sizes that align_up wraps are the only
\* exception: catdisk and runelf pass the size of the directory entry on
\* unchecked (fat16.c:489).
WritesInBuffer ==
  job # Prompt =>
    /\ job.ptr \in DOMAIN live
    /\ job.ptr + job.written > End(hdr, job.ptr - HDR) =>
         job.pc = "wild" /\ Wraps(BufferSize(job.command, job.file))

\* A program that elf32_load accepts finds its segments in memory when it is
\* started, in the order of the headers where they overlap, with zeros where
\* the file has nothing; every byte came from the image, and memory that no
\* segment covers is as it was.
LoadedRight ==
  job.pc = "run" =>
    \A a \in Addresses :
      /\ memory[a] = Expected(job.file, a, Before)
      /\ memory[a] \in {Before} \cup 0..job.file.size

-----------------------------------------------------------------------------
(* The inductive invariant behind these *)

\* The block of a command is large enough for what the command still writes,
\* unless align_up wrapped.
JobOK ==
  job # Prompt =>
    /\ job \in [pc : {"read", "show", "load", "run", "free", "wild"},
                command : {"catdisk", "runelf"}, file : Images, ptr : Nat, written : Nat]
    /\ up /\ nodes = VFS_BOOT_NODES
    /\ job.ptr \in DOMAIN live \ kept
    /\ live[job.ptr] = BufferSize(job.command, job.file)
    /\ job.file.size > 0
    /\ job.pc = "show" => job.command = "catdisk"
    /\ job.pc # "wild" => job.written <= hdr[job.ptr - HDR].size
    /\ job.pc = "wild" => Wraps(live[job.ptr])

MemoryOK ==
  /\ job.pc \in {"prompt", "read", "load"} => memory = Untouched
  /\ job.pc = "run" => Load(job.file, Untouched).ok /\ memory = Load(job.file, Untouched).mem

ProgramsInv ==
  /\ HeapInv
  /\ DOMAIN live = kept \cup (IF job = Prompt THEN {} ELSE {job.ptr})
  /\ JobOK
  /\ MemoryOK

=============================================================================

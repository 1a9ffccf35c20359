# A TLA+ verification of the alder kernel

The repository (`src/`) is a 32-bit hobby kernel in C and assembly: it boots
through GRUB, takes over memory, the keyboard and an ATA drive, and runs a
shell.  One processor, no preemption, no processes: the only concurrency is
between interrupt handlers and the code they interrupt.  What is hard about it
is elsewhere: a heap whose list discipline depends on how another component
hands out pages, a ring buffer shared with an interrupt, a byte protocol with
state, a drive that is polled and may answer after the driver has given up, a
file system whose calls can be cut short after every sector, a line editor that
must keep a buffer, a history and a screen in step, and a bring-up during which
keys already arrive.

This directory holds TLA+ models of those parts, the TLC configurations that
check them and TLAPS proofs about all of them: every invariant that a run checks
is also a theorem, for every value of the constants that satisfies the stated
assumptions.
`PROJECT.json` lists the components, runs, mutants, findings, hazards and
theorems, and maps every definition to the lines it models.

## 1. Inventory

| Component | Source | State | Operations | Used by / uses |
|---|---|---|---|---|
| Physical memory manager | `kernel/mm/pmm.c` | page bitmap, free counter | `pmm_init`, `pmm_alloc_page`, `pmm_free_page` | called by the heap |
| Kernel heap | `kernel/mm/heap.c` | block list in memory, `used_bytes`, `free_bytes` | `heap_init`, `kmalloc`, `kfree` | called by commands, system calls; calls the PMM |
| Keyboard ring buffer | `kernel/drivers/ps2.c`, `idt_asm.asm` | `key_buffer`, head, tail | push (IRQ1), pop (shell) | shared by interrupt and shell |
| Scancode decoder | `kernel/drivers/ps2.c` | prefix, shift, caps lock | `keyboard_handler` | fed by the controller, feeds the ring |
| FAT16 volume | `kernel/fs/fat16.c` | mounted geometry; boot sector, FATs, directories, data on disk | format, mount, mkdir, create, list, find, read | called by disk commands; calls the ATA driver |
| Partition table | `kernel/fs/mbr.c` | sector 0 | read, find, write a partition | called by disk commands |
| Disk commands | `kernel/shell/sysinfo_commands.c` | none of their own | `mkpart`, `mkfs`, `install`, `lsdisk`, `catdisk`, `runelf` | compose MBR, FAT16, heap, ELF |
| ATA driver | `kernel/drivers/ata.c` | sector count; registers and state of the drive | identify, read and write a sector, polling with timeouts | called by FAT16 and MBR |
| Text screen | `kernel/print.c` | cells, cursor | print, scroll, clear | called by everything |
| Line editor and history | `kernel/shell/shell.c` | line, history ring, browse index, saved line | one branch per key | pops keys, prints, runs commands |
| Virtual file system | `kernel/fs/vfs.c` | tree of nodes, current directory | make a node, look up, change directory, print the path | built at boot, used by `ls`, `cd`, `pwd`, `cat` |
| ELF loader | `kernel/elf/elf32.c` | memory of the loaded program | validate, load, call | called by `runelf` |
| Interpreter, utilities | `kernel/shell/interpreter.c`, `util.c` | none; `loop` has a copy of its line on the stack | split and dispatch, `loop`, `halt` | called by the shell and by `loop`, hence by itself |
| Interrupt table and controller | `kernel/idt/`, `kernel/interrupts/pic.c` | gates; vectors and mask of the controller | written once at boot | used by every interrupt |
| Paging | `kernel/mm/paging.c` | directory and tables | written once at boot | must cover what the PMM hands out |
| System calls | `kernel/syscalls/syscall.c` | none | dispatch, one allocates, two stop the machine | called by `req-syscallop` |
| Boot | `boot.asm`, `kernel/main.c`, `kernel/initramfs.c` | - | the order of all of the above | - |

Where it is hard, and what makes each part correct:

* **Heap and page allocator.**  `heap_extend` appends without comparing
  addresses, which is right only while the page allocator never hands out a
  page below the heap.  Splitting and merging keep two pointer directions; a
  stale `prev` shows many calls later.  Correct: the list is the blocks in
  address order, clients' memory is disjoint, counters match, no page is lost.
* **Ring buffer.**  IRQ1 can strike between any two instructions of
  `key_buffer_pop`.  Correct: it is a bounded FIFO queue, and every key is
  read in the end.  The stub of that interrupt does not restore `eax`, and this is
  so only for the pops that it does not hit where they need `eax`.
* **Decoder.**  Bytes are read later than they are sent and a prefix or
  modifier changes what follows.  Correct: the character pushed is the one
  typed, as far as two shift keys and a caps lock that repeats allow.
* **FAT16.**  A call is a dozen sector writes; power may fail, or an access
  may fail, after each of them, and some results are ignored.  Correct:
  nothing half-written is visible, what was made stays, nothing old shows
  through, the two FATs agree.
* **Disk commands.**  A sequence of such calls, stopped at any point and
  repeated on what is left.  Correct: "Install complete" means installed.
* **ATA driver.**  The drive works while the driver polls, and keeps a command
  whose call has given up.  Correct: a call returns, and what it returns is
  about the sector it was asked for, as far as the drive lets it know.
* **Interpreter and loops.**  The interpreter cuts up the line it is given and
  calls itself through `loop`; keys pressed meanwhile are drained and read by
  several loops.  Correct: every iteration runs what was entered, and only a key
  pressed while a loop ran stops it.
* **In-RAM file system.**  Directories are full at 16 entries and names are cut
  at 31 characters.  Correct: the path the prompt shows leads to where one is.
* **catdisk, runelf.**  A buffer whose size comes unchecked from the disk,
  several ways out, and headers whose fields can be anything.  Correct: buffers
  suffice (they do not for sizes near 2^32) and are given back, a program that
  is started is in memory as its headers say.
* **Bring-up.**  Interrupts go on half-way through.  Correct: none is lost in an
  empty gate, no byte left in the keyboard controller keeps its line up for
  ever, and paging changes no address in use.
* **Line editor.**  Correct: what is between prompt and cursor is what Enter
  will run; the arrows bring back commands in order and the typed line at the
  end.

`PROJECT.json` lists the hazards at their lines, with the properties that
cover each.

## 2. The modules

| Module | Models | Builds on |
|---|---|---|
| `Pmm` | `pmm.c` | - |
| `Heap` | `heap.c` | EXTENDS `Pmm` |
| `KeyQueue` | abstract: a bounded FIFO queue with a lossy push | - |
| `KeyBuffer` | the ring of `ps2.c`, `keyboard_stub`, the polling loop of `shell_start` | refines `KeyQueue` |
| `KeyBufferProofs` | theorems about `KeyBuffer` | EXTENDS `KeyBuffer` |
| `Keyboard` | `keyboard_handler`; the keyboard itself is external | - |
| `KeyboardProofs` | theorems about `Keyboard` | EXTENDS `Keyboard` |
| `Fat16` | `fat16.c` | - |
| `DiskCommands` | `mbr.c`, `do_mkpart`, `do_mkfs`, `command_install`, mounting | EXTENDS `Fat16` |
| `DiskProofs` | theorems about `Fat16` and `DiskCommands` | EXTENDS `DiskCommands` |
| `Screen` | `print.c`, as operators on a screen | - |
| `Shell` | `shell_start`, history functions | EXTENDS `Screen` |
| `ShellProofs` | theorems about `Shell` | EXTENDS `Shell` |
| `SectorStore` | abstract: sectors, calls that fail, writes that settle later | - |
| `Ata` | `ata.c`; the drive is external | refines `SectorStore` |
| `AtaProofs` | the refinement of `SectorStore` | EXTENDS `Ata` |
| `Vfs` | `vfs.c`, as operators on a tree | - |
| `Interpreter` | `interpreter.c`, `fs_commands.c`, `command_loop`, `command_halt` | EXTENDS `Vfs` |
| `InterpreterProofs` | theorems about `Interpreter` | EXTENDS `Interpreter` |
| `Elf` | `elf32.c`, as operators on an image and memory | - |
| `Programs` | `command_catdisk`, `command_runelf`, `syscall.c` | EXTENDS `Heap`, `Elf` |
| `MemoryProofs` | theorems about `Heap` and `Programs` | EXTENDS `Programs` |
| `Boot` | `kernel_start`, `pic.c`, `idt.c`, `idt_asm.asm`, `ps2_init`, `paging.c`; devices are external | - |
| `BootProofs` | theorems about `Boot` | EXTENDS `Boot` |
| `MCMemory`, `MCDisk` | small instances for TLC: `Heap` and `Programs`, `Fat16` and `DiskCommands`, each put to one of two uses | `Programs`, `DiskCommands` |
| other `MC*` | small instances for TLC | the module they are named after |

Operators named "Mutant: ..." in the comment before them are deliberate bugs.
No specification uses them; substituted for the definition that follows they
must make a property fail, which shows that the property depends on that piece
of code.

### Pmm, Heap

`bitmap` is the set of pages whose bit is set, `hdr` the memory that holds
block headers (address to size, free, next, prev), `live` the pointers that
clients hold with the sizes they asked for (a history variable).  Pointers are
addresses, `Null` is 0, and `unsigned int` arithmetic is modulo `WORD`.

`Init` is the state behind `pmm_init` for any of the memory maps in
`MemoryMaps`.  `MapRead` and `KernelReserved` are its loops, page by page, with
the guarded `++` and `--` of the counter; the end of a region is computed modulo
2^64 and the number of its first page is cut to 32 bits, as the code does.
`BootBitmap` is what they should leave, used by the properties only.  `HeapInit`
and `HeapInitNoMemory` are `heap_init`.  `kmalloc` is four actions, one per way
through it: a block fits (`KmallocFit`), the heap grows (`KmallocGrow`), it
grows but the contiguous run is too short (`KmallocTooShort`, the pages stay
with the heap and NULL is returned), no page is left (`KmallocNoMemory`).
`Kfree` marks and merges with both neighbours. Each is one step because nothing
that interrupts the kernel allocates.  The first-fit search and the walk to the
tail follow `next` pointers (`Nth`), so a broken list would be searched as the
code would search it.

Assumed of clients: they free only pointers they hold.  Requests of 0 return
NULL at once; they are in `Programs`.  `kmalloc`'s result for a request of almost
2^32 bytes, which `align_up` wraps to 0, is modelled; `GrantsDisjoint` excepts
the bytes of that request itself, not those of anyone else.

### KeyQueue, KeyBuffer

The interrupt runs with interrupts disabled and is one step.
`key_buffer_pop` is one step per memory access with `eax` and `edx` in
between, which is how the kernel is built (`-O0`).  `keyboard_stub` executes
`mov al, 0x20` after `popa`, so every interrupt leaves the end-of-interrupt code
in `eax` (`Interrupted`).  `struck`, a history variable, says that this hit the
pop in progress at a point where it needs `eax`.

`IsQueue`, the refinement of `KeyQueue`, does not hold; the run `key_buffer_stub`
shows why.  `QueueUnlessStruck` is what is left, and concerns the code as it is:
from any state, the steps of a pop that was not struck are those of the queue.

The refinement mapping sends the ring to the sequence of unread characters
(`Unread`) and the consumer's last result to `Settled`, which takes effect
before `got` is assigned: an empty pop takes effect when `key_buf_head` is read
and a successful one when the tail is moved, whatever arrives afterwards.

### Keyboard

The external keyboard presses, repeats and releases keys and puts bytes on a
wire of bounded length; every byte carries, unseen by the handler, what its
sender meant.  Keyboards have any keys, two shift keys and a caps lock that repeats
among them, on which the handler loses track: `freed` and `odd`, history variables
of the keyboard alone, say when it does, and a byte is `sure` when it does not
depend on that.  `keyboard_handler` is one action per way through it.  Scancodes
are classes (a letter, a digit, an unmapped key, ...) since the tables are the
same for every member of a class.  `ps2_init` has drained the controller and
no key is down in the initial state.

### Fat16, DiskCommands

One step is one sector written.  `call` holds the call in progress, its place
and its locals; searches only read and belong to the step that uses their
result.  Sizes are counted in sectors; a sector of file data fills its slots
with the data, so that a directory search in a wrong cluster would see it.
`Faults` says which accesses may fail: the checked ones (`data`, `dir`,
`format`, `boot`, `mbr`), the unchecked ones of the FAT (`fat_read`,
`fat_write`) and `power`, which forgets everything but the disk.  An
uninitialised buffer after an unchecked failed read has any entries of `Junk`, a
set of 16-bit numbers, links into other chains among them.  The disk starts with
old contents and no boot sector, or with one.

`FAT_ENTRIES` is larger than `CLUSTERS + 2`, because the size of the FAT is a
constant of the code (256 sectors, 65536 entries) whatever the size of the
partition: the allocator can choose a cluster behind the partition, where every
access fails since `mkpart`'s partition ends with the drive.  The numbers of the
last ones look like end marks (`EOC_MIN` to `EOC`), and they are never part of a
file, because its data could not be written.

`formatted`, `created` and `fat_failures` (the unchecked accesses to the FAT that
went wrong since the last format, at most `FAT_FAILURES`) are history variables.
A volume is `Intact` when its last format finished and no access to its FAT has
failed since; most properties are about intact volumes, because the code goes on
as if nothing had happened on the others.  The client of `Fat16` makes
nothing on a volume whose last format did not finish and makes no name twice
(`fat16.c` checks neither).  In `DiskCommands` the client is the code:
`command_install` with its steps, their order and the results it looks at.

Left out: long and deleted names (0xE5), upper-casing of names, the geometry of
partitions made elsewhere, partition tables with a FAT16 entry behind entry 0
(`mount_fat16_partition` takes the first of that type), and subdirectories of
subdirectories, which the code does not make.  A format that was cut short
leaves a boot sector that mounts; the properties speak of volumes whose last
format finished.

How this rests on the driver: `Ata` shows that a write that returned 1 may still
be lost, but then no read and no write returns 1 until the drive is identified.
For a call of `Fat16` that is a write that failed, except that the last write of
a call may be lost after the call has returned: what `MadeForGood` says of the
entry made last holds once another access has succeeded.  `Fat16` does not have
the mistaken answers after a timeout (`behind` in `SectorStore`).

### SectorStore, Ata

One step of the driver is one poll of the status register with what the code
does about it.  The drive is a small machine of its own: `busy` with a command,
`offer`ing data, `want`ing data, `store`ing it, `failed`; or there is none, and
the bus reads as 0 or floats.  It takes any time, may fail at a command and may
fail at storing.  What a drive does with a command that is written while it is
busy or transferring is left open by the bus: it ignores it or starts over.
Status bits other than the one that describes the state are clear.  Callers may
ask for any `lba`; the registers take it modulo `LBA_LIMIT` (2^28), and a sector
that the drive does not have is never found.

`ours`, a history variable, says that the command in the drive is the one of the
call in progress.  `SectorStore` is what is left for the file system to rely on:
calls fail at any time; a write that succeeds is acknowledged and `pending`,
settles or is lost; behind an error reads and writes fail until `identify`; and
once a call has given up on its command (`behind`), a call may succeed with
another's data, until the drive is rid of that command.  The refinement mapping
takes a sector that the drive has accepted for stored (`Stored`).

### Vfs, Interpreter

A node is its place in the sequence of allocations.  Names are model values, and
`NameCopy` says which of them `name_copy` makes equal.  `VfsMkdir` and
`VfsCreateFile` are the functions `vfs.h` exports, called at the prompt with any
directory; the kernel itself calls them in `vfs_init` only, and the commands must
work on every tree they can make.  The root was allocated: `vfs_init` does not
check it.

A line is a sequence of words and spaces.  `loops` is the stack of
`command_loop` calls with their two copies of the line; `keys` counts unread
keys, which is all a loop looks at, and `stale`, a history variable, those of them
from before the last call of `command_loop`.  The buffer is taken for the queue
that it is while no pop is struck.  Commands that only print are one case.

### Elf, Programs

`Load` is `elf32_load` on an image and the memory at the addresses programs are
linked to, `Expected` the reference definition it is compared with: what the
program headers promise at an address.  The distance of the program headers comes
from the file, so the last of them may lie behind the image, where anything is
found; addresses wrap around.  `Programs` runs `vfs_init`'s allocations, `catdisk`
and `runelf` on the actions of `Heap`; which file a path leads to is in
`DiskCommands` (`FindPath`), so here any file of `Images` may be opened.  The
size of a file is any 32-bit number, and its chain may be shorter or longer than
that (`stored`): what the buffer holds behind a chain that ends early is any
image of that size.  When a command writes behind its block (`ReadOverruns`,
`ShowOverruns`), the model stops there: what the kernel does next is undefined.
Segments are copied to addresses apart from the heap and the image.

### Boot

One step per call of `kernel_start`, and one per word written to the interrupt
controller where the order matters.  Lines rise at any moment; the controller
latches a rising edge, and its first initialisation word forgets what it
latched.  A byte that was read may leave its request behind.  The boot loader
leaves interrupts off, the mask as the firmware had it, and perhaps a byte in the
keyboard controller.  `paging_init` fills one table after the other
(`FillTable`), then the rest of the directory, then sets the bit in `cr0`, with
interrupts on; `Translate` is how the processor walks what is there.  The
interrupt the controller reports when a request vanishes (IRQ7) is not modelled.

### Screen, Shell

`Screen` has an operator for each function of `print.c` on a record of cells
and cursor.  `Shell` has one action per key.  What a command does is what it
prints (`Outputs`), and `clear` clears.  `commands`, `draft` and `edited` are
history variables: what was really run, what was really typed, and whether a
recalled line was changed.

## 3. The runs

Passing runs:

| Run | Properties | What it shows |
|---|---|---|
| `memory` | `HeapInv`, `FreeCountExact`, `AddressOrdered`, `GrantsDisjoint`, `UsedExact`, `NoPageLeak`, `BlocksInUsableRam`, `Coalesced`, `LiveUntouched`, `NothingLeaks`, `WritesInBuffer`, `LoadedRight` | every order of `kmalloc` and `kfree` on memory maps with one region, a hole, overlapping entries, regions that start or end inside a page, behind the managed memory or above 2^32 pages, or none; and the kernel with its commands on a heap that runs full: files of any size and chain, images at the limits of every check, reads that fail.  `HeapInv` is the invariant of the proofs, with the type invariant and `FreePagesAbove` in it |
| `key_buffer` | `QueueUnlessStruck`, `EveryKeyRead` | interrupts between any two memory accesses, each of which takes `eax`: a pop that is not struck takes the steps of the queue, and every key is read once pops are struck no more |
| `keyboard` | `ModifiersInStep`, `DecodedAsTyped` | bytes of several keys read late, with two shift keys, a repeating caps lock, extended keys that share codes, and fake shifts: the two ways in which a modifier is lost are the only ones |
| `disk` | `TypeOK`, `ChainsSound`, `MadeForGood`, `OldFilesGone`, `FatsInSync`, `InstalledRoot`, `InstalledTree`, `RootKept` | format, mkdir and create in any order, and `mkpart`, `mkfs` and `install`, power and every kind of access failing at every sector, the unchecked ones of the FAT too: until an access to the FAT fails, what is visible is whole, belongs to one file, stays, and both FATs agree on it; nothing older than the format is ever listed; entries of the root stay as they are; a completed install leaves exactly its directories, however often it failed before, and unless the FAT was hit no directory has a file that is not its own or has other contents |
| `shell` | `TypeOK`, `LineOnScreen`, `BlankBehindCursor`, `RecallsInOrder`, `DraftComesBack` | screen, line and history agree through wrapping, scrolling and a wrapped history ring |
| `ata` | `IsStore`, `EveryCallReturns` | the driver implements the sector store over a drive that is late, fails or is missing, and no wait is endless |
| `session` | `TypeOK`, `PathLeadsHome`, `RunsAsEntered`, `FreshKeysStop` | commands, nested loops and keys at any moment on a tree that fills up: the path leads home, each iteration runs the line entered, no key from before a loop stops it |
| `boot` | `TypeOK`, `NoStrayInterrupt`, `IdentityMapped`, `KeyboardAlive` | lines that rise at any moment of the bring-up, the filling of the page tables included |

Runs that TLC refutes, each a place where a comment promises more than the
code does:

| Run | Property | Comment | What happens |
|---|---|---|---|
| `key_buffer_stub` | `IsQueue` | `ps2.h:17` "safe to poll from the shell / main loop" | a key release strikes between the loading of the result 0 and the return of an empty pop; the end-of-interrupt code in `al` is returned as a key |
| `ata_late` | `ReadsAsAsked` | `ata.h:4` "reads/writes exactly 512 bytes (one sector) at LBA `lba`" | a write times out in its second wait and leaves its command in the drive; the drive asks for the data, and a read that began meanwhile takes that DRQ for its own: it reads words that are no sector and returns 1.  (A timed-out read whose data come late does the same to the next read.) |
| `keyboard_modifiers` | `ModifiersAsCommented` | `ps2.c:131` "for as long as the key is down", `ps2.c:137` "once per press" | one of two shift keys is released, and a caps lock that is held repeats: with every byte read, both modifiers are wrong |
| `session_loops` | `AnyKeyStops` | `shell.c:228` "until any key is pressed", `shell.c:243` | a key ends the inner of two loops, and the outer one starts it again; a second key, and any number of further ones, does the same |

Other deviations met while modelling, which no run states:

* A usable region that starts inside a page releases the whole page
  (`pmm.c:55`), where `pmm.c:32` says "we only free pages the memory map
  explicitly tells us are usable RAM"; `BlocksInUsableRam` excepts the
  bytes in front of such a region (`InFront`).
* A usable region at or above 2^32 pages, which the multiboot fields allow, is
  taken for one at the low part of its page number (`pmm.c:55`); the same property
  excepts the pages released for it (`Truncated`).
* `catdisk` and `runelf` pass the size of a directory entry to `kmalloc` as it is
  (`fat16.c:489`, `sysinfo_commands.c:484`, `577`).  `align_up` wraps the
  largest sizes (as many as the alignment less one) to 0, `kmalloc` returns a
  block that need not have room for a byte, and the file is read over what lies
  behind.  `WritesInBuffer` says that this happens for these sizes and for no
  other.
* A key between the empty test and `hlt` (`shell.c:96`) waits for the next
  interrupt, where the comment says that the keyboard "will wake us right back
  up"; `EveryKeyRead` therefore has its premise.
* `install` drops the results of the placeholder files
  (`sysinfo_commands.c:318`) and prints "Install complete" without them;
  `InstalledTree` says what holds nevertheless.
* `req-syscallop 4294967312` is system call 16 and halts, since `str_to_uint`
  wraps, where `syscalls.md` says that numbers not in its table do not.
* `free_bytes` drifts (`heap.c:133`): a split takes a header more from the free
  blocks than the counter loses, and a merge gives it back without adding it,
  so the "bytes free" that the shell prints is not what the blocks hold.
* `kmalloc` returns NULL as "truly out of memory" (`heap.c:114`) when the new
  extent is too short, even if the free tail that it touches would make it
  long enough.
* A failed write to one FAT is ignored (`fat16.c:203`), and the copies then
  differ for good, also about files.
* `mkpart` keeps the other entries of a valid table (`mbr.c:66`), which then
  overlap the partition that covers the drive.

Bounds, and why they are enough:

* Memory: 16-byte pages, 8-byte headers, up to four usable pages, 8-bit words.
  Splits, both merges, merges across extents, runs cut by a hole, growth that
  is too short and exhaustion all happen.  The request 250 exceeds memory and
  wraps its page count; 254 wraps `align_up`.  Two nodes at boot, which is enough
  for one to be refused; images of up to two segments out of nine that meet every
  check at its limit (overlap, end of the image and one byte behind it, sums and
  addresses that wrap, less memory than contents), header tables that end behind
  the image or have entries of no length, chains that end early, and sizes on both
  sides of the wrap.
* Key buffer: a ring of four slots wraps and fills; two characters tell order
  and duplication apart.
* Keyboard: eight keys that differ in every way the handler distinguishes; three
  bytes on the wire let a key arrive between another's prefix and code being
  read.  `keyboard_modifiers` has the modifiers alone and four bytes.
* Disk: three clusters, two sectors per cluster, FAT sectors of two entries and a
  FAT of six entries, one of which is behind the partition and looks like an end
  mark; directories of two sectors and two slots, files of none, a part of one and
  two clusters.  The client formats once (`CLIENT_FORMATS`; any number of formats
  fail or are cut short before), makes two names (`ClientNames`) and meets one
  unchecked failure of the FAT (`CLIENT_FAILURES`); the shell finishes two formats
  (`FORMATS`, reuse of a volume with real contents) with two such failures each
  (`FAT_FAILURES`) and installs a tree of two directories and two files on a volume
  just large enough.  A buffer that was not read holds a free mark, a link or an
  end mark (`Junk`).  The initial table is none, one without and one with a FAT16
  entry.
* Shell: a screen of 2 x 3, lines of up to three characters, a history of two:
  every line wraps, most scroll, and the ring wraps with the third command.
* ATA: two sectors, two contents, waits of two polls: a call can time out in
  either wait, and a left-over command meets every kind of call.  `Requests` goes
  past the sectors of the drive and past `LBA_LIMIT` (3 here).
* Session: directories of three entries and seven nodes, so that a directory
  fills and a name repeats, also by truncation; loops two deep; two keys.
* Boot: three lines, two page tables of three entries, a directory of three.  With
  an identity map that is smaller or larger than the managed memory, or not a
  multiple of a table, `IdentityMapped` fails or need not hold; its mutant is such
  a mismatch.

**Deadlock** is checked except in `session`, `session_loops` and `memory`, where
`halt`, a panic and an exception stop the machine on purpose.

**Fairness** is that of a processor that executes its program.  `KeyBuffer`:
`WF_vars(Shell)`, whenever it is not halted; the interrupt gets none, so
`EveryKeyRead` states its premises: as long as the keyboard keeps interrupting,
and pops are struck no more from some point on, every key is read.  `Ata`:
`WF_vars(Driver)`; the drive gets none and may never answer.  `Interpreter`:
`WF_vars(Shell)` for the code of `loop`; nobody has to press a key or enter a
line.  `Boot`: interrupts that are reported are taken and handlers go on;
`kernel_start` itself gets none, so `KeyboardAlive` speaks of the time when the
shell runs.

## 4. The proofs

The proof modules hold for every value of the constants that satisfies the named
assumptions of the modules; a run evaluates each assumption on its instance.
Each rests on an inductive invariant, stated at the end of the model it is
about (`HeapInv`, `HeapBooks`, `ProgramsInv`, `KeyInv`, `AtaInv`, `ShellInv`,
`SessionInv`, `VolumeInv`, `DiskInv`, `BootInv`); TLC checked each of them on the
small instances before it was proved.

What recursive functions and folds compute is proved by first-order induction:
the set of the numbers (or of the subsets) for which a fact holds is shown to
have no least element outside (`LeastNat`, `SetInduction` and their like).  The
induction theorems of the library, which take a predicate as a parameter, are not
used.

### Heap and programs: `MemoryProofs`

For every memory map, page, header and alignment size and set of requests that
satisfy `PageAssumption`, `MapAssumption` and `HeapAssumption` (the header is
smaller than a page; managed memory, with a header and the smallest remainder, is
smaller than a word), and, for the commands, `ProgramsAssumption` (files have
32-bit sizes and chains of any length).

* `HeapInvariant`, `HeapAddressOrdered`, `HeapFreePagesAbove`,
  `HeapGrantsDisjoint`, and the action property `HeapLiveUntouched`.
* `PmmFreeCountExact`: the free counter, by an induction over the pages and the
  entries of `pmm_init`'s loops, and then over the steps of the heap.
* `HeapBooksInvariant`, `HeapUsedExact`, `HeapNoPageLeak`, `HeapCoalesced`,
  `HeapInUsableRam`: the bookkeeping.
* `ProgramsInvariant`, `ProgramsNothingLeaks`, `ProgramsWritesInBuffer`,
  `ProgramsLoadedRight`: the commands and calls that use the heap.

`AddressOrdered` is not inductive: an extension appends behind the tail, and
that keeps the order only if the new page is above all blocks, so
`FreePagesAbove` belongs to the invariant.  That in turn is kept because
first-fit hands out the lowest free page, a run takes consecutive pages, and
the stray page that goes back lies above the run.  `GrantsDisjoint` follows from
`AddressOrdered` with `LiveIsUsed` (pointers held are exactly the used blocks)
and `GrantsFit` (a used block is as large as what was asked for, which is where
the wrap of `align_up` is excepted).  The three surgeries on the list (append,
split, merge) are lemmas about arbitrary header memories; the proof for each
action puts them together.

The bookkeeping needs sums over sets of blocks, which are folds: what a sum
becomes when an element is added, removed or changed is proved by induction over
subsets.  A split and a merge keep the total of all blocks, an extension adds
exactly its pages, so the blocks are the pages taken (`NoPageLeak`).  From that
`UsedExact` follows: the used blocks are a part of a total below `WORD`, so the
counter that the code adds to and subtracts from never wraps.  `Coalesced` goes
through the two merges of `kfree` one by one: between them only the block being
freed may touch a free neighbour; a new extent may touch a free tail, which is
why pairs that meet at a page boundary are excepted.  Blocks lie on pages the
allocator handed out (`OnHeapPages`), and those were free at boot, which is to
say usable RAM or one of the two exceptions of `BlocksInUsableRam`.

`ProgramsInv` adds to `HeapInv` that the pointers held are the ones given to
system calls, the nodes of the VFS and the buffer of the command under way, and
that this buffer is as large as the file and what `catdisk` puts behind it, or
that `align_up` wrapped its size.  `LoadedRight` is an induction over the
segments in the order the loader copies them: what an earlier segment left is
either still there or covered by a later one.

### Keyboard: `KeyBufferProofs` and `KeyboardProofs`

`KeyBufferProofs`, for every size of the ring and set of characters, with the stub
as it is:

* `BufferIsQueue`: `Spec => QueueUnlessStruck`.  Every step that ends and begins
  unstruck is a push, a pop, an empty pop or a stutter of the queue.  The
  invariant is that the registers and the ring are as `key_buffer_pop` relies on
  (`RegistersOK`) unless the pop was struck; an interrupt at any other point, and
  the return of a pop that was struck, bring it about.

`KeyboardProofs`: `KeyboardInvariant`, `KeyboardModifiersInStep`,
`KeyboardDecodedAsTyped`, for every set of keys and length of the wire.  The
modifiers agree only when the wire is empty; `KeyInv` says what is true
meanwhile: reading the bytes that are on the wire, one by one, takes the decoder
from the state it is in to the one in which the keys leave it (shift down unless
`freed`, caps lock inverted if `odd`), and makes of each byte that is `sure` the
character that was meant when its key went down.

### Drive: `AtaProofs`

`AtaIsStore`: `Spec => Store!Spec`, for every set of sectors, contents and
requests, every number of sectors that the registers can name, and every number
of polls, whether and whenever the drive answers.  `AtaInv` is what
the steps need: a command in the drive that is ours is the one that the call in
its second wait has given, with its operation and sector; what the drive offers
is the contents of its sector; data are waited for only by a write.

### Volume and disk commands: `DiskProofs`

For every size of FAT, FAT sector, cluster, root directory and directory sector,
every set of files and their sizes, and every set of faults (`Fat16Assumption`:
the clusters of the partition, which `fat16_format` limits, are below the
end-of-chain marks and have entries in the FAT, which may have more, the 65536
of the code for one; a FAT sector has room for the two reserved entries, a
directory sector for `.` and `..`, and the mark of the entries that were there
before is not a name).

* `VolumeInvariant`, `FatTypes`, `FatChainsSound`, `FatMadeForGood`,
  `FatOldFilesGone`, `FatFatsInSync`; `RootEntriesStay` and `CommandsKeepRoot`, the
  action property for `Fat16` alone and for the commands.
* `DiskInvariant`, `InstallLists`, `InstallFiles`: for every tree to install
  (`DiskAssumption`: a directory comes before its files, and neither is called
  `.` or `..`).

Between two sectors of a call the two FATs differ, chains end in the air, and a
power failure may leave it so.  `VolumeInv` therefore speaks of the FAT as it will
be when the links still to be written are (`Goal`), in which the chains of all
visible entries and the chain of the call under way (`Flight`) are ended and
disjoint.  What holds even after an access to the FAT failed (what a
directory lists, that old entries are gone: `Clean`) is kept apart from what needs
the FAT (`Sound`), because the code goes on after such failures.  A chain
is described by its sequence of clusters, and what following it from its first
cluster gives is an induction along that sequence.

`DiskInv` ties the volume to the command that waits for it: when entry `n` of the
tree is at hand, exactly the entries before it are on the disk (`TreeMade`), the
cluster numbers that `install` remembers are those of the root entries it made
(`DirAt`), and the call waited for is the one for entry `n` (`AtTree`).  What
a completed install left is then read off with lemmas about listing and finding.

### Shell: `ShellProofs` and `InterpreterProofs`

`ShellProofs`, for every size of screen, line and history, every prompt and
every text that commands print (`ShellAssumption`: a full line takes up less than
the screen without its last row, which 80 by 25 and 128 characters do; keys are
not line feeds or backspaces; the prompt does not end in a line feed):
`ShellInvariant`, `ShellTypeOK`, `ShellLineOnScreen`, `ShellBlankBehindCursor`,
`ShellRecallsInOrder`, `ShellDraftComesBack`.  What printing a text and redrawing a
line do to the screen is proved character by character, as an induction on the
screens in between; `ShellInv` adds to the properties that the ring of the
history holds the last commands from its write position backwards.

`InterpreterProofs`, for every set of lines and names, sizes of a directory and
room on the heap: `SessionInvariant`, `SessionTypeOK`, `SessionPathLeadsHome`,
`SessionRunsAsEntered`, `SessionFreshKeysStop`.  Two nodes may have the same
name once it is cut, and the second is then out of reach: `SessionInv` says that
there is a set of nodes, the current directory among them, each of which its
parent's lookup finds under its name and whose parent is in the set.  Nodes that
are added come behind the children that are there, so the set stays; `cd` only
moves within one.  That the printed path leads home is an induction along it.
For the loops, `SessionInv` says that loop number `i` holds the line without its
first `i` words and has not lost it to the functions that cut its working copy.
`StaleOK` says that keys from before a call are left only while it drains them.

### Bring-up: `BootProofs`

* `BootInvariant`, `BootNoStrayInterrupt`, `BootTypeOK`.  That no interrupt goes
  astray is not inductive: `BootInv` adds what has been set up at each step of
  `kernel_start`, that it stays, and that interrupts are on, or a handler runs,
  only behind the last of these steps.  Then the only line that is not masked is
  the keyboard's, and its gate is filled.
* `BootIdentityMapped`: for all sizes of pages and tables, if the identity map is
  the managed memory and consists of whole tables (`SizesMatch`, what `paging.c:5`
  asks for).  `PagesOK` says which tables are filled and entered; an address is its
  directory index, its table index and its offset put together again.

### Only model-checked

`EveryKeyRead`, `EveryCallReturns` and `KeyboardAlive` are liveness
under fairness, which the prover does not do.

## 5. The plan

Done: the models, their runs, and a theorem for every invariant and action
property that a run checks, with the two refinements.

What is left:

1. Partition tables with several FAT16 entries, and volumes whose last format was
   cut short.
2. The lemmas that several proof modules state for themselves (induction over
   sets of numbers, sums, chains) could be brought together.
3. The parts of section 6 that have state: `memtest` against the heap.

## 6. Not modelled

* `boot.asm`: the entry code that sets up stack and descriptor table and calls
  `kernel_start`; it has one path and no state that others read.
* `memtest` writes to fixed addresses without asking the page allocator; the
  models have no memory contents it could destroy.  `meminfo`, `partinfo`,
  `diskinfo`, `uname`, `about`, `help`, `echo` only print.
* `util.c`: comparison, copying and number parsing, character by character; the
  models compare names and lines as values.
* Formatting of numbers and wording of messages.
* The code of loaded programs: it runs in ring 0 and can do anything.
* A failed read in the middle of a directory, which listing and finding take for
  its end: nothing is written after such an answer.
* Makefile, linker script, host tools and the sample program.

## 7. Running

In this directory, with `tlc` and `tlapm` on the path:

    tlc -config MCMemory.cfg MCMemory
    tlapm MemoryProofs.tla

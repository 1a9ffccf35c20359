-------------------------------- MODULE Boot --------------------------------
(***************************************************************************)
(* Bringing up the machine (main.c): the interrupt controller              *)
(* (interrupts/pic.c), the interrupt table (idt/idt.c, idt_asm.asm), the   *)
(* keyboard controller (ps2_init), interrupts on, then paging              *)
(* (mm/paging.c) and the rest, with keys arriving all the while.           *)
(*                                                                         *)
(* The two controllers are external and modelled from how the code drives  *)
(* them.  The interrupt controller latches a request when a line rises,    *)
(* and its first initialisation word forgets what it latched; a line that  *)
(* is already up then stays unnoticed until it has been down.              *)
(***************************************************************************)
EXTENDS Integers, FiniteSets

CONSTANTS
  PAGE_SIZE, ENTRIES_PER_TABLE, IDENTITY_MAP,    \* paging.c; bytes, not megabytes
  MAX_MANAGED_MEMORY                             \* pmm.c

\* Mutant: one table less.
TablesNeededShort == (IDENTITY_MAP \div (PAGE_SIZE * ENTRIES_PER_TABLE)) - 1

TABLES_NEEDED == IDENTITY_MAP \div (PAGE_SIZE * ENTRIES_PER_TABLE)
MAX_PAGES     == MAX_MANAGED_MEMORY \div PAGE_SIZE

ASSUME BootAssumption ==
  /\ {PAGE_SIZE, ENTRIES_PER_TABLE, IDENTITY_MAP, MAX_MANAGED_MEMORY} \subseteq Nat \ {0}
  /\ IDENTITY_MAP <= PAGE_SIZE * ENTRIES_PER_TABLE * ENTRIES_PER_TABLE   \* the directory

VARIABLES
  pc,              \* the next step of kernel_start
  interrupts,      \* the interrupt flag of the processor
  base, mask,      \* the controller: its first vector, the lines it ignores
  requested, serving,   \* lines latched, lines whose interrupt is not ended
  up,              \* lines that are up
  gates,           \* the interrupt table
  table_loaded,    \* the processor uses that table
  handler,         \* the handler that runs, or none
  page_directory, page_tables,
  filled,          \* tables filled so far
  paging           \* the processor uses the directory

mmu == <<page_directory, page_tables, filled, paging>>
pic == <<base, mask, requested, serving>>
vars == <<pc, interrupts, pic, up, gates, table_loaded, handler, mmu>>

\* Lines: the timer, the keyboard, the second controller.
TIMER == 0
KEYBOARD == 1
CASCADE == 2
Lines == {TIMER, KEYBOARD, CASCADE}

EXCEPTIONS == 32
Vectors == 0..(EXCEPTIONS + CASCADE)

\* Entries of the directory and of a table: the number of a table and the address
\* of a page, or not present.
ABSENT == -1
Entries == 0..(ENTRIES_PER_TABLE - 1)
Tables == 0..(TABLES_NEEDED - 1)

-----------------------------------------------------------------------------
(* Devices *)

\* A line rises: the keyboard controller has a byte, or a tick.
Rise(line) ==
  /\ line \notin up
  /\ up' = up \cup {line}
  /\ requested' = requested \cup {line}
  /\ UNCHANGED <<pc, interrupts, base, mask, serving, gates, table_loaded, handler, mmu>>

\* The other lines go down by themselves.
Fall(line) ==
  /\ line \in up \ {KEYBOARD}
  /\ up' = up \ {line}
  /\ UNCHANGED <<pc, interrupts, pic, gates, table_loaded, handler, mmu>>

\* The byte of the keyboard controller is read, which takes its line down.  A
\* request that was not answered yet may be dropped with it, or stays.
ReadByte ==
  /\ up' = up \ {KEYBOARD}
  /\ requested' \in {requested, requested \ {KEYBOARD}}

-----------------------------------------------------------------------------
(* kernel_start *)

Goto(from, to) == pc = from /\ handler = "none" /\ pc' = to

Cli ==
  /\ Goto("cli", "pic")
  /\ interrupts' = FALSE
  /\ UNCHANGED <<pic, up, gates, table_loaded, handler, mmu>>

\* pic_remap: the first word starts the controller over, ...
PicReset ==
  /\ Goto("pic", "vectors")
  /\ mask' = {} /\ requested' = {} /\ serving' = {}
  /\ UNCHANGED <<interrupts, base, up, gates, table_loaded, handler, mmu>>

\* ... the next ones give it its vectors, ...
PicVectors ==
  /\ Goto("vectors", "mask")
  /\ base' = EXCEPTIONS
  /\ UNCHANGED <<interrupts, mask, requested, serving, up, gates, table_loaded, handler, mmu>>

\* Mutant: the timer is let through as well.
MaskedTimerToo == {CASCADE}

\* ... and the last one lets the keyboard through, and nothing else.
Masked == Lines \ {KEYBOARD}

PicMask ==
  /\ Goto("mask", "gates")
  /\ mask' = Masked
  /\ UNCHANGED <<interrupts, base, requested, serving, up, gates, table_loaded, handler, mmu>>

IdtGates ==
  [v \in Vectors |-> IF v < EXCEPTIONS THEN "exception"
                     ELSE IF v = EXCEPTIONS + KEYBOARD THEN "keyboard" ELSE "empty"]

\* idt_init: the exceptions, the keyboard, and empty gates.
SetGates ==
  /\ Goto("gates", "load")
  /\ gates' = IdtGates
  /\ UNCHANGED <<interrupts, pic, up, table_loaded, handler, mmu>>

IdtLoad ==
  /\ Goto("load", "drain")
  /\ table_loaded' = TRUE
  /\ UNCHANGED <<interrupts, pic, up, gates, handler, mmu>>

\* Mutant: ps2_init does not look at the status.
DrainedUnseen == TRUE

Drained == KEYBOARD \notin up

\* ps2_init reads bytes until there is none.
Drain ==
  /\ \/ /\ ~Drained /\ Goto("drain", "drain")
        /\ ReadByte
     \/ /\ Drained /\ Goto("drain", "sti")
        /\ UNCHANGED <<up, requested>>
  /\ UNCHANGED <<interrupts, base, mask, serving, gates, table_loaded, handler, mmu>>

Sti ==
  /\ Goto("sti", "pmm")
  /\ interrupts' = TRUE
  /\ UNCHANGED <<pic, up, gates, table_loaded, handler, mmu>>

Phys(table, entry) == (table * ENTRIES_PER_TABLE + entry) * PAGE_SIZE

\* paging_init fills a table and enters it in the directory, ...
FillTable ==
  /\ Goto("paging", "paging")
  /\ filled < TABLES_NEEDED
  /\ page_tables' = [page_tables EXCEPT ![filled] = [e \in Entries |-> Phys(filled, e)]]
  /\ page_directory' = [page_directory EXCEPT ![filled] = filled]
  /\ filled' = filled + 1
  /\ UNCHANGED <<interrupts, pic, up, gates, table_loaded, handler, paging>>

\* ... marks the rest of the directory as not present, ...
ClearDirectory ==
  /\ Goto("paging", "enable")
  /\ filled = TABLES_NEEDED
  /\ page_directory' = [t \in Entries |-> IF t < filled THEN page_directory[t] ELSE ABSENT]
  /\ UNCHANGED <<interrupts, pic, up, gates, table_loaded, handler, page_tables, filled, paging>>

\* ... and lets the processor use it.
EnablePaging ==
  /\ Goto("enable", "heap")
  /\ paging' = TRUE
  /\ UNCHANGED <<interrupts, pic, up, gates, table_loaded, handler,
                 page_directory, page_tables, filled>>

PagingInit == FillTable \/ ClearDirectory \/ EnablePaging

\* pmm_init, heap_init and initramfs_init, which ends in the shell.
Rest ==
  /\ Goto("pmm", "paging") \/ Goto("heap", "vfs") \/ Goto("vfs", "shell")
  /\ UNCHANGED <<interrupts, pic, up, gates, table_loaded, handler, mmu>>

Start ==
  \/ Cli \/ PicReset \/ PicVectors \/ PicMask \/ SetGates \/ IdtLoad \/ Drain \/ Sti
  \/ PagingInit \/ Rest

-----------------------------------------------------------------------------
(* Interrupts *)

\* The line the controller reports: the first one that is requested and not
\* masked, unless one before it is still being served.
Reported(line) ==
  /\ line \in requested \ mask
  /\ \A other \in (requested \ mask) \cup serving : line <= other
  /\ line \notin serving

\* Mutant: the gates are trap gates, which leave interrupts on.
TrapGate == FALSE

\* The gates idt_set_gate writes (0x8E) turn interrupts off on the way in.
InterruptGate == TRUE

\* The processor takes the interrupt through its gate.  Without a handler
\* there the machine is lost.
Deliver ==
  /\ interrupts
  /\ \E line \in Lines :
       /\ Reported(line)
       /\ requested' = requested \ {line}
       /\ serving' = serving \cup {line}
       /\ handler' = IF table_loaded THEN gates[base + line] ELSE "empty"
  /\ interrupts' = ~InterruptGate
  /\ UNCHANGED <<pc, base, mask, up, gates, table_loaded, mmu>>

\* keyboard_handler reads one byte, also when there is none.
HandlerReads ==
  /\ handler = "keyboard"
  /\ handler' = "end"
  /\ ReadByte
  /\ UNCHANGED <<pc, interrupts, base, mask, serving, gates, table_loaded, mmu>>

\* keyboard_stub ends the interrupt and returns.
HandlerEnds ==
  /\ handler = "end"
  /\ handler' = "none"
  /\ serving' = serving \ {l \in serving : \A m \in serving : l <= m}
  /\ interrupts' = TRUE
  /\ UNCHANGED <<pc, base, mask, requested, up, gates, table_loaded, mmu>>

Interrupt == Deliver \/ HandlerReads \/ HandlerEnds

-----------------------------------------------------------------------------
(* The state the boot loader leaves: interrupts off, as Multiboot requires,  *)
(* and the controller as the firmware set it up.                             *)
Init ==
  /\ pc = "cli"
  /\ interrupts = FALSE
  /\ base = 8
  /\ mask \in SUBSET Lines
  /\ requested = {} /\ serving = {}
  /\ up \in SUBSET {KEYBOARD}
  /\ gates = [v \in Vectors |-> "empty"]
  /\ table_loaded = FALSE
  /\ handler = "none"
  /\ page_directory = [t \in Entries |-> ABSENT]
  /\ page_tables = [t \in Tables |-> [e \in Entries |-> ABSENT]]
  /\ filled = 0 /\ paging = FALSE

Next == Start \/ Interrupt \/ \E line \in Lines : Rise(line) \/ Fall(line)

Spec == Init /\ [][Next]_vars

\* The processor takes interrupts and executes handlers; bringing up the rest
\* need not finish, and nobody has to press a key.
FairSpec == Spec /\ WF_vars(Deliver) /\ WF_vars(HandlerReads \/ HandlerEnds)

-----------------------------------------------------------------------------
(* Paging *)

\* What the processor makes of an address: through the page directory and the
\* table, -1 for a page fault.
Translate(addr) ==
  LET dir == addr \div (PAGE_SIZE * ENTRIES_PER_TABLE)
      entry == (addr \div PAGE_SIZE) % ENTRIES_PER_TABLE
  IN  IF ~paging THEN addr
      ELSE IF dir \notin Entries \/ page_directory[dir] = ABSENT THEN -1
      ELSE IF page_tables[page_directory[dir]][entry] = ABSENT THEN -1
      ELSE page_tables[page_directory[dir]][entry] + (addr % PAGE_SIZE)

-----------------------------------------------------------------------------
(* Correctness *)

Steps == {"cli", "pic", "vectors", "mask", "gates", "load", "drain", "sti", "pmm",
          "paging", "enable", "heap", "vfs", "shell"}

\* The ranges of the variables; a handler runs with interrupts off.
TypeOK ==
  /\ pc \in Steps
  /\ {interrupts, table_loaded, paging} \subseteq BOOLEAN
  /\ handler \in {"none", "keyboard", "end", "exception", "empty"}
  /\ mask \subseteq Lines /\ requested \subseteq Lines /\ serving \subseteq Lines
  /\ up \subseteq Lines
  /\ interrupts => handler = "none"

\* "IDT must be loaded via lidt BEFORE any 'int' instruction is executed" and
\* "enable keyboard only" (idt.c:64, pic.c:24): at whatever moment of the boot a
\* line rises, an interrupt that is delivered finds the handler of its device;
\* none is taken for an exception and none meets an empty gate.
NoStrayInterrupt == handler \notin {"exception", "empty"}

\* "drain anything left sitting in the PS/2 output buffer from BIOS/GRUB so we
\* start from a clean state" (ps2.c:95): a byte that arrives is read in the end,
\* whenever it arrived.  Left over, it would keep the line up, and no key would
\* raise an interrupt ever again.
KeyboardAlive == pc = "shell" /\ KEYBOARD \in up ~> KEYBOARD \notin up

\* "MUST match pmm.c's MAX_MANAGED_MEMORY" (paging.c:5) and "touching this = page
\* fault" (paging.c:35): from the moment paging is enabled every address the page
\* allocator can hand out means what it meant before, and every other address
\* means that or faults, whatever was interrupted while the tables were filled.
IdentityMapped ==
  \A page \in 0..(ENTRIES_PER_TABLE * ENTRIES_PER_TABLE - 1) :
    \A addr \in {page * PAGE_SIZE, page * PAGE_SIZE + PAGE_SIZE - 1} :
      \/ Translate(addr) = addr
      \/ page >= MAX_PAGES /\ Translate(addr) = -1

\* What the comment asks of the two constants, and what the division in
\* TABLES_NEEDED asks of them besides: whole tables.
SizesMatch ==
  /\ IDENTITY_MAP = MAX_MANAGED_MEMORY
  /\ IDENTITY_MAP = TABLES_NEEDED * (PAGE_SIZE * ENTRIES_PER_TABLE)

-----------------------------------------------------------------------------
(* The inductive invariant behind them *)

\* The steps behind each part of the set-up.
Remapped == Steps \ {"cli", "pic", "vectors"}
Filtered == Remapped \ {"mask"}
Gated    == Filtered \ {"gates"}
Ready    == Gated \ {"load"}
Enabled  == Ready \ {"drain", "sti"}

\* The tables filled so far map every page to itself, and paging is enabled only
\* when all of them do.
PagesOK ==
  /\ filled \in 0..TABLES_NEEDED
  /\ page_tables \in [Tables -> [Entries -> Int]]
  /\ page_directory =
       [t \in Entries |-> IF t < filled THEN t ELSE ABSENT]
  /\ \A t \in 0..(filled - 1), e \in Entries : page_tables[t][e] = Phys(t, e)
  /\ paging \/ pc = "enable" => filled = TABLES_NEEDED

\* What has been set up stays, and interrupts are on, or were when the handler
\* was entered, only behind all of it.
BootInv ==
  /\ TypeOK
  /\ PagesOK
  /\ pc \in Remapped => base = EXCEPTIONS
  /\ pc \in Filtered => mask = Masked
  /\ pc \in Gated => gates = IdtGates
  /\ pc \in Ready => table_loaded
  /\ interrupts \/ handler # "none" => pc \in Enabled
  /\ NoStrayInterrupt

=============================================================================

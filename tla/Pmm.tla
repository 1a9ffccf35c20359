-------------------------------- MODULE Pmm --------------------------------
(***************************************************************************)
(* The physical memory manager (kernel/mm/pmm.c): one bit per page frame,  *)
(* a free counter kept beside the bitmap, first-fit allocation.            *)
(*                                                                         *)
(* The bitmap is the set of pages whose bit is set (reserved or handed     *)
(* out).  Addresses are naturals; a page p starts at p * PAGE_SIZE.        *)
(***************************************************************************)
EXTENDS Integers, Sequences, FiniteSets, FiniteSetsExt

CONSTANTS
  MAX_PAGES,    \* pages under management
  PAGE_SIZE,    \* bytes per page
  WORD,         \* 2^32: unsigned int is modulo WORD, unsigned long long modulo its square
  KERNEL_END,   \* the linker symbol _kernel_end, an address
  MemoryMaps    \* the memory maps the boot loader may pass: sequences of entries

ASSUME PageAssumption ==
  /\ MAX_PAGES \in Nat \ {0}
  /\ PAGE_SIZE \in Nat \ {0}
  /\ WORD \in Nat /\ MAX_PAGES * PAGE_SIZE < WORD
  /\ KERNEL_END \in Nat

\* An entry of the multiboot memory map; type 1 is usable RAM.
MapEntry == [base_addr : Nat, length : Nat, type : Nat]

ASSUME MapAssumption == MemoryMaps \subseteq Seq(MapEntry)

VARIABLES
  mmap,             \* the map this machine was booted with
  bitmap,           \* set of pages whose bit is set
  free_pages_count

pmmVars == <<mmap, bitmap, free_pages_count>>

Pages == 0 .. MAX_PAGES - 1

FreePages == Pages \ bitmap

\* kernel_end_page: every page below it is reserved whatever the map says.
KernelPages == {p \in Pages : p < (KERNEL_END \div PAGE_SIZE) + 1}

Smaller(m, n) == IF m < n THEN m ELSE n

FirstPage(e) == (e.base_addr \div PAGE_SIZE) % WORD

\* Pages the loop over one map entry visits: the region is cut off at the
\* managed limit, both of its ends are rounded down to a page boundary, and the
\* number of its first page is cut to 32 bits.
Released(e) ==
  LET region_end == Smaller((e.base_addr + e.length) % (WORD * WORD), MAX_PAGES * PAGE_SIZE)
      last_page  == region_end \div PAGE_SIZE
  IN  {p \in Pages : e.type = 1 /\ FirstPage(e) <= p /\ p < last_page}

\* Bits and counter change together, and only when the bit does.
PageMap == [bits : SUBSET Pages, count : Int]

\* Mutant: the counter is raised whether the bit was set or not.
ClearedAlways(s, p) == [bits |-> s.bits \ {p}, count |-> s.count + 1]

Cleared(s, p) ==
  IF p \in s.bits THEN [bits |-> s.bits \ {p}, count |-> s.count + 1] ELSE s

\* reserve_page
Reserved(s, p) ==
  IF p \in Pages /\ p \notin s.bits THEN [bits |-> s.bits \cup {p}, count |-> s.count - 1]
  ELSE s

\* The loop over the pages of one entry.
EntryRead(s, e) ==
  LET after[n \in 0 .. MAX_PAGES] ==
        IF n = 0 THEN s
        ELSE IF n - 1 \in Released(e) THEN Cleared(after[n - 1], n - 1)
        ELSE after[n - 1]
  IN  after[MAX_PAGES]

\* The loop over the entries, from the map in which everything is reserved.  A
\* boot without a memory map is the empty map.
MapRead(m) ==
  LET after[i \in 0 .. Len(m)] ==
        IF i = 0 THEN [bits |-> Pages, count |-> 0]
        ELSE EntryRead(after[i - 1], m[i])
  IN  after[Len(m)]

\* The loop over the low pages and the kernel image.
KernelReserved(s) ==
  LET after[n \in 0 .. MAX_PAGES] ==
        IF n = 0 THEN s
        ELSE IF n - 1 \in KernelPages THEN Reserved(after[n - 1], n - 1)
        ELSE after[n - 1]
  IN  after[MAX_PAGES]

PmmInit ==
  /\ mmap \in MemoryMaps
  /\ bitmap = KernelReserved(MapRead(mmap)).bits
  /\ free_pages_count = KernelReserved(MapRead(mmap)).count

\* pmm_alloc_page on bitmap b returns page p: the scan starts at page 0.  No
\* page satisfies it when b is full, the case in which the code returns 0.
PmmAllocPage(b, p) ==
  /\ p \in Pages \ b
  /\ \A f \in Pages \ b : p <= f

\* Mutant: the bit is never cleared.
PmmFreePageLost(s, p) == s

\* pmm_free_page
PmmFreePage(s, p) == IF p \in Pages THEN Cleared(s, p) ELSE s

-----------------------------------------------------------------------------
(* What the map means *)

\* The bitmap pmm_init should leave: everything reserved but the pages some
\* usable region releases, the low pages and the kernel image reserved again.
BootBitmap(m) == (Pages \ UNION {Released(m[i]) : i \in DOMAIN m}) \cup KernelPages

\* Byte x is RAM the memory map reports usable.
UsableByte(x) ==
  \E i \in DOMAIN mmap : /\ mmap[i].type = 1
                         /\ mmap[i].base_addr <= x
                         /\ x < mmap[i].base_addr + mmap[i].length

\* Byte x lies in the page a usable region starts in, in front of it.
InFront(x) ==
  \E i \in DOMAIN mmap : /\ mmap[i].type = 1
                         /\ mmap[i].base_addr \div PAGE_SIZE = x \div PAGE_SIZE
                         /\ x < mmap[i].base_addr

\* A usable region starts at or above 2^32 pages, and what is left of the number
\* of its first page is not above the page of byte x.
Truncated(x) ==
  \E i \in DOMAIN mmap : /\ mmap[i].type = 1
                         /\ mmap[i].base_addr \div PAGE_SIZE >= WORD
                         /\ FirstPage(mmap[i]) <= x \div PAGE_SIZE

-----------------------------------------------------------------------------
\* The free counter kept beside the bitmap never drifts from it, over
\* overlapping map entries, the pages reserved again, allocations and pages
\* given back.
FreeCountExact == free_pages_count = Cardinality(FreePages)

=============================================================================

-------------------------------- MODULE Heap --------------------------------
(***************************************************************************)
(* The kernel heap (kernel/mm/heap.c) over the page allocator of Pmm: a    *)
(* doubly linked list of blocks, first-fit allocation with splitting,      *)
(* merging on kfree, growth by runs of contiguous pages.                   *)
(*                                                                         *)
(* hdr is the memory that holds block headers: the address of each header  *)
(* maps to its contents.  A header that try_merge absorbs becomes payload  *)
(* and leaves the domain of hdr.  Pointers are addresses and Null is 0.    *)
(***************************************************************************)
EXTENDS Pmm

CONSTANTS
  HDR,                 \* sizeof(heap_block_t)
  ALIGNMENT,
  MIN_SPLIT_SIZE,
  HEAP_INITIAL_PAGES,
  Requests             \* sizes the clients ask for

ASSUME HeapAssumption ==
  /\ HDR \in Nat \ {0} /\ HDR < PAGE_SIZE
  /\ ALIGNMENT \in Nat \ {0}
  /\ MIN_SPLIT_SIZE \in Nat
  /\ HEAP_INITIAL_PAGES \in Nat \ {0}
  /\ WORD \in Nat /\ MAX_PAGES * PAGE_SIZE + HDR + MIN_SPLIT_SIZE < WORD
  /\ Requests \subseteq 1 .. WORD - 1

\* What kmalloc may be asked for; it refuses 0.
Sizes == 1 .. WORD - 1

VARIABLES
  heap_head,
  hdr,
  used_bytes,
  free_bytes,
  up,       \* heap_init has run
  live      \* pointers the clients hold, each with the size it asked for

heapVars == <<heap_head, hdr, used_bytes, free_bytes, up, live>>
vars == <<pmmVars, heapVars>>

Null == 0

Header == [size : Nat, free : BOOLEAN, next : Nat, prev : Nat]

Blocks == DOMAIN hdr

\* First address behind block a of the header memory h.
End(h, a) == a + HDR + h[a].size

\* Mutant: rounds down.
AlignUpDown(n) == (n \div ALIGNMENT) * ALIGNMENT

\* align_up in unsigned arithmetic: the largest sizes wrap to 0.
AlignUp(n) == (((n + ALIGNMENT - 1) % WORD) \div ALIGNMENT) * ALIGNMENT

NeedPages(size) ==
  LET pages == ((size + HDR + PAGE_SIZE - 1) % WORD) \div PAGE_SIZE
  IN  IF pages < 1 THEN 1 ELSE pages

-----------------------------------------------------------------------------
\* Following the next pointers: the n-th block of the list, Null past its end.
Nth[n \in Nat] ==
  IF n = 0 THEN heap_head
  ELSE LET block == Nth[n - 1]
       IN  IF block = Null THEN Null ELSE hdr[block].next

Steps == 0 .. Cardinality(Blocks)

\* Mutant: the search takes a block whether it is free or not.
FitsUsed(a, size) == a # Null /\ hdr[a].size >= size

Fits(a, size) == a # Null /\ hdr[a].free /\ hdr[a].size >= size

\* The block kmalloc's search stops at.
FirstFit(a, size) ==
  \E n \in Steps : /\ Nth[n] = a
                   /\ Fits(a, size)
                   /\ \A k \in 0 .. n - 1 : ~Fits(Nth[k], size)

NoFit(size) == \A n \in Steps : ~Fits(Nth[n], size)

\* The block heap_extend appends behind; Null when the list is empty.
IsTail(t) ==
  \/ t = Null /\ heap_head = Null
  \/ \E n \in Steps : Nth[n] = t /\ t # Null /\ hdr[t].next = Null

-----------------------------------------------------------------------------
(* heap_extend *)

Run(first, got) == first .. first + got - 1

\* Mutant: the pages are taken to be contiguous without looking.
ContiguousUnchecked(pages, first, got) ==
  /\ got <= pages
  /\ PmmAllocPage(bitmap, first)
  /\ first + got <= MAX_PAGES

\* Asked for `pages` pages, pmm_alloc_page returns got pages in a row.
Contiguous(pages, first, got) ==
  /\ got <= pages
  /\ PmmAllocPage(bitmap, first)
  /\ \A i \in 1 .. got - 1 : PmmAllocPage(bitmap \cup Run(first, i), first + i)

\* The page after the run came from somewhere else.
Stray(pages, first, got, page) ==
  /\ got < pages
  /\ PmmAllocPage(bitmap \cup Run(first, got), page)
  /\ page # first + got

\* The page allocator's share of heap_extend: the loop ends with all the
\* pages, with the memory exhausted, or with a stray page, which it gives back.
TakePages(pages, first, got) ==
  LET taken == bitmap \cup Run(first, got)
  IN  /\ Contiguous(pages, first, got)
      /\ \/ /\ got = pages \/ Pages \subseteq taken
            /\ bitmap' = taken
            /\ free_pages_count' = free_pages_count - got
         \/ \E page \in Pages :
              LET s == PmmFreePage([bits |-> taken \cup {page},
                                    count |-> free_pages_count - (got + 1)], page)
              IN  /\ Stray(pages, first, got, page)
                  /\ bitmap' = s.bits
                  /\ free_pages_count' = s.count
      /\ UNCHANGED mmap

ExtentSize(got) == got * PAGE_SIZE - HDR

\* The list of h with the free block b of that size appended behind tail.
Appended(h, b, size, tail) ==
  [a \in DOMAIN h \cup {b} |->
     IF a = b THEN [size |-> size, free |-> TRUE, next |-> Null, prev |-> tail]
     ELSE IF a = tail THEN [h[a] EXCEPT !.next = b]
     ELSE h[a]]

\* kmalloc's split: block a of h keeps size bytes, the rest becomes a free
\* block of its own when it is large enough; then a is marked used.
Splits(h, a, size) == h[a].size >= size + HDR + MIN_SPLIT_SIZE

Placed(h, a, size) ==
  LET rem == a + HDR + size
  IN  IF Splits(h, a, size)
      THEN [x \in DOMAIN h \cup {rem} |->
              IF x = rem
              THEN [size |-> h[a].size - size - HDR, free |-> TRUE,
                    next |-> h[a].next, prev |-> a]
              ELSE IF x = a
              THEN [size |-> size, free |-> FALSE, next |-> rem, prev |-> h[a].prev]
              ELSE IF x = h[a].next THEN [h[x] EXCEPT !.prev = rem]
              ELSE h[x]]
      ELSE [h EXCEPT ![a].free = FALSE]

\* What kmalloc writes once it has its block: the split, the counters, and
\* the pointer handed to the client.
Granted(h, free0, a, req) ==
  LET h2 == Placed(h, a, AlignUp(req))
  IN  /\ hdr' = h2
      /\ free_bytes' = (free0 - h2[a].size) % WORD
      /\ used_bytes' = (used_bytes + h2[a].size) % WORD
      /\ live' = [p \in DOMAIN live \cup {a + HDR} |->
                    IF p = a + HDR THEN req ELSE live[p]]

-----------------------------------------------------------------------------
Init ==
  /\ PmmInit
  /\ heap_head = Null
  /\ hdr = [a \in {} |-> 0]
  /\ used_bytes = 0 /\ free_bytes = 0
  /\ up = FALSE
  /\ live = [p \in {} |-> 0]

\* heap_init when there is a page to start from, and when there is none.
HeapInit ==
  /\ ~up
  /\ up' = TRUE
  /\ \E first \in Pages, got \in 1 .. MAX_PAGES :
       /\ TakePages(HEAP_INITIAL_PAGES, first, got)
       /\ heap_head' = first * PAGE_SIZE
       /\ hdr' = Appended([a \in {} |-> 0], first * PAGE_SIZE, ExtentSize(got), Null)
       /\ free_bytes' = ExtentSize(got)
  /\ used_bytes' = 0
  /\ UNCHANGED live

HeapInitNoMemory ==
  /\ ~up
  /\ FreePages = {}
  /\ up' = TRUE
  /\ heap_head' = Null
  /\ used_bytes' = 0 /\ free_bytes' = 0
  /\ UNCHANGED <<pmmVars, hdr, live>>

\* kmalloc finds a free block that is large enough.
KmallocFit(req) ==
  /\ up
  /\ \E a \in Blocks : /\ FirstFit(a, AlignUp(req))
                       /\ Granted(hdr, free_bytes, a, req)
  /\ UNCHANGED <<pmmVars, heap_head, up>>

\* kmalloc finds no block and grows the heap behind the block tail.
Grown(pages, first, got, tail) ==
  /\ TakePages(pages, first, got)
  /\ IsTail(tail)
  /\ heap_head' = IF tail = Null THEN first * PAGE_SIZE ELSE heap_head
  /\ UNCHANGED up

KmallocGrow(req) ==
  /\ up
  /\ NoFit(AlignUp(req))
  /\ \E first \in Pages, got \in 1 .. MAX_PAGES, tail \in Blocks \cup {Null} :
       /\ Grown(NeedPages(AlignUp(req)), first, got, tail)
       /\ ExtentSize(got) >= AlignUp(req)
       /\ Granted(Appended(hdr, first * PAGE_SIZE, ExtentSize(got), tail),
                  free_bytes + ExtentSize(got), first * PAGE_SIZE, req)

\* The run is too short: kmalloc returns NULL, and the heap keeps the pages.
KmallocTooShort(req) ==
  /\ up
  /\ NoFit(AlignUp(req))
  /\ \E first \in Pages, got \in 1 .. MAX_PAGES, tail \in Blocks \cup {Null} :
       /\ Grown(NeedPages(AlignUp(req)), first, got, tail)
       /\ ExtentSize(got) < AlignUp(req)
       /\ hdr' = Appended(hdr, first * PAGE_SIZE, ExtentSize(got), tail)
       /\ free_bytes' = (free_bytes + ExtentSize(got)) % WORD
       /\ UNCHANGED <<used_bytes, live>>

\* No page is left, so kmalloc returns NULL and nothing changes.
KmallocNoMemory(req) ==
  /\ up
  /\ FreePages = {}
  /\ NoFit(AlignUp(req))
  /\ UNCHANGED vars

\* Mutant: the block behind the merged pair keeps its old prev pointer.
MergedStalePrev(h, lower, higher) ==
  [a \in DOMAIN h \ {higher} |->
     IF a = lower
     THEN [h[a] EXCEPT !.size = h[lower].size + HDR + h[higher].size,
                       !.next = h[higher].next]
     ELSE h[a]]

\* try_merge absorbs the upper of two blocks when the neighbor exists and is
\* free and the two are adjacent in memory.
Merged(h, lower, higher) ==
  [a \in DOMAIN h \ {higher} |->
     IF a = lower
     THEN [h[a] EXCEPT !.size = h[lower].size + HDR + h[higher].size,
                       !.next = h[higher].next]
     ELSE IF a = h[higher].next THEN [h[a] EXCEPT !.prev = lower]
     ELSE h[a]]

\* Mutant: a neighbor in use is merged too.
MergeableUsed(h, neighbor) == neighbor # Null

Mergeable(h, neighbor) == neighbor # Null /\ h[neighbor].free

TryMerge(h, block, neighbor, neighbor_is_next) ==
  LET lower  == IF neighbor_is_next THEN block ELSE neighbor
      higher == IF neighbor_is_next THEN neighbor ELSE block
  IN  IF Mergeable(h, neighbor) /\ End(h, lower) = higher
      THEN Merged(h, lower, higher)
      ELSE h

\* Mutant: only the next neighbor is merged.
FreedForward(h, a) ==
  LET h1 == [h EXCEPT ![a].free = TRUE]
  IN  TryMerge(h1, a, h1[a].next, TRUE)

\* The headers kfree leaves: the block is marked free, then merged with its
\* next and with its previous neighbor.
Freed(h, a) ==
  LET h1 == [h EXCEPT ![a].free = TRUE]
      h2 == TryMerge(h1, a, h1[a].next, TRUE)
  IN  TryMerge(h2, a, h2[a].prev, FALSE)

\* Mutant: the counters are adjusted after the merge, by the merged size.
KfreeLate(ptr) ==
  LET a == ptr - HDR
      freed == TryMerge([hdr EXCEPT ![a].free = TRUE], a, hdr[a].next, TRUE)
  IN  /\ up
      /\ hdr' = Freed(hdr, a)
      /\ used_bytes' = (used_bytes - freed[a].size) % WORD
      /\ free_bytes' = (free_bytes + freed[a].size) % WORD
      /\ live' = [p \in DOMAIN live \ {ptr} |-> live[p]]
      /\ UNCHANGED <<pmmVars, heap_head, up>>

\* kfree.  A client frees only what it holds.
Kfree(ptr) ==
  /\ up
  /\ hdr' = Freed(hdr, ptr - HDR)
  /\ used_bytes' = (used_bytes - hdr[ptr - HDR].size) % WORD
  /\ free_bytes' = (free_bytes + hdr[ptr - HDR].size) % WORD
  /\ live' = [p \in DOMAIN live \ {ptr} |-> live[p]]
  /\ UNCHANGED <<pmmVars, heap_head, up>>

Next ==
  \/ HeapInit
  \/ HeapInitNoMemory
  \/ \E req \in Requests : KmallocFit(req)
  \/ \E req \in Requests : KmallocGrow(req)
  \/ \E req \in Requests : KmallocTooShort(req)
  \/ \E req \in Requests : KmallocNoMemory(req)
  \/ \E ptr \in DOMAIN live : Kfree(ptr)

Spec == Init /\ [][Next]_vars

-----------------------------------------------------------------------------
(* Correctness *)

TypeOK ==
  /\ bitmap \subseteq Pages
  /\ free_pages_count \in Int
  /\ heap_head \in Nat
  /\ Blocks \subseteq Nat \ {Null}
  /\ hdr \in [Blocks -> Header]
  /\ used_bytes \in 0 .. WORD - 1
  /\ free_bytes \in 0 .. WORD - 1
  /\ up \in BOOLEAN
  /\ DOMAIN live \subseteq Nat
  /\ live \in [DOMAIN live -> Sizes]

\* Blocks of h never overlap.
Disjoint(h) == \A a, b \in DOMAIN h : a < b => End(h, a) <= b

\* The next pointer of a block of h is the block that follows it in memory.
NextFollows(h) ==
  \A a \in DOMAIN h :
    IF h[a].next = Null
    THEN \A b \in DOMAIN h : b <= a
    ELSE /\ h[a].next \in DOMAIN h
         /\ a < h[a].next
         /\ \A b \in DOMAIN h : a < b => h[a].next <= b

PrevPrecedes(h) ==
  \A a \in DOMAIN h :
    IF h[a].prev = Null
    THEN \A b \in DOMAIN h : a <= b
    ELSE /\ h[a].prev \in DOMAIN h
         /\ h[a].prev < a
         /\ \A b \in DOMAIN h : b < a => b <= h[a].prev

HeadFirst(h, head) ==
  IF head = Null THEN DOMAIN h = {}
  ELSE head \in DOMAIN h /\ \A b \in DOMAIN h : head <= b

\* "list order matching address order is an invariant we maintain"
\* (heap.c:140): through splits, merges on both sides and growth, the list is
\* exactly the blocks in the order of their addresses, in both directions,
\* and no two blocks overlap.
AddressOrdered ==
  /\ Disjoint(hdr)
  /\ NextFollows(hdr)
  /\ PrevPrecedes(hdr)
  /\ HeadFirst(hdr, heap_head)

\* "heap_extend always gets a higher address than anything already in the
\* heap" (heap.c:64): no free page lies below the end of a block.
FreePagesAbove ==
  \A f \in FreePages, a \in Blocks : End(hdr, a) <= f * PAGE_SIZE

\* What clients hold never overlaps: the bytes a client asked for end before
\* the header of the next pointer handed out, and lie clear of the kernel's
\* image.  A request that align_up wraps to 0 is the exception.
GrantsDisjoint ==
  \A p \in DOMAIN live :
    live[p] <= WORD - ALIGNMENT =>
      /\ p - HDR > KERNEL_END
      /\ \A q \in DOMAIN live : p < q => p + live[p] <= q - HDR

\* The pointers clients hold are exactly the blocks marked used.
LiveIsUsed == DOMAIN live = {a + HDR : a \in {b \in Blocks : ~hdr[b].free}}

\* used_bytes, reported to the user as the heap in use, is exactly what the
\* blocks handed out hold, whatever splits and merges happened in between.
UsedExact ==
  used_bytes = SumFunctionOnSet([a \in Blocks |-> hdr[a].size],
                                {a \in Blocks : ~hdr[a].free})

\* Pages the heap took from the page allocator.
HeapPages == bitmap \ BootBitmap(mmap)

\* No byte is lost: headers and payloads of the blocks add up to the pages
\* taken, so a page that heap_extend could not use went back.
NoPageLeak ==
  PAGE_SIZE * Cardinality(HeapPages) =
    SumFunctionOnSet([a \in Blocks |-> HDR + hdr[a].size], Blocks)

\* "we only free pages the memory map explicitly tells us are usable RAM"
\* (pmm.c:32): every byte of every block is usable, where regions end inside a
\* page, overlap, reach past the managed memory or leave a hole that a run of
\* pages comes to.  There are two exceptions: what pmm_init releases in front of
\* a region that starts inside a page, and what it releases for a region so high
\* that the number of its first page loses bits (pmm.c:55).
BlocksInUsableRam ==
  \A a \in Blocks : \A x \in a .. End(hdr, a) - 1 :
    UsableByte(x) \/ InFront(x) \/ Truncated(x)

\* kfree coalesces eagerly: two free neighbors that touch are two extensions
\* of the heap that meet at a page boundary, never the two halves of a split.
Coalesced ==
  \A a, b \in Blocks :
    (hdr[a].free /\ hdr[b].free /\ End(hdr, a) = b) => b % PAGE_SIZE = 0

\* An allocation survives the step, with its address and its size, or is the
\* one the step frees.
Survives(p) ==
  \/ /\ p \in DOMAIN live' /\ live'[p] = live[p]
     /\ p - HDR \in DOMAIN hdr'
     /\ hdr'[p - HDR].size = hdr[p - HDR].size
  \/ DOMAIN live' = DOMAIN live \ {p}

\* No kmalloc or kfree moves, shrinks or forgets an allocation it is not about,
\* whatever it splits, merges or appends.
LiveUntouched == [][\A p \in DOMAIN live : Survives(p)]_vars

-----------------------------------------------------------------------------
(* The inductive invariant behind AddressOrdered and GrantsDisjoint *)

\* A block handed out is as large as what was asked for.
GrantsFit ==
  \A p \in DOMAIN live :
    live[p] <= WORD - ALIGNMENT => live[p] <= hdr[p - HDR].size

\* The heap starts above the kernel image.
AboveKernel ==
  /\ KernelPages \subseteq bitmap
  /\ \A a \in Blocks : a > KERNEL_END

BeforeInit == ~up => Blocks = {} /\ DOMAIN live = {} /\ heap_head = Null

\* A step of the heap, from any state that satisfies it, keeps it: the list
\* is in address order only because the free pages lie above the blocks, and
\* grants are disjoint only because they fit their blocks.
HeapInv ==
  /\ TypeOK
  /\ AddressOrdered
  /\ FreePagesAbove
  /\ LiveIsUsed
  /\ GrantsFit
  /\ AboveKernel
  /\ BeforeInit

-----------------------------------------------------------------------------
(* The inductive invariant behind UsedExact, NoPageLeak, Coalesced and     *)
(* BlocksInUsableRam                                                       *)

\* Every byte of a block is in a page the heap took.
OnHeapPages ==
  \A a \in Blocks : \A x \in a .. End(hdr, a) - 1 : x \div PAGE_SIZE \in HeapPages

\* The sum of the blocks in use stays below WORD, where used_bytes would wrap,
\* because all the blocks together are the pages taken.
HeapBooks ==
  /\ mmap \in MemoryMaps
  /\ BootBitmap(mmap) \subseteq bitmap
  /\ IsFiniteSet(Blocks)
  /\ OnHeapPages
  /\ Coalesced
  /\ NoPageLeak
  /\ UsedExact

=============================================================================

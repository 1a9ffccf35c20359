----------------------------- MODULE BootProofs -----------------------------
(* Interrupts during the bring-up: what Boot promises, proved. *)
EXTENDS Boot, TLAPS

\* What the sizes are; a directory has room for the tables.
LEMMA Sizes ==
  /\ PAGE_SIZE \in Nat \ {0} /\ ENTRIES_PER_TABLE \in Nat \ {0}
  /\ TABLES_NEEDED \in Nat /\ TABLES_NEEDED <= ENTRIES_PER_TABLE
<1> DEFINE E == ENTRIES_PER_TABLE
           w == PAGE_SIZE * E
           q == IDENTITY_MAP \div w
<1>1. PAGE_SIZE \in Nat \ {0} /\ E \in Nat \ {0} /\ IDENTITY_MAP \in Nat /\ IDENTITY_MAP <= w * E
  BY BootAssumption
<1>2. w \in Nat \ {0}
  BY <1>1
<1> HIDE DEF w
<1>3. q \in Nat /\ w * q <= IDENTITY_MAP
  BY <1>1, <1>2
<1> HIDE DEF q
<1>4. q <= E
  <2> SUFFICES ASSUME q > E PROVE FALSE
    BY <1>1, <1>3
  <2>1. PICK k \in Nat : q = E + 1 + k
    BY <1>1, <1>3, q - E - 1 \in Nat, q = E + 1 + (q - E - 1)
  <2>2. w * q = w * E + w + w * k /\ w * k \in Nat /\ w * E \in Nat
    BY <1>1, <1>2, <2>1
  <2> QED
    BY <1>1, <1>2, <1>3, <2>2
<1> QED
  BY <1>1, <1>3, <1>4 DEF q, w, TABLES_NEEDED

LEMMA InitInv == Init => BootInv
<1> SUFFICES ASSUME Init PROVE BootInv
  OBVIOUS
<1>1. PagesOK
  BY Sizes DEF Init, PagesOK, Tables, Entries, ABSENT
<1> QED
  BY <1>1 DEF Init, BootInv, TypeOK, Steps, Remapped, Filtered, Gated, Ready, Enabled,
         NoStrayInterrupt, Lines, TIMER, KEYBOARD, CASCADE

\* Whatever leaves the directory and the tables alone leaves them in order.
LEMMA PagesStay ==
  ASSUME PagesOK, UNCHANGED mmu, pc' = pc \/ pc' # "enable"
  PROVE  PagesOK'
BY DEF mmu, PagesOK

\* The line that is delivered is the keyboard's, and its gate is in place.
LEMMA DeliverInv == BootInv /\ Deliver => BootInv'
<1> SUFFICES ASSUME BootInv, Deliver PROVE BootInv'
  OBVIOUS
<1>1. pc \in Enabled /\ pc \in Remapped /\ pc \in Filtered /\ pc \in Gated /\ pc \in Ready
  BY DEF BootInv, Deliver, Remapped, Filtered, Gated, Ready, Enabled
<1>2. base = EXCEPTIONS /\ mask = Masked /\ gates = IdtGates /\ table_loaded
  BY <1>1 DEF BootInv
<1>3. PICK line \in Lines :
        /\ line \in requested \ mask
        /\ requested' = requested \ {line}
        /\ serving' = serving \cup {line}
        /\ handler' = gates[base + line]
  BY <1>2 DEF Deliver, Reported
<1>4. line = KEYBOARD
  BY <1>2, <1>3 DEF Masked
<1>5. handler' = "keyboard"
  BY <1>2, <1>3, <1>4 DEF IdtGates, Vectors, EXCEPTIONS, KEYBOARD, CASCADE
<1> QED
  BY <1>1, <1>2, <1>3, <1>5, PagesStay
  DEF BootInv, TypeOK, Deliver, InterruptGate, NoStrayInterrupt, mmu

LEMMA HandlerInv == BootInv /\ (HandlerReads \/ HandlerEnds) => BootInv'
<1> SUFFICES ASSUME BootInv PROVE (HandlerReads \/ HandlerEnds) => BootInv'
  OBVIOUS
<1>1. ASSUME HandlerReads PROVE BootInv'
  BY <1>1, PagesStay DEF HandlerReads, ReadByte, BootInv, TypeOK, NoStrayInterrupt, mmu
<1>2. ASSUME HandlerEnds PROVE BootInv'
  BY <1>2, PagesStay DEF HandlerEnds, BootInv, TypeOK, NoStrayInterrupt, mmu
<1> QED
  BY <1>1, <1>2

LEMMA DeviceInv ==
  ASSUME NEW line \in Lines, BootInv, Rise(line) \/ Fall(line)
  PROVE  BootInv'
<1>1. CASE Rise(line)
  BY <1>1, PagesStay DEF Rise, BootInv, TypeOK, NoStrayInterrupt, mmu
<1>2. CASE Fall(line)
  BY <1>2, PagesStay DEF Fall, pic, BootInv, TypeOK, NoStrayInterrupt, mmu
<1> QED
  BY <1>1, <1>2

\* A table is filled and entered, the rest is marked, paging is enabled.
LEMMA FillPages ==
  ASSUME PagesOK, PagingInit
  PROVE  PagesOK'
<1>1. CASE FillTable
  <2>1. /\ filled \in Nat /\ filled < TABLES_NEEDED /\ filled' = filled + 1
        /\ paging' = paging /\ pc' = "paging" /\ pc = "paging"
        /\ page_tables' = [page_tables EXCEPT ![filled] = [e \in Entries |-> Phys(filled, e)]]
        /\ page_directory' = [page_directory EXCEPT ![filled] = filled]
    BY <1>1, Sizes DEF FillTable, Goto, PagesOK
  <2>2. filled \in Tables /\ filled \in Entries
    BY <2>1, Sizes DEF Tables, Entries
  <2>3. [e \in Entries |-> Phys(filled, e)] \in [Entries -> Int]
    BY <2>1, Sizes DEF Phys, Entries
  <2>4. page_tables' \in [Tables -> [Entries -> Int]]
    BY <2>1, <2>2, <2>3 DEF PagesOK
  <2>5. ASSUME NEW t \in 0 .. (filled' - 1), NEW e \in Entries
        PROVE  page_tables'[t][e] = Phys(t, e)
    <3>1. CASE t = filled
      <4>1. page_tables'[filled] = [x \in Entries |-> Phys(filled, x)]
        BY <2>1, <2>2 DEF PagesOK
      <4> QED
        BY <3>1, <4>1
    <3>2. CASE t # filled
      <4>1. t \in 0 .. (filled - 1) /\ t \in Tables
        BY <2>1, <3>2, Sizes DEF Tables
      <4>2. page_tables'[t] = page_tables[t]
        BY <2>1, <3>2, <4>1 DEF PagesOK
      <4> QED
        BY <4>1, <4>2 DEF PagesOK
    <3> QED
      BY <3>1, <3>2
  <2>6. page_directory' = [t \in Entries |-> IF t < filled' THEN t ELSE ABSENT]
    <3>1. page_directory = [t \in Entries |-> IF t < filled THEN t ELSE ABSENT]
      BY DEF PagesOK
    <3>2. page_directory' = [t \in Entries |-> IF t = filled THEN filled ELSE page_directory[t]]
      BY <2>1, <3>1
    <3>3. ASSUME NEW t \in Entries
          PROVE  (IF t = filled THEN filled ELSE page_directory[t])
                   = IF t < filled' THEN t ELSE ABSENT
      <4>1. t \in Nat /\ filled \in Nat /\ filled' = filled + 1
        BY <2>1, Sizes DEF Entries
      <4>2. t < filled' <=> t < filled \/ t = filled
        BY <4>1
      <4>3. page_directory[t] = IF t < filled THEN t ELSE ABSENT
        BY <3>1
      <4> QED
        BY <4>1, <4>2, <4>3
    <3> QED
      BY <3>2, <3>3
  <2>7. paging => FALSE
    BY <2>1, Sizes DEF PagesOK
  <2> QED
    BY <2>1, <2>4, <2>5, <2>6, <2>7, Sizes DEF PagesOK
<1>2. CASE ClearDirectory
  <2>1. /\ filled = TABLES_NEEDED /\ UNCHANGED <<filled, page_tables, paging>>
        /\ page_directory' = [t \in Entries |-> IF t < filled THEN page_directory[t] ELSE ABSENT]
    BY <1>2 DEF ClearDirectory
  <2>2. page_directory' = page_directory
    BY <2>1 DEF PagesOK
  <2> QED
    BY <2>1, <2>2 DEF PagesOK
<1>3. CASE EnablePaging
  BY <1>3 DEF EnablePaging, Goto, PagesOK
<1> QED
  BY <1>1, <1>2, <1>3 DEF PagingInit

\* Every step of kernel_start adds its part and takes none away.
LEMMA StartInv == BootInv /\ Start => BootInv'
<1> SUFFICES ASSUME BootInv, Start PROVE BootInv'
  OBVIOUS
<1> USE DEF Goto, BootInv, TypeOK, NoStrayInterrupt, Steps, Remapped, Filtered, Gated, Ready,
            Enabled, pic, mmu
<1>1. CASE Cli
  BY <1>1, PagesStay DEF Cli
<1>2. CASE PicReset
  BY <1>2, PagesStay DEF PicReset
<1>3. CASE PicVectors
  BY <1>3, PagesStay DEF PicVectors
<1>4. CASE PicMask
  BY <1>4, PagesStay DEF PicMask, Masked
<1>5. CASE SetGates
  BY <1>5, PagesStay DEF SetGates
<1>6. CASE IdtLoad
  BY <1>6, PagesStay DEF IdtLoad
<1>7. CASE Drain
  BY <1>7, PagesStay DEF Drain, ReadByte
<1>8. CASE Sti
  BY <1>8, PagesStay DEF Sti
<1>9. CASE PagingInit
  <2>1. PagesOK'
    BY <1>9, FillPages
  <2>2. /\ pc \in {"paging", "enable"} /\ pc' \in {"paging", "enable", "heap"}
        /\ UNCHANGED <<interrupts, pic, up, gates, table_loaded, handler>>
        /\ paging' \in {paging, TRUE}
    BY <1>9 DEF PagingInit, FillTable, ClearDirectory, EnablePaging
  <2> QED
    BY <2>1, <2>2
<1>10. CASE Rest
  BY <1>10, PagesStay DEF Rest
<1> QED
  BY <1>1, <1>2, <1>3, <1>4, <1>5, <1>6, <1>7, <1>8, <1>9, <1>10 DEF Start

\* The invariant of the bring-up: what has been set up stays, and no interrupt
\* is taken before all of it is.
THEOREM BootInvariant == Spec => []BootInv
<1>1. BootInv /\ [Next]_vars => BootInv'
  <2> SUFFICES ASSUME BootInv, [Next]_vars PROVE BootInv'
    OBVIOUS
  <2>1. CASE Start
    BY <2>1, StartInv
  <2>2. CASE Interrupt
    BY <2>2, DeliverInv, HandlerInv DEF Interrupt
  <2>3. CASE \E line \in Lines : Rise(line) \/ Fall(line)
    BY <2>3, DeviceInv
  <2>4. CASE UNCHANGED vars
    BY <2>4, PagesStay DEF vars, pic, mmu, BootInv, TypeOK, NoStrayInterrupt
  <2> QED
    BY <2>1, <2>2, <2>3, <2>4 DEF Next
<1> QED
  BY <1>1, InitInv, PTL DEF Spec

\* An interrupt that is delivered finds the handler of its device, at whatever
\* moment of kernel_start a line rises.
THEOREM BootNoStrayInterrupt == Spec => []NoStrayInterrupt
<1>1. BootInv => NoStrayInterrupt
  BY DEF BootInv
<1> QED
  BY <1>1, BootInvariant, PTL

\* The ranges of the variables; a handler runs with interrupts off.
THEOREM BootTypeOK == Spec => []TypeOK
<1>1. BootInv => TypeOK
  BY DEF BootInv
<1> QED
  BY <1>1, BootInvariant, PTL

-----------------------------------------------------------------------------
(* Paging *)

\* The quotient and the remainder are the only ones.
LEMMA Quotient ==
  ASSUME NEW a \in Nat, NEW w \in Nat \ {0}, NEW q \in Nat, w * q <= a, a < w * q + w
  PROVE  a \div w = q
<1> DEFINE d == a \div w
<1>1. d \in Nat /\ w * d <= a /\ a < w * d + w
  OBVIOUS
<1> HIDE DEF d
<1>2. ASSUME NEW x \in Nat, NEW y \in Nat, w * x <= a, a < w * y + w PROVE x <= y
  <2> SUFFICES ASSUME x > y PROVE FALSE
    OBVIOUS
  <2>1. PICK k \in Nat : x = y + 1 + k
    BY x - y - 1 \in Nat, x = y + 1 + (x - y - 1)
  <2>2. w * x = w * y + w + w * k /\ w * k \in Nat /\ w * y \in Nat
    BY <2>1
  <2> QED
    BY <1>2, <2>2
<1>3. d <= q /\ q <= d
  BY <1>1, <1>2
<1> QED
  BY <1>1, <1>3 DEF d

\* Smaller factors make a smaller product.
LEMMA ProductBound ==
  ASSUME NEW w \in Nat, NEW x \in Nat, NEW y \in Nat, x < y
  PROVE  w * x + w <= w * y
<1>1. PICK k \in Nat : y = x + 1 + k
  BY y - x - 1 \in Nat, y = x + 1 + (y - x - 1)
<1>2. w * y = w * x + w + w * k /\ w * k \in Nat /\ w * x \in Nat
  BY <1>1
<1> QED
  BY <1>2

\* The table and the entry of an address lead to its page, whatever the sizes,
\* or the directory has no such table.
LEMMA TranslateIs ==
  ASSUME BootInv, NEW addr \in Nat
  PROVE  LET page == addr \div PAGE_SIZE
         IN  \/ Translate(addr) = addr
             \/ page >= TABLES_NEEDED * ENTRIES_PER_TABLE /\ Translate(addr) = -1
<1> DEFINE P == PAGE_SIZE
<1> DEFINE E == ENTRIES_PER_TABLE
<1> DEFINE T == TABLES_NEEDED
<1> DEFINE page == addr \div P
<1> DEFINE offset == addr % P
<1> DEFINE table == page \div E
<1> DEFINE entry == page % E
<1> DEFINE dir == addr \div (P * E)
<1>1. P \in Nat \ {0} /\ E \in Nat \ {0} /\ T \in Nat /\ T <= E
  BY Sizes
<1>2. page \in Nat /\ offset \in Nat /\ offset < P /\ addr = P * page + offset
  BY <1>1
<1>3. table \in Nat /\ entry \in Nat /\ entry < E /\ page = E * table + entry
  <2> HIDE DEF page
  <2> QED
    BY <1>1, <1>2
<1>4. Translate(addr) =
        IF ~paging THEN addr
        ELSE IF dir \notin Entries \/ page_directory[dir] = ABSENT THEN -1
        ELSE IF page_tables[page_directory[dir]][entry] = ABSENT THEN -1
        ELSE page_tables[page_directory[dir]][entry] + offset
  BY DEF Translate
<1> HIDE DEF page, offset, table, entry
<1>5. dir = table
  <2>1. P * E \in Nat \ {0}
    BY <1>1
  <2>2. P * page = (P * E) * table + P * entry
    BY <1>1, <1>2, <1>3
  <2>3. P * entry + P <= P * E /\ P * entry \in Nat
    BY <1>1, <1>3, ProductBound
  <2>4. (P * E) * table <= addr /\ addr < (P * E) * table + P * E
    BY <1>1, <1>2, <1>3, <2>1, <2>2, <2>3
  <2> QED
    BY <1>3, <2>1, <2>4, Quotient
<1> HIDE DEF dir
<1>6. Phys(table, entry) + offset = addr /\ Phys(table, entry) \in Nat
  BY <1>1, <1>2, <1>3 DEF Phys
<1>7. /\ filled \in 0 .. T /\ (paging => filled = T)
      /\ page_directory = [t \in Entries |-> IF t < filled THEN t ELSE ABSENT]
      /\ \A t \in 0 .. (filled - 1), e \in Entries : page_tables[t][e] = Phys(t, e)
  BY DEF BootInv, PagesOK
<1>8. CASE ~paging
  BY <1>4, <1>8
<1>9. CASE paging /\ table < T
  <2>1. table \in Entries /\ entry \in Entries /\ table \in 0 .. (filled - 1)
    BY <1>1, <1>3, <1>7, <1>9 DEF Entries
  <2>2. page_directory[table] = table /\ table # ABSENT
    BY <1>3, <1>7, <1>9, <2>1 DEF ABSENT
  <2>3. page_tables[table][entry] = Phys(table, entry) /\ Phys(table, entry) # ABSENT
    BY <1>6, <1>7, <2>1 DEF ABSENT
  <2>4. Translate(addr) = Phys(table, entry) + offset
    BY <1>4, <1>5, <1>9, <2>1, <2>2, <2>3
  <2> QED
    BY <1>6, <2>4
<1>10. CASE paging /\ ~(table < T)
  <2>1. table \in Entries => page_directory[table] = ABSENT
    BY <1>7, <1>10
  <2>2. Translate(addr) = -1
    BY <1>4, <1>5, <1>10, <2>1
  <2>3. PICK k \in Nat : table = T + k
    BY <1>1, <1>3, <1>10, table - T \in Nat, table = T + (table - T)
  <2>4. E * table = T * E + E * k /\ E * k \in Nat /\ T * E \in Nat
    BY <1>1, <2>3
  <2>5. page >= T * E
    BY <1>1, <1>3, <2>4
  <2> QED
    BY <2>2, <2>5 DEF page
<1> QED
  BY <1>8, <1>9, <1>10

\* While the two sizes match, as paging.c asks, every address the page allocator
\* can hand out is mapped to itself from the moment paging is enabled, and
\* every other one is, or faults, for every size of page, table and directory.
THEOREM BootIdentityMapped ==
  ASSUME SizesMatch PROVE Spec => []IdentityMapped
<1>1. MAX_PAGES = TABLES_NEEDED * ENTRIES_PER_TABLE
  <2>1. PAGE_SIZE \in Nat \ {0} /\ TABLES_NEEDED \in Nat /\ ENTRIES_PER_TABLE \in Nat
        /\ MAX_MANAGED_MEMORY = TABLES_NEEDED * (PAGE_SIZE * ENTRIES_PER_TABLE)
    BY Sizes DEF SizesMatch
  <2>2. PICK q \in Nat : q = TABLES_NEEDED * ENTRIES_PER_TABLE
    BY <2>1
  <2>3. MAX_MANAGED_MEMORY = PAGE_SIZE * q /\ PAGE_SIZE * q \in Nat
    BY <2>1, <2>2
  <2>4. MAX_MANAGED_MEMORY \div PAGE_SIZE = q
    BY <2>1, <2>3, Quotient
  <2> QED
    BY <2>2, <2>4 DEF MAX_PAGES
<1>2. BootInv => IdentityMapped
  <2> SUFFICES ASSUME BootInv,
                      NEW page \in 0 .. (ENTRIES_PER_TABLE * ENTRIES_PER_TABLE - 1),
                      NEW addr \in {page * PAGE_SIZE, page * PAGE_SIZE + PAGE_SIZE - 1}
               PROVE  \/ Translate(addr) = addr
                      \/ page >= MAX_PAGES /\ Translate(addr) = -1
    BY DEF IdentityMapped
  <2>1. PAGE_SIZE \in Nat \ {0} /\ page \in Nat
    BY Sizes
  <2>2. PAGE_SIZE * page \in Nat /\ page * PAGE_SIZE = PAGE_SIZE * page
    BY <2>1
  <2>3. addr \in Nat /\ PAGE_SIZE * page <= addr /\ addr < PAGE_SIZE * page + PAGE_SIZE
    BY <2>1, <2>2
  <2>4. addr \div PAGE_SIZE = page
    BY <2>1, <2>3, Quotient
  <2> QED
    BY <1>1, <2>3, <2>4, TranslateIs
<1> QED
  BY <1>2, BootInvariant, PTL

=============================================================================

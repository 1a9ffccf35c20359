------------------------------- MODULE Fat16 --------------------------------
(***************************************************************************)
(* The FAT16 volume of fs/fat16.c on one partition: formatting, mounting,  *)
(* making directories and files, finding and reading them back.            *)
(*                                                                         *)
(* Every step is one sector written through the ATA driver, so that power  *)
(* can fail between any two of them and any access can fail on its own.    *)
(* Searches only read; they belong to the step that uses their result.     *)
(* Sizes are counted in sectors.  A directory sector holds SLOTS entries;  *)
(* a sector of file contents fills its slots with the contents instead,    *)
(* as the same bytes would be seen by a directory search.                  *)
(***************************************************************************)
EXTENDS Integers, Sequences, FiniteSets, SequencesExt

CONSTANTS
  FAT_ENTRIES,          \* entries of one FAT copy, max_cluster: 65536
  FAT_SECTOR,           \* entries in one sector of it
  EOC_MIN, EOC,         \* the entries that end a chain, 0xFFF8 to 0xFFFF
  CLUSTERS,             \* clusters the partition has room for
  MIN_CLUSTERS, MAX_CLUSTERS,   \* what fat16_format accepts
  SECTORS_PER_CLUSTER, ROOT_SECTORS, SLOTS,
  Dirs, Files,          \* names of directories and of files
  SizeOf,               \* the size of each file, in sectors
  Junk,                 \* what a buffer that was not read holds, as FAT entries
  Faults,               \* the kinds of access that can fail, and power
  FORMATS,              \* bound: how often a format finishes
  FAT_FAILURES          \* bound: unchecked failures between two formats

VARIABLES
  boot, fat, root, data,   \* the partition: boot sector, FATs, directory, clusters
  mounted,                 \* fat16.c
  call,                    \* the call in progress and its locals
  formatted, created,      \* history: the last format finished; what was made since
  fat_failures,            \* history: accesses to the FAT that failed since, unchecked
  formats                  \* formats finished

disk == <<boot, fat, root, data>>
history == <<formatted, created, fat_failures, formats>>
vars == <<disk, mounted, call, history>>

Copies == 1..2            \* NUM_FATS
FREE_CLUSTER == 0
ROOT == 0                 \* a dir_cluster that stands for the root directory

FaultKinds == {"data", "dir", "fat_read", "fat_write", "format", "boot", "mbr", "power"}

ASSUME Fat16Assumption ==
  /\ {FAT_ENTRIES, EOC_MIN, EOC} \subseteq Nat
  /\ FAT_SECTOR \in 2..FAT_ENTRIES
  /\ CLUSTERS \in 1..(FAT_ENTRIES - 2)
  /\ CLUSTERS + 1 < EOC_MIN /\ EOC_MIN <= EOC /\ FAT_ENTRIES <= EOC + 1
  /\ MIN_CLUSTERS \in Nat /\ MAX_CLUSTERS \in Nat
  /\ {SECTORS_PER_CLUSTER, ROOT_SECTORS} \subseteq Nat \ {0}
  /\ SLOTS \in Nat /\ SLOTS >= 2
  /\ SizeOf \in [Files -> Nat]
  /\ Junk \subseteq 0..EOC
  /\ "stale" \notin Dirs \cup Files     \* marks what was there before
  /\ Faults \subseteq FaultKinds /\ FORMATS \in Nat /\ FAT_FAILURES \in Nat

Entries  == 0..(FAT_ENTRIES - 1)
\* The clusters the partition has sectors for.  The FAT has FAT_SIZE_SECTORS
\* whatever the size of the partition, and so entries for clusters it does not
\* have, the last of which look like end marks.  Partitions made by mkpart end
\* where the drive ends: behind the last cluster every access fails.
InVolume == 2..(CLUSTERS + 1)

-----------------------------------------------------------------------------
(* Sectors *)

Item(kind, name, cluster, size) ==
  [kind |-> kind, name |-> name, cluster |-> cluster, size |-> size]

FreeSlot   == Item("free", "none", 0, 0)
DirEntry(name, cluster)        == Item("dir", name, cluster, 0)
FileEntry(name, cluster, size) == Item("file", name, cluster, size)
\* Sector i of the contents of a file.
Bytes(name, i) == Item("bytes", name, i, 0)

Filled(item) == [k \in 1..SLOTS |-> item]
ZeroSector   == Filled(FreeSlot)
\* What an earlier life of the drive left behind.
StaleSector  == Filled(Item("file", "stale", 2, 1))

-----------------------------------------------------------------------------
(* Reading *)

\* The slots of a directory in the order a search meets them.
Slots(sectors) ==
  [j \in 1..(Len(sectors) * SLOTS) |->
     sectors[1 + ((j - 1) \div SLOTS)][1 + ((j - 1) % SLOTS)]]

\* The sectors of a directory: all of the root's, or those of one cluster.
DirSectors(dir) == IF dir = ROOT THEN root ELSE data[dir]

\* list_dir_sectors: the entries before the first free slot.
Listed(dir) ==
  LET slots == Slots(DirSectors(dir))
      end == SelectInSeq(slots, LAMBDA e : e.kind = "free")
  IN  IF end = 0 THEN slots ELSE SubSeq(slots, 1, end - 1)

\* find_in_sectors: the first listed entry with that name, as a set.
Find(dir, name) ==
  LET listed == Listed(dir)
      i == SelectInSeq(listed, LAMBDA e : e.name = name)
  IN  IF i = 0 THEN {} ELSE {listed[i]}

\* n clusters along the links of a FAT: each one leads to the next, and an end
\* mark stops the walk.
Walk(table, first, n) ==
  LET next(c) == IF c \in Entries THEN table[c] ELSE EOC
      walk[i \in 1..n] ==
        IF i = 1 THEN first
        ELSE IF walk[i - 1] >= EOC_MIN THEN EOC ELSE next(walk[i - 1])
  IN  walk

\* The clusters read for a file.
Chain(first, n) == Walk(fat[1], first, n)

ClustersFor(size) == (size + SECTORS_PER_CLUSTER - 1) \div SECTORS_PER_CLUSTER

\* fat16_read_file: the sectors put in the buffer.  The buffer keeps what it
\* held where the chain ends early, and gets something else where a link
\* leads out of the volume.
ReadFile(first, size) ==
  LET chain == Chain(first, ClustersFor(size))
      sector(i) ==
        LET c == chain[1 + ((i - 1) \div SECTORS_PER_CLUSTER)]
        IN  IF c \in InVolume
            THEN data[c][1 + ((i - 1) % SECTORS_PER_CLUSTER)]
            ELSE StaleSector
  IN  [i \in 1..size |-> sector(i)]

Contents(name) == [i \in 1..SizeOf[name] |-> Filled(Bytes(name, i))]

-----------------------------------------------------------------------------
(* Calls *)

\* No call in progress; the last one returned r.
Idle(r) ==
  [pc |-> "idle", result |-> r, kind |-> "none", name |-> "none", dir |-> ROOT,
   cluster |-> 0, first |-> 0, s |-> 1, remaining |-> 0, links |-> <<>>, then |-> "none"]

InCall == call.pc # "idle"

Begin(pc, then, kind, name, dir, size) ==
  /\ ~InCall
  /\ call' = [Idle(0) EXCEPT !.pc = pc, !.then = then, !.kind = kind,
                             !.name = name, !.dir = dir, !.remaining = size]

Fails(kind) == kind \in Faults

\* An access to the FAT, whose result is not looked at.
FatFails(kind) == Fails(kind) /\ fat_failures < FAT_FAILURES

\* A call that ends with return 0 keeps what it wrote.
GiveUp ==
  /\ call' = Idle(0)
  /\ UNCHANGED <<disk, mounted, history>>

-----------------------------------------------------------------------------
(* fat16_format: boot sector, both FATs, root directory, in this order *)

FatSectors == (FAT_ENTRIES + FAT_SECTOR - 1) \div FAT_SECTOR

FreshEntry(c) ==
  CASE c = 0 -> EOC_MIN [] c = 1 -> EOC [] OTHER -> FREE_CLUSTER

\* The history forgets what was on the volume when the call begins.
StartFormat ==
  IF CLUSTERS \in MIN_CLUSTERS..MAX_CLUSTERS
  THEN /\ formats < FORMATS
       /\ Begin("format_boot", "none", "none", "none", ROOT, 0)
       /\ formatted' = FALSE /\ created' = {} /\ fat_failures' = 0
       /\ UNCHANGED <<disk, mounted, formats>>
  ELSE ~InCall /\ GiveUp

FormatBoot ==
  /\ call.pc = "format_boot"
  /\ boot' = TRUE
  /\ call' = [call EXCEPT !.pc = "format_fat", !.s = 0]
  /\ UNCHANGED <<fat, root, data, mounted, history>>

FormatFat ==
  /\ call.pc = "format_fat"
  /\ LET copy == 1 + (call.s \div FatSectors)
         sector == call.s % FatSectors
     IN  fat' = [fat EXCEPT ![copy] =
           [c \in Entries |-> IF c \div FAT_SECTOR = sector THEN FreshEntry(c) ELSE @[c]]]
  /\ call' = IF call.s + 1 < 2 * FatSectors
             THEN [call EXCEPT !.s = @ + 1]
             ELSE [call EXCEPT !.pc = "format_root", !.s = 1]
  /\ UNCHANGED <<boot, root, data, mounted, history>>

FormatRoot ==
  /\ call.pc = "format_root"
  /\ root' = [root EXCEPT ![call.s] = ZeroSector]
  /\ IF call.s < ROOT_SECTORS
     THEN call' = [call EXCEPT !.s = @ + 1] /\ UNCHANGED <<formatted, formats>>
     ELSE call' = Idle(1) /\ formatted' = TRUE /\ formats' = formats + 1
  /\ UNCHANGED <<boot, fat, data, mounted, created, fat_failures>>

FormatFails ==
  /\ call.pc \in {"format_boot", "format_fat", "format_root"}
  /\ Fails("format")
  /\ GiveUp

Format == FormatBoot \/ FormatFat \/ FormatRoot \/ FormatFails

-----------------------------------------------------------------------------
(* fat16_mount *)

Mount ==
  /\ ~InCall
  /\ boot
  /\ mounted' = TRUE
  /\ call' = Idle(1)
  /\ UNCHANGED <<disk, history>>

MountFails ==
  /\ ~InCall
  /\ ~boot \/ Fails("boot")
  /\ GiveUp

-----------------------------------------------------------------------------
(* fat_alloc_cluster and fat_write_entry *)

\* Mutant: only the second copy is written.
LinksSecond(c, value) ==
  [copy \in Copies |-> [copy |-> 2, cluster |-> c, value |-> value]]

\* fat_write_entry goes to both copies.
Links(c, value) == [copy \in Copies |-> [copy |-> copy, cluster |-> c, value |-> value]]

FreeClusters == {c \in 2..(FAT_ENTRIES - 1) : fat[1][c] = FREE_CLUSTER}

\* The first free cluster, as a set; whatever an unread buffer suggests when
\* the FAT cannot be read.
FirstFree == {c \in FreeClusters : \A d \in FreeClusters : c <= d}

Allocatable == IF FatFails("fat_read") THEN 2..(FAT_ENTRIES - 1) ELSE FirstFree

\* Mutant: the cluster is linked and not marked.
AllocLinksUnmarked(c) ==
  IF call.cluster = 0 THEN Links(c, FREE_CLUSTER) ELSE Links(call.cluster, c)

\* A new cluster is marked as an end of chain; a cluster before it is then
\* linked to it.
AllocLinks(c) ==
  Links(c, EOC) \o (IF call.cluster = 0 THEN <<>> ELSE Links(call.cluster, c))

AllocCluster ==
  /\ call.pc = "alloc"
  /\ \E c \in Allocatable :
       /\ call' = [call EXCEPT !.pc = "fat", !.links = AllocLinks(c), !.cluster = c,
                               !.first = IF @ = 0 THEN c ELSE @, !.s = 1]
       /\ fat_failures' = fat_failures + (IF c \in FirstFree THEN 0 ELSE 1)
  /\ UNCHANGED <<disk, mounted, formatted, created, formats>>

AllocNone ==
  /\ call.pc = "alloc"
  /\ FreeClusters = {} \/ FatFails("fat_read")
  /\ GiveUp

\* Neither the read nor the write of fat_write_entry is checked: the step goes
\* on as if it had worked.
FatStep(new_fat, failures) ==
  /\ call.pc = "fat"
  /\ fat' = new_fat
  /\ fat_failures' = fat_failures + failures
  /\ call' = [call EXCEPT !.links = Tail(@),
                          !.pc = IF Len(call.links) = 1 THEN call.then ELSE @]
  /\ UNCHANGED <<boot, root, data, mounted, formatted, created, formats>>

link == Head(call.links)

FatWrite == FatStep([fat EXCEPT ![link.copy][link.cluster] = link.value], 0)

FatWriteLost == FatFails("fat_write") /\ FatStep(fat, 1)

\* The sector could not be read, and is written with what the buffer held.
FatWriteGarbage ==
  /\ call.pc = "fat"
  /\ FatFails("fat_read")
  /\ LET others == {c \in Entries \ {link.cluster} :
                      c \div FAT_SECTOR = link.cluster \div FAT_SECTOR}
     IN  \E junk \in [others -> Junk] :
           FatStep([fat EXCEPT ![link.copy] =
             [c \in Entries |-> CASE c = link.cluster -> link.value
                                  [] c \in others -> junk[c]
                                  [] OTHER -> @[c]]], 1)

-----------------------------------------------------------------------------
(* Directory entries *)

NewEntry ==
  IF call.kind = "dir" THEN DirEntry(call.name, call.first)
  ELSE FileEntry(call.name, call.first, SizeOf[call.name])

FreeSlots(dir) ==
  LET sectors == DirSectors(dir)
  IN  {p \in (DOMAIN sectors) \X (1..SLOTS) : sectors[p[1]][p[2]].kind = "free"}

\* Mutant: the search reports that there is a free slot, and not which one.
FirstFreeSlotAny(dir) ==
  IF FreeSlots(dir) = {} THEN {} ELSE {<<1, 1>>}

\* The first free slot of a directory, as a set.
FirstFreeSlot(dir) ==
  {p \in FreeSlots(dir) :
     \A q \in FreeSlots(dir) : p[1] < q[1] \/ (p[1] = q[1] /\ p[2] <= q[2])}

\* write_entry_in_root and write_entry_in_dir_cluster, the last thing a call
\* does before it returns 1, and *out_cluster.
WriteEntry ==
  /\ call.pc = "entry"
  /\ \E slot \in FirstFreeSlot(call.dir) :
       LET sector == [DirSectors(call.dir)[slot[1]] EXCEPT ![slot[2]] = NewEntry]
       IN  IF call.dir = ROOT
           THEN root' = [root EXCEPT ![slot[1]] = sector] /\ UNCHANGED data
           ELSE data' = [data EXCEPT ![call.dir][slot[1]] = sector] /\ UNCHANGED root
  /\ created' = created \cup {[dir |-> call.dir, entry |-> NewEntry]}
  /\ call' = [Idle(1) EXCEPT !.first = call.first]
  /\ UNCHANGED <<boot, fat, mounted, formatted, fat_failures, formats>>

WriteEntryFails ==
  /\ call.pc = "entry"
  /\ FreeSlots(call.dir) = {} \/ Fails("dir")
  /\ GiveUp

-----------------------------------------------------------------------------
(* The sectors of a cluster *)

\* Mutant: a last, partial cluster counts as a whole one.
ChunkOfWhole(remaining) == SECTORS_PER_CLUSTER

ChunkOf(remaining) ==
  IF remaining < SECTORS_PER_CLUSTER THEN remaining ELSE SECTORS_PER_CLUSTER

\* Sector call.s of the cluster is written; next is the call after the last.
WriteSector(sector, next) ==
  /\ call.cluster \in InVolume
  /\ data' = [data EXCEPT ![call.cluster][call.s] = sector]
  /\ call' = IF call.s < SECTORS_PER_CLUSTER THEN [call EXCEPT !.s = @ + 1] ELSE next
  /\ UNCHANGED <<boot, fat, root, mounted, history>>

\* write_file_data: contents, then zeros up to the end of the cluster; then
\* the end mark, or another cluster.
WriteData ==
  /\ call.pc = "data"
  /\ LET written == SizeOf[call.name] - call.remaining
         left == call.remaining - ChunkOf(call.remaining)
     IN  WriteSector(
           IF call.s <= call.remaining THEN Filled(Bytes(call.name, written + call.s))
                                       ELSE ZeroSector,
           IF left = 0
           THEN [call EXCEPT !.pc = "fat", !.remaining = 0, !.then = "entry",
                             !.links = Links(call.cluster, EOC)]
           ELSE [call EXCEPT !.pc = "alloc", !.remaining = left])

\* Mutant: only the first sector of a new directory is cleared.
NewDirSectorFirst(s) ==
  IF s = 1
  THEN [ZeroSector EXCEPT ![1] = DirEntry(".", call.cluster), ![2] = DirEntry("..", ROOT)]
  ELSE data[call.cluster][s]

\* The sectors of a new directory: "." and ".." and nothing else.
NewDirSector(s) ==
  IF s = 1
  THEN [ZeroSector EXCEPT ![1] = DirEntry(".", call.cluster), ![2] = DirEntry("..", ROOT)]
  ELSE ZeroSector

WriteDir ==
  /\ call.pc = "mkdir"
  /\ WriteSector(NewDirSector(call.s), [call EXCEPT !.pc = "entry"])

\* The write fails, as it does behind the end of the drive.
WriteFails ==
  /\ call.pc \in {"data", "mkdir"}
  /\ Fails("data") \/ call.cluster \notin InVolume
  /\ GiveUp

-----------------------------------------------------------------------------
(* fat16_mkdir_root, fat16_create_file_root, fat16_create_file_in_dir *)

StartMkdir(name) ==
  /\ mounted
  /\ Begin("alloc", "mkdir", "dir", name, ROOT, 0)
  /\ UNCHANGED <<disk, mounted, history>>

StartCreate(dir, name) ==
  /\ mounted
  /\ Begin(IF SizeOf[name] > 0 THEN "alloc" ELSE "entry", "data", "file",
           name, dir, SizeOf[name])
  /\ UNCHANGED <<disk, mounted, history>>

NotMounted ==
  /\ ~InCall
  /\ ~mounted
  /\ GiveUp

Step ==
  \/ Format
  \/ AllocCluster \/ AllocNone
  \/ FatWrite \/ FatWriteLost \/ FatWriteGarbage
  \/ WriteData \/ WriteDir \/ WriteFails
  \/ WriteEntry \/ WriteEntryFails

\* Power fails: the call and the mounted volume are forgotten.
PowerFailure ==
  /\ Fails("power")
  /\ call' = Idle(0)
  /\ mounted' = FALSE
  /\ UNCHANGED <<disk, history>>

-----------------------------------------------------------------------------
(* A client that uses the interface in any order.  It makes nothing on a     *)
(* volume whose format did not finish, and no name twice.                    *)

DirClusters ==
  {ROOT} \cup {e.cluster : e \in {x \in UNION {Find(ROOT, d) : d \in Dirs} : x.kind = "dir"}}
Made(dir, name) == \E m \in created : m.dir = dir /\ m.entry.name = name

ClientMkdir ==
  /\ formatted
  /\ \E d \in Dirs : ~Made(ROOT, d) /\ StartMkdir(d)

ClientCreate ==
  /\ formatted
  /\ \E dir \in DirClusters, f \in Files : ~Made(dir, f) /\ StartCreate(dir, f)

\* A drive with something else on it.
Init ==
  /\ boot \in BOOLEAN
  /\ fat = [copy \in Copies |-> [c \in Entries |-> EOC]]
  /\ root = [i \in 1..ROOT_SECTORS |-> StaleSector]
  /\ data = [c \in InVolume |-> [s \in 1..SECTORS_PER_CLUSTER |-> StaleSector]]
  /\ mounted = FALSE
  /\ call = Idle(0)
  /\ formatted = FALSE
  /\ created = {}
  /\ fat_failures = 0
  /\ formats = 0

Next ==
  \/ StartFormat \/ Mount \/ MountFails \/ NotMounted
  \/ ClientMkdir \/ ClientCreate
  \/ Step
  \/ PowerFailure

Spec == Init /\ [][Next]_vars

-----------------------------------------------------------------------------
(* Correctness *)

Names == Dirs \cup Files \cup {"none", ".", "..", "stale"}
Items == [kind : {"free", "dir", "file", "bytes"}, name : Names, cluster : Nat, size : Nat]
Sector == [1..SLOTS -> Items]
Clusters == 2..(FAT_ENTRIES - 1)
Link == [copy : Copies, cluster : Clusters, value : Clusters \cup {EOC}]
Call ==
  [pc : {"idle", "format_boot", "format_fat", "format_root",
         "alloc", "fat", "data", "mkdir", "entry"},
   result : 0..1, kind : {"none", "dir", "file"}, name : Dirs \cup Files \cup {"none"},
   dir : {ROOT} \cup InVolume, cluster : {0} \cup Clusters, first : {0} \cup Clusters,
   s : Nat, remaining : Nat, links : Seq(Link), then : {"none", "mkdir", "data", "entry"}]

TypeOK ==
  /\ boot \in BOOLEAN /\ mounted \in BOOLEAN /\ formatted \in BOOLEAN
  /\ fat \in [Copies -> [Entries -> 0..EOC]]
  /\ root \in [1..ROOT_SECTORS -> Sector]
  /\ data \in [InVolume -> [1..SECTORS_PER_CLUSTER -> Sector]]
  /\ call \in Call
  /\ fat_failures \in Nat /\ formats \in Nat

\* Places of entries in the directories of the volume, "." and ".." left out.
Places ==
  LET in(dir) == {<<dir, i>> : i \in DOMAIN Listed(dir)}
      dirs == {e.cluster : e \in {Listed(ROOT)[i] : i \in
                 {j \in DOMAIN Listed(ROOT) : Listed(ROOT)[j].kind = "dir"}}}
  IN  {p \in in(ROOT) \cup UNION {in(d) : d \in dirs \cap InVolume} :
         Listed(p[1])[p[2]].name \notin {".", ".."}}

EntryAt(p) == Listed(p[1])[p[2]]

\* How many clusters an entry has, and which they are.
LengthOf(e) == IF e.kind = "dir" THEN 1 ELSE ClustersFor(e.size)
Held(e) == {Chain(e.cluster, LengthOf(e))[i] : i \in 1..LengthOf(e)}

\* The last format finished, and no access to the FAT has failed since: the code
\* does not notice when one does.
Intact == formatted /\ fat_failures = 0

\* Whatever call was cut short by a failed write or by power, every entry of an
\* intact volume leads to allocated clusters only, as many as
\* its size needs, the last one marked as the end, and no two entries share
\* one (write_file_data and the order in which entry, links and data are
\* written).
ChainsSound ==
  Intact =>
    /\ \A p \in Places :
         LET e == EntryAt(p)
         IN  /\ Held(e) \subseteq InVolume
             /\ \A c \in Held(e) : fat[1][c] # FREE_CLUSTER
             /\ e.kind = "file" =>
                  /\ Cardinality(Held(e)) = ClustersFor(e.size)
                  /\ e.size > 0 => \E c \in Held(e) : fat[1][c] = EOC
    /\ \A p, q \in Places : p # q => Held(EntryAt(p)) \cap Held(EntryAt(q)) = {}

\* A file or directory whose call returned 1 is found under its name ever
\* after on an intact volume, and a file reads back as what was written, through
\* later calls, their failures and power failures (fat16_find_*,
\* fat16_read_file).
MadeForGood ==
  Intact => \A m \in created :
    LET found == Find(m.dir, m.entry.name)
    IN  /\ found # {}
        /\ \A e \in found :
             e.kind = "file" => ReadFile(e.cluster, e.size) = Contents(e.name)

\* Nothing that was on the drive before the format shows up in a directory:
\* not in the root, which format clears, nor in a new directory, whose cluster
\* still holds old contents when mkdir gets it, whatever access fails.
OldFilesGone == formatted => \A p \in Places : EntryAt(p).name # "stale"

\* An entry of the root directory stays where it is, unchanged, until the next
\* format, whatever access fails.
RootKept ==
  [][formatted /\ formatted' =>
       \A i \in 1..ROOT_SECTORS, k \in 1..SLOTS :
         root[i][k].kind # "free" => root'[i][k] = root[i][k]]_vars

\* "write to BOTH FAT copies, so they stay in sync" (fat16.c:196), as far as
\* power allows: a failure between the two writes leaves them different, but
\* never about a cluster that a visible entry holds.
FatsInSync ==
  Intact => \A p \in Places : \A c \in Held(EntryAt(p)) : fat[1][c] = fat[2][c]

-----------------------------------------------------------------------------
(* The inductive invariant behind them *)

Formatting == call.pc \in {"format_boot", "format_fat", "format_root"}
Making     == call.pc \in {"alloc", "fat", "mkdir", "data", "entry"}

\* The locals of a call, at each point of it.
CallOK ==
  /\ call.pc = "fat" <=> call.links # <<>>
  /\ Formatting => ~formatted /\ created = {} /\ fat_failures = 0
  /\ call.pc = "format_root" =>
       /\ call.s \in 1..ROOT_SECTORS
       /\ \A i \in 1..(call.s - 1) : root[i] = ZeroSector
  /\ Making =>
       /\ formatted
       /\ \/ call.kind = "dir" /\ call.name \in Dirs /\ call.then = "mkdir" /\ call.pc # "data"
          \/ /\ call.kind = "file" /\ call.name \in Files /\ call.then \in {"data", "entry"}
             /\ call.pc # "mkdir" /\ call.remaining <= SizeOf[call.name]
             /\ call.pc \in {"alloc", "data"} => call.then = "data"
       /\ call.kind = "dir" => call.first = call.cluster
       /\ call.pc = "alloc" /\ call.kind = "dir" => call.cluster = 0
  /\ call.pc \in {"fat", "mkdir", "data"} =>
       call.cluster # 0 /\ call.s \in 1..SECTORS_PER_CLUSTER
  /\ call.pc = "fat" /\ call.then # "entry" => call.s = 1
  /\ call.pc = "entry" /\ call.kind = "dir" => call.cluster \in InVolume

\* The directories of the volume: the root's entries name their clusters.
SubDirs ==
  {d \in InVolume : \E i \in 1..ROOT_SECTORS, k \in 1..SLOTS :
                      root[i][k].kind = "dir" /\ root[i][k].cluster = d}

Unstale(sector) == \A k \in 1..SLOTS : sector[k].name # "stale"

\* Nothing old in the directories, nor in the part of a new one that is written.
Clean ==
  /\ \A i \in 1..ROOT_SECTORS :
       /\ Unstale(root[i])
       /\ \A k \in 1..SLOTS : /\ root[i][k].kind \in {"free", "dir", "file"}
                              /\ root[i][k].kind = "dir" => root[i][k].cluster \in InVolume
  /\ \A d \in SubDirs : \A s \in 1..SECTORS_PER_CLUSTER : Unstale(data[d][s])
  /\ call.pc = "mkdir" /\ call.cluster \in InVolume =>
       \A s \in 1..(call.s - 1) : Unstale(data[call.cluster][s])
  /\ call.pc = "entry" /\ call.kind = "dir" =>
       \A s \in 1..SECTORS_PER_CLUSTER : Unstale(data[call.cluster][s])

\* The entries of the volume, "." and ".." left out, by directory and slot.
At(p) == DirSectors(p[1])[p[2]][p[3]]
Shown ==
  {p \in {ROOT} \X (1..ROOT_SECTORS) \X (1..SLOTS) : At(p).kind # "free"}
    \cup {p \in SubDirs \X (1..SECTORS_PER_CLUSTER) \X (1..SLOTS) : At(p).kind = "file"}

\* Used slots come before free ones.
Packed(sectors) ==
  \A i, j \in DOMAIN sectors, k, l \in 1..SLOTS :
    (i < j \/ (i = j /\ k < l)) /\ sectors[i][k].kind = "free" => sectors[j][l].kind = "free"

\* A chain of n clusters in the FATs t: allocated, in both copies, each once,
\* and ended.
Along(t, first, n) == {Walk(t[1], first, n)[i] : i \in 1..n}
ChainOK(t, first, n) ==
  LET w == Walk(t[1], first, n)
  IN  /\ \A i \in 1..n : w[i] \in Clusters /\ t[1][w[i]] # FREE_CLUSTER /\ t[2][w[i]] = t[1][w[i]]
      /\ \A i, j \in 1..n : w[i] = w[j] => i = j
      /\ n > 0 => t[1][w[n]] = EOC

\* The first n clusters of w hold the contents of a file, the last of them as
\* far as sector x.
Stored(d, w, n, x, name) ==
  \A j \in 1..n, k \in 1..SECTORS_PER_CLUSTER :
    (j < n \/ k <= x) =>
      /\ w[j] \in InVolume
      /\ (j - 1) * SECTORS_PER_CLUSTER + k <= SizeOf[name] =>
           d[w[j]][k] = Filled(Bytes(name, (j - 1) * SECTORS_PER_CLUSTER + k))

\* The FATs when the links still to be written are.
Finished(t, links) ==
  [copy \in Copies |-> [c \in Entries |->
     LET todo == {i \in DOMAIN links : links[i].copy = copy /\ links[i].cluster = c}
     IN  IF todo = {} THEN t[copy][c] ELSE links[CHOOSE i \in todo : TRUE].value]]
Goal == Finished(fat, call.links)

\* The n clusters of the call in progress belong to it alone.
Own(n) ==
  /\ ChainOK(Goal, call.first, n)
  /\ n = 0 => call.first = 0 /\ call.cluster = 0
  /\ n > 0 => call.cluster = Walk(Goal[1], call.first, n)[n]
  /\ \A p \in Shown : Along(Goal, call.first, n) \cap Held(At(p)) = {}
  /\ \A i \in DOMAIN call.links : call.links[i].cluster \in Along(Goal, call.first, n)
  /\ \A i, j \in DOMAIN call.links :
       call.links[i].copy = call.links[j].copy /\ call.links[i].cluster = call.links[j].cluster
         => i = j

DirMade(x) ==
  \A s \in 1..x : call.cluster \in InVolume /\ data[call.cluster][s] = NewDirSector(s)

\* How far a new directory, or a new file, is.
DirFlight(n) ==
  /\ call.kind = "dir" /\ call.dir = ROOT
  /\ n = IF call.pc = "alloc" THEN 0 ELSE 1
  /\ call.pc = "mkdir" => DirMade(call.s - 1)
  /\ call.pc = "entry" => DirMade(SECTORS_PER_CLUSTER)
FileFlight(n) ==
  LET size == SizeOf[call.name]
      done(x) == Stored(data, Walk(Goal[1], call.first, n), n, x, call.name)
  IN  /\ call.kind = "file" /\ call.dir \in {ROOT} \cup SubDirs
      /\ \/ /\ call.pc = "alloc"
            /\ call.remaining > 0 /\ size = call.remaining + n * SECTORS_PER_CLUSTER
            /\ done(SECTORS_PER_CLUSTER)
         \/ /\ call.pc \in {"fat", "data"} /\ call.then = "data" /\ n > 0
            /\ call.remaining > 0 /\ size = call.remaining + (n - 1) * SECTORS_PER_CLUSTER
            /\ done(IF call.pc = "fat" THEN 0 ELSE call.s - 1)
         \/ /\ call.pc = "entry" \/ (call.pc = "fat" /\ call.then = "entry")
            /\ n = ClustersFor(size)
            /\ done(SECTORS_PER_CLUSTER)

\* The entries of an intact volume; the call in progress.
EntryOK(e) ==
  /\ ChainOK(fat, e.cluster, LengthOf(e))
  /\ Held(e) \subseteq InVolume
  /\ e.kind = "file" =>
       /\ e.name \in Files /\ e.size = SizeOf[e.name]
       /\ Stored(data, Chain(e.cluster, LengthOf(e)), LengthOf(e), SECTORS_PER_CLUSTER, e.name)
Sound ==
  /\ \A p \in Shown : EntryOK(At(p))
  /\ \A p, q \in Shown : p # q => Held(At(p)) \cap Held(At(q)) = {}
  /\ \A d \in {ROOT} \cup SubDirs : Packed(DirSectors(d))
  /\ \A d \in SubDirs, s \in 1..SECTORS_PER_CLUSTER, k \in 1..SLOTS :
       data[d][s][k].kind \in {"free", "file"} \/ data[d][s][k].name \in {".", ".."}
  /\ \A m \in created :
       /\ m.dir \in {ROOT} \cup SubDirs /\ m.entry.kind # "free"
       /\ \E i \in DOMAIN DirSectors(m.dir), k \in 1..SLOTS : DirSectors(m.dir)[i][k] = m.entry
Flight == Making => \E n \in Nat : Own(n) /\ (DirFlight(n) \/ FileFlight(n))

VolumeInv ==
  /\ TypeOK
  /\ CallOK
  /\ formatted => Clean
  /\ Intact => Sound /\ Flight

=============================================================================

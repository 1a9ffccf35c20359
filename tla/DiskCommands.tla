---------------------------- MODULE DiskCommands ----------------------------
(***************************************************************************)
(* The shell commands that write the disk (shell/sysinfo_commands.c):      *)
(* mkpart, mkfs and install, and the mount the reading commands begin      *)
(* with.  The shell runs one command at a time; a command calls the volume *)
(* of Fat16 and waits for each call to return.                             *)
(***************************************************************************)
EXTENDS Fat16

CONSTANT Tree    \* what install makes after the format, in order: [dir, file]

VARIABLES
  mbr,        \* the first sector of the drive: signature and partition types
  step,       \* where install is; 0 when it is not running
  waiting,    \* it waits for a call to return
  cluster_of, \* the clusters of the directories it made
  installed   \* history: the last thing printed was "Install complete"

commands == <<mbr, step, waiting, cluster_of, installed>>
allvars == <<vars, commands>>

NONE == 0
FAT16_TYPE == 6
OTHER_TYPE == 131

\* An entry of Tree makes a directory, or a placeholder file in one.
IsDir(n) == Tree[n].file = "none"
TreeDirs  == {Tree[n].dir : n \in DOMAIN Tree}

ASSUME DiskAssumption ==
  /\ Tree \in Seq([dir : Dirs, file : Files \cup {"none"}])
  /\ \A n \in DOMAIN Tree :
       IsDir(n) \/ \E m \in 1..(n - 1) : IsDir(m) /\ Tree[m].dir = Tree[n].dir
  /\ {".", ".."} \cap (Dirs \cup Files) = {}     \* the entries a directory begins with

\* The steps of install.
MKPART == 1
MKFS == 2
MOUNT == 3
TreeStep(n) == MOUNT + n

-----------------------------------------------------------------------------
(* mbr.c *)

\* mbr_write_partition for entry 0: a table that is not valid is cleared first,
\* the other entries of a valid one are kept.
WithPartition(m) ==
  [valid |-> TRUE,
   types |-> [(IF m.valid THEN m.types ELSE [i \in 0..3 |-> NONE]) EXCEPT ![0] = FAT16_TYPE]]

\* The volume is that of entry 0.  The commands take the first entry with the
\* type of FAT16; drives on which that is another one are not modelled.
Partitioned == mbr.valid /\ mbr.types[0] = FAT16_TYPE

-----------------------------------------------------------------------------
(* Commands *)

AtPrompt == step = 0 /\ ~InCall

\* lsdisk with the name of a directory: what it lists, as a set.
LsDisk(dir) == {Listed(d.cluster) : d \in {e \in Find(ROOT, dir) : e.kind = "dir"}}

\* catdisk and runelf with a path of a directory and a file: the entry, as a
\* set.  A name on its own is looked for in the root directory by Find.
FindPath(dir, file) ==
  UNION {Find(d.cluster, file) : d \in {e \in Find(ROOT, dir) : e.kind = "dir"}}

\* do_mkpart; it fails without a drive, or on one that is too small.
Mkpart ==
  /\ AtPrompt
  /\ mbr' = WithPartition(mbr)
  /\ UNCHANGED <<vars, step, waiting, cluster_of, installed>>

Mkfs ==
  /\ AtPrompt
  /\ Partitioned
  /\ StartFormat
  /\ installed' = FALSE
  /\ UNCHANGED <<mbr, step, waiting, cluster_of>>

\* mount_fat16_partition
Reading ==
  /\ AtPrompt
  /\ Partitioned
  /\ Mount \/ MountFails
  /\ UNCHANGED commands

Install ==
  /\ AtPrompt
  /\ formats < FORMATS
  /\ step' = MKPART
  /\ cluster_of' = [d \in TreeDirs |-> 0]
  /\ installed' = FALSE
  /\ UNCHANGED <<vars, mbr, waiting>>

InstallMkpart ==
  /\ step = MKPART
  /\ mbr' = WithPartition(mbr)
  /\ step' = MKFS
  /\ UNCHANGED <<vars, waiting, cluster_of, installed>>

InstallMkpartFails ==
  /\ step = MKPART
  /\ Fails("mbr")
  /\ step' = 0
  /\ UNCHANGED <<vars, mbr, waiting, cluster_of, installed>>

InstallCall ==
  /\ ~waiting /\ ~InCall
  /\ \/ step = MKFS /\ StartFormat
     \/ step = MOUNT /\ (Mount \/ MountFails)
     \/ \E n \in DOMAIN Tree :
          /\ step = TreeStep(n)
          /\ IF IsDir(n) THEN StartMkdir(Tree[n].dir)
             ELSE StartCreate(cluster_of[Tree[n].dir], Tree[n].file)
  /\ waiting' = TRUE
  /\ UNCHANGED <<mbr, step, cluster_of, installed>>

\* Mutant: no return value is looked at.
MustSucceedNever(n) == FALSE

\* The steps whose failure ends the command: all but the placeholder files.
MustSucceed(n) == n <= MOUNT \/ IsDir(n - MOUNT)

InstallReturn ==
  /\ waiting /\ ~InCall
  /\ waiting' = FALSE
  /\ step' = IF call.result = 0 /\ MustSucceed(step) THEN 0 ELSE step + 1
  /\ cluster_of' =
       IF step > MOUNT /\ call.result = 1 /\ IsDir(step - MOUNT)
       THEN [cluster_of EXCEPT ![Tree[step - MOUNT].dir] = call.first] ELSE cluster_of
  /\ UNCHANGED <<vars, mbr, installed>>

InstallComplete ==
  /\ step = TreeStep(Len(Tree) + 1)
  /\ step' = 0
  /\ installed' = TRUE
  /\ UNCHANGED <<vars, mbr, waiting, cluster_of>>

\* A step of the call in progress.
Working == Step /\ UNCHANGED commands

Reboot ==
  /\ PowerFailure
  /\ step' = 0 /\ waiting' = FALSE
  /\ UNCHANGED <<mbr, cluster_of, installed>>

\* Any table in which no other entry than entry 0 has the type of FAT16.
DiskInit ==
  /\ Init
  /\ mbr \in [valid : BOOLEAN,
              types : {t \in [0..3 -> {NONE, FAT16_TYPE, OTHER_TYPE}] :
                         \A i \in 1..3 : t[i] # FAT16_TYPE}]
  /\ step = 0 /\ waiting = FALSE
  /\ cluster_of = [d \in TreeDirs |-> 0]
  /\ installed = FALSE

DiskNext ==
  \/ Mkpart \/ Mkfs \/ Reading
  \/ Install \/ InstallMkpart \/ InstallMkpartFails
  \/ InstallCall \/ InstallReturn \/ InstallComplete
  \/ Working
  \/ Reboot

DiskSpec == DiskInit /\ [][DiskNext]_allvars

-----------------------------------------------------------------------------
(* Correctness *)

\* The directories among the first k entries of Tree, and how many they are.
MadeDirs(k) == {n \in 1..k : IsDir(n)}
DirCount(k) == Cardinality(MadeDirs(k))

\* Once "Install complete" is printed, and until the next command that formats,
\* lsdisk shows the directories of the tree in their order and nothing else:
\* whatever the drive held before, however often install failed or was cut
\* short, and whichever access failed on the way.
InstalledRoot ==
  installed =>
    /\ Len(Listed(ROOT)) = DirCount(Len(Tree))
    /\ \A n \in MadeDirs(Len(Tree)) :
         LET e == Listed(ROOT)[DirCount(n)]
         IN  e.kind = "dir" /\ e.name = Tree[n].dir

\* Unless an access to the FAT failed, which the code does not notice, each
\* directory then lists no file but its own, and a placeholder that catdisk
\* finds has the contents it was made with; one that could not be written is
\* not found, and no other turns up in its place.
InstalledTree ==
  installed /\ fat_failures = 0 =>
    /\ \A d \in TreeDirs : \A listing \in LsDisk(d) : \A k \in DOMAIN listing :
         \/ listing[k].name \in {".", ".."}
         \/ \E n \in DOMAIN Tree : Tree[n].dir = d /\ Tree[n].file = listing[k].name
    /\ \A n \in DOMAIN Tree : ~IsDir(n) =>
         \A e \in FindPath(Tree[n].dir, Tree[n].file) :
           ReadFile(e.cluster, e.size) = Contents(Tree[n].file)

-----------------------------------------------------------------------------
(* The inductive invariant behind them *)

\* Nothing but files of the directory name in the cluster.
FilesOf(name, cluster) ==
  \A s \in 1..SECTORS_PER_CLUSTER, l \in 1..SLOTS :
    LET e == data[cluster][s][l]
    IN  \/ e.kind = "free" \/ e.name \in {".", ".."}
        \/ \E n \in DOMAIN Tree : Tree[n].dir = name /\ Tree[n].file = e.name

\* Of the first k entries of Tree the directories are made, and there is nothing
\* else in the root.
TreeMade(k) ==
  LET slots == Slots(root)
  IN  /\ formatted
      /\ DirCount(k) <= Len(slots)
      /\ \A j \in 1..Len(slots) :
           slots[j].kind = IF j <= DirCount(k) THEN "dir" ELSE "free"
      /\ \A n \in MadeDirs(k) : slots[DirCount(n)].name = Tree[n].dir
      /\ fat_failures = 0 => \A j \in 1..DirCount(k) : FilesOf(slots[j].name, slots[j].cluster)

\* The cluster is that of a directory with that name.
DirAt(name, cluster) ==
  \E i \in 1..ROOT_SECTORS, k \in 1..SLOTS :
    root[i][k].kind = "dir" /\ root[i][k].name = name /\ root[i][k].cluster = cluster

\* install at entry n of Tree: the call it waits for, and what it has returned.
AtTree(n) ==
  /\ \A m \in MadeDirs(n - 1) : DirAt(Tree[m].dir, cluster_of[Tree[m].dir])
  /\ InCall =>
       /\ Making
       /\ IF IsDir(n)
          THEN call.kind = "dir" /\ call.name = Tree[n].dir /\ call.dir = ROOT
          ELSE call.kind = "file" /\ call.name = Tree[n].file /\ call.dir = cluster_of[Tree[n].dir]
  /\ IF waiting /\ ~InCall /\ call.result = 1
     THEN TreeMade(n) /\ (IsDir(n) => DirAt(Tree[n].dir, call.first))
     ELSE TreeMade(n - 1)

DiskInv ==
  /\ VolumeInv
  /\ step \in 0..TreeStep(Len(Tree) + 1)
  /\ waiting \in BOOLEAN /\ (waiting => step \in MKFS..TreeStep(Len(Tree)))
  /\ cluster_of \in [TreeDirs -> {0} \cup Clusters]
  /\ step > 0 /\ ~waiting => ~InCall
  /\ step = MKFS /\ waiting => Formatting \/ (~InCall /\ (call.result = 1 => TreeMade(0)))
  /\ step = MOUNT => TreeMade(0) /\ ~InCall
  /\ \A n \in DOMAIN Tree : step = TreeStep(n) => AtTree(n)
  /\ step = TreeStep(Len(Tree) + 1) => TreeMade(Len(Tree))
  /\ installed => step = 0 /\ ~InCall /\ TreeMade(Len(Tree))

=============================================================================

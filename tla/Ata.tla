-------------------------------- MODULE Ata ---------------------------------
(***************************************************************************)
(* The polling driver of the primary ATA bus (drivers/ata.c) and the       *)
(* drive behind it.                                                        *)
(*                                                                         *)
(* The driver polls the status register a bounded number of times; one     *)
(* poll and what the code does about it is a step.  The drive works on its *)
(* own between the polls, can take any time, can fail, and is external: it *)
(* is modelled from what the driver expects of it.  The results of writing *)
(* a command while the drive is busy or transferring are undefined by the  *)
(* bus: it ignores the command or drops what it was doing.                 *)
(***************************************************************************)
EXTENDS Integers

CONSTANTS
  Lbas, Data,   \* sectors of the drive; contents of a sector, as the number
                \* that words 60 and 61 of it spell
  Requests,     \* what the callers pass as lba, any 32-bit number
  LBA_LIMIT,    \* sectors that the registers can name, 2^28
  Identity,     \* what IDENTIFY transfers, likewise: the drive's sector count
  POLLS         \* polls before a wait gives up, 100000

ASSUME AtaAssumption ==
  /\ Lbas \subseteq Nat /\ Lbas # {} /\ Requests \subseteq Nat
  /\ LBA_LIMIT \in Nat \ {0}
  /\ Data \subseteq Nat /\ Data # {} /\ Identity \in Nat \ Data
  /\ POLLS \in Nat \ {0}

VARIABLES
  call,                 \* the call in progress or the last one
  total_sectors_cache,
  drive,                \* what the drive does, its command and its buffer
  medium,               \* what is on the medium
  ours                  \* history: the drive's command is that of the call

vars == <<call, total_sectors_cache, drive, medium, ours>>

-----------------------------------------------------------------------------
(* The drive *)

\* Drives that answer, in the order in which they work on a command: "busy"
\* with it, "offer" data to be read, "want" data to be written, "store" it.
Present == {"idle", "busy", "offer", "want", "store", "failed"}
\* No drive: the bus reads as 0, or it floats and every bit reads as set.
Phases  == Present \cup {"absent", "floating"}

BSY == drive.phase \in {"busy", "store", "floating"}
DRQ == drive.phase \in {"offer", "want", "floating"}
ERR == drive.phase \in {"failed", "floating"}

Accept(op, lba) ==
  /\ drive' = [drive EXCEPT !.phase = "busy", !.op = op, !.lba = lba]
  /\ ours' = TRUE

Ignore == ours' = FALSE /\ UNCHANGED drive

\* The registers take the low 28 bits of lba.
Sector(lba) == lba % LBA_LIMIT

\* The registers and the command are written.  The error bit is cleared by the
\* next command the drive accepts, and by nothing else.
Command(op, lba) ==
  \/ drive.phase \in Present /\ Accept(op, Sector(lba))
  \/ drive.phase \notin {"idle", "failed"} /\ Ignore

\* A sector the drive does not have is never found.
DriveFinds ==
  /\ drive.phase = "busy"
  /\ drive.op # "identify" => drive.lba \in Lbas
  /\ drive' = CASE drive.op = "read" ->
                     [drive EXCEPT !.phase = "offer", !.buffer = medium[drive.lba]]
                [] drive.op = "identify" ->
                     [drive EXCEPT !.phase = "offer", !.buffer = Identity]
                [] drive.op = "write" -> [drive EXCEPT !.phase = "want"]
  /\ UNCHANGED <<call, total_sectors_cache, medium, ours>>

DriveStores ==
  /\ drive.phase = "store"
  /\ medium' = [medium EXCEPT ![drive.lba] = drive.buffer]
  /\ drive' = [drive EXCEPT !.phase = "idle"]
  /\ UNCHANGED <<call, total_sectors_cache, ours>>

DriveFails ==
  /\ drive.phase \in {"busy", "store"}
  /\ drive' = [drive EXCEPT !.phase = "failed"]
  /\ UNCHANGED <<call, total_sectors_cache, medium, ours>>

Drive == DriveFinds \/ DriveStores \/ DriveFails

-----------------------------------------------------------------------------
(* The driver *)

Begin(pc, op, lba, value) ==
  /\ call.pc = "idle"
  /\ call' = [pc |-> pc, op |-> op, lba |-> lba, value |-> value, tries |-> 0, ok |-> FALSE]

Return(ok, value) ==
  call' = [call EXCEPT !.pc = "idle", !.ok = ok, !.value = value, !.tries = 0]

ReadSector(lba) ==
  /\ Begin("ready", "read", lba, Identity)
  /\ UNCHANGED <<total_sectors_cache, drive, medium, ours>>

WriteSector(lba, value) ==
  /\ Begin("ready", "write", lba, value)
  /\ UNCHANGED <<total_sectors_cache, drive, medium, ours>>

Identify ==
  /\ Begin("probe", "identify", 0, Identity)
  /\ UNCHANGED <<total_sectors_cache, drive, medium, ours>>

\* ata_identify writes its command without waiting, and takes a status of 0
\* for a bus without a drive.
Probe ==
  /\ call.pc = "probe"
  /\ Command("identify", 0)
  /\ IF drive.phase = "absent" THEN Return(FALSE, call.value)
                              ELSE call' = [call EXCEPT !.pc = "drq"]
  /\ UNCHANGED <<total_sectors_cache, medium>>

\* Mutant: a poll that finds nothing is not counted.
PollAgainForever ==
  /\ call' = call
  /\ UNCHANGED <<total_sectors_cache, drive, medium, ours>>

\* A poll that does not end the wait: the wait gives up after POLLS of them.
\* The command of a call that gives up stays with the drive.
PollAgain ==
  /\ IF call.tries + 1 < POLLS
     THEN call' = [call EXCEPT !.tries = @ + 1] /\ UNCHANGED ours
     ELSE Return(FALSE, call.value) /\ ours' = FALSE
  /\ UNCHANGED <<total_sectors_cache, drive, medium>>

\* Mutant: an error of the command before is not looked at.
ReadyUnchecked == ~BSY

Ready == ~BSY /\ ~ERR

\* ata_wait_ready, and the command if it succeeds.
WaitReady ==
  /\ call.pc = "ready"
  /\ \/ BSY /\ PollAgain
     \/ /\ Ready
        /\ Command(call.op, call.lba)
        /\ call' = [call EXCEPT !.pc = "drq", !.tries = 0]
        /\ UNCHANGED <<total_sectors_cache, medium>>
     \/ /\ ~BSY /\ ~Ready
        /\ Return(FALSE, call.value)
        /\ UNCHANGED <<total_sectors_cache, drive, medium, ours>>

\* The 256 words, in the direction the driver expects.  A drive that expects
\* the other direction lets them pass.
Transfer ==
  /\ \/ /\ call.op # "write" /\ drive.phase = "offer"
        /\ Return(TRUE, drive.buffer)
        /\ drive' = [drive EXCEPT !.phase = "idle"]
     \/ /\ call.op # "write" /\ drive.phase = "want"
        /\ \E v \in Data : Return(TRUE, v)
        /\ UNCHANGED drive
     \/ /\ call.op = "write"
        /\ Return(TRUE, call.value)
        /\ drive' = IF drive.phase = "want"
                    THEN [drive EXCEPT !.phase = "store", !.buffer = call.value] ELSE drive
  /\ total_sectors_cache' = IF call.op = "identify" THEN call'.value ELSE total_sectors_cache
  /\ UNCHANGED <<medium, ours>>

\* ata_wait_drq, and the transfer if it succeeds.  BSY is not looked at.
WaitDrq ==
  /\ call.pc = "drq"
  /\ \/ ERR /\ Return(FALSE, call.value) /\ UNCHANGED <<total_sectors_cache, drive, medium, ours>>
     \/ ~ERR /\ DRQ /\ Transfer
     \/ ~ERR /\ ~DRQ /\ PollAgain

Driver == WaitReady \/ Probe \/ WaitDrq

Init ==
  /\ call = [pc |-> "idle", op |-> "identify", lba |-> 0, value |-> Identity,
             tries |-> 0, ok |-> FALSE]
  /\ total_sectors_cache = 0
  /\ drive \in [phase : {"idle", "absent", "floating"}, op : {"identify"}, lba : {0},
                buffer : {Identity}]
  /\ medium \in [Lbas -> Data]
  /\ ours = FALSE

Next ==
  \/ \E lba \in Requests : ReadSector(lba) \/ \E value \in Data : WriteSector(lba, value)
  \/ Identify
  \/ Driver
  \/ Drive

Spec == Init /\ [][Next]_vars

\* The processor executes the driver; the drive may never answer.
FairSpec == Spec /\ WF_vars(Driver)

-----------------------------------------------------------------------------
(* Correctness *)

\* The drive has a command whose call has given up.
LeftBehind == drive.phase \in {"busy", "offer", "want"} /\ ~ours

\* The sectors as they will be once the drive has stored what it took.
Stored == IF drive.phase = "store" THEN [medium EXCEPT ![drive.lba] = drive.buffer]
                                   ELSE medium

Store == INSTANCE SectorStore WITH
  sectors <- Stored,
  pending <- IF drive.phase = "store"
             THEN [lba |-> drive.lba, old |-> medium[drive.lba]] ELSE [lba |-> -1],
  stuck   <- drive.phase = "failed",
  behind  <- LeftBehind,
  call    <- [busy |-> call.pc # "idle", op |-> call.op, lba |-> call.lba,
              value |-> call.value, ok |-> call.ok],
  total   <- total_sectors_cache

\* "returns 1 on success, 0 on failure/timeout" (ata.h:6): a call that returns 1
\* has read or written the sector it was asked for (the one its lba names modulo
\* 2^28, ata.c:92 and ata.c:117), unless a call before it timed out and left its
\* command in the drive; ata_write_sector returns 1 before the sector is stored,
\* but if that fails no read and no write returns 1 until the drive is
\* identified.
IsStore == Store!Spec

\* "bails out after a bounded number of tries instead of looping forever if a
\* drive is missing/wedged" (ata.c:23): every call returns, whatever the drive
\* does or leaves undone.
EveryCallReturns == call.pc # "idle" ~> call.pc = "idle"

-----------------------------------------------------------------------------
(* The inductive invariant behind IsStore *)

Ops == {"read", "write", "identify"}

CallOK ==
  /\ call \in [pc : {"idle", "ready", "probe", "drq"}, op : Ops, lba : Nat,
               value : Data \cup {Identity}, tries : Nat, ok : BOOLEAN]
  /\ call.op # "identify" => call.lba \in Requests
  /\ call.pc = "ready" => call.op # "identify"
  /\ call.pc = "probe" => call.op = "identify" /\ call.lba = 0
  /\ call.op = "write" => call.value \in Data

\* The drive offers what its command asks for, and wants data only for a write.
DriveOK ==
  /\ drive \in [phase : Phases, op : Ops, lba : Nat, buffer : Data \cup {Identity}]
  /\ drive.phase \in {"offer", "want", "store"} /\ drive.op # "identify" => drive.lba \in Lbas
  /\ drive.phase = "offer" =>
       /\ drive.op # "write"
       /\ drive.buffer = IF drive.op = "read" THEN medium[drive.lba] ELSE Identity
  /\ drive.phase \in {"want", "store"} => drive.op = "write"
  /\ drive.phase = "store" => drive.buffer \in Data

\* A command is that of the call only while the call waits for it.
OursOK ==
  drive.phase \in {"busy", "offer", "want"} /\ ours =>
    call.pc = "drq" /\ drive.op = call.op /\ drive.lba = Sector(call.lba)

AtaInv ==
  /\ medium \in [Lbas -> Data]
  /\ ours \in BOOLEAN
  /\ CallOK
  /\ DriveOK
  /\ OursOK

-----------------------------------------------------------------------------
(* What a comment says that the code does not do *)

\* "reads/writes exactly 512 bytes (one sector) at LBA `lba` ... returns 1 on
\* success" (ata.h:4): a read that returns 1 has read the sector at lba.
ReadsAsAsked ==
  [][call.pc = "drq" /\ call.op = "read" /\ call'.pc = "idle" /\ call'.ok =>
       call'.value = Stored[call.lba]]_vars

=============================================================================

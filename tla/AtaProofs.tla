----------------------------- MODULE AtaProofs ------------------------------
(* The driver of Ata implements SectorStore: every step of driver and drive  *)
(* is a step of the store or leaves it alone.                                *)
EXTENDS Ata, TLAPS

LEMMA InitInv == Init => AtaInv
<1> SUFFICES ASSUME Init PROVE AtaInv
  OBVIOUS
<1>1. CallOK
  BY DEF Init, CallOK, Ops
<1>2. PICK phase \in {"idle", "absent", "floating"} :
        drive = [phase |-> phase, op |-> "identify", lba |-> 0, buffer |-> Identity]
  BY DEF Init
<1>3. DriveOK /\ OursOK
  BY <1>2 DEF DriveOK, OursOK, Ops, Phases, Present
<1> QED
  BY <1>1, <1>3 DEF Init, AtaInv

-----------------------------------------------------------------------------
(* The invariant *)

\* A call begins while the drive has no command of an unfinished call.
LEMMA BeginInv ==
  ASSUME AtaInv,
         \/ \E lba \in Requests : ReadSector(lba) \/ \E value \in Data : WriteSector(lba, value)
         \/ Identify
  PROVE  AtaInv'
<1> USE AtaAssumption DEF AtaInv, CallOK, DriveOK, OursOK, Ops, Begin
<1>1. CASE \E lba \in Requests : ReadSector(lba)
  BY <1>1 DEF ReadSector
<1>2. CASE \E lba \in Requests, value \in Data : WriteSector(lba, value)
  BY <1>2 DEF WriteSector
<1>3. CASE Identify
  BY <1>3 DEF Identify
<1> QED
  BY <1>1, <1>2, <1>3

\* The drive works on its command and leaves the call alone.
LEMMA DriveInv == AtaInv /\ Drive => AtaInv'
<1> SUFFICES ASSUME AtaInv, Drive PROVE AtaInv'
  OBVIOUS
<1> USE DEF AtaInv, CallOK, DriveOK, OursOK, Ops, Phases, Present
<1>1. CASE DriveFinds
  <2>1. CASE drive.op = "read"
    BY <1>1, <2>1 DEF DriveFinds
  <2>2. CASE drive.op = "identify"
    BY <1>1, <2>2 DEF DriveFinds
  <2>3. CASE drive.op = "write"
    BY <1>1, <2>3 DEF DriveFinds
  <2> QED
    BY <2>1, <2>2, <2>3
<1>2. CASE DriveStores
  BY <1>2 DEF DriveStores
<1>3. CASE DriveFails
  BY <1>3 DEF DriveFails
<1> QED
  BY <1>1, <1>2, <1>3 DEF Drive

\* What the drive makes of a command that is written when it has none of the
\* call yet.
LEMMA CommandInv ==
  ASSUME AtaInv, call.pc \in {"ready", "probe"}, Command(call.op, call.lba),
         call' = [call EXCEPT !.pc = "drq"] \/ call' = [call EXCEPT !.pc = "drq", !.tries = 0],
         medium' = medium
  PROVE  AtaInv'
<1>1. CallOK' /\ call'.pc = "drq" /\ call'.op = call.op /\ call'.lba = call.lba
  <2>1. CASE call' = [call EXCEPT !.pc = "drq"]
    BY <2>1 DEF AtaInv, CallOK
  <2>2. CASE call' = [call EXCEPT !.pc = "drq", !.tries = 0]
    BY <2>2 DEF AtaInv, CallOK
  <2> QED
    BY <2>1, <2>2
<1>2. CASE Accept(call.op, Sector(call.lba))
  <2>1. /\ drive' = [drive EXCEPT !.phase = "busy", !.op = call.op, !.lba = Sector(call.lba)]
        /\ ours' = TRUE
    BY <1>2 DEF Accept
  <2>2. call.op \in Ops /\ Sector(call.lba) \in Nat
    BY AtaAssumption DEF AtaInv, CallOK, Sector
  <2>3. drive \in [phase : Phases, op : Ops, lba : Nat, buffer : Data \cup {Identity}]
    BY DEF AtaInv, DriveOK
  <2>4. /\ drive' \in [phase : Phases, op : Ops, lba : Nat, buffer : Data \cup {Identity}]
        /\ drive'.phase = "busy" /\ drive'.op = call.op /\ drive'.lba = Sector(call.lba)
    BY <2>1, <2>2, <2>3 DEF Phases, Present
  <2>5. DriveOK' /\ OursOK'
    BY <1>1, <2>2, <2>4 DEF DriveOK, OursOK
  <2> QED
    BY <1>1, <2>1, <2>5 DEF AtaInv
<1>3. CASE Ignore
  BY <1>1, <1>3 DEF Ignore, AtaInv, DriveOK, OursOK
<1> QED
  BY <1>2, <1>3 DEF Command

\* A wait that goes on or gives up.
LEMMA PollInv ==
  ASSUME AtaInv, PollAgain
  PROVE  AtaInv'
<1>1. DriveOK' /\ medium' = medium /\ drive' = drive
  BY DEF PollAgain, AtaInv, DriveOK
<1>2. CASE call.tries + 1 < POLLS
  <2>1. call' = [call EXCEPT !.tries = @ + 1] /\ ours' = ours
    BY <1>2 DEF PollAgain
  <2>2. CallOK' /\ call'.pc = call.pc /\ call'.op = call.op /\ call'.lba = call.lba
    BY <2>1 DEF AtaInv, CallOK
  <2> QED
    BY <1>1, <2>1, <2>2 DEF AtaInv, OursOK
<1>3. CASE ~(call.tries + 1 < POLLS)
  <2>1. call' = [call EXCEPT !.pc = "idle", !.ok = FALSE, !.value = call.value, !.tries = 0]
        /\ ours' = FALSE
    BY <1>3 DEF PollAgain, Return
  <2>2. CallOK'
    BY <2>1 DEF AtaInv, CallOK
  <2> QED
    BY <1>1, <2>1, <2>2 DEF AtaInv, OursOK
<1> QED
  BY <1>2, <1>3

\* A call that returns when the drive is done with its command.
LEMMA ReturnInv ==
  ASSUME AtaInv, NEW ok \in BOOLEAN, NEW value \in Data \cup {Identity}, Return(ok, value),
         call.op = "write" => value = call.value,
         drive.phase \in {"busy", "offer", "want"} => ~ours,
         UNCHANGED <<drive, medium, ours>>
  PROVE  AtaInv'
BY DEF Return, AtaInv, CallOK, DriveOK, OursOK, Ops

\* A transfer ends the call and takes the drive on, unless it has a command that
\* is not the call's.
LEMMA TransferInv ==
  ASSUME AtaInv, call.pc = "drq", ~ERR, DRQ, Transfer
  PROVE  AtaInv'
<1>1. drive.phase \in {"offer", "want"}
  BY DEF ERR, DRQ
<1>2. medium' = medium /\ ours' = ours
  BY DEF Transfer
<1>3. /\ drive \in [phase : Phases, op : Ops, lba : Nat, buffer : Data \cup {Identity}]
      /\ drive.op # "identify" => drive.lba \in Lbas
      /\ call.value \in Data \cup {Identity}
  BY <1>1 DEF AtaInv, DriveOK, CallOK
<1>4. CASE call.op # "write" /\ drive.phase = "offer"
  <2>1. Return(TRUE, drive.buffer) /\ drive' = [drive EXCEPT !.phase = "idle"]
    BY <1>4 DEF Transfer
  <2>2. CallOK'
    BY <1>3, <1>4, <2>1 DEF AtaInv, CallOK, Return
  <2>3. DriveOK' /\ OursOK'
    BY <1>2, <1>3, <2>1 DEF DriveOK, OursOK, Phases, Present
  <2> QED
    BY <1>2, <2>2, <2>3 DEF AtaInv
<1>5. CASE call.op # "write" /\ drive.phase = "want"
  <2>1. PICK v \in Data : Return(TRUE, v)
    BY <1>5 DEF Transfer
  <2>2. drive' = drive /\ ~ours
    BY <1>5 DEF Transfer, AtaInv, OursOK, DriveOK
  <2> QED
    BY <1>2, <1>5, <2>1, <2>2, ReturnInv
<1>6. CASE call.op = "write"
  <2>1. Return(TRUE, call.value) /\ call.value \in Data
    BY <1>6 DEF Transfer, AtaInv, CallOK
  <2>2. CASE drive.phase = "want"
    <3>1. drive' = [drive EXCEPT !.phase = "store", !.buffer = call.value] /\ drive.op = "write"
      BY <1>6, <2>2 DEF Transfer, AtaInv, DriveOK
    <3>2. DriveOK' /\ OursOK'
      BY <1>2, <1>3, <2>1, <3>1 DEF DriveOK, OursOK, Phases, Present
    <3>3. CallOK'
      BY <2>1 DEF AtaInv, CallOK, Return
    <3> QED
      BY <1>2, <3>2, <3>3 DEF AtaInv
  <2>3. CASE drive.phase = "offer"
    <3>1. drive' = drive /\ ~ours
      BY <1>6, <2>3 DEF Transfer, AtaInv, OursOK, DriveOK
    <3> QED
      BY <1>2, <2>1, <3>1, ReturnInv
  <2> QED
    BY <1>1, <2>2, <2>3
<1> QED
  BY <1>1, <1>4, <1>5, <1>6

LEMMA DriverInv == AtaInv /\ Driver => AtaInv'
<1> SUFFICES ASSUME AtaInv, Driver PROVE AtaInv'
  OBVIOUS
<1>0. call.value \in Data \cup {Identity}
  BY DEF AtaInv, CallOK
<1>1. CASE Probe
  <2>1. call.op = "identify" /\ call.lba = 0 /\ call.pc = "probe" /\ medium' = medium
    BY <1>1 DEF Probe, AtaInv, CallOK
  <2>2. CASE drive.phase = "absent"
    BY <1>0, <1>1, <2>1, <2>2
    DEF Probe, Command, Accept, Ignore, Present, Return, AtaInv, CallOK, DriveOK, OursOK, Ops
  <2>3. CASE drive.phase # "absent"
    BY <1>1, <2>1, <2>3, CommandInv DEF Probe
  <2> QED
    BY <2>2, <2>3
<1>2. CASE WaitReady
  <2>1. CASE PollAgain
    BY <2>1, PollInv
  <2>2. CASE /\ Ready
             /\ Command(call.op, call.lba)
             /\ call' = [call EXCEPT !.pc = "drq", !.tries = 0]
             /\ UNCHANGED <<total_sectors_cache, medium>>
    BY <1>2, <2>2, CommandInv DEF WaitReady
  <2>3. CASE Return(FALSE, call.value) /\ UNCHANGED <<total_sectors_cache, drive, medium, ours>>
    BY <1>0, <1>2, <2>3, ReturnInv DEF WaitReady, AtaInv, OursOK
  <2> QED
    BY <1>2, <2>1, <2>2, <2>3 DEF WaitReady
<1>3. CASE WaitDrq
  <2>1. CASE ERR /\ Return(FALSE, call.value) /\ UNCHANGED <<total_sectors_cache, drive, medium, ours>>
    BY <1>0, <2>1, ReturnInv DEF ERR
  <2>2. CASE ~ERR /\ DRQ /\ Transfer
    BY <1>3, <2>2, TransferInv DEF WaitDrq
  <2>3. CASE PollAgain
    BY <2>3, PollInv
  <2> QED
    BY <1>3, <2>1, <2>2, <2>3 DEF WaitDrq
<1> QED
  BY <1>1, <1>2, <1>3 DEF Driver

LEMMA NextInv == AtaInv /\ [Next]_vars => AtaInv'
<1> SUFFICES ASSUME AtaInv, [Next]_vars PROVE AtaInv'
  OBVIOUS
<1>1. CASE UNCHANGED vars
  BY <1>1 DEF vars, AtaInv, CallOK, DriveOK, OursOK
<1> QED
  BY <1>1, BeginInv, DriveInv, DriverInv DEF Next

-----------------------------------------------------------------------------
(* Every step is a step of the store or leaves it alone *)

\* The store as the driver and the drive show it.
Pending == IF drive.phase = "store" THEN [lba |-> drive.lba, old |-> medium[drive.lba]]
                                    ELSE [lba |-> -1]
Asked == [busy |-> call.pc # "idle", op |-> call.op, lba |-> call.lba,
          value |-> call.value, ok |-> call.ok]
storeVars == <<Stored, Pending, drive.phase = "failed", LeftBehind, Asked, total_sectors_cache>>

Simulated == [Store!Next]_storeVars

\* A write is pending exactly while the drive stores it.
LEMMA PendingIs ==
  ASSUME AtaInv
  PROVE  /\ Pending = Store!Settled <=> drive.phase # "store"
         /\ drive.phase # "store" => Stored = medium
         /\ drive.phase = "store" =>
              /\ Pending.lba = drive.lba /\ Pending.old = medium[drive.lba]
              /\ [Stored EXCEPT ![drive.lba] = medium[drive.lba]] = medium
<1>1. drive.phase = "store" => drive.lba \in Lbas
  BY DEF AtaInv, DriveOK
<1>2. CASE drive.phase = "store"
  <2>1. Pending.lba # -1
    BY <1>1, <1>2, AtaAssumption DEF Pending
  <2>2. Pending # Store!Settled
    BY <2>1 DEF Store!Settled
  <2> QED
    BY <1>1, <1>2, <2>2 DEF Pending, Stored, AtaInv
<1> QED
  BY <1>2 DEF Pending, Stored, Store!Settled

\* The call as the store sees it when it returns.
LEMMA ReturnSim ==
  ASSUME AtaInv, call.pc # "idle", NEW ok \in BOOLEAN, NEW value, Return(ok, value)
  PROVE  Store!Return(ok, value)
<1>1. call \in [pc : {"idle", "ready", "probe", "drq"}, op : Ops, lba : Nat,
                value : Data \cup {Identity}, tries : Nat, ok : BOOLEAN]
  BY DEF AtaInv, CallOK
<1>2. call' = [call EXCEPT !.pc = "idle", !.ok = ok, !.value = value, !.tries = 0]
  BY DEF Return
<1>3. /\ call'.pc = "idle" /\ call'.op = call.op /\ call'.lba = call.lba
      /\ call'.value = value /\ call'.ok = ok
  BY <1>1, <1>2
<1>4. Asked' = [busy |-> FALSE, op |-> call.op, lba |-> call.lba, value |-> value, ok |-> ok]
  BY <1>3 DEF Asked
<1> QED
  BY <1>4 DEF Store!Return, Asked

LEMMA FailSim ==
  ASSUME AtaInv, call.pc # "idle", Return(FALSE, call.value), ours' \in {ours, FALSE},
         UNCHANGED <<total_sectors_cache, drive, medium>>
  PROVE  Store!Fail
<1>1. Store!Return(FALSE, call.value)
  BY ReturnSim
<1>2. LeftBehind' \in {LeftBehind, TRUE}
  BY DEF LeftBehind, AtaInv
<1>3. UNCHANGED <<Stored, Pending, drive.phase = "failed">>
  BY DEF Stored, Pending
<1> QED
  BY <1>1, <1>2, <1>3 DEF Store!Fail, Pending

\* A command the drive accepts makes it start over; one it ignores changes
\* nothing, since what it has was not the call's before.
LEMMA CommandSim ==
  ASSUME AtaInv, call.pc \in {"ready", "probe"}, Command(call.op, call.lba),
         drive.phase \in {"store", "failed"} => call.op = "identify",
         call' = [call EXCEPT !.pc = "drq"] \/ call' = [call EXCEPT !.pc = "drq", !.tries = 0],
         UNCHANGED <<total_sectors_cache, medium>>
  PROVE  Simulated
<1>1. Asked' = Asked /\ Asked.busy
  BY DEF Asked, AtaInv, CallOK
<1>2. CASE Accept(call.op, Sector(call.lba))
  <2>1. drive'.phase = "busy" /\ ours' = TRUE
    BY <1>2 DEF Accept, AtaInv, DriveOK
  <2>2. Stored' = medium /\ Pending' = Store!Settled /\ LeftBehind' = FALSE
    BY <2>1 DEF Stored, Pending, LeftBehind, Store!Settled
  <2>3. Store!Forget
    BY <2>2, PendingIs DEF Store!Forget, Pending
  <2>4. Store!Take
    BY <1>1, <2>1, <2>2, <2>3, PendingIs DEF Store!Take, Asked, Pending
  <2> QED
    BY <2>4 DEF Simulated, Store!Next
<1>3. CASE Ignore
  <2>1. drive' = drive /\ LeftBehind' = LeftBehind
    BY <1>3 DEF Ignore, LeftBehind, AtaInv, OursOK
  <2> QED
    BY <1>1, <2>1 DEF Simulated, storeVars, Stored, Pending
<1> QED
  BY <1>2, <1>3 DEF Command

\* A poll that finds nothing shows only when the wait gives up.
LEMMA PollSim ==
  ASSUME AtaInv, call.pc # "idle", PollAgain
  PROVE  Simulated
<1>1. CASE call.tries + 1 < POLLS
  <2>1. Asked' = Asked
    BY <1>1 DEF PollAgain, Asked, AtaInv, CallOK
  <2> QED
    BY <1>1, <2>1 DEF PollAgain, Simulated, storeVars, Stored, Pending, LeftBehind
<1>2. CASE ~(call.tries + 1 < POLLS)
  BY <1>2, FailSim DEF PollAgain, Simulated, Store!Next
<1> QED
  BY <1>1, <1>2

\* A transfer of the call's own command, or of one that was left behind.
LEMMA TransferSim ==
  ASSUME AtaInv, call.pc = "drq", ~ERR, DRQ, Transfer
  PROVE  Simulated
<1>1. drive.phase \in {"offer", "want"} /\ LeftBehind = ~ours
  BY DEF ERR, DRQ, LeftBehind
<1>2. medium' = medium /\ ours' = ours /\ Stored = medium /\ Pending = Store!Settled
  BY <1>1, PendingIs DEF Transfer
<1>3. /\ drive \in [phase : Phases, op : Ops, lba : Nat, buffer : Data \cup {Identity}]
      /\ medium \in [Lbas -> Data]
  BY DEF AtaInv, DriveOK
<1>4. CASE call.op # "write" /\ drive.phase = "offer"
  <2>1. /\ Return(TRUE, drive.buffer) /\ drive' = [drive EXCEPT !.phase = "idle"]
        /\ total_sectors_cache' = IF call.op = "identify" THEN call'.value ELSE total_sectors_cache
    BY <1>4 DEF Transfer
  <2>2. Store!Return(TRUE, drive.buffer) /\ call'.value = drive.buffer
    BY <2>1, ReturnSim DEF Return, AtaInv, CallOK
  <2>3. drive'.phase = "idle"
    BY <1>3, <2>1
  <2>4. Stored' = medium /\ Pending' = Store!Settled /\ LeftBehind' = FALSE
    BY <1>2, <2>3 DEF Stored, Pending, LeftBehind, Store!Settled
  <2>5. CASE ours /\ call.op = "read"
    <3>1. drive.buffer = medium[Store!Sector(call.lba)] /\ Store!Sector(call.lba) \in Lbas
      BY <1>4, <2>5 DEF AtaInv, OursOK, DriveOK, Sector, Store!Sector
    <3> QED
      BY <1>1, <1>2, <1>4, <2>1, <2>2, <2>3, <2>4, <2>5, <3>1
      DEF Store!Read, Simulated, Store!Next, Pending
  <2>6. CASE ours /\ call.op = "identify"
    <3>1. drive.buffer = Identity
      BY <1>4, <2>6 DEF AtaInv, OursOK, DriveOK
    <3> QED
      BY <1>1, <1>2, <1>4, <2>1, <2>2, <2>3, <2>4, <2>6, <3>1
      DEF Store!Identify, Simulated, Store!Next, Pending
  <2>7. CASE ~ours
    <3>1. drive.buffer \in Data \cup {Identity}
      BY <1>3
    <3> QED
      BY <1>1, <1>2, <1>4, <2>1, <2>2, <2>3, <2>4, <2>7, <3>1
      DEF Store!Mistaken, Simulated, Store!Next, Pending
  <2> QED
    BY <1>4, <2>5, <2>6, <2>7 DEF AtaInv, CallOK, Ops
<1>5. CASE call.op # "write" /\ drive.phase = "want"
  <2>1. PICK v \in Data : Return(TRUE, v)
    BY <1>5 DEF Transfer
  <2>2. /\ drive' = drive /\ ~ours
        /\ total_sectors_cache' = IF call.op = "identify" THEN call'.value ELSE total_sectors_cache
    BY <1>5 DEF Transfer, AtaInv, OursOK, DriveOK
  <2>3. Store!Return(TRUE, v) /\ call'.value = v
    BY <2>1, ReturnSim DEF Return, AtaInv, CallOK
  <2>4. UNCHANGED <<Stored, Pending, drive.phase = "failed">> /\ LeftBehind' = TRUE
    BY <1>1, <1>2, <2>2 DEF Stored, Pending, LeftBehind
  <2> QED
    BY <1>1, <1>5, <2>2, <2>3, <2>4 DEF Store!Mistaken, Simulated, Store!Next, Pending
<1>6. CASE call.op = "write" /\ drive.phase = "want"
  <2>1. /\ Return(TRUE, call.value) /\ total_sectors_cache' = total_sectors_cache
        /\ drive' = [drive EXCEPT !.phase = "store", !.buffer = call.value]
    BY <1>6 DEF Transfer
  <2>2. Store!Return(TRUE, call.value) /\ drive.lba \in Lbas
    BY <1>6, <2>1, ReturnSim DEF AtaInv, DriveOK
  <2>3. drive'.phase = "store" /\ drive'.lba = drive.lba /\ drive'.buffer = call.value
    BY <1>3, <2>1
  <2>4. /\ Stored' = [Stored EXCEPT ![drive.lba] = call.value]
        /\ Pending' = [lba |-> drive.lba, old |-> Stored[drive.lba]]
        /\ LeftBehind' = FALSE
    BY <1>2, <2>3 DEF Stored, Pending, LeftBehind
  <2>5. Store!Acknowledge(drive.lba)
    BY <2>4 DEF Store!Acknowledge, Pending
  <2>6. CASE ours
    <3>1. drive.lba = Store!Sector(call.lba)
      BY <1>6, <2>6 DEF AtaInv, OursOK, Sector, Store!Sector
    <3> QED
      BY <1>1, <1>2, <1>6, <2>1, <2>2, <2>3, <2>4, <2>5, <2>6, <3>1
      DEF Store!Write, Simulated, Store!Next, Pending
  <2>7. CASE ~ours
    BY <1>1, <1>6, <2>1, <2>2, <2>3, <2>4, <2>5, <2>7
    DEF Store!Mistaken, Simulated, Store!Next
  <2> QED
    BY <2>6, <2>7
<1>7. CASE call.op = "write" /\ drive.phase = "offer"
  <2>1. Return(TRUE, call.value) /\ total_sectors_cache' = total_sectors_cache
    BY <1>7 DEF Transfer
  <2>2. drive' = drive /\ ~ours
    BY <1>7 DEF Transfer, AtaInv, OursOK, DriveOK
  <2>3. Store!Return(TRUE, call.value)
    BY <2>1, ReturnSim
  <2>4. UNCHANGED <<Stored, Pending, drive.phase = "failed">> /\ LeftBehind' = TRUE
    BY <1>1, <1>2, <2>2 DEF Stored, Pending, LeftBehind
  <2> QED
    BY <1>1, <1>7, <2>1, <2>2, <2>3, <2>4 DEF Store!Mistaken, Simulated, Store!Next, Pending
<1> QED
  BY <1>1, <1>4, <1>5, <1>6, <1>7

LEMMA DriverSim ==
  ASSUME AtaInv, Driver
  PROVE  Simulated
<1>1. CASE Probe
  <2>1. call.op = "identify" /\ call.lba = 0 /\ call.pc = "probe"
    BY <1>1 DEF Probe, AtaInv, CallOK
  <2>2. CASE drive.phase = "absent"
    <3>1. /\ Return(FALSE, call.value) /\ drive' = drive /\ ours' = FALSE
          /\ UNCHANGED <<total_sectors_cache, medium>>
      BY <1>1, <2>2 DEF Probe, Command, Ignore, Present
    <3> QED
      BY <2>1, <3>1, FailSim DEF Simulated, Store!Next
  <2>3. CASE drive.phase # "absent"
    BY <1>1, <2>1, <2>3, CommandSim DEF Probe
  <2> QED
    BY <2>2, <2>3
<1>2. CASE WaitReady
  <2>1. call.pc = "ready"
    BY <1>2 DEF WaitReady
  <2>2. CASE PollAgain
    BY <2>1, <2>2, PollSim
  <2>3. CASE /\ Ready
             /\ Command(call.op, call.lba)
             /\ call' = [call EXCEPT !.pc = "drq", !.tries = 0]
             /\ UNCHANGED <<total_sectors_cache, medium>>
    BY <2>1, <2>3, CommandSim DEF Ready, BSY, ERR
  <2>4. CASE Return(FALSE, call.value) /\ UNCHANGED <<total_sectors_cache, drive, medium, ours>>
    BY <2>1, <2>4, FailSim DEF Simulated, Store!Next
  <2> QED
    BY <1>2, <2>2, <2>3, <2>4 DEF WaitReady
<1>3. CASE WaitDrq
  <2>1. call.pc = "drq"
    BY <1>3 DEF WaitDrq
  <2>2. CASE Return(FALSE, call.value) /\ UNCHANGED <<total_sectors_cache, drive, medium, ours>>
    BY <2>1, <2>2, FailSim DEF Simulated, Store!Next
  <2>3. CASE ~ERR /\ DRQ /\ Transfer
    BY <2>1, <2>3, TransferSim
  <2>4. CASE PollAgain
    BY <2>1, <2>4, PollSim
  <2> QED
    BY <1>3, <2>2, <2>3, <2>4 DEF WaitDrq
<1> QED
  BY <1>1, <1>2, <1>3 DEF Driver

\* What the drive does on its own: a stored sector is settled, a failure loses
\* it, and looking for a sector does not show.
LEMMA DriveSim ==
  ASSUME AtaInv, Drive
  PROVE  Simulated
<1>0. drive \in [phase : Phases, op : Ops, lba : Nat, buffer : Data \cup {Identity}]
  BY DEF AtaInv, DriveOK
<1>1. CASE DriveFinds
  <2>1. drive.phase = "busy" /\ drive'.phase \in {"offer", "want"}
    BY <1>0, <1>1 DEF DriveFinds, Ops
  <2>2. UNCHANGED <<call, total_sectors_cache, medium, ours>>
    BY <1>1 DEF DriveFinds
  <2> QED
    BY <2>1, <2>2 DEF Simulated, storeVars, Stored, Pending, LeftBehind, Asked
<1>2. CASE DriveStores
  <2>1. /\ drive.phase = "store" /\ drive'.phase = "idle"
        /\ medium' = [medium EXCEPT ![drive.lba] = drive.buffer]
        /\ UNCHANGED <<call, total_sectors_cache, ours>>
    BY <1>0, <1>2 DEF DriveStores
  <2>2. Stored' = Stored /\ Pending' = Store!Settled /\ LeftBehind' = LeftBehind
    BY <2>1 DEF Stored, Pending, LeftBehind, Store!Settled
  <2> QED
    BY <2>1, <2>2 DEF Store!Settle, Simulated, Store!Next, Pending
<1>3. CASE DriveFails
  <2>1. /\ drive.phase \in {"busy", "store"} /\ drive'.phase = "failed"
        /\ UNCHANGED <<call, total_sectors_cache, medium, ours>>
    BY <1>0, <1>3 DEF DriveFails
  <2>2. Stored' = medium /\ Pending' = Store!Settled /\ LeftBehind' = FALSE
    BY <2>1 DEF Stored, Pending, LeftBehind, Store!Settled
  <2>3. Store!Forget
    BY <2>2, PendingIs DEF Store!Forget, Pending
  <2> QED
    BY <2>1, <2>2, <2>3 DEF Store!Error, Simulated, Store!Next
<1> QED
  BY <1>1, <1>2, <1>3 DEF Drive

LEMMA BeginSim ==
  ASSUME NEW op, NEW lba, NEW value, NEW pc \in {"ready", "probe"}, Begin(pc, op, lba, value),
         UNCHANGED <<total_sectors_cache, drive, medium, ours>>
  PROVE  Store!Call(op, lba, value)
<1>1. UNCHANGED <<Stored, Pending, drive.phase = "failed", LeftBehind>>
  BY DEF Stored, Pending, LeftBehind
<1> QED
  BY <1>1 DEF Begin, Store!Call, Pending

LEMMA NextSim ==
  ASSUME AtaInv, [Next]_vars
  PROVE  Simulated
<1>1. ASSUME NEW lba \in Requests, ReadSector(lba)
      PROVE  Simulated
  BY <1>1, BeginSim DEF ReadSector, Simulated, Store!Next
<1>2. ASSUME NEW lba \in Requests, NEW value \in Data, WriteSector(lba, value)
      PROVE  Simulated
  BY <1>2, BeginSim DEF WriteSector, Simulated, Store!Next
<1>3. CASE Identify
  BY <1>3, BeginSim DEF Identify, Simulated, Store!Next
<1>4. CASE UNCHANGED vars
  BY <1>4 DEF vars, Simulated, storeVars, Stored, Pending, LeftBehind, Asked
<1> QED
  BY <1>1, <1>2, <1>3, <1>4, DriverSim, DriveSim DEF Next

\* The polling driver with its drive behaves as a store of sectors: a call that
\* returns 1 has read or written the sector that its lba names modulo 2^28, unless
\* a call before it was left behind, and after a write that was lost nothing
\* succeeds until the drive is identified again.
THEOREM AtaIsStore == Spec => IsStore
<1>1. Init => Store!Init
  <2> SUFFICES ASSUME Init PROVE Store!Init
    OBVIOUS
  <2>1. drive.phase \in {"idle", "absent", "floating"}
    BY DEF Init
  <2>2. Stored = medium /\ Pending = Store!Settled /\ LeftBehind = FALSE
    BY <2>1 DEF Stored, Pending, Store!Settled, LeftBehind
  <2>3. Asked = Store!NothingYet
    BY DEF Init, Asked, Store!NothingYet
  <2> QED
    BY <2>1, <2>2, <2>3 DEF Init, Store!Init, Pending, Asked
<1>2. AtaInv /\ [Next]_vars => Simulated
  BY NextSim
<1>3. Simulated => [Store!Next]_<<Stored, Pending, drive.phase = "failed", LeftBehind, Asked,
                                 total_sectors_cache>>
  BY DEF Simulated, storeVars
<1> QED
  BY <1>1, <1>2, <1>3, InitInv, NextInv, PTL
  DEF Spec, IsStore, Store!Spec, Pending, Asked

=============================================================================

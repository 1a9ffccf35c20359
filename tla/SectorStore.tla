---------------------------- MODULE SectorStore -----------------------------
(***************************************************************************)
(* What the file system gets from the ATA driver (drivers/ata.h): sectors  *)
(* that are read and written one at a time, by calls that can fail.        *)
(*                                                                         *)
(* A write that succeeds is only acknowledged: it settles later, or is     *)
(* lost.  No later read or write succeeds before it has settled, and when  *)
(* it is lost none succeeds until the drive is identified again.  A call   *)
(* that fails can leave its command behind in the drive; until the drive   *)
(* is rid of it, a call that succeeds may have dealt with that command     *)
(* instead of its own.                                                     *)
(***************************************************************************)
EXTENDS Integers

CONSTANTS Lbas, Data, Requests, LBA_LIMIT, Identity

VARIABLES
  sectors,    \* what is stored, the last acknowledged write included
  pending,    \* that write, while it may still be lost, or Settled
  stuck,      \* an error has not been acknowledged by identify
  behind,     \* the drive has the command of an earlier call
  call,       \* the call in progress or the last one
  total       \* the sector count, as the last identify read it

Settled == [lba |-> -1]

NothingYet == [busy |-> FALSE, op |-> "identify", lba |-> 0, value |-> Identity, ok |-> FALSE]

\* The sector that a call for lba deals with.
Sector(lba) == lba % LBA_LIMIT

Init ==
  /\ sectors \in [Lbas -> Data]
  /\ pending = Settled
  /\ stuck = FALSE /\ behind = FALSE
  /\ call = NothingYet
  /\ total = 0

Call(op, lba, value) ==
  /\ ~call.busy
  /\ call' = [busy |-> TRUE, op |-> op, lba |-> lba, value |-> value, ok |-> FALSE]
  /\ UNCHANGED <<sectors, pending, stuck, behind, total>>

Return(ok, value) ==
  /\ call.busy
  /\ call' = [busy |-> FALSE, op |-> call.op, lba |-> call.lba, value |-> value, ok |-> ok]

Fail ==
  /\ Return(FALSE, call.value)
  /\ behind' \in {behind, TRUE}
  /\ UNCHANGED <<sectors, pending, stuck, total>>

Read ==
  /\ call.op = "read"
  /\ pending = Settled /\ ~stuck /\ ~behind
  /\ Sector(call.lba) \in Lbas
  /\ Return(TRUE, sectors[Sector(call.lba)])
  /\ UNCHANGED <<sectors, pending, stuck, behind, total>>

Acknowledge(lba) ==
  /\ sectors' = [sectors EXCEPT ![lba] = call.value]
  /\ pending' = [lba |-> lba, old |-> sectors[lba]]

Write ==
  /\ call.op = "write"
  /\ pending = Settled /\ ~stuck /\ ~behind
  /\ Sector(call.lba) \in Lbas
  /\ Return(TRUE, call.value)
  /\ Acknowledge(Sector(call.lba))
  /\ UNCHANGED <<stuck, behind, total>>

Identify ==
  /\ call.op = "identify"
  /\ pending = Settled /\ ~stuck /\ ~behind
  /\ Return(TRUE, Identity)
  /\ total' = Identity
  /\ UNCHANGED <<sectors, pending, stuck, behind>>

Settle ==
  /\ pending' = Settled
  /\ UNCHANGED <<sectors, stuck, behind, call, total>>

Forget ==
  IF pending = Settled THEN UNCHANGED <<sectors, pending>>
  ELSE /\ sectors' = [sectors EXCEPT ![pending.lba] = pending.old]
       /\ pending' = Settled

\* An error of the drive, that of the pending write among others.
Error ==
  /\ Forget
  /\ stuck' = TRUE /\ behind' = FALSE
  /\ UNCHANGED <<call, total>>

\* The drive starts over with the command of the call.  Only identify does so
\* without waiting for the drive.
Take ==
  /\ call.busy
  /\ (pending # Settled \/ stuck) => call.op = "identify"
  /\ Forget
  /\ stuck' = FALSE /\ behind' = FALSE
  /\ UNCHANGED <<call, total>>

\* A call that deals with the command of an earlier one.
Mistaken ==
  /\ behind
  /\ behind' \in BOOLEAN
  /\ \/ /\ call.op # "write"
        /\ \E v \in Data \cup {Identity} :
             /\ Return(TRUE, v)
             /\ total' = IF call.op = "identify" THEN v ELSE total
        /\ UNCHANGED <<sectors, pending>>
     \/ /\ call.op = "write"
        /\ Return(TRUE, call.value)
        /\ UNCHANGED <<sectors, pending>> \/ \E x \in Lbas : Acknowledge(x)
        /\ UNCHANGED total
  /\ UNCHANGED stuck

Next ==
  \/ \E l \in Requests : Call("read", l, Identity) \/ \E v \in Data : Call("write", l, v)
  \/ Call("identify", 0, Identity)
  \/ Fail \/ Read \/ Write \/ Identify
  \/ Settle \/ Error \/ Take \/ Mistaken

Spec == Init /\ [][Next]_<<sectors, pending, stuck, behind, call, total>>

=============================================================================

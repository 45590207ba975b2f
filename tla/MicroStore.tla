----------------------------- MODULE MicroStore -----------------------------
(***************************************************************************)
(* A slot of the flash store of a device (crates/tapirus-micro/src/lib.rs) *)
(* and the capsules that are exported from it.  Slots do not share state.  *)
(*                                                                         *)
(* A slot has two banks.  A bank holds a record, if its bytes make one,    *)
(* and the mark that commits it: a commit unit of zeros.  The flash may    *)
(* lose what was not synchronized, and an operation that the power cuts    *)
(* off may leave anything between the old bytes and the new ones.          *)
(***************************************************************************)
EXTENDS Naturals, FiniteSets

CONSTANTS
  Value,     \* the values of the slot
  Deleted,   \* the value of a tombstone
  MaxWrites, \* the sequence numbers; the code has 2^64 - 1
  MaxTries   \* bound: writes, failed ones included

VARIABLES
  bank,    \* the banks as they are read
  kept,    \* for each bank, what a power loss may leave of it
  call,    \* the write in progress, or Idle
  acked,   \* the sequence number of the last write that returned success
  tries,   \* writes so far
  cut,     \* whether a write was cut off before its record was synchronized
  doubtful, \* whether a write has failed behind that point, its outcome unknown
  air      \* the capsules that were exported

deviceVars == <<bank, kept, call, acked, tries, cut, doubtful, air>>

Bank     == {0, 1}
Idle     == [step |-> "idle"]
Payload  == Value \cup {Deleted}
Record   == [sequence : 1 .. MaxWrites, value : Payload]
NoRecord == [sequence |-> 0, value |-> Deleted]

\* Bytes that were erased, and bytes in between.
Erased   == [record |-> NoRecord, mark |-> FALSE]
Garbage  == [record |-> NoRecord, mark |-> TRUE]
Contents == [record : Record \cup {NoRecord}, mark : BOOLEAN]

-----------------------------------------------------------------------------
(* Reading.                                                                *)

\* Fault: a record counts although its commit unit was not written.
CommittedUnmarked == {b \in Bank : bank[b].record # NoRecord \/ bank[b].mark}

\* read_record: the banks that are committed.
Committed == {b \in Bank : bank[b].mark}

\* A committed bank without a valid record, or two with the same number.
Corrupted ==
  \/ \E b \in Committed : bank[b].record = NoRecord
  \/ Committed = Bank /\ bank[0].record.sequence = bank[1].record.sequence

\* latest
Latest ==
  IF Committed = {} THEN NoRecord
  ELSE CHOOSE r \in {bank[b].record : b \in Committed} :
         \A b \in Committed : bank[b].record.sequence <= r.sequence

LatestBank == CHOOSE b \in Committed : bank[b].record = Latest

\* export_capsule: the newest record, as the flash is read now.
ExportCapsule ==
  /\ call = Idle /\ ~ Corrupted /\ Latest # NoRecord
  /\ air' = air \cup {Latest}
  /\ UNCHANGED <<bank, kept, call, acked, tries, cut, doubtful>>

-----------------------------------------------------------------------------
(* Writing: erase, program the record, sync, program the commit unit, sync.*)

\* Fault: the bank that holds the newest record is used again.
TargetLatest == IF Committed = {} THEN 0 ELSE LatestBank

\* The other bank than the newest record's.
Target == IF Committed = {} THEN 0 ELSE 1 - LatestBank

\* put and delete.  The slot must be readable.
Write(v) ==
  /\ call = Idle /\ tries < MaxTries
  /\ ~ Corrupted /\ Latest.sequence < MaxWrites
  /\ tries' = tries + 1
  /\ call' = [step |-> "erase", bank |-> Target,
              record |-> [sequence |-> Latest.sequence + 1, value |-> v]]
  /\ UNCHANGED <<bank, kept, acked, cut, doubtful, air>>

\* The bytes of the bank in use change, through any of the states in between.
Change(to, between) ==
  /\ bank' = [bank EXCEPT ![call.bank] = to]
  /\ kept' = [kept EXCEPT ![call.bank] = @ \cup between \cup {to}]

\* An erase that is cut off may leave the commit unit of a committed bank, and
\* nothing valid in front of it.
Torn(b) == {Erased} \cup (IF bank[b].mark THEN {Garbage} ELSE {})

Erase ==
  /\ call.step = "erase"
  /\ Change(Erased, Torn(call.bank))
  /\ call' = [call EXCEPT !.step = "program"]
  /\ UNCHANGED <<acked, tries, cut, doubtful, air>>

Program ==
  /\ call.step = "program"
  /\ Change([record |-> call.record, mark |-> FALSE], {Erased})
  /\ call' = [call EXCEPT !.step = "sync"]
  /\ UNCHANGED <<acked, tries, cut, doubtful, air>>

\* A synchronization completes whatever was done before, in both banks.
Synced == [b \in Bank |-> {bank[b]}]

SyncRecord ==
  /\ call.step = "sync"
  /\ kept' = Synced /\ cut' = FALSE
  /\ call' = [call EXCEPT !.step = "commit"]
  /\ UNCHANGED <<bank, acked, tries, doubtful, air>>

\* The commit unit may reach the flash ahead of bytes that were not synchronized.
Marked(c) == [c EXCEPT !.mark = TRUE]
Mark      == Change(Marked(bank[call.bank]), {Marked(c) : c \in kept[call.bank]})

ProgramCommit ==
  /\ call.step = "commit"
  /\ Mark
  /\ call' = [call EXCEPT !.step = "finish"]
  /\ UNCHANGED <<acked, tries, cut, doubtful, air>>

SyncCommit ==
  /\ call.step = "finish"
  /\ kept' = Synced
  /\ call' = Idle /\ acked' = call.record.sequence
  /\ UNCHANGED <<bank, tries, cut, doubtful, air>>

\* Steps of a write at which its record is not synchronized.
Open == {"erase", "program", "sync"}

\* An operation fails, having changed any part of its bytes, and the call returns
\* the error.
Fails ==
  /\ call # Idle
  /\ \/ UNCHANGED <<bank, kept>>
     \/ call.step = "erase"   /\ \E to \in Torn(call.bank) : Change(to, Torn(call.bank))
     \/ call.step = "program" /\ Change(Erased, {})
     \/ call.step = "commit"  /\ Mark
  /\ cut' = (cut \/ call.step \in Open)
  /\ doubtful' = (doubtful \/ call.step \notin Open)
  /\ call' = Idle
  /\ UNCHANGED <<acked, tries, air>>

\* The power fails, between two operations or in the middle of an erase.
PowerLoss ==
  LET Left(b) == kept[b] \cup (IF call.step = "erase" /\ call.bank = b THEN Torn(b) ELSE {})
  IN  /\ \E first \in Left(0), second \in Left(1) :
           /\ bank' = [b \in Bank |-> IF b = 0 THEN first ELSE second]
           /\ kept' = [b \in Bank |-> IF b = 0 THEN {first} ELSE {second}]
      /\ cut' = (cut \/ call.step \in Open)
      /\ call' = Idle
      /\ UNCHANGED <<acked, tries, doubtful, air>>

-----------------------------------------------------------------------------
(* The device.                                                             *)

DeviceInit ==
  /\ bank = [b \in Bank |-> Erased] /\ kept = [b \in Bank |-> {Erased}]
  /\ call = Idle /\ acked = 0 /\ tries = 0 /\ air = {}
  /\ cut = FALSE /\ doubtful = FALSE

DeviceNext ==
  \/ \E v \in Payload : Write(v)
  \/ Erase \/ Program \/ SyncRecord \/ ProgramCommit \/ SyncCommit \/ Fails
  \/ PowerLoss \/ ExportCapsule

-----------------------------------------------------------------------------
(* Properties.                                                             *)

\* A value whose write returned success is there until a newer one replaces it,
\* whenever the power fails: a readable slot never shows an older one.  After a
\* write of doubtful outcome it may, since the next one erases the bank with the
\* last record that is safe.  The slot becomes unreadable, which the store answers
\* with an error, only when a write is cut off before its record was synchronized.
AckedIsKept == ~ doubtful => IF Corrupted THEN cut ELSE Latest.sequence >= acked

\* Two capsules with the same sequence number are the same capsule, so that the
\* other side can tell a repeated one from a conflict: unless one was exported
\* whose write had failed, and which the next power loss took away.
OneValuePerSequence ==
  ~ doubtful => \A c, d \in air : c.sequence = d.sequence => c = d

=============================================================================

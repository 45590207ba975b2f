--------------------------------- MODULE Wal ---------------------------------
(***************************************************************************)
(* The write-ahead log of TapirusDB (src/pager/wal.rs) together with the   *)
(* part of the pager that drives it: transaction commit and rollback,      *)
(* single-page writes made outside a transaction, checkpoints, and the     *)
(* recovery done by open.  The pager holds one write lock for the whole of *)
(* each call, so between the steps of a call only a crash may happen; the  *)
(* variable phase says which call is in progress.                          *)
(*                                                                         *)
(* The content of a page is abstracted to the number of the transaction    *)
(* that wrote it (0: the page as created).  A slot of the log is a frame   *)
(* whose checksum is right, or Torn: anything that the recovery scan       *)
(* rejects (a partial frame, a zero-filled gap).                           *)
(*                                                                         *)
(* Storage.  log is what was handed to the BufWriter, of which the first   *)
(* flushed slots have reached the operating system.  kept is the set of    *)
(* log files that a power loss may leave behind; a successful sync leaves  *)
(* just one.  Appended frames survive as a prefix (the scan stops at the   *)
(* first frame that did not), and a write that follows a truncation does   *)
(* not survive without it, as on a journaling file system.  A page of the  *)
(* base file that was written since its last sync survives a power loss as *)
(* its old content, its new content or a mix of both.                      *)
(***************************************************************************)
EXTENDS Naturals, Sequences, FiniteSets

CONSTANTS
  Page,                \* page numbers of the database; page 1 holds its header
  MaxTxn,              \* bound: transactions (and single-page writes) attempted
  CheckpointThreshold, \* frames in the log that trigger an automatic checkpoint
  CrashKinds,          \* subset of {"process", "power"}: crashes the run admits
  CheckpointDuringTx,  \* may the application call checkpoint inside a transaction?
  Torn                 \* bytes that fail their checksum

ASSUME PageAssumption == Page \subseteq Nat \ {0} /\ 1 \in Page /\ IsFiniteSet(Page)
ASSUME BoundAssumption == MaxTxn \in Nat /\ CheckpointThreshold \in Nat \ {0}
ASSUME EnvironmentAssumption ==
  CrashKinds \subseteq {"process", "power"} /\ CheckpointDuringTx \in BOOLEAN

VARIABLES
  phase,     \* the call in progress
  frames,    \* Wal.frames: the frames the running process knows
  ioFailed,  \* Wal.io_failed
  header,    \* the 32-byte header of the log file
  log,       \* the frames of the log file, those still buffered included
  flushed,   \* how many slots of log have left the BufWriter
  kept,      \* the log files that a power loss may leave
  base,      \* the pages of the base file, as the operating system has them
  baseDisk,  \* the pages of the base file at its last sync
  inTx,      \* Pager.transaction_savepoint is set
  start,     \* its wal_frame_count
  txn,       \* number of the latest transaction begun
  dirty,     \* the pages of its latest commit attempt, while the outcome is open
  todo,      \* pages still to be written by the call in progress
  next,      \* recovery: index of the next frame to replay
  reply,     \* what the latest write call returned; "pending" before it returns
  acked      \* history: for each page the latest transaction reported committed

walVars  == <<header, log, flushed, kept>>
baseVars == <<base, baseDisk>>
txVars   == <<inTx, start, txn, dirty>>
replyVars == <<reply, acked>>
vars == <<phase, frames, ioFailed, walVars, baseVars, txVars, todo, next, replyVars>>

Txn    == 0 .. MaxTxn
Frame  == [page : Page, txn : Txn, commit : BOOLEAN]
Slot   == Frame \cup {Torn}

ASSUME TornAssumption == Torn \notin Nat /\ Torn \notin Frame

Header == {"valid", "absent", "bad"}
Phase  == {"down", "recover", "ready", "commit", "undo", "checkpoint", "reset"}
Running == Phase \ {"down", "recover"}

-----------------------------------------------------------------------------
(* Reading a log.                                                          *)

\* The frames that precede the first slot that fails its checksum.
ValidLength(s) ==
  CHOOSE n \in 0 .. Len(s) :
    /\ \A i \in 1 .. n : s[i] # Torn
    /\ n < Len(s) => s[n + 1] = Torn

\* The length of the longest prefix of s, all frames, that ends with a commit.
CommittedLength(s) ==
  CHOOSE n \in 0 .. Len(s) :
    /\ n > 0 => s[n].commit
    /\ \A i \in n + 1 .. Len(s) : ~ s[i].commit

Prefix(s, n) == SubSeq(s, 1, n)
Valid(s)     == Prefix(s, ValidLength(s))
Committed(s) == Prefix(s, CommittedLength(s))

PagesOf(s) == {s[i].page : i \in 1 .. Len(s)}

\* Wal.index: the last frame of page p.
LastFrame(s, p) ==
  CHOOSE i \in 1 .. Len(s) :
    s[i].page = p /\ \A j \in i + 1 .. Len(s) : s[j].page # p

Overlay(b, s) ==
  [p \in Page |-> IF p \in PagesOf(s) THEN s[LastFrame(s, p)].txn ELSE b[p]]

MinPage(S)    == CHOOSE p \in S : \A q \in S : p <= q
MinOf(m, n)   == IF m <= n THEN m ELSE n

\* set_len: cuts the file, or fills it with zeroes, which no scan accepts.
Resize(s, n) == [i \in 1 .. n |-> IF i <= Len(s) THEN s[i] ELSE Torn]

File(h, s) == [header |-> h, log |-> s]

-----------------------------------------------------------------------------
(* Effects on the log file.                                                *)

\* log' is log or log with more bytes appended; m of its slots are flushed,
\* and none of them is synchronized.
FlushedTo(m) ==
  /\ flushed' = m
  /\ kept' = kept \cup {File(header, Prefix(log', k)) : k \in flushed .. m}

\* Fault: the position of the buffer is not adjusted when the file is cut.
SyncedAsPositionKept(h, s) ==
  /\ header' = h
  /\ log' = s
  /\ flushed' = flushed
  /\ kept' = {File(h, s)}

\* The file is now h, s and is synchronized.
SyncedAs(h, s) ==
  /\ header' = h
  /\ log' = s
  /\ flushed' = Len(s)
  /\ kept' = {File(h, s)}

\* set_len(n slots) went through without a sync.
TruncatedTo(h, n) ==
  /\ header' = h
  /\ log' = Resize(log, n)
  /\ flushed' = n
  /\ kept' = kept \cup {File(h, Resize(m.log, n)) : m \in kept}

\* A header of zeroes is rejected when the file is opened.
HeaderAfterSetLen == IF header = "absent" THEN "bad" ELSE header

-----------------------------------------------------------------------------
(* Wal::rollback_to.                                                       *)

RollbackTarget == MinOf(start, Len(frames))

NothingToRollBack ==
  /\ ~ ioFailed
  /\ flushed = Len(log)
  /\ header = "valid"
  /\ Len(log) = RollbackTarget
  /\ RollbackTarget = Len(frames)

\* Fault: the frames in memory are not truncated with the file.
RollbackToOkFramesKept ==
  \/ NothingToRollBack /\ UNCHANGED <<walVars, frames, ioFailed>>
  \/ /\ ~ NothingToRollBack
     /\ SyncedAs(HeaderAfterSetLen, Resize(log, RollbackTarget))
     /\ ioFailed' = FALSE
     /\ UNCHANGED frames

RollbackToOk ==
  \/ NothingToRollBack /\ UNCHANGED <<walVars, frames, ioFailed>>
  \/ /\ ~ NothingToRollBack
     /\ SyncedAs(HeaderAfterSetLen, Resize(log, RollbackTarget))
     /\ frames' = Prefix(frames, RollbackTarget)
     /\ ioFailed' = FALSE

\* The flush, the truncation or the final sync fails.
RollbackToFails ==
  /\ ~ NothingToRollBack
  /\ ioFailed' = TRUE
  /\ UNCHANGED frames
  /\ \/ /\ UNCHANGED <<header, log>>
        /\ \E m \in flushed .. Len(log) : FlushedTo(m)
     \/ TruncatedTo(HeaderAfterSetLen, RollbackTarget)

-----------------------------------------------------------------------------
(* Transactions and single-page writes.                                    *)

Begin ==
  /\ phase = "ready" /\ ~ inTx /\ ~ ioFailed
  /\ txn < MaxTxn
  /\ inTx' = TRUE
  /\ start' = Len(frames)
  /\ txn' = txn + 1
  /\ reply' = "none"
  /\ UNCHANGED <<phase, frames, ioFailed, walVars, baseVars, dirty, todo, next, acked>>

\* commit_transaction writes the dirty pages, always page 1 among them.  A
\* commit that failed leaves the transaction open with its dirty pages; while
\* the failure is not cleared a further attempt writes nothing.
Commit ==
  /\ phase = "ready" /\ inTx
  /\ \E D \in SUBSET Page :
       /\ dirty \cup {1} \subseteq D
       /\ dirty' = IF ioFailed THEN dirty ELSE D
       /\ todo' = D
  /\ phase' = "commit"
  /\ reply' = "pending"
  /\ UNCHANGED <<frames, ioFailed, walVars, baseVars, inTx, start, txn, next, acked>>

\* write_page outside a transaction: one frame that is its own commit.
WritePage ==
  /\ phase = "ready" /\ ~ inTx /\ ~ ioFailed
  /\ txn < MaxTxn
  /\ txn' = txn + 1
  /\ \E p \in Page : dirty' = {p} /\ todo' = {p}
  /\ phase' = "commit"
  /\ reply' = "pending"
  /\ UNCHANGED <<frames, ioFailed, walVars, baseVars, inTx, start, next, acked>>

NextFrame ==
  [page |-> MinPage(todo), txn |-> txn, commit |-> todo = {MinPage(todo)}]

\* A frame of a commit that is not its last one: buffered, and possibly the
\* buffer spills what it held before.
WriteFrame ==
  /\ phase = "commit" /\ ~ ioFailed
  /\ ~ NextFrame.commit
  /\ frames' = Append(frames, NextFrame)
  /\ log' = Append(log, NextFrame)
  /\ \E m \in {flushed, Len(log)} : FlushedTo(m)
  /\ todo' = todo \ {MinPage(todo)}
  /\ UNCHANGED <<phase, ioFailed, header, baseVars, txVars, next, replyVars>>

\* Fault: the commit frame is flushed to the operating system only.
CommitFrameFlushed ==
  /\ log' = Append(log, NextFrame)
  /\ FlushedTo(Len(log'))
  /\ UNCHANGED header

CommitFrameSynced == SyncedAs(header, Append(log, NextFrame))

\* The last frame, flushed and synchronized.  A log that has grown to the
\* threshold is checkpointed before the call returns; commit_transaction ignores
\* the outcome of that checkpoint, write_page returns its error.
WriteCommitFrame ==
  /\ phase = "commit" /\ ~ ioFailed
  /\ NextFrame.commit
  /\ frames' = Append(frames, NextFrame)
  /\ CommitFrameSynced
  /\ inTx' = FALSE
  /\ dirty' = {}
  /\ IF Len(frames') >= CheckpointThreshold
       THEN phase' = "checkpoint" /\ todo' = PagesOf(frames')
       ELSE phase' = "ready" /\ todo' = {}
  /\ IF inTx \/ phase' = "ready"
       THEN /\ reply' = "ok"
            /\ acked' = [p \in Page |-> IF p \in dirty THEN txn ELSE acked[p]]
       ELSE UNCHANGED replyVars
  /\ UNCHANGED <<ioFailed, baseVars, start, txn, next>>

\* write_frame fails: at once when an earlier failure was not cleared, else
\* on a write, on the flush or on the sync.  Part of the frame may stay in the
\* buffer, and for a commit frame all of it.
WriteFrameFails ==
  /\ phase = "commit"
  /\ phase' = IF inTx THEN "undo" ELSE "ready"
  /\ todo' = {}
  /\ ioFailed' = TRUE
  /\ \/ ioFailed /\ UNCHANGED walVars
     \/ /\ ~ ioFailed
        /\ log' \in {log, Append(log, Torn)} \cup
                    {Append(log, f) : f \in {g \in {NextFrame} : g.commit}}
        /\ \E m \in flushed .. Len(log') : FlushedTo(m)
        /\ UNCHANGED header
  /\ reply' = "error"
  /\ UNCHANGED <<frames, baseVars, txVars, next, acked>>

\* The error path of commit_transaction: the transaction stays open.
UndoCommit ==
  /\ phase = "undo"
  /\ RollbackToOk \/ RollbackToFails
  /\ phase' = "ready"
  /\ UNCHANGED <<baseVars, txVars, todo, next, replyVars>>

\* rollback_transaction ends the transaction even when it reports an error;
\* what the failed commit left in the log is then decided by the next open.
Rollback ==
  /\ phase = "ready" /\ inTx
  /\ inTx' = FALSE
  /\ \/ RollbackToOk /\ dirty' = {}
     \/ RollbackToFails /\ UNCHANGED dirty
  /\ reply' = "none"
  /\ UNCHANGED <<phase, baseVars, start, txn, todo, next, acked>>

-----------------------------------------------------------------------------
(* Wal::checkpoint.  Its early returns change nothing.                     *)

\* write_page is waiting for the checkpoint exactly when reply is "pending".
ReplyAfterFailure == IF reply = "pending" THEN "error" ELSE reply

Checkpoint ==
  /\ phase = "ready" /\ ~ ioFailed
  /\ inTx => CheckpointDuringTx
  /\ frames # <<>> /\ frames[Len(frames)].commit
  /\ phase' = "checkpoint"
  /\ todo' = PagesOf(frames)
  /\ UNCHANGED <<frames, ioFailed, walVars, baseVars, txVars, next, replyVars>>

CheckpointPage ==
  /\ phase = "checkpoint" /\ todo # {}
  /\ LET p == MinPage(todo) IN
       \/ /\ base' = [base EXCEPT ![p] = frames[LastFrame(frames, p)].txn]
          /\ todo' = todo \ {p}
          /\ UNCHANGED <<phase, reply>>
       \/ /\ \E v \in {base[p], Torn} : base' = [base EXCEPT ![p] = v]
          /\ todo' = {}
          /\ phase' = "ready"
          /\ reply' = ReplyAfterFailure
  /\ UNCHANGED <<frames, ioFailed, walVars, baseDisk, txVars, next, acked>>

\* Fault: the log is reset before the base file is synchronized.
BaseNotSynced == UNCHANGED baseDisk

BaseSynced == baseDisk' = base

CheckpointSync ==
  /\ phase = "checkpoint" /\ todo = {}
  /\ \/ BaseSynced /\ phase' = "reset" /\ UNCHANGED reply
     \/ UNCHANGED baseDisk /\ phase' = "ready" /\ reply' = ReplyAfterFailure
  /\ UNCHANGED <<frames, ioFailed, walVars, base, txVars, todo, next, acked>>

\* flush, set_len(0), a new header, sync.
ResetLog ==
  /\ phase = "reset"
  /\ SyncedAs("valid", <<>>)
  /\ frames' = <<>>
  /\ phase' = "ready"
  /\ reply' = IF reply = "pending" THEN "ok" ELSE reply
  /\ acked' = [p \in Page |-> IF reply = "pending" /\ frames[Len(frames)].page = p
                              THEN txn ELSE acked[p]]
  /\ UNCHANGED <<ioFailed, baseVars, txVars, todo, next>>

\* Some step of the reset fails: nothing done yet, the file emptied, or the
\* new header written but not synchronized.
ResetLogFails ==
  /\ phase = "reset"
  /\ \/ UNCHANGED walVars
     \/ TruncatedTo("absent", 0)
     \/ /\ header' = "valid" /\ log' = <<>> /\ flushed' = 0
        /\ kept' = kept \cup {File("absent", <<>>), File("valid", <<>>)}
  /\ ioFailed' = TRUE
  /\ phase' = "ready"
  /\ reply' = ReplyAfterFailure
  /\ UNCHANGED <<frames, baseVars, txVars, todo, next, acked>>

-----------------------------------------------------------------------------
(* Crashes and open.                                                       *)

ProcessGone ==
  /\ phase' = "down"
  /\ frames' = <<>>
  /\ ioFailed' = FALSE
  /\ inTx' = FALSE /\ start' = 0 /\ dirty' = {} /\ todo' = {} /\ next' = 0
  /\ reply' = "none"
  /\ UNCHANGED <<txn, acked>>

\* The process is killed, or exits: dropping the BufWriter then flushes it.
ProcessCrash ==
  /\ "process" \in CrashKinds
  /\ phase # "down"
  /\ ProcessGone
  /\ log' \in {Prefix(log, flushed), log}
  /\ FlushedTo(Len(log'))
  /\ UNCHANGED <<header, baseVars>>

PowerLoss ==
  /\ "power" \in CrashKinds
  /\ ProcessGone
  /\ \E image \in kept : SyncedAs(image.header, image.log)
  /\ base' \in {b \in [Page -> Txn \cup {Torn}] :
                  \A p \in Page : b[p] = base[p] \/
                    (base[p] # baseDisk[p] /\ b[p] \in {baseDisk[p], Torn})}
  /\ baseDisk' = base'

\* Fault: the frames of an unfinished commit are recovered too.
UncommittedRecoverable(h, s) == IF h = "valid" THEN Valid(s) ELSE <<>>

\* The committed frames that a scan of the file finds.
Recoverable(h, s) == IF h = "valid" THEN Committed(Valid(s)) ELSE <<>>

\* read_header_for_open and WalHeader::from_bytes accept what they read.
CanOpen ==
  /\ header # "bad"
  /\ base[1] # Torn \/ 1 \in PagesOf(Recoverable(header, log))

\* rebuild_index_from_file ends with a set_len that no sync follows.
TornTailCut ==
  /\ log' = Valid(log)
  /\ flushed' = Len(Valid(log))
  /\ kept' = kept \cup {File(header, Valid(log))}
  /\ UNCHANGED header

\* Pager::open up to the start of recovery: a header if there is none, the
\* torn tail cut off, then the uncommitted tail, which alone is followed by a
\* sync.
OpenWal ==
  /\ phase = "down" /\ CanOpen
  /\ frames' = Recoverable(header, log)
  /\ \/ header = "absent" /\ SyncedAs("valid", <<>>)
     \/ /\ header = "valid"
        /\ Recoverable(header, log) # Valid(log)
        /\ SyncedAs("valid", Recoverable(header, log))
     \/ /\ header = "valid"
        /\ Recoverable(header, log) = Valid(log)
        /\ TornTailCut
  /\ phase' = "recover"
  /\ next' = 1
  /\ UNCHANGED <<ioFailed, baseVars, txVars, todo, replyVars>>

\* The truncation of the uncommitted tail fails: open reports the error.
OpenWalFails ==
  /\ phase = "down" /\ CanOpen
  /\ header = "valid" /\ Recoverable(header, log) # Valid(log)
  /\ TornTailCut
  /\ UNCHANGED <<phase, frames, ioFailed, baseVars, txVars, todo, next, replyVars>>

\* Wal::recover copies each committed frame, in log order, to the base file.
RecoverFrame ==
  /\ phase = "recover" /\ next <= Len(frames)
  /\ base' = [base EXCEPT ![frames[next].page] = frames[next].txn]
  /\ next' = next + 1
  /\ UNCHANGED <<phase, frames, ioFailed, walVars, baseDisk, txVars, todo, replyVars>>

RecoverFrameFails ==
  /\ phase = "recover" /\ next <= Len(frames)
  /\ \E v \in {base[frames[next].page], Torn} :
       base' = [base EXCEPT ![frames[next].page] = v]
  /\ ProcessGone
  /\ UNCHANGED <<walVars, baseDisk>>

RecoverSync ==
  /\ phase = "recover" /\ next = Len(frames) + 1
  /\ baseDisk' = IF frames = <<>> THEN baseDisk ELSE base
  /\ phase' = "ready"
  /\ UNCHANGED <<frames, ioFailed, walVars, base, txVars, todo, next, replyVars>>

RecoverSyncFails ==
  /\ phase = "recover" /\ next = Len(frames) + 1 /\ frames # <<>>
  /\ ProcessGone
  /\ UNCHANGED <<walVars, baseVars>>

-----------------------------------------------------------------------------
Init ==
  /\ phase = "down" /\ frames = <<>> /\ ioFailed = FALSE
  /\ header = "absent" /\ log = <<>> /\ flushed = 0
  /\ kept = {File("absent", <<>>)}
  /\ base = [p \in Page |-> 0] /\ baseDisk = [p \in Page |-> 0]
  /\ inTx = FALSE /\ start = 0 /\ txn = 0 /\ dirty = {} /\ todo = {} /\ next = 0
  /\ reply = "none"
  /\ acked = [p \in Page |-> 0]

Working ==
  \/ Begin \/ Commit \/ WritePage
  \/ WriteFrame \/ WriteCommitFrame \/ WriteFrameFails \/ UndoCommit \/ Rollback
  \/ Checkpoint \/ CheckpointPage \/ CheckpointSync \/ ResetLog \/ ResetLogFails
  \/ OpenWal \/ OpenWalFails \/ RecoverFrame \/ RecoverFrameFails
  \/ RecoverSync \/ RecoverSyncFails

Next == Working \/ ProcessCrash \/ PowerLoss

Spec == Init /\ [][Next]_vars

-----------------------------------------------------------------------------
(* Properties.                                                             *)

TypeOK ==
  /\ phase \in Phase
  /\ frames \in Seq(Frame)
  /\ ioFailed \in BOOLEAN
  /\ header \in Header
  /\ log \in Seq(Slot)
  /\ flushed \in 0 .. Len(log)
  /\ kept \subseteq [header : Header, log : Seq(Slot)]
  /\ base \in [Page -> Txn \cup {Torn}]
  /\ baseDisk \in [Page -> Txn \cup {Torn}]
  /\ inTx \in BOOLEAN /\ start \in Nat /\ txn \in Txn
  /\ dirty \subseteq Page /\ todo \subseteq Page
  /\ next \in Nat
  /\ reply \in {"none", "pending", "ok", "error"}
  /\ acked \in [Page -> Txn]

\* The committed content of the database: what a running process reads when
\* no commit is in progress, and what the next open will read.
Image ==
  LET shown[s \in Seq(Frame)] == Overlay(base, s)
  IN  IF phase \in Running THEN shown[Committed(frames)] ELSE shown[Recoverable(header, log)]

\* A transaction that the code reported as committed is never lost, whatever
\* crashes and I/O errors follow, and no page is left with mixed content.
AckedIsDurable ==
  \A p \in Page : Image[p] # Torn /\ Image[p] >= acked[p]

\* Whatever a crash leaves behind, the next open accepts it.
AlwaysOpenable == phase = "down" => CanOpen

\* rollback_to computes file offsets from the number of frames in memory, and
\* a commit appends at the end of the file: while the log is healthy the file
\* must hold exactly the frames that the process knows.
FileMatchesMemory ==
  phase \in Running /\ ~ ioFailed => header = "valid" /\ log = frames

\* Outside a transaction no frame without its commit is left in the index from
\* which read_page and checkpoint take pages.
NoUncommittedTail ==
  phase = "ready" /\ ~ inTx /\ ~ ioFailed => Committed(frames) = frames

Store == INSTANCE DurableStore
           WITH image <- Image, attempt <- dirty, number <- txn

\* The log implements the atomic store.
ImplementsStore == Store!Spec

=============================================================================

------------------------------ MODULE WalProofs ------------------------------
(***************************************************************************)
(* Proofs about Wal, for every set of pages, every bound and every         *)
(* checkpoint threshold: the types, the agreement of the log file with the *)
(* frames in memory, and that the log is a durable store of whole          *)
(* transactions, which refines DurableStore.                               *)
(*                                                                         *)
(* Durability is proved for crashes of one kind and applications that do   *)
(* not call checkpoint inside a transaction.  The argument is about the    *)
(* log files that a crash may leave behind (Candidates).  While no failure *)
(* is pending each of them holds what is committed and nothing else; after *)
(* a failed commit, truncation or reset each holds the transaction whose   *)
(* outcome is open as a whole or not at all, and the base file is right    *)
(* wherever the log does not overlay it.                                   *)
(***************************************************************************)
EXTENDS Wal, OrderLemmas

USE PageAssumption, BoundAssumption, EnvironmentAssumption, TornAssumption

-----------------------------------------------------------------------------
(* The operators that read a log.                                          *)

\* The scan of a log stops within it, before the first torn frame.
LEMMA ValidLengthOK ==
  ASSUME NEW s \in Seq(Slot)
  PROVE  /\ ValidLength(s) \in 0 .. Len(s)
         /\ \A i \in 1 .. ValidLength(s) : s[i] # Torn
<1> DEFINE T == {i \in 1 .. Len(s) : s[i] = Torn}
           Good(n) == /\ \A i \in 1 .. n : s[i] # Torn
                      /\ n < Len(s) => s[n + 1] = Torn
<1>1. \E n \in 0 .. Len(s) : Good(n)
  <2>1. CASE T = {}
    <3>1. Good(Len(s))
      BY <2>1
    <3>2. QED
      BY <3>1
  <2>2. CASE T # {}
    <3>. T \subseteq Nat
      OBVIOUS
    <3>1. PICK m \in T : \A k \in T : m <= k
      BY <2>2, LeastElement
    <3>2. m - 1 \in 0 .. Len(s) /\ m - 1 + 1 = m
      OBVIOUS
    <3>3. Good(m - 1)
      BY <3>1, <3>2
    <3>4. QED
      BY <3>2, <3>3
  <2>3. QED
    BY <2>1, <2>2
<1>2. QED
  BY <1>1 DEF ValidLength

\* The frames before the first torn one.
LEMMA ValidOK ==
  ASSUME NEW s \in Seq(Slot)
  PROVE  Valid(s) \in Seq(Frame) /\ Len(Valid(s)) <= Len(s)
<1> DEFINE n == ValidLength(s)
<1>1. n \in 0 .. Len(s) /\ \A i \in 1 .. n : s[i] # Torn
  BY ValidLengthOK
<1>2. \A i \in 1 .. n : s[i] \in Frame
  BY <1>1, ElementOfSeq DEF Slot
<1>3. SubSeq(s, 1, n) \in Seq(Frame) /\ Len(SubSeq(s, 1, n)) = n
  BY <1>1, <1>2, SubSeqProperties, n - 1 + 1 = n
<1>4. QED
  BY <1>1, <1>3 DEF Valid, Prefix

\* A log all of whose frames are committed.
EndsCommitted(s) == s = <<>> \/ s[Len(s)].commit

\* The scan for the last commit frame ends at one, or finds none.
LEMMA CommittedLengthOK ==
  ASSUME NEW s \in Seq(Frame)
  PROVE  /\ CommittedLength(s) \in 0 .. Len(s)
         /\ CommittedLength(s) > 0 => s[CommittedLength(s)].commit
<1> DEFINE T == {i \in 1 .. Len(s) : s[i].commit}
           Good(n) == /\ n > 0 => s[n].commit
                      /\ \A i \in n + 1 .. Len(s) : ~ s[i].commit
<1>1. \E n \in 0 .. Len(s) : Good(n)
  <2>1. CASE T = {}
    <3>1. Good(0)
      BY <2>1
    <3>2. QED
      BY <3>1
  <2>2. CASE T # {}
    <3>1. T \subseteq 0 .. Len(s)
      OBVIOUS
    <3>2. PICK m \in T : \A k \in T : k <= m
      BY <2>2, <3>1, GreatestElement, LenProperties
    <3>3. Good(m)
      BY <3>2
    <3>4. QED
      BY <3>3, <3>1
  <2>3. QED
    BY <2>1, <2>2
<1>2. QED
  BY <1>1 DEF CommittedLength

\* The committed frames end with a commit frame.
LEMMA CommittedOK ==
  ASSUME NEW s \in Seq(Frame)
  PROVE  /\ Committed(s) \in Seq(Frame)
         /\ Len(Committed(s)) <= Len(s)
         /\ EndsCommitted(Committed(s))
<1> DEFINE n == CommittedLength(s)
<1>1. n \in 0 .. Len(s) /\ (n > 0 => s[n].commit)
  BY CommittedLengthOK
<1>2. /\ SubSeq(s, 1, n) \in Seq(Frame)
      /\ Len(SubSeq(s, 1, n)) = n
      /\ \A i \in 1 .. n : SubSeq(s, 1, n)[i] = s[i]
  BY <1>1, PrefixOfSeq
<1>3. CASE n = 0
  BY <1>1, <1>2, <1>3 DEF Committed, Prefix, EndsCommitted
<1>4. CASE n > 0
  <2>1. SubSeq(s, 1, n)[n].commit
    BY <1>1, <1>2, <1>4
  <2>2. QED
    BY <1>1, <1>2, <2>1 DEF Committed, Prefix, EndsCommitted
<1>5. QED
  BY <1>1, <1>3, <1>4

\* Nothing is cut from a log all of whose frames are committed.
LEMMA CommittedFull ==
  ASSUME NEW s \in Seq(Frame), EndsCommitted(s)
  PROVE  Committed(s) = s
<1> DEFINE n == CommittedLength(s)
           Good(k) == /\ k > 0 => s[k].commit
                      /\ \A i \in k + 1 .. Len(s) : ~ s[i].commit
<1>1. Good(Len(s)) /\ Len(s) \in 0 .. Len(s)
  BY DEF EndsCommitted
<1>2. n \in 0 .. Len(s) /\ Good(n)
  BY <1>1 DEF CommittedLength
<1>3. n = Len(s)
  <2>1. CASE Len(s) = 0
    BY <1>2, <2>1
  <2>2. CASE Len(s) > 0
    <3>1. s[Len(s)].commit
      BY <2>2 DEF EndsCommitted
    <3>2. QED
      BY <1>2, <2>2, <3>1
  <2>3. QED
    BY <2>1, <2>2
<1>4. QED
  BY <1>3, SubSeqFull DEF Committed, Prefix

\* So do those that recovery takes from a file.
LEMMA RecoverableOK ==
  ASSUME NEW s \in Seq(Slot), NEW h
  PROVE  /\ Recoverable(h, s) \in Seq(Frame)
         /\ EndsCommitted(Recoverable(h, s))
<1>1. CASE h = "valid"
  BY <1>1, ValidOK, CommittedOK DEF Recoverable
<1>2. CASE h # "valid"
  BY <1>2 DEF Recoverable, EndsCommitted
<1>3. QED
  BY <1>1, <1>2

\* A file that is cut or extended keeps the frames that it still has.
LEMMA ResizeOK ==
  ASSUME NEW s \in Seq(Slot), NEW n \in Nat
  PROVE  /\ Resize(s, n) \in Seq(Slot)
         /\ Len(Resize(s, n)) = n
         /\ \A i \in 1 .. n : i <= Len(s) => Resize(s, n)[i] = s[i]
<1>1. \A i \in 1 .. n : Resize(s, n)[i] \in Slot
  BY ElementOfSeq DEF Resize, Slot
<1>2. Resize(s, n) \in [1 .. n -> Slot]
  BY <1>1 DEF Resize
<1>3. QED
  BY <1>2 DEF Resize

\* Every non-empty set of pages has a first page.
LEMMA MinPageOK ==
  ASSUME NEW S \in SUBSET Page, S # {}
  PROVE  MinPage(S) \in S
<1>1. \E p \in S : \A q \in S : p <= q
  BY LeastElement
<1>2. QED
  BY <1>1 DEF MinPage

\* The pages of frames are pages.
LEMMA PagesOfOK ==
  ASSUME NEW s \in Seq(Frame)
  PROVE  PagesOf(s) \subseteq Page
<1>1. \A i \in 1 .. Len(s) : s[i] \in Frame
  BY ElementOfSeq
<1>2. \A i \in 1 .. Len(s) : s[i].page \in Page
  BY <1>1 DEF Frame
<1>3. QED
  BY <1>2 DEF PagesOf

\* A page that has frames has a last one.
LEMMA LastFrameOK ==
  ASSUME NEW s \in Seq(Frame), NEW p \in PagesOf(s)
  PROVE  LastFrame(s, p) \in 1 .. Len(s)
<1> DEFINE T == {i \in 1 .. Len(s) : s[i].page = p}
<1>1. T \subseteq 0 .. Len(s) /\ T # {}
  BY DEF PagesOf
<1>2. PICK m \in T : \A k \in T : k <= m
  BY <1>1, GreatestElement, LenProperties
<1>3. \A j \in m + 1 .. Len(s) : s[j].page # p
  BY <1>2
<1>4. QED
  BY <1>2, <1>3 DEF LastFrame

-----------------------------------------------------------------------------
(* Types.  The type invariant is inductive together with what each phase   *)
(* knows of the call in progress.                                          *)

PhaseData ==
  /\ phase = "commit" => todo # {}
  /\ phase = "checkpoint" => todo \subseteq PagesOf(frames)
  /\ phase = "recover" => next \in Nat \ {0}

WalTypeOK ==
  /\ header \in Header
  /\ log \in Seq(Slot)
  /\ flushed \in 0 .. Len(log)
  /\ kept \subseteq [header : Header, log : Seq(Slot)]

\* A header and frames make a file.
LEMMA FileType ==
  ASSUME NEW h \in Header, NEW s \in Seq(Slot)
  PROVE  File(h, s) \in [header : Header, log : Seq(Slot)]
BY DEF File

\* The first n elements of a sequence.
LEMMA PrefixType ==
  ASSUME NEW S, NEW s \in Seq(S), NEW n \in 0 .. Len(s)
  PROVE  /\ Prefix(s, n) \in Seq(S)
         /\ Len(Prefix(s, n)) = n
         /\ \A i \in 1 .. n : Prefix(s, n)[i] = s[i]
BY PrefixOfSeq DEF Prefix

\* Frames fill slots.
LEMMA FrameSlot ==
  ASSUME NEW s \in Seq(Frame)
  PROVE  s \in Seq(Slot)
BY DEF Slot

\* Appending to the log keeps its types.
LEMMA FlushedToType ==
  ASSUME TypeOK, log' \in Seq(Slot), header' = header,
         NEW m \in flushed .. Len(log'), FlushedTo(m)
  PROVE  WalTypeOK'
<1>1. flushed \in Nat /\ header \in Header
  BY DEF TypeOK
<1>2. \A k \in flushed .. m : File(header, Prefix(log', k)) \in [header : Header, log : Seq(Slot)]
  BY <1>1, PrefixType, FileType
<1>3. kept' \subseteq [header : Header, log : Seq(Slot)]
  BY <1>2 DEF FlushedTo, TypeOK
<1>4. QED
  BY <1>1, <1>3 DEF FlushedTo, WalTypeOK

\* Synchronizing it keeps them.
LEMMA SyncedAsType ==
  ASSUME NEW h \in Header, NEW s \in Seq(Slot), SyncedAs(h, s)
  PROVE  WalTypeOK'
BY FileType DEF SyncedAs, WalTypeOK

\* Truncating it keeps them.
LEMMA TruncatedToType ==
  ASSUME TypeOK, NEW h \in Header, NEW n \in Nat, TruncatedTo(h, n)
  PROVE  WalTypeOK'
<1>1. Resize(log, n) \in Seq(Slot) /\ Len(Resize(log, n)) = n
  BY ResizeOK DEF TypeOK
<1>2. \A m \in kept : File(h, Resize(m.log, n)) \in [header : Header, log : Seq(Slot)]
  BY ResizeOK, FileType DEF TypeOK
<1>3. QED
  BY <1>1, <1>2 DEF TruncatedTo, TypeOK, WalTypeOK

\* rollback_to cuts the log within what it has, and not after the savepoint.
LEMMA RollbackTargetOK ==
  ASSUME TypeOK
  PROVE  RollbackTarget \in 0 .. Len(frames) /\ RollbackTarget <= start
BY DEF TypeOK, RollbackTarget, MinOf

\* rollback_to keeps the types of the log, whether it succeeds or fails.
LEMMA RollbackToType ==
  ASSUME TypeOK, RollbackToOk \/ RollbackToFails
  PROVE  WalTypeOK' /\ frames' \in Seq(Frame) /\ ioFailed' \in BOOLEAN
<1>1. RollbackTarget \in 0 .. Len(frames) /\ HeaderAfterSetLen \in Header
  BY RollbackTargetOK DEF HeaderAfterSetLen, Header, TypeOK
<1>2. CASE RollbackToOk
  <2>1. CASE UNCHANGED <<walVars, frames, ioFailed>>
    BY <2>1 DEF TypeOK, WalTypeOK, walVars
  <2>2. CASE /\ SyncedAs(HeaderAfterSetLen, Resize(log, RollbackTarget))
             /\ frames' = Prefix(frames, RollbackTarget)
             /\ ioFailed' = FALSE
    <3>1. Resize(log, RollbackTarget) \in Seq(Slot)
      BY <1>1, ResizeOK DEF TypeOK
    <3>2. WalTypeOK'
      BY <1>1, <2>2, <3>1, SyncedAsType
    <3>3. frames' \in Seq(Frame)
      BY <1>1, <2>2, PrefixType DEF TypeOK
    <3>4. QED
      BY <2>2, <3>2, <3>3
  <2>3. QED
    BY <1>2, <2>1, <2>2 DEF RollbackToOk
<1>3. CASE RollbackToFails
  <2>. SUFFICES WalTypeOK'
    BY <1>3 DEF RollbackToFails, TypeOK
  <2>1. CASE UNCHANGED <<header, log>> /\ \E m \in flushed .. Len(log) : FlushedTo(m)
    <3>1. PICK m \in flushed .. Len(log) : FlushedTo(m)
      BY <2>1
    <3>2. log' \in Seq(Slot) /\ m \in flushed .. Len(log')
      BY <2>1, <3>1 DEF TypeOK
    <3>3. QED
      BY <2>1, <3>1, <3>2, FlushedToType
  <2>2. CASE TruncatedTo(HeaderAfterSetLen, RollbackTarget)
    <3>1. RollbackTarget \in Nat
      BY <1>1 DEF TypeOK
    <3>2. QED
      BY <1>1, <2>2, <3>1, TruncatedToType
  <2>3. QED
    BY <1>3, <2>1, <2>2 DEF RollbackToFails
<1>4. QED
  BY <1>2, <1>3

\* The next frame of a commit is a frame; the last one is the commit frame.
LEMMA NextFrameOK ==
  ASSUME TypeOK, todo # {}
  PROVE  NextFrame \in Frame /\ (~ NextFrame.commit => todo \ {MinPage(todo)} # {})
<1>1. MinPage(todo) \in todo /\ todo \subseteq Page
  BY MinPageOK DEF TypeOK
<1>2. QED
  BY <1>1 DEF NextFrame, Frame, TypeOK

\* The empty log.
LEMMA EmptyType == <<>> \in Seq(Frame) /\ <<>> \in Seq(Slot)
OBVIOUS

\* What is left when the process is gone.
LEMMA ProcessGoneType ==
  ASSUME TypeOK, ProcessGone, WalTypeOK',
         base' \in [Page -> Txn \cup {Torn}], baseDisk' \in [Page -> Txn \cup {Torn}]
  PROVE  TypeOK' /\ PhaseData'
<1>1. frames' \in Seq(Frame)
  BY EmptyType DEF ProcessGone
<1>2. QED
  BY <1>1 DEF ProcessGone, TypeOK, WalTypeOK, PhaseData, Phase

\* Every step keeps the types.
LEMMA TypeStep ==
  ASSUME TypeOK, PhaseData, [Next]_vars
  PROVE  TypeOK' /\ PhaseData'
<1>1. CASE UNCHANGED vars
  BY <1>1 DEF vars, walVars, baseVars, txVars, replyVars, TypeOK, PhaseData, PagesOf
<1>2. CASE Begin
  BY <1>2 DEF Begin, walVars, baseVars, TypeOK, PhaseData, Phase, Txn, PagesOf
<1>3. CASE Commit
  BY <1>3 DEF Commit, walVars, baseVars, TypeOK, PhaseData, Phase
<1>4. CASE WritePage
  BY <1>4 DEF WritePage, walVars, baseVars, TypeOK, PhaseData, Phase, Txn
<1>5. CASE WriteFrame
  <2>1. NextFrame \in Frame /\ todo' # {}
    BY <1>5, NextFrameOK DEF WriteFrame, PhaseData
  <2>2. log' \in Seq(Slot) /\ Len(log') = Len(log) + 1 /\ frames' \in Seq(Frame)
    BY <1>5, <2>1 DEF WriteFrame, TypeOK, Slot
  <2>3. PICK m \in {flushed, Len(log)} : FlushedTo(m)
    BY <1>5 DEF WriteFrame
  <2>4. m \in flushed .. Len(log')
    BY <2>2, <2>3 DEF TypeOK
  <2>5. WalTypeOK'
    BY <1>5, <2>2, <2>3, <2>4, FlushedToType DEF WriteFrame
  <2>6. QED
    BY <1>5, <2>1, <2>2, <2>5
    DEF WriteFrame, baseVars, txVars, replyVars, TypeOK, WalTypeOK, PhaseData, Phase
<1>6. CASE WriteCommitFrame
  <2>1. NextFrame \in Frame
    BY <1>6, NextFrameOK DEF WriteCommitFrame, PhaseData
  <2>2. frames' \in Seq(Frame) /\ Append(log, NextFrame) \in Seq(Slot)
    BY <1>6, <2>1 DEF WriteCommitFrame, TypeOK, Slot
  <2>3. WalTypeOK'
    BY <1>6, <2>2, SyncedAsType DEF WriteCommitFrame, CommitFrameSynced, TypeOK
  <2>4. phase' \in {"checkpoint", "ready"} /\ todo' \in {PagesOf(frames'), {}}
    BY <1>6 DEF WriteCommitFrame
  <2>5. PagesOf(frames') \subseteq Page
    BY <2>2, PagesOfOK
  <2>6. reply' \in {"none", "pending", "ok", "error"} /\ acked' \in [Page -> Txn]
    <3>1. reply' \in {"none", "pending", "ok", "error"}
      BY <1>6 DEF WriteCommitFrame, replyVars, TypeOK
    <3>2. acked' \in [Page -> Txn]
      BY <1>6 DEF WriteCommitFrame, replyVars, TypeOK
    <3>3. QED
      BY <3>1, <3>2
  <2>7. PhaseData'
    BY <2>4 DEF PhaseData, PagesOf
  <2>8. QED
    BY <1>6, <2>2, <2>3, <2>4, <2>5, <2>6, <2>7
    DEF WriteCommitFrame, baseVars, TypeOK, WalTypeOK, Phase
<1>7. CASE WriteFrameFails
  <2>1. WalTypeOK'
    <3>1. CASE UNCHANGED walVars
      BY <3>1 DEF walVars, TypeOK, WalTypeOK
    <3>2. CASE /\ log' \in {log, Append(log, Torn)} \cup
                           {Append(log, f) : f \in {g \in {NextFrame} : g.commit}}
               /\ \E m \in flushed .. Len(log') : FlushedTo(m)
               /\ UNCHANGED header
      <4>1. NextFrame \in Frame
        BY <1>7, NextFrameOK DEF WriteFrameFails, PhaseData
      <4>2. log' \in {log, Append(log, Torn), Append(log, NextFrame)}
        BY <3>2
      <4>3. log' \in Seq(Slot)
        <5>1. \A x \in Slot : Append(log, x) \in Seq(Slot)
          BY DEF TypeOK
        <5>2. Torn \in Slot /\ NextFrame \in Slot
          BY <4>1 DEF Slot
        <5>3. QED
          BY <4>2, <5>1, <5>2 DEF TypeOK
      <4>4. QED
        BY <3>2, <4>3, FlushedToType
    <3>3. QED
      BY <1>7, <3>1, <3>2 DEF WriteFrameFails
  <2>2. QED
    BY <1>7, <2>1
    DEF WriteFrameFails, baseVars, txVars, TypeOK, WalTypeOK, PhaseData, Phase
<1>8. CASE UndoCommit
  <2>1. WalTypeOK' /\ frames' \in Seq(Frame) /\ ioFailed' \in BOOLEAN
    BY <1>8, RollbackToType DEF UndoCommit
  <2>2. QED
    BY <1>8, <2>1
    DEF UndoCommit, baseVars, txVars, replyVars, TypeOK, WalTypeOK, PhaseData, Phase
<1>9. CASE Rollback
  <2>1. WalTypeOK' /\ frames' \in Seq(Frame) /\ ioFailed' \in BOOLEAN
    BY <1>9, RollbackToType DEF Rollback
  <2>2. QED
    BY <1>9, <2>1 DEF Rollback, baseVars, TypeOK, WalTypeOK, PhaseData, Phase
<1>10. CASE Checkpoint
  <2>1. PagesOf(frames) \subseteq Page
    BY PagesOfOK DEF TypeOK
  <2>2. todo' \subseteq PagesOf(frames')
    BY <1>10 DEF Checkpoint, PagesOf
  <2>3. QED
    BY <1>10, <2>1, <2>2
    DEF Checkpoint, walVars, baseVars, txVars, replyVars, TypeOK, PhaseData, Phase
<1>11. CASE CheckpointPage
  <2> DEFINE p == MinPage(todo)
  <2>1. p \in todo /\ p \in Page
    BY <1>11, MinPageOK DEF CheckpointPage, TypeOK
  <2>2. frames[LastFrame(frames, p)] \in Frame
    BY <1>11, <2>1, LastFrameOK, ElementOfSeq DEF CheckpointPage, PhaseData, TypeOK
  <2>3. base' \in [Page -> Txn \cup {Torn}]
    <3>1. frames[LastFrame(frames, p)].txn \in Txn
      BY <2>2 DEF Frame
    <3>2. \E v \in Txn \cup {Torn} : base' = [base EXCEPT ![p] = v]
      BY <1>11, <2>1, <3>1 DEF CheckpointPage, TypeOK
    <3>3. QED
      BY <3>2 DEF TypeOK
  <2>4. phase' \in {"checkpoint", "ready"} /\ todo' \subseteq todo /\ reply' \in {reply, "error"}
    BY <1>11 DEF CheckpointPage, ReplyAfterFailure
  <2>5. QED
    BY <1>11, <2>3, <2>4
    DEF CheckpointPage, walVars, txVars, TypeOK, PhaseData, Phase, PagesOf
<1>12. CASE CheckpointSync
  BY <1>12
  DEF CheckpointSync, BaseSynced, ReplyAfterFailure, walVars, txVars, TypeOK, PhaseData, Phase
<1>13. CASE ResetLog
  <2>1. WalTypeOK'
    BY <1>13, SyncedAsType, EmptyType DEF ResetLog, Header
  <2>2. frames' \in Seq(Frame) /\ acked' \in [Page -> Txn]
    BY <1>13, EmptyType DEF ResetLog, TypeOK
  <2>3. QED
    BY <1>13, <2>1, <2>2
    DEF ResetLog, baseVars, txVars, TypeOK, WalTypeOK, PhaseData, Phase
<1>14. CASE ResetLogFails
  <2>1. WalTypeOK'
    <3>1. CASE UNCHANGED walVars
      BY <3>1 DEF walVars, TypeOK, WalTypeOK
    <3>2. CASE TruncatedTo("absent", 0)
      BY <3>2, TruncatedToType DEF Header
    <3>3. CASE /\ header' = "valid" /\ log' = <<>> /\ flushed' = 0
               /\ kept' = kept \cup {File("absent", <<>>), File("valid", <<>>)}
      <4>1. {File("absent", <<>>), File("valid", <<>>)} \subseteq [header : Header, log : Seq(Slot)]
        BY DEF File, Header
      <4>2. QED
        BY <3>3, <4>1 DEF TypeOK, WalTypeOK, Header
    <3>4. QED
      BY <1>14, <3>1, <3>2, <3>3 DEF ResetLogFails
  <2>2. QED
    BY <1>14, <2>1
    DEF ResetLogFails, ReplyAfterFailure, baseVars, txVars, TypeOK, WalTypeOK, PhaseData, Phase
<1>15. CASE OpenWal
  <2>1. Recoverable(header, log) \in Seq(Frame) /\ Valid(log) \in Seq(Frame)
    BY RecoverableOK, ValidOK DEF TypeOK
  <2>2. Recoverable(header, log) \in Seq(Slot) /\ Valid(log) \in Seq(Slot)
    BY <2>1, FrameSlot
  <2>3. WalTypeOK'
    <3>1. CASE \E s \in Seq(Slot) : SyncedAs("valid", s)
      BY <3>1, SyncedAsType DEF Header
    <3>2. CASE TornTailCut
      BY <2>2, <3>2, FileType DEF TornTailCut, TypeOK, WalTypeOK
    <3>3. QED
      BY <1>15, <2>2, <3>1, <3>2, EmptyType DEF OpenWal
  <2>4. QED
    BY <1>15, <2>1, <2>3
    DEF OpenWal, baseVars, txVars, replyVars, TypeOK, WalTypeOK, PhaseData, Phase
<1>16. CASE OpenWalFails
  <2>1. Valid(log) \in Seq(Slot)
    BY ValidOK, FrameSlot DEF TypeOK
  <2>2. WalTypeOK'
    BY <1>16, <2>1, FileType DEF OpenWalFails, TornTailCut, TypeOK, WalTypeOK
  <2>3. QED
    BY <1>16, <2>2
    DEF OpenWalFails, baseVars, txVars, replyVars, TypeOK, WalTypeOK, PhaseData
<1>17. CASE RecoverFrame
  <2>1. frames[next] \in Frame
    BY <1>17, ElementOfSeq DEF RecoverFrame, PhaseData, TypeOK
  <2>2. base' \in [Page -> Txn \cup {Torn}]
    BY <1>17, <2>1 DEF RecoverFrame, Frame, TypeOK
  <2>3. QED
    BY <1>17, <2>2
    DEF RecoverFrame, walVars, txVars, replyVars, TypeOK, PhaseData
<1>18. CASE RecoverFrameFails
  <2>1. frames[next] \in Frame
    BY <1>18, ElementOfSeq DEF RecoverFrameFails, PhaseData, TypeOK
  <2>2. base' \in [Page -> Txn \cup {Torn}]
    BY <1>18, <2>1 DEF RecoverFrameFails, Frame, TypeOK
  <2>3. WalTypeOK'
    BY <1>18 DEF RecoverFrameFails, walVars, TypeOK, WalTypeOK
  <2>4. QED
    BY <1>18, <2>2, <2>3, ProcessGoneType DEF RecoverFrameFails, TypeOK
<1>19. CASE RecoverSync
  BY <1>19 DEF RecoverSync, walVars, txVars, replyVars, TypeOK, PhaseData, Phase
<1>20. CASE RecoverSyncFails
  <2>1. WalTypeOK'
    BY <1>20 DEF RecoverSyncFails, walVars, TypeOK, WalTypeOK
  <2>2. QED
    BY <1>20, <2>1, ProcessGoneType DEF RecoverSyncFails, baseVars, TypeOK
<1>21. CASE ProcessCrash
  <2>1. log' \in Seq(Slot)
    BY <1>21, PrefixType DEF ProcessCrash, TypeOK
  <2>2. Len(log') \in flushed .. Len(log')
    BY <1>21, PrefixType DEF ProcessCrash, TypeOK
  <2>3. WalTypeOK'
    BY <1>21, <2>1, <2>2, FlushedToType DEF ProcessCrash
  <2>4. QED
    BY <1>21, <2>3, ProcessGoneType DEF ProcessCrash, baseVars, TypeOK
<1>22. CASE PowerLoss
  <2>1. WalTypeOK'
    BY <1>22, SyncedAsType DEF PowerLoss, TypeOK
  <2>2. base' \in [Page -> Txn \cup {Torn}]
    BY <1>22 DEF PowerLoss
  <2>3. QED
    BY <1>22, <2>1, <2>2, ProcessGoneType DEF PowerLoss
<1>23. QED
  BY <1>1, <1>2, <1>3, <1>4, <1>5, <1>6, <1>7, <1>8, <1>9, <1>10, <1>11, <1>12, <1>13,
     <1>14, <1>15, <1>16, <1>17, <1>18, <1>19, <1>20, <1>21, <1>22 DEF Next, Working

\* The types hold at first.
LEMMA TypeInit == Init => TypeOK /\ PhaseData
<1>. SUFFICES ASSUME Init
              PROVE  TypeOK /\ PhaseData
  OBVIOUS
<1>1. kept \subseteq [header : Header, log : Seq(Slot)]
  BY DEF Init, File, Header
<1>2. base \in [Page -> Txn \cup {Torn}] /\ baseDisk \in [Page -> Txn \cup {Torn}] /\ acked \in [Page -> Txn]
  BY DEF Init, Txn
<1>3. frames \in Seq(Frame) /\ log \in Seq(Slot) /\ flushed \in 0 .. Len(log)
  BY EmptyType DEF Init
<1>4. txn \in Txn /\ header \in Header /\ phase \in Phase
  BY DEF Init, Txn, Header, Phase
<1>5. QED
  BY <1>1, <1>2, <1>3, <1>4 DEF Init, TypeOK, PhaseData

\* Every variable keeps its type: no step indexes a log outside its bounds or
\* copies to the base file a page that is not one.
THEOREM TypeCorrect == Spec => []TypeOK
<1>1. TypeOK /\ PhaseData /\ [Next]_vars => TypeOK' /\ PhaseData'
  BY TypeStep
<1>2. QED
  BY <1>1, TypeInit, PTL DEF Spec

-----------------------------------------------------------------------------
(* Safety, for applications that do not call checkpoint inside a           *)
(* transaction.  (With such a call FileMatchesMemory and NoUncommittedTail *)
(* do not hold: run wal_checkpoint_in_tx.)                                 *)

\* A healthy log holds what the process knows; one that has failed need not.
MemoryMatchesFile ==
  phase # "down" /\ ~ ioFailed => header = "valid" /\ log = frames

\* The savepoint of an open transaction can be restored: its frames are both in
\* memory and in the file, whatever a failed commit has left behind them.
SavepointIntact ==
  inTx =>
    /\ phase \in {"ready", "commit", "undo"}
    /\ header = "valid"
    /\ start <= Len(frames) /\ start <= Len(log)
    /\ \A i \in 1 .. start : log[i] = frames[i]
    /\ start > 0 => frames[start].commit

PhaseOwner ==
  /\ phase \in {"checkpoint", "reset", "recover", "down"} => ~ inTx /\ ~ ioFailed
  /\ phase = "undo" => inTx

TailCommitted ==
  phase \in {"ready", "checkpoint", "reset", "recover"} /\ ~ inTx /\ ~ ioFailed
    => EndsCommitted(frames)

IInv ==
  /\ TypeOK /\ PhaseData
  /\ MemoryMatchesFile /\ SavepointIntact /\ PhaseOwner /\ TailCommitted

SafePart == MemoryMatchesFile /\ SavepointIntact /\ PhaseOwner /\ TailCommitted

\* A file that is cut keeps the frames before the cut.
LEMMA ResizeKeeps ==
  ASSUME NEW s \in Seq(Slot), NEW n \in Nat, n <= Len(s)
  PROVE  /\ Resize(s, n) \in Seq(Slot) /\ Len(Resize(s, n)) = n
         /\ \A i \in 1 .. n : Resize(s, n)[i] = s[i]
<1>1. \A i \in 1 .. n : i <= Len(s)
  OBVIOUS
<1>2. QED
  BY <1>1, ResizeOK

\* A commit frame ends a log with a commit.
LEMMA AppendCommitted ==
  ASSUME NEW s \in Seq(Frame), NEW f \in Frame, f.commit
  PROVE  EndsCommitted(Append(s, f))
BY DEF EndsCommitted

\* Truncating the log restores the frames of the savepoint.
LEMMA RollbackRestores ==
  ASSUME IInv, inTx, RollbackToOk
  PROVE  /\ log' = frames' /\ header' = "valid" /\ ioFailed' = FALSE
         /\ Len(frames') = start
         /\ \A i \in 1 .. start : frames'[i] = frames[i]
         /\ EndsCommitted(frames')
<1>1. /\ header = "valid" /\ start <= Len(frames) /\ start <= Len(log) /\ start \in Nat
      /\ \A i \in 1 .. start : log[i] = frames[i]
      /\ start > 0 => frames[start].commit
  BY DEF IInv, SavepointIntact, TypeOK
<1>2. RollbackTarget = start
  BY <1>1 DEF RollbackTarget, MinOf, IInv, TypeOK
<1>3. CASE NothingToRollBack /\ UNCHANGED <<walVars, frames, ioFailed>>
  <2>1. log = frames /\ Len(frames) = start
    BY <1>2, <1>3 DEF NothingToRollBack, IInv, MemoryMatchesFile, PhaseOwner, SavepointIntact
  <2>2. EndsCommitted(frames)
    BY <1>1, <2>1 DEF EndsCommitted, IInv, TypeOK
  <2>3. QED
    BY <1>1, <1>3, <2>1, <2>2 DEF NothingToRollBack, walVars, EndsCommitted
<1>4. CASE /\ SyncedAs(HeaderAfterSetLen, Resize(log, RollbackTarget))
           /\ frames' = Prefix(frames, RollbackTarget)
           /\ ioFailed' = FALSE
  <2>1. header' = "valid" /\ log' = Resize(log, start)
    BY <1>1, <1>2, <1>4 DEF SyncedAs, HeaderAfterSetLen
  <2>2. frames' = Prefix(frames, start)
    BY <1>2, <1>4
  <2>3. /\ frames' \in Seq(Frame) /\ Len(frames') = start
        /\ \A i \in 1 .. start : frames'[i] = frames[i]
    BY <1>1, <2>2, PrefixType DEF IInv, TypeOK
  <2>4. /\ log' \in Seq(Slot) /\ Len(log') = start
        /\ \A i \in 1 .. start : log'[i] = log[i]
    BY <1>1, <2>1, ResizeKeeps DEF IInv, TypeOK
  <2>5. log' = frames'
    BY <1>1, <2>3, <2>4, FrameSlot, SeqEqual
  <2>6. EndsCommitted(frames')
    BY <1>1, <2>3 DEF EndsCommitted
  <2>7. QED
    BY <1>4, <2>1, <2>3, <2>5, <2>6
<1>5. QED
  BY <1>3, <1>4 DEF RollbackToOk

\* A truncation that fails leaves the frames of the savepoint in the file.
LEMMA RollbackFailureKeeps ==
  ASSUME IInv, inTx, RollbackToFails
  PROVE  /\ header' = "valid" /\ ioFailed' = TRUE /\ frames' = frames
         /\ start <= Len(log')
         /\ \A i \in 1 .. start : log'[i] = frames[i]
<1>1. /\ header = "valid" /\ start <= Len(frames) /\ start <= Len(log) /\ start \in Nat
      /\ \A i \in 1 .. start : log[i] = frames[i]
  BY DEF IInv, SavepointIntact, TypeOK
<1>2. RollbackTarget = start
  BY <1>1 DEF RollbackTarget, MinOf, IInv, TypeOK
<1>3. CASE UNCHANGED <<header, log>>
  BY <1>1, <1>3 DEF RollbackToFails
<1>4. CASE TruncatedTo(HeaderAfterSetLen, RollbackTarget)
  <2>1. header' = "valid" /\ log' = Resize(log, start)
    BY <1>1, <1>2, <1>4 DEF TruncatedTo, HeaderAfterSetLen
  <2>2. Len(log') = start /\ \A i \in 1 .. start : log'[i] = log[i]
    BY <1>1, <2>1, ResizeKeeps DEF IInv, TypeOK
  <2>3. QED
    BY <1>1, <2>1, <2>2 DEF RollbackToFails
<1>5. QED
  BY <1>3, <1>4 DEF RollbackToFails

\* Every step keeps file and memory in agreement, without checkpoints inside a transaction.
LEMMA SafeStep ==
  ASSUME IInv, [Next]_vars, CheckpointDuringTx = FALSE
  PROVE  IInv'
<1>1. TypeOK' /\ PhaseData'
  BY TypeStep DEF IInv
<1>. SUFFICES SafePart'
  BY <1>1 DEF IInv, SafePart
<1>. USE DEF SafePart, MemoryMatchesFile, SavepointIntact, PhaseOwner, TailCommitted
<1>2. CASE UNCHANGED vars
  BY <1>2 DEF vars, walVars, txVars, IInv, EndsCommitted
<1>3. CASE Begin
  BY <1>3 DEF Begin, walVars, IInv, EndsCommitted, TypeOK
<1>4. CASE Commit
  BY <1>4 DEF Commit, walVars, IInv
<1>5. CASE WritePage
  BY <1>5 DEF WritePage, walVars, IInv
<1>6. CASE WriteFrame
  <2>1. NextFrame \in Frame
    BY <1>6, NextFrameOK DEF WriteFrame, IInv, PhaseData
  <2>2. header = "valid" /\ log = frames /\ phase = "commit"
    BY <1>6 DEF WriteFrame, IInv
  <2>3. log' = frames' /\ frames' = Append(frames, NextFrame)
    BY <1>6, <2>2 DEF WriteFrame
  <2>4. Len(frames') = Len(frames) + 1 /\ \A i \in 1 .. Len(frames) : frames'[i] = frames[i]
    BY <2>1, <2>3 DEF IInv, TypeOK
  <2>5. QED
    BY <1>6, <2>2, <2>3, <2>4 DEF WriteFrame, txVars, IInv, TypeOK
<1>7. CASE WriteCommitFrame
  <2>1. NextFrame \in Frame /\ NextFrame.commit
    BY <1>7, NextFrameOK DEF WriteCommitFrame, IInv, PhaseData
  <2>2. header' = "valid" /\ log' = frames' /\ frames' = Append(frames, NextFrame)
    BY <1>7 DEF WriteCommitFrame, CommitFrameSynced, SyncedAs, IInv
  <2>3. EndsCommitted(frames')
    BY <2>1, <2>2, AppendCommitted DEF IInv, TypeOK
  <2>4. phase' \in {"checkpoint", "ready"}
    BY <1>7 DEF WriteCommitFrame
  <2>5. QED
    BY <1>7, <2>2, <2>3, <2>4 DEF WriteCommitFrame
<1>8. CASE WriteFrameFails
  <2>1. CASE inTx
    <3>1. header' = "valid" /\ frames' = frames
      BY <1>8, <2>1 DEF WriteFrameFails, walVars, IInv
    <3>2. start <= Len(log') /\ \A i \in 1 .. start : log'[i] = log[i]
      <4>1. CASE log' = log
        BY <2>1, <4>1 DEF IInv
      <4>2. CASE \E x \in Slot : log' = Append(log, x)
        BY <2>1, <4>2 DEF IInv, TypeOK
      <4>3. NextFrame \in Slot /\ Torn \in Slot
        BY <1>8, NextFrameOK DEF WriteFrameFails, IInv, PhaseData, Slot
      <4>4. QED
        BY <1>8, <4>1, <4>2, <4>3 DEF WriteFrameFails, walVars
    <3>3. QED
      BY <1>8, <2>1, <3>1, <3>2 DEF WriteFrameFails, txVars, IInv, TypeOK
  <2>2. CASE ~ inTx
    BY <1>8, <2>2 DEF WriteFrameFails, txVars
  <2>3. QED
    BY <2>1, <2>2
<1>9. CASE UndoCommit
  <2>1. inTx
    BY <1>9 DEF UndoCommit, IInv
  <2>2. CASE RollbackToOk
    <3>1. /\ log' = frames' /\ header' = "valid" /\ Len(frames') = start
          /\ \A i \in 1 .. start : frames'[i] = frames[i]
      BY <2>1, <2>2, RollbackRestores
    <3>2. start \in Nat /\ (start > 0 => frames[start].commit)
      BY <2>1 DEF IInv, TypeOK
    <3>3. start > 0 => frames'[start].commit
      BY <3>1, <3>2
    <3>4. QED
      BY <1>9, <2>1, <3>1, <3>2, <3>3 DEF UndoCommit, txVars
  <2>3. CASE RollbackToFails
    BY <1>9, <2>1, <2>3, RollbackFailureKeeps DEF UndoCommit, txVars, IInv
  <2>4. QED
    BY <1>9, <2>2, <2>3 DEF UndoCommit
<1>10. CASE Rollback
  <2>1. CASE RollbackToOk
    BY <1>10, <2>1, RollbackRestores DEF Rollback
  <2>2. CASE RollbackToFails
    BY <1>10, <2>2 DEF Rollback, RollbackToFails
  <2>3. QED
    BY <1>10, <2>1, <2>2 DEF Rollback
<1>11. CASE Checkpoint
  BY <1>11 DEF Checkpoint, walVars, txVars, IInv, EndsCommitted
<1>12. CASE CheckpointPage
  BY <1>12 DEF CheckpointPage, walVars, txVars, IInv, EndsCommitted
<1>13. CASE CheckpointSync
  BY <1>13 DEF CheckpointSync, walVars, txVars, IInv, EndsCommitted
<1>14. CASE ResetLog
  BY <1>14 DEF ResetLog, SyncedAs, txVars, IInv, EndsCommitted
<1>15. CASE ResetLogFails
  BY <1>15 DEF ResetLogFails, txVars, IInv
<1>16. CASE OpenWal
  <2>1. ~ inTx' /\ ~ ioFailed' /\ phase' = "recover" /\ frames' = Recoverable(header, log)
    BY <1>16 DEF OpenWal, txVars, IInv
  <2>2. EndsCommitted(frames')
    BY <2>1, RecoverableOK DEF IInv, TypeOK
  <2>3. header' = "valid" /\ log' = frames'
    BY <1>16 DEF OpenWal, SyncedAs, TornTailCut, Recoverable
  <2>4. QED
    BY <2>1, <2>2, <2>3
<1>17. CASE OpenWalFails
  BY <1>17 DEF OpenWalFails, txVars, IInv
<1>18. CASE RecoverFrame
  BY <1>18 DEF RecoverFrame, walVars, txVars, IInv, EndsCommitted
<1>19. CASE RecoverFrameFails
  BY <1>19 DEF RecoverFrameFails, ProcessGone
<1>20. CASE RecoverSync
  BY <1>20 DEF RecoverSync, walVars, txVars, IInv, EndsCommitted
<1>21. CASE RecoverSyncFails
  BY <1>21 DEF RecoverSyncFails, ProcessGone
<1>22. CASE ProcessCrash
  BY <1>22 DEF ProcessCrash, ProcessGone
<1>23. CASE PowerLoss
  BY <1>23 DEF PowerLoss, ProcessGone
<1>24. QED
  BY <1>2, <1>3, <1>4, <1>5, <1>6, <1>7, <1>8, <1>9, <1>10, <1>11, <1>12, <1>13, <1>14,
     <1>15, <1>16, <1>17, <1>18, <1>19, <1>20, <1>21, <1>22, <1>23 DEF Next, Working

\* They agree at first.
LEMMA SafeInit == Init => IInv
BY TypeInit DEF Init, IInv, MemoryMatchesFile, SavepointIntact, PhaseOwner, TailCommitted

\* What a healthy log file holds is what the process knows, so that offsets
\* computed from the number of frames are right, whatever failed before.
THEOREM FileCorrect ==
  ASSUME CheckpointDuringTx = FALSE
  PROVE  Spec => []FileMatchesMemory
<1>1. IInv /\ [Next]_vars => IInv'
  BY SafeStep
<1>2. IInv => FileMatchesMemory
  BY DEF IInv, MemoryMatchesFile, FileMatchesMemory, Running
<1>3. QED
  BY <1>1, <1>2, SafeInit, PTL DEF Spec

\* Between transactions a healthy process knows committed frames only: no
\* failed commit and no recovery leaves one behind that was not.
THEOREM TailCorrect ==
  ASSUME CheckpointDuringTx = FALSE
  PROVE  Spec => []NoUncommittedTail
<1>1. IInv /\ [Next]_vars => IInv'
  BY SafeStep
<1>2. IInv => NoUncommittedTail
  BY CommittedFull DEF IInv, TailCommitted, NoUncommittedTail, TypeOK
<1>3. QED
  BY <1>1, <1>2, SafeInit, PTL DEF Spec

-----------------------------------------------------------------------------
(* What the operators that read a log make of a log that has grown.        *)

\* The length of the valid part is the one before the first torn frame.
LEMMA ValidUnique ==
  ASSUME NEW s \in Seq(Slot), NEW n \in 0 .. Len(s),
         \A i \in 1 .. n : s[i] # Torn, n < Len(s) => s[n + 1] = Torn
  PROVE  ValidLength(s) = n
<1> DEFINE Good(k) == /\ \A i \in 1 .. k : s[i] # Torn
                      /\ k < Len(s) => s[k + 1] = Torn
<1>1. ValidLength(s) \in 0 .. Len(s) /\ Good(ValidLength(s))
  <2>1. Good(n)
    OBVIOUS
  <2> HIDE DEF Good
  <2>2. (CHOOSE k \in 0 .. Len(s) : Good(k)) \in 0 .. Len(s)
        /\ Good(CHOOSE k \in 0 .. Len(s) : Good(k))
    BY <2>1
  <2>3. QED
    BY <2>2 DEF ValidLength, Good
<1>2. QED
  BY <1>1

\* A frame that was written is not torn.
LEMMA FrameIsNotTorn ==
  ASSUME NEW s \in Seq(Frame), NEW i \in 1 .. Len(s)
  PROVE  s[i] # Torn
BY ElementOfSeq

\* A log without a torn slot is read as it is, and up to one that has been added.
LEMMA ValidFrames ==
  ASSUME NEW s \in Seq(Frame)
  PROVE  Valid(s) = s /\ Valid(Append(s, Torn)) = s
<1>1. s \in Seq(Slot) /\ Append(s, Torn) \in Seq(Slot)
  BY FrameSlot DEF Slot
<1>2. ValidLength(s) = Len(s)
  BY <1>1, FrameIsNotTorn, ValidUnique
<1>3. ValidLength(Append(s, Torn)) = Len(s)
  <2> DEFINE a == Append(s, Torn)
  <2>1. /\ Len(a) = Len(s) + 1 /\ a[Len(s) + 1] = Torn
        /\ \A i \in 1 .. Len(s) : a[i] = s[i]
    OBVIOUS
  <2> a \in Seq(Slot)
    BY <1>1
  <2> HIDE DEF a
  <2>2. \A i \in 1 .. Len(s) : a[i] # Torn
    BY <2>1, FrameIsNotTorn
  <2>3. Len(s) \in 0 .. Len(a) /\ (Len(s) < Len(a) => a[Len(s) + 1] = Torn)
    BY <2>1
  <2>4. ValidLength(a) = Len(s)
    BY <2>2, <2>3, ValidUnique
  <2>5. QED
    BY <2>4 DEF a
<1>4. SubSeq(s, 1, Len(s)) = s
  BY SubSeqFull
<1>5. SubSeq(Append(s, Torn), 1, Len(s)) = s
  <2>1. Append(s, Torn) \in Seq(Slot) /\ Len(s) \in 0 .. Len(Append(s, Torn))
    BY <1>1
  <2>2. /\ SubSeq(Append(s, Torn), 1, Len(s)) \in Seq(Slot)
        /\ Len(SubSeq(Append(s, Torn), 1, Len(s))) = Len(s)
        /\ \A i \in 1 .. Len(s) : SubSeq(Append(s, Torn), 1, Len(s))[i] = Append(s, Torn)[i]
    BY <2>1, PrefixOfSeq
  <2>3. \A i \in 1 .. Len(s) : Append(s, Torn)[i] = s[i]
    OBVIOUS
  <2>4. QED
    BY <1>1, <2>2, <2>3, SeqEqual
<1>6. QED
  BY <1>2, <1>3, <1>4, <1>5 DEF Valid, Prefix

\* The length of the committed part is that up to the last commit frame.
LEMMA CommittedUnique ==
  ASSUME NEW s \in Seq(Frame), NEW n \in 0 .. Len(s),
         n > 0 => s[n].commit, \A i \in n + 1 .. Len(s) : ~ s[i].commit
  PROVE  CommittedLength(s) = n /\ Committed(s) = Prefix(s, n)
<1> DEFINE Good(k) == /\ k > 0 => s[k].commit
                      /\ \A i \in k + 1 .. Len(s) : ~ s[i].commit
<1>1. CommittedLength(s) \in 0 .. Len(s) /\ Good(CommittedLength(s))
  <2>1. Good(n)
    OBVIOUS
  <2> HIDE DEF Good
  <2>2. (CHOOSE k \in 0 .. Len(s) : Good(k)) \in 0 .. Len(s)
        /\ Good(CHOOSE k \in 0 .. Len(s) : Good(k))
    BY <2>1
  <2>3. QED
    BY <2>2 DEF CommittedLength, Good
<1>2. CommittedLength(s) = n
  BY <1>1
<1>3. QED
  BY <1>2 DEF Committed

\* The scan for the last commit frame finds the last.
LEMMA CommittedLengthFacts ==
  ASSUME NEW s \in Seq(Frame)
  PROVE  /\ CommittedLength(s) \in 0 .. Len(s)
         /\ CommittedLength(s) > 0 => s[CommittedLength(s)].commit
         /\ \A i \in CommittedLength(s) + 1 .. Len(s) : ~ s[i].commit
<1> DEFINE T == {i \in 1 .. Len(s) : s[i].commit}
<1>1. CASE T = {}
  <2>1. \A i \in 0 + 1 .. Len(s) : ~ s[i].commit
    BY <1>1
  <2>2. CommittedLength(s) = 0
    BY <2>1, CommittedUnique
  <2>3. QED
    BY <2>1, <2>2
<1>2. CASE T # {}
  <2>1. T \subseteq 0 .. Len(s)
    OBVIOUS
  <2>2. PICK m \in T : \A k \in T : k <= m
    BY <1>2, <2>1, GreatestElement, LenProperties
  <2>3. m \in 0 .. Len(s) /\ s[m].commit /\ \A i \in m + 1 .. Len(s) : ~ s[i].commit
    BY <2>2
  <2>4. CommittedLength(s) = m
    BY <2>3, CommittedUnique
  <2>5. QED
    BY <2>3, <2>4
<1>3. QED
  BY <1>1, <1>2

\* A frame that is not a commit frame commits nothing.
LEMMA CommittedAppend ==
  ASSUME NEW s \in Seq(Frame), NEW f \in Frame, ~ f.commit
  PROVE  Committed(Append(s, f)) = Committed(s)
<1> DEFINE a == Append(s, f)
           n == CommittedLength(s)
<1>1. /\ a \in Seq(Frame) /\ Len(a) = Len(s) + 1 /\ a[Len(s) + 1] = f
      /\ \A i \in 1 .. Len(s) : a[i] = s[i]
  OBVIOUS
<1>2. /\ n \in 0 .. Len(s)
      /\ n > 0 => s[n].commit
      /\ \A i \in n + 1 .. Len(s) : ~ s[i].commit
  BY CommittedLengthFacts
<1> HIDE DEF a, n
<1>3. n > 0 => a[n].commit
  BY <1>1, <1>2
<1>4. \A i \in n + 1 .. Len(a) : ~ a[i].commit
  BY <1>1, <1>2
<1>5. Committed(a) = Prefix(a, n)
  BY <1>1, <1>2, <1>3, <1>4, CommittedUnique
<1>6. Prefix(a, n) = Prefix(s, n)
  <2>1. /\ Prefix(a, n) \in Seq(Frame) /\ Len(Prefix(a, n)) = n
        /\ \A i \in 1 .. n : Prefix(a, n)[i] = a[i]
    BY <1>1, <1>2, PrefixType
  <2>2. /\ Prefix(s, n) \in Seq(Frame) /\ Len(Prefix(s, n)) = n
        /\ \A i \in 1 .. n : Prefix(s, n)[i] = s[i]
    BY <1>2, PrefixType
  <2>3. \A i \in 1 .. n : a[i] = s[i]
    BY <1>1, <1>2
  <2>4. QED
    BY <2>1, <2>2, <2>3, SeqEqual
<1>7. QED
  BY <1>5, <1>6 DEF Committed, a, n

\* What is recovered is at the beginning of the file.
LEMMA RecoverablePrefix ==
  ASSUME NEW s \in Seq(Slot), NEW h
  PROVE  LET r == Recoverable(h, s)
         IN  Len(r) <= Len(s) /\ \A i \in 1 .. Len(r) : r[i] = s[i]
<1>1. CASE h = "valid"
  <2> DEFINE v == Valid(s)
             n == ValidLength(s)
             k == CommittedLength(v)
  <2>1. n \in 0 .. Len(s) /\ v \in Seq(Frame)
    BY ValidLengthOK, ValidOK
  <2>2. v \in Seq(Slot) /\ Len(v) = n /\ \A i \in 1 .. n : v[i] = s[i]
    BY <2>1, PrefixType DEF Valid
  <2>3. k \in 0 .. Len(v)
    BY <2>1, CommittedLengthFacts
  <2> HIDE DEF v, n, k
  <2>4. Len(Prefix(v, k)) = k /\ \A i \in 1 .. k : Prefix(v, k)[i] = v[i]
    BY <2>1, <2>3, PrefixType
  <2>5. Recoverable(h, s) = Prefix(v, k)
    BY <1>1 DEF Recoverable, Committed, v, k
  <2>6. QED
    BY <2>1, <2>2, <2>3, <2>4, <2>5
<1>2. CASE h # "valid"
  BY <1>2 DEF Recoverable
<1>3. QED
  BY <1>1, <1>2

-----------------------------------------------------------------------------
(* What the frames of a log make of the base file.                         *)

\* The last frame of a page is one of that page, and none follows.
LEMMA LastFrameFacts ==
  ASSUME NEW s \in Seq(Frame), NEW p \in PagesOf(s)
  PROVE  /\ LastFrame(s, p) \in 1 .. Len(s) /\ s[LastFrame(s, p)].page = p
         /\ \A j \in LastFrame(s, p) + 1 .. Len(s) : s[j].page # p
<1> DEFINE T == {i \in 1 .. Len(s) : s[i].page = p}
           Last(i) == s[i].page = p /\ \A j \in i + 1 .. Len(s) : s[j].page # p
<1>1. T \subseteq 0 .. Len(s) /\ T # {}
  BY DEF PagesOf
<1>2. PICK m \in T : \A k \in T : k <= m
  BY <1>1, GreatestElement, LenProperties
<1>3. m \in 1 .. Len(s) /\ Last(m)
  BY <1>2
<1> HIDE DEF Last
<1>4. LET i == CHOOSE i \in 1 .. Len(s) : Last(i) IN i \in 1 .. Len(s) /\ Last(i)
  BY <1>3
<1>5. QED
  BY <1>4 DEF LastFrame, Last

\* The last frame of a page is the only one with that property.
LEMMA LastFrameUnique ==
  ASSUME NEW s \in Seq(Frame), NEW i \in 1 .. Len(s),
         \A j \in i + 1 .. Len(s) : s[j].page # s[i].page
  PROVE  LastFrame(s, s[i].page) = i
<1> DEFINE p == s[i].page
           k == LastFrame(s, p)
<1>1. p \in PagesOf(s)
  BY DEF PagesOf
<1>2. k \in 1 .. Len(s) /\ s[k].page = p /\ \A j \in k + 1 .. Len(s) : s[j].page # p
  BY <1>1, LastFrameFacts
<1>3. s[i].page = p
  OBVIOUS
<1> HIDE DEF k, p
<1>4. ~ (i < k) /\ ~ (k < i)
  BY <1>2, <1>3
<1>5. k = i
  BY <1>2, <1>4
<1>6. QED
  BY <1>5 DEF k, p

\* The pages of the first n frames.
LEMMA PagesOfPrefix ==
  ASSUME NEW s \in Seq(Frame), NEW n \in 0 .. Len(s)
  PROVE  PagesOf(Prefix(s, n)) = {s[i].page : i \in 1 .. n}
<1>1. Len(Prefix(s, n)) = n /\ \A i \in 1 .. n : Prefix(s, n)[i] = s[i]
  BY PrefixType
<1>2. QED
  BY <1>1 DEF PagesOf

\* From frame n on, s holds the pages D as transaction x wrote them.
Holds(s, n, D, x) ==
  /\ \A i \in n + 1 .. Len(s) : s[i].page \in D /\ s[i].txn = x
  /\ \A p \in D : \E i \in n + 1 .. Len(s) : s[i].page = p

\* Frames of one transaction, added to a log, change the pages they are for.
LEMMA OverlayExtend ==
  ASSUME NEW s \in Seq(Frame), NEW n \in 0 .. Len(s), NEW D, NEW x, NEW b, Holds(s, n, D, x)
  PROVE  /\ \A p \in Page :
              Overlay(b, s)[p] = IF p \in D THEN x ELSE Overlay(b, Prefix(s, n))[p]
         /\ PagesOf(Prefix(s, n)) \subseteq PagesOf(s)
<1> DEFINE r == Prefix(s, n)
<1>1. r \in Seq(Frame) /\ Len(r) = n /\ \A i \in 1 .. n : r[i] = s[i]
  BY PrefixType
<1>2. n \in Nat /\ Len(s) \in Nat /\ n <= Len(s)
  OBVIOUS
<1> HIDE DEF r
<1> USE DEF Holds
<1>3. PagesOf(r) \subseteq PagesOf(s)
  BY <1>1, <1>2 DEF PagesOf
<1>4. ASSUME NEW p \in Page
      PROVE  Overlay(b, s)[p] = IF p \in D THEN x ELSE Overlay(b, r)[p]
  <2>1. CASE p \in D
    <3>1. PICK i \in n + 1 .. Len(s) : s[i].page = p
      BY <2>1
    <3>2. i \in 1 .. Len(s)
      BY <1>2
    <3>3. p \in PagesOf(s)
      BY <3>1, <3>2 DEF PagesOf
    <3>4. /\ LastFrame(s, p) \in 1 .. Len(s)
          /\ \A j \in LastFrame(s, p) + 1 .. Len(s) : s[j].page # p
      BY <3>3, LastFrameFacts
    <3>5. LastFrame(s, p) \in n + 1 .. Len(s)
      BY <1>2, <3>1, <3>2, <3>4
    <3>6. s[LastFrame(s, p)].txn = x
      BY <3>5
    <3>7. QED
      BY <2>1, <3>3, <3>6 DEF Overlay
  <2>2. CASE p \notin D /\ p \in PagesOf(s)
    <3>1. /\ LastFrame(s, p) \in 1 .. Len(s) /\ s[LastFrame(s, p)].page = p
          /\ \A j \in LastFrame(s, p) + 1 .. Len(s) : s[j].page # p
      BY <2>2, LastFrameFacts
    <3>2. PICK k \in 1 .. Len(s) : k = LastFrame(s, p)
      BY <3>1
    <3>3. k <= n
      BY <1>2, <2>2, <3>1, <3>2
    <3>4. k \in 1 .. Len(r) /\ r[k].page = p /\ r[k] = s[k]
      BY <1>1, <1>2, <3>1, <3>2, <3>3
    <3>5. \A j \in k + 1 .. Len(r) : r[j].page # r[k].page
      BY <1>1, <1>2, <3>1, <3>2, <3>3, <3>4
    <3>6. LastFrame(r, p) = k
      BY <1>1, <3>4, <3>5, LastFrameUnique
    <3>7. p \in PagesOf(r)
      BY <3>4 DEF PagesOf
    <3>8. QED
      BY <2>2, <3>2, <3>4, <3>6, <3>7 DEF Overlay
  <2>3. CASE p \notin D /\ p \notin PagesOf(s)
    BY <1>3, <2>3 DEF Overlay
  <2>4. QED
    BY <2>1, <2>2, <2>3
<1>5. QED
  BY <1>3, <1>4 DEF r

\* Frames over a base file make a base file.
LEMMA OverlayType ==
  ASSUME NEW s \in Seq(Frame), NEW b \in [Page -> Txn \cup {Torn}]
  PROVE  /\ Overlay(b, s) \in [Page -> Txn \cup {Torn}]
         /\ \A p \in PagesOf(s) : Overlay(b, s)[p] \in Txn
<1>1. ASSUME NEW p \in PagesOf(s)
      PROVE  s[LastFrame(s, p)].txn \in Txn
  <2>1. LastFrame(s, p) \in 1 .. Len(s)
    BY LastFrameFacts
  <2>2. s[LastFrame(s, p)] \in Frame
    BY <2>1, ElementOfSeq
  <2>3. QED
    BY <2>2 DEF Frame
<1>2. PagesOf(s) \subseteq Page
  BY PagesOfOK
<1>3. QED
  BY <1>1, <1>2 DEF Overlay

\* Pages that the log holds do not matter in the base file.
LEMMA OverlaySame ==
  ASSUME NEW s, NEW b, NEW c, \A p \in Page \ PagesOf(s) : b[p] = c[p]
  PROVE  Overlay(b, s) = Overlay(c, s)
BY DEF Overlay

\* No frames change nothing.
LEMMA OverlayEmpty ==
  ASSUME NEW b \in [Page -> Txn \cup {Torn}]
  PROVE  PagesOf(<<>>) = {} /\ Overlay(b, <<>>) = b
<1>1. PagesOf(<<>>) = {}
  BY DEF PagesOf
<1>2. QED
  BY <1>1 DEF Overlay

\* Recovery takes the committed frames, and ignores a torn one after them.
LEMMA RecoverFrames ==
  ASSUME NEW s \in Seq(Frame)
  PROVE  /\ Recoverable("valid", s) = Committed(s)
         /\ Recoverable("valid", Append(s, Torn)) = Committed(s)
BY ValidFrames DEF Recoverable

-----------------------------------------------------------------------------
(* The log files that a crash may leave behind: a process that ends leaves *)
(* its buffer, or loses it; a power loss leaves what kept allows.          *)

Candidates ==
  {File(header, Prefix(log, k)) : k \in flushed .. Len(log)}
    \cup (IF "power" \in CrashKinds THEN kept ELSE {})

\* What the next open makes of such a file.
Rec(c) == Recoverable(c.header, c.log)

\* The parts of a file.
LEMMA FileFields ==
  ASSUME NEW h, NEW s
  PROVE  File(h, s).header = h /\ File(h, s).log = s
BY DEF File

\* The whole of a sequence is its longest prefix.
LEMMA PrefixFull ==
  ASSUME NEW S, NEW s \in Seq(S)
  PROVE  Prefix(s, Len(s)) = s
BY SubSeqFull DEF Prefix

\* What a crash may leave are files.
LEMMA CandidateType ==
  ASSUME TypeOK
  PROVE  Candidates \subseteq [header : Header, log : Seq(Slot)]
<1>1. \A k \in flushed .. Len(log) : File(header, Prefix(log, k)) \in [header : Header, log : Seq(Slot)]
  BY PrefixType, FileType DEF TypeOK
<1>2. QED
  BY <1>1 DEF Candidates, TypeOK

\* A crash may leave the file as it was written, or as it was flushed.
LEMMA FileIsCandidate ==
  ASSUME TypeOK
  PROVE  File(header, log) \in Candidates /\ File(header, Prefix(log, flushed)) \in Candidates
<1>1. flushed \in flushed .. Len(log) /\ Len(log) \in flushed .. Len(log)
  BY DEF TypeOK
<1>2. Prefix(log, Len(log)) = log
  BY PrefixFull DEF TypeOK
<1>3. QED
  BY <1>1, <1>2 DEF Candidates

\* A step that does not touch the log does not change what a crash may leave.
LEMMA CandidatesKept ==
  ASSUME UNCHANGED walVars
  PROVE  Candidates' = Candidates
BY DEF walVars, Candidates

\* After a write a crash may leave what it could before, or the new file.
LEMMA FlushedToCandidates ==
  ASSUME TypeOK, NEW x \in Slot, log' \in {log, Append(log, x)}, header' = header,
         NEW m \in flushed .. Len(log'), FlushedTo(m)
  PROVE  Candidates' \subseteq Candidates \cup {File(header, log')}
<1>1. /\ log \in Seq(Slot) /\ flushed \in 0 .. Len(log) /\ log' \in Seq(Slot)
      /\ Len(log') \in {Len(log), Len(log) + 1}
      /\ \A i \in 1 .. Len(log) : log'[i] = log[i]
  <2>1. log \in Seq(Slot) /\ flushed \in 0 .. Len(log)
    BY DEF TypeOK
  <2>2. /\ Append(log, x) \in Seq(Slot) /\ Len(Append(log, x)) = Len(log) + 1
        /\ \A i \in 1 .. Len(log) : Append(log, x)[i] = log[i]
    BY <2>1
  <2>3. CASE log' = log
    BY <2>1, <2>3
  <2>4. CASE log' = Append(log, x)
    BY <2>1, <2>2, <2>4
  <2>5. QED
    BY <2>3, <2>4
<1>2. ASSUME NEW k \in flushed .. Len(log')
      PROVE  File(header, Prefix(log', k)) \in
               {File(header, Prefix(log, j)) : j \in flushed .. Len(log)} \cup {File(header, log')}
  <2>1. CASE k \in flushed .. Len(log)
    <3>1. k \in 0 .. Len(log) /\ k \in 0 .. Len(log')
      BY <1>1, <2>1
    <3>2. /\ Prefix(log', k) \in Seq(Slot) /\ Len(Prefix(log', k)) = k
          /\ \A i \in 1 .. k : Prefix(log', k)[i] = log'[i]
      BY <1>1, <3>1, PrefixType
    <3>3. /\ Prefix(log, k) \in Seq(Slot) /\ Len(Prefix(log, k)) = k
          /\ \A i \in 1 .. k : Prefix(log, k)[i] = log[i]
      BY <1>1, <3>1, PrefixType
    <3>4. \A i \in 1 .. k : log'[i] = log[i]
      BY <1>1, <3>1
    <3>5. Prefix(log', k) = Prefix(log, k)
      BY <3>2, <3>3, <3>4, SeqEqual
    <3>6. QED
      BY <2>1, <3>5
  <2>2. CASE k = Len(log')
    BY <1>1, <2>2, PrefixFull
  <2>3. QED
    BY <1>1, <2>1, <2>2
<1>3. m \in flushed .. Len(log') /\ Len(log') \in Nat /\ flushed \in Nat
  BY <1>1
<1>4. {File(header, Prefix(log', k)) : k \in flushed' .. Len(log')}
        \subseteq Candidates \cup {File(header, log')}
  <2>1. \A k \in flushed' .. Len(log') : k \in flushed .. Len(log')
    BY <1>3 DEF FlushedTo
  <2>2. QED
    BY <1>2, <2>1 DEF Candidates
<1>5. "power" \in CrashKinds => kept' \subseteq Candidates \cup {File(header, log')}
  <2>1. \A k \in flushed .. m : k \in flushed .. Len(log')
    BY <1>3
  <2>2. QED
    BY <1>2, <2>1 DEF Candidates, FlushedTo
<1>6. QED
  BY <1>4, <1>5 DEF Candidates

\* After a synchronization a crash leaves exactly that file.
LEMMA SyncedAsCandidates ==
  ASSUME NEW h, NEW s \in Seq(Slot), SyncedAs(h, s)
  PROVE  Candidates' = {File(h, s)}
<1>1. {File(header', Prefix(log', k)) : k \in flushed' .. Len(log')} = {File(h, s)}
  <2>1. \A k \in Len(s) .. Len(s) : k = Len(s)
    OBVIOUS
  <2>2. Len(s) \in Len(s) .. Len(s)
    OBVIOUS
  <2>3. QED
    BY <2>1, <2>2, PrefixFull DEF SyncedAs
<1>2. QED
  BY <1>1 DEF Candidates, SyncedAs

\* After a truncation a crash may leave what it could before, cut or not.
LEMMA TruncatedToCandidates ==
  ASSUME TypeOK, NEW h \in Header, NEW n \in Nat, TruncatedTo(h, n)
  PROVE  Candidates' \subseteq Candidates \cup {File(h, Resize(c.log, n)) : c \in Candidates}
<1>1. Resize(log, n) \in Seq(Slot) /\ Len(Resize(log, n)) = n
  BY ResizeOK DEF TypeOK
<1>2. File(header, log) \in Candidates /\ File(header, log).log = log
  BY FileIsCandidate, FileFields
<1>3. {File(header', Prefix(log', k)) : k \in flushed' .. Len(log')} = {File(h, Resize(log, n))}
  <2>1. \A k \in n .. n : k = n
    OBVIOUS
  <2>2. n \in n .. n
    OBVIOUS
  <2>3. Prefix(Resize(log, n), n) = Resize(log, n)
    BY <1>1, PrefixFull
  <2>4. QED
    BY <1>1, <2>1, <2>2, <2>3 DEF TruncatedTo
<1>4. File(h, Resize(log, n)) \in {File(h, Resize(c.log, n)) : c \in Candidates}
  BY <1>2
<1>5. "power" \in CrashKinds =>
        kept' \subseteq Candidates \cup {File(h, Resize(c.log, n)) : c \in Candidates}
  BY DEF TruncatedTo, Candidates
<1>6. QED
  BY <1>3, <1>4, <1>5 DEF Candidates

\* After the torn end was cut a crash may leave what it could before, or the valid frames.
LEMMA TornTailCutCandidates ==
  ASSUME TypeOK, TornTailCut
  PROVE  Candidates' \subseteq Candidates \cup {File(header, Valid(log))}
<1>1. Valid(log) \in Seq(Slot)
  BY ValidOK, FrameSlot DEF TypeOK
<1>2. {File(header', Prefix(log', k)) : k \in flushed' .. Len(log')} = {File(header, Valid(log))}
  <2> DEFINE v == Valid(log)
  <2>1. \A k \in Len(v) .. Len(v) : k = Len(v)
    BY <1>1
  <2>2. Len(v) \in Len(v) .. Len(v)
    BY <1>1
  <2>3. Prefix(v, Len(v)) = v
    BY <1>1, PrefixFull
  <2>4. QED
    BY <2>1, <2>2, <2>3 DEF TornTailCut
<1>3. QED
  BY <1>2 DEF Candidates, TornTailCut

-----------------------------------------------------------------------------
(* The inductive invariant.                                                *)

\* The committed frames, what they make of the base file, and what it would be with
\* the transaction whose outcome is open.
Current == IF phase = "down" THEN Recoverable(header, log) ELSE Committed(frames)
Shown   == Overlay(base, Current)
Applied == [p \in Page |-> IF p \in dirty THEN txn ELSE Shown[p]]

\* A page of the base file that survives a crash as it is.
Settled(p) == base[p] # Torn /\ ("power" \in CrashKinds => baseDisk[p] = base[p])

\* A page that no frame of s restores is settled.
Restores(s) == \A p \in Page \ PagesOf(s) : Settled(p)

\* A log file after which the open transaction is there as a whole or not at all.
Decides(c) ==
  c.header # "bad" /\ Restores(Rec(c)) /\ Overlay(base, Rec(c)) \in {Shown, Applied}

Outcomes == \A c \in Candidates : Decides(c)

\* While no failure is pending no outcome is open.
Agreed == ~ ioFailed => \A c \in Candidates : c.header = header /\ Rec(c) = Current

\* The frames of the savepoint are in every file that a crash may leave.
SavepointKept ==
  inTx => \A c \in Candidates :
            /\ c.header = "valid" /\ start <= Len(c.log)
            /\ \A i \in 1 .. start : c.log[i] = frames[i]

AckedShown == \A p \in Page : Shown[p] # Torn /\ acked[p] <= Shown[p] /\ acked[p] <= txn

\* Of the frames only those of the commit in progress are not committed.
TailOfCommit ==
  /\ inTx => \A i \in start + 1 .. Len(frames) : ~ frames[i].commit
  /\ phase = "commit" /\ ~ inTx =>
       ~ ioFailed /\ EndsCommitted(frames) /\ todo = dirty /\ \E p \in Page : todo = {p}
  /\ phase = "ready" /\ inTx /\ ~ ioFailed => Len(frames) = start
  /\ phase = "commit" /\ inTx /\ ~ ioFailed =>
       /\ todo \subseteq dirty
       /\ \A i \in start + 1 .. Len(frames) : frames[i].page \in dirty \ todo /\ frames[i].txn = txn
       /\ \A p \in dirty \ todo : \E i \in start + 1 .. Len(frames) : frames[i].page = p

\* A checkpoint has copied the pages that are not left to do.
Copied ==
  /\ phase \in {"checkpoint", "reset"} =>
       /\ \A p \in PagesOf(frames) \ todo : base[p] = frames[LastFrame(frames, p)].txn
       /\ frames # <<>> /\ (reply = "pending" => frames[Len(frames)].txn = txn)
  /\ phase = "reset" => todo = {} /\ base = baseDisk

\* When the outcome of a transaction may be open, and when its caller waits.
OpenOutcome ==
  /\ phase \in {"down", "recover", "checkpoint", "reset"} => dirty = {}
  /\ phase = "ready" /\ ~ inTx /\ ~ ioFailed => dirty = {}
  /\ phase = "undo" => ioFailed
  /\ phase \in {"ready", "undo", "down", "recover"} => reply # "pending"

Books == TailOfCommit /\ Copied /\ OpenOutcome
Core  == Outcomes /\ Agreed /\ SavepointKept /\ AckedShown /\ Restores(Current)
DInv  == IInv /\ Books /\ Core

-----------------------------------------------------------------------------
(* The call in progress.                                                   *)

\* Nothing is in progress when the process has gone.
LEMMA EmptiedBooks ==
  ASSUME ProcessGone
  PROVE  Books'
BY DEF ProcessGone, Books, TailOfCommit, Copied, OpenOutcome

\* Every step keeps the books of the call in progress.
LEMMA BooksStep ==
  ASSUME IInv, Books, [Next]_vars, CheckpointDuringTx = FALSE
  PROVE  Books'
<1>. USE DEF Books
<1>1. TypeOK /\ PhaseData /\ PhaseOwner
  BY DEF IInv
<1>2. CASE UNCHANGED vars
  BY <1>2 DEF vars, walVars, baseVars, txVars, replyVars, TailOfCommit, Copied, OpenOutcome,
     PagesOf, EndsCommitted
<1>3. CASE Begin
  <2>1. start' = Len(frames) /\ Len(frames) \in Nat /\ UNCHANGED <<phase, frames, ioFailed, dirty>>
    BY <1>1, <1>3 DEF Begin, TypeOK
  <2>2. TailOfCommit'
    BY <1>3, <2>1 DEF Begin, TailOfCommit
  <2>3. QED
    BY <1>3, <2>2 DEF Begin, Copied, OpenOutcome
<1>4. CASE Commit
  BY <1>4 DEF Commit, TailOfCommit, Copied, OpenOutcome
<1>5. CASE WritePage
  <2>1. EndsCommitted(frames)
    BY <1>5 DEF WritePage, IInv, TailCommitted
  <2>2. QED
    BY <1>5, <2>1 DEF WritePage, TailOfCommit, Copied, OpenOutcome, EndsCommitted
<1>6. CASE WriteFrame
  <2> DEFINE p == MinPage(todo)
  <2>1. p \in todo /\ NextFrame \in Frame /\ ~ NextFrame.commit
        /\ NextFrame.page = p /\ NextFrame.txn = txn
    BY <1>1, <1>6, NextFrameOK, MinPageOK DEF WriteFrame, PhaseData, TypeOK, NextFrame
  <2>2. inTx
    <3>1. ASSUME NEW q \in Page, todo = {q}
          PROVE  NextFrame.commit
      BY <2>1, <3>1 DEF NextFrame
    <3>2. QED
      BY <1>1, <1>6, <2>1, <3>1 DEF WriteFrame, TailOfCommit, TypeOK
  <2> HIDE DEF p
  <2>3. /\ Len(frames') = Len(frames) + 1 /\ frames'[Len(frames) + 1] = NextFrame
        /\ \A i \in 1 .. Len(frames) : frames'[i] = frames[i]
        /\ start \in Nat /\ start <= Len(frames) /\ Len(frames) \in Nat
    BY <1>1, <1>6, <2>1, <2>2 DEF WriteFrame, TypeOK, IInv, SavepointIntact
  <2>4. /\ todo' = todo \ {p} /\ UNCHANGED <<phase, ioFailed, inTx, start, txn, dirty>>
        /\ phase = "commit" /\ ~ ioFailed
    BY <1>6 DEF WriteFrame, txVars, p
  <2>5. /\ todo \subseteq dirty
        /\ \A i \in start + 1 .. Len(frames) : frames[i].page \in dirty \ todo /\ frames[i].txn = txn
        /\ \A q \in dirty \ todo : \E i \in start + 1 .. Len(frames) : frames[i].page = q
        /\ \A i \in start + 1 .. Len(frames) : ~ frames[i].commit
    BY <2>2, <2>4 DEF TailOfCommit
  <2>6. \A i \in start + 1 .. Len(frames') :
          ~ frames'[i].commit /\ frames'[i].page \in dirty \ todo' /\ frames'[i].txn = txn
    BY <2>1, <2>3, <2>4, <2>5
  <2>7. \A q \in dirty \ todo' : \E i \in start + 1 .. Len(frames') : frames'[i].page = q
    <3>1. ASSUME NEW q \in dirty \ todo
          PROVE  \E i \in start + 1 .. Len(frames') : frames'[i].page = q
      <4>1. PICK i \in start + 1 .. Len(frames) : frames[i].page = q
        BY <2>5
      <4>2. i \in start + 1 .. Len(frames') /\ frames'[i] = frames[i]
        BY <2>3
      <4>3. QED
        BY <4>1, <4>2
    <3>2. Len(frames) + 1 \in start + 1 .. Len(frames')
      BY <2>3
    <3>3. QED
      BY <2>1, <2>3, <2>4, <3>1, <3>2
  <2>8. TailOfCommit'
    BY <2>2, <2>4, <2>5, <2>6, <2>7 DEF TailOfCommit
  <2>9. QED
    BY <2>4, <2>8 DEF Copied, OpenOutcome
<1>7. CASE WriteCommitFrame
  <2>1. NextFrame \in Frame /\ NextFrame.txn = txn
    BY <1>1, <1>7, NextFrameOK DEF WriteCommitFrame, PhaseData, NextFrame
  <2>2. frames' # <<>> /\ frames'[Len(frames')].txn = txn
    BY <1>1, <1>7, <2>1 DEF WriteCommitFrame, TypeOK
  <2>3. /\ ~ inTx' /\ dirty' = {} /\ phase' \in {"ready", "checkpoint"} /\ txn' = txn
        /\ phase' = "checkpoint" => todo' = PagesOf(frames')
        /\ phase' = "ready" => reply' # "pending"
    BY <1>7 DEF WriteCommitFrame
  <2>4. Copied'
    BY <2>2, <2>3 DEF Copied
  <2>5. QED
    BY <2>3, <2>4 DEF TailOfCommit, OpenOutcome
<1>8. CASE WriteFrameFails
  <2>1. /\ ioFailed' /\ UNCHANGED <<frames, inTx, start>> /\ phase' \in {"undo", "ready"}
        /\ reply' # "pending" /\ (phase' = "ready" => ~ inTx)
    BY <1>1, <1>8 DEF WriteFrameFails, txVars, TypeOK
  <2>2. QED
    BY <2>1 DEF TailOfCommit, Copied, OpenOutcome
<1>9. CASE UndoCommit
  <2>1. /\ inTx /\ inTx' /\ phase = "undo" /\ phase' = "ready" /\ reply' = reply
        /\ UNCHANGED <<start, dirty>>
    BY <1>1, <1>9 DEF UndoCommit, txVars, replyVars, PhaseOwner
  <2>2. CASE RollbackToOk
    <3>1. Len(frames') = start /\ start \in Nat
      BY <1>1, <2>1, <2>2, RollbackRestores DEF TypeOK
    <3>2. QED
      BY <2>1, <3>1 DEF TailOfCommit, Copied, OpenOutcome
  <2>3. CASE RollbackToFails
    <3>1. ioFailed' /\ frames' = frames
      BY <2>3 DEF RollbackToFails
    <3>2. QED
      BY <2>1, <3>1 DEF TailOfCommit, Copied, OpenOutcome
  <2>4. QED
    BY <1>9, <2>2, <2>3 DEF UndoCommit
<1>10. CASE Rollback
  <2>1. ~ inTx' /\ phase' = "ready" /\ reply' # "pending" /\ (ioFailed' \/ dirty' = {})
    BY <1>10 DEF Rollback, RollbackToFails
  <2>2. QED
    BY <2>1 DEF TailOfCommit, Copied, OpenOutcome
<1>11. CASE Checkpoint
  <2>1. /\ ~ inTx' /\ phase = "ready" /\ ~ inTx /\ ~ ioFailed
        /\ phase' = "checkpoint" /\ UNCHANGED <<reply, dirty, frames>>
        /\ todo' = PagesOf(frames) /\ frames # <<>>
    BY <1>11 DEF Checkpoint, txVars, replyVars
  <2>2. QED
    BY <2>1 DEF TailOfCommit, Copied, OpenOutcome
<1>12. CASE CheckpointPage
  <2> DEFINE p == MinPage(todo)
  <2>1. /\ phase = "checkpoint" /\ UNCHANGED <<frames, dirty, txn, inTx>> /\ ~ inTx
        /\ p \in todo /\ p \in Page
    BY <1>1, <1>12, MinPageOK DEF CheckpointPage, txVars, PhaseOwner, TypeOK
  <2>2. CASE /\ base' = [base EXCEPT ![p] = frames[LastFrame(frames, p)].txn]
             /\ todo' = todo \ {p}
             /\ UNCHANGED <<phase, reply>>
    <3>1. \A q \in PagesOf(frames) \ todo' : base'[q] = frames[LastFrame(frames, q)].txn
      <4>1. base \in [Page -> Txn \cup {Torn}] /\ PagesOf(frames) \subseteq Page
        BY <1>1, PagesOfOK DEF TypeOK
      <4>2. ASSUME NEW q \in PagesOf(frames) \ todo'
            PROVE  base'[q] = frames[LastFrame(frames, q)].txn
        <5>1. CASE q = p
          BY <2>1, <2>2, <4>1, <5>1
        <5>2. CASE q # p
          <6>1. base'[q] = base[q] /\ q \in PagesOf(frames) \ todo
            BY <2>1, <2>2, <4>1, <5>2
          <6>2. QED
            BY <2>1, <6>1 DEF Copied
        <5>3. QED
          BY <5>1, <5>2
      <4>3. QED
        BY <4>2
    <3>2. Copied'
      BY <2>1, <2>2, <3>1 DEF Copied, PagesOf
    <3>3. QED
      BY <2>1, <2>2, <3>2 DEF TailOfCommit, OpenOutcome
  <2>3. CASE phase' = "ready" /\ reply' = ReplyAfterFailure
    BY <2>1, <2>3 DEF TailOfCommit, Copied, OpenOutcome, ReplyAfterFailure
  <2>4. QED
    BY <1>12, <2>2, <2>3 DEF CheckpointPage
<1>13. CASE CheckpointSync
  <2>1. /\ phase = "checkpoint" /\ todo = {} /\ UNCHANGED <<frames, base, todo, dirty, txn, inTx>>
        /\ ~ inTx
    BY <1>1, <1>13 DEF CheckpointSync, txVars, PhaseOwner
  <2>2. CASE BaseSynced /\ phase' = "reset" /\ UNCHANGED reply
    BY <2>1, <2>2 DEF BaseSynced, TailOfCommit, Copied, OpenOutcome, PagesOf
  <2>3. CASE phase' = "ready" /\ reply' = ReplyAfterFailure
    BY <2>1, <2>3 DEF TailOfCommit, Copied, OpenOutcome, ReplyAfterFailure
  <2>4. QED
    BY <1>13, <2>2, <2>3 DEF CheckpointSync
<1>14. CASE ResetLog
  BY <1>1, <1>14 DEF ResetLog, txVars, PhaseOwner, TailOfCommit, Copied, OpenOutcome
<1>15. CASE ResetLogFails
  BY <1>1, <1>15
  DEF ResetLogFails, ReplyAfterFailure, txVars, PhaseOwner, TailOfCommit, Copied, OpenOutcome
<1>16. CASE OpenWal
  BY <1>1, <1>16 DEF OpenWal, txVars, replyVars, PhaseOwner, TailOfCommit, Copied, OpenOutcome
<1>17. CASE OpenWalFails
  BY <1>1, <1>17 DEF OpenWalFails, txVars, replyVars, PhaseOwner, TailOfCommit, Copied, OpenOutcome
<1>18. CASE RecoverFrame
  BY <1>1, <1>18 DEF RecoverFrame, txVars, replyVars, PhaseOwner, TailOfCommit, Copied, OpenOutcome
<1>19. CASE RecoverFrameFails
  BY <1>19, EmptiedBooks DEF RecoverFrameFails
<1>20. CASE RecoverSync
  BY <1>1, <1>20 DEF RecoverSync, txVars, replyVars, PhaseOwner, TailOfCommit, Copied, OpenOutcome
<1>21. CASE RecoverSyncFails
  BY <1>21, EmptiedBooks DEF RecoverSyncFails
<1>22. CASE ProcessCrash
  BY <1>22, EmptiedBooks DEF ProcessCrash
<1>23. CASE PowerLoss
  BY <1>23, EmptiedBooks DEF PowerLoss
<1>24. QED
  BY <1>2, <1>3, <1>4, <1>5, <1>6, <1>7, <1>8, <1>9, <1>10, <1>11, <1>12, <1>13, <1>14,
     <1>15, <1>16, <1>17, <1>18, <1>19, <1>20, <1>21, <1>22, <1>23 DEF Next, Working

-----------------------------------------------------------------------------
(* What is committed, and what keeps it.                                   *)

\* The committed frames end with a commit, and make a database.
LEMMA CurrentOK ==
  ASSUME TypeOK
  PROVE  /\ Current \in Seq(Frame) /\ EndsCommitted(Current)
         /\ Shown \in [Page -> Txn \cup {Torn}]
         /\ PagesOf(Current) \subseteq Page
<1>1. Current \in Seq(Frame) /\ EndsCommitted(Current)
  BY RecoverableOK, CommittedOK DEF Current, TypeOK
<1>2. base \in [Page -> Txn \cup {Torn}]
  BY DEF TypeOK
<1>3. QED
  BY <1>1, <1>2, OverlayType, PagesOfOK DEF Shown

\* Nothing but the committed frames is in a log whose last frame commits.
LEMMA CurrentIsAll ==
  ASSUME TypeOK, phase # "down", EndsCommitted(frames)
  PROVE  Current = frames
BY CommittedFull DEF TypeOK, Current

\* Inside a transaction what is committed ends at its savepoint.
LEMMA CurrentIsStart ==
  ASSUME IInv, TailOfCommit, inTx
  PROVE  /\ start \in 0 .. Len(frames)
         /\ Current = Prefix(frames, start)
         /\ EndsCommitted(Prefix(frames, start))
         /\ phase # "down"
<1>1. /\ start \in Nat /\ start <= Len(frames) /\ frames \in Seq(Frame) /\ phase # "down"
      /\ start > 0 => frames[start].commit
      /\ \A i \in start + 1 .. Len(frames) : ~ frames[i].commit
  BY DEF IInv, TypeOK, SavepointIntact, TailOfCommit
<1>2. Current = Prefix(frames, start)
  BY <1>1, CommittedUnique DEF Current
<1>3. QED
  BY <1>1, <1>2, CurrentOK DEF IInv

\* While no failure is pending a running process knows what is committed in the file.
LEMMA CurrentInFile ==
  ASSUME IInv, ~ ioFailed
  PROVE  Recoverable(header, log) = Current
<1>1. CASE phase = "down"
  BY <1>1 DEF Current
<1>2. CASE phase # "down"
  <2>1. header = "valid" /\ log = frames /\ frames \in Seq(Frame)
    BY <1>2 DEF IInv, MemoryMatchesFile, TypeOK
  <2>2. QED
    BY <1>2, <2>1, RecoverFrames DEF Current
<1>3. QED
  BY <1>1, <1>2

\* Transactions are numbered, those acknowledged among them.
LEMMA AppliedType ==
  ASSUME TypeOK, AckedShown, NEW i \in {Shown, Applied}, NEW p \in Page
  PROVE  i[p] \in Nat /\ i[p] # Torn /\ acked[p] <= i[p] /\ acked[p] \in Nat
<1>1. txn \in Nat /\ txn # Torn /\ acked[p] \in Nat
  BY DEF TypeOK, Txn
<1>2. Shown[p] \in Nat /\ Shown[p] # Torn
  BY CurrentOK DEF AckedShown, Txn
<1>3. Applied[p] \in {txn, Shown[p]}
  BY DEF Applied
<1>4. QED
  BY <1>1, <1>2, <1>3 DEF AckedShown

\* An outcome that is not older than what was acknowledged keeps it.
LEMMA AckedKept ==
  ASSUME TypeOK, AckedShown, Shown' \in {Shown, Applied}, acked' = acked,
         txn' \in Nat, txn <= txn'
  PROVE  AckedShown'
<1>1. ASSUME NEW p \in Page
      PROVE  Shown'[p] # Torn /\ acked'[p] <= Shown'[p] /\ acked'[p] <= txn'
  <2>1. Shown'[p] # Torn /\ acked[p] <= Shown'[p] /\ acked[p] \in Nat
    BY AppliedType
  <2>2. acked[p] <= txn /\ txn \in Nat
    BY DEF AckedShown, TypeOK, Txn
  <2>3. QED
    BY <2>1, <2>2
<1>2. QED
  BY <1>1 DEF AckedShown

\* A step after which no failure is pending: every file holds what is committed then.
LEMMA HealthyStep ==
  ASSUME ioFailed' = FALSE, header' # "bad", Restores(Current)',
         \A c \in Candidates' : c.header = header' /\ Rec(c) = Current',
         SavepointKept', AckedShown'
  PROVE  Core'
<1>1. ASSUME NEW c \in Candidates'
      PROVE  Decides(c)'
  <2>1. c.header = header' /\ Rec(c) = Current'
    OBVIOUS
  <2>2. Restores(Rec(c))'
    BY <2>1 DEF Restores
  <2>3. Overlay(base', Rec(c)) = Shown'
    BY <2>1 DEF Shown
  <2>4. QED
    BY <2>1, <2>2, <2>3 DEF Decides
<1>2. QED
  BY <1>1 DEF Core, Outcomes, Agreed

\* A step that fails, or after an earlier failure: what a crash can make of the open
\* transaction is decided by the file it leaves.
LEMMA FailedStep ==
  ASSUME TypeOK, Core, ioFailed' = TRUE, UNCHANGED <<baseVars, txn, dirty, acked>>,
         Current' = Current, \A c \in Candidates' : Decides(c), SavepointKept'
  PROVE  Core' /\ Shown' = Shown
<1>1. Shown' = Shown /\ Applied' = Applied
  BY DEF Shown, Applied, baseVars
<1>2. ASSUME NEW c \in Candidates'
      PROVE  Decides(c)'
  <2>1. Decides(c)
    OBVIOUS
  <2>2. QED
    BY <1>1, <2>1 DEF Decides, Restores, Settled, baseVars
<1>3. Restores(Current)'
  BY DEF Core, Restores, Settled, baseVars
<1>4. AckedShown'
  BY <1>1 DEF Core, AckedShown
<1>5. QED
  BY <1>1, <1>2, <1>3, <1>4 DEF Core, Outcomes, Agreed

\* While no failure is pending, whatever a crash leaves holds what is committed.
LEMMA AgreedDecides ==
  ASSUME Core, ~ ioFailed, NEW c \in Candidates
  PROVE  c.header = header /\ Rec(c) = Current /\ header # "bad"
BY DEF Core, Agreed, Outcomes, Decides

\* The header of the file can be read.
LEMMA FileDecides ==
  ASSUME TypeOK, Core
  PROVE  header # "bad"
BY FileIsCandidate, FileFields DEF Core, Outcomes, Decides

\* A file in which the committed frames are found decides for the transaction not to be there.
LEMMA CurrentDecides ==
  ASSUME Core, NEW c, c.header # "bad", Rec(c) = Current
  PROVE  Decides(c)
BY DEF Core, Decides, Shown, Restores

\* A step that touches neither of the files.
LEMMA QuietStep ==
  ASSUME TypeOK, Core, UNCHANGED <<walVars, baseVars, ioFailed, acked>>, Current' = Current,
         txn' \in Nat, txn <= txn', ioFailed => UNCHANGED <<txn, dirty>>, SavepointKept',
         ioFailed \in BOOLEAN
  PROVE  Core' /\ Shown' = Shown
<1>1. Candidates' = Candidates
  BY CandidatesKept
<1>2. Shown' = Shown
  BY DEF Shown, baseVars
<1>3. CASE ioFailed
  <2>1. \A c \in Candidates' : Decides(c)
    BY <1>1 DEF Core, Outcomes
  <2>2. QED
    BY <1>3, <2>1, FailedStep
<1>4. CASE ~ ioFailed
  <2>1. \A c \in Candidates' : c.header = header' /\ Rec(c) = Current'
    BY <1>1, <1>4, AgreedDecides DEF walVars
  <2>2. header' # "bad"
    BY FileDecides DEF walVars
  <2>3. Restores(Current)'
    BY DEF Core, Restores, Settled, baseVars
  <2>4. AckedShown'
    BY <1>2, AckedKept DEF Core
  <2>5. QED
    BY <1>2, <1>4, <2>1, <2>2, <2>3, <2>4, HealthyStep
<1>5. QED
  BY <1>3, <1>4

\* A step that copies pages of the log to the base file, or stops doing so.
LEMMA BaseStep ==
  ASSUME TypeOK, Core, UNCHANGED <<walVars, acked, txn>>, Current' = Current,
         ~ ioFailed, ioFailed' = FALSE, ~ inTx',
         \A p \in Page \ PagesOf(Current) : base'[p] = base[p],
         baseDisk' \in {baseDisk, base'}
  PROVE  Core' /\ Shown' = Shown
<1>1. Candidates' = Candidates
  BY CandidatesKept
<1>2. Shown' = Shown
  BY OverlaySame DEF Shown
<1>3. \A c \in Candidates' : c.header = header' /\ Rec(c) = Current'
  BY <1>1, AgreedDecides DEF walVars
<1>4. header' # "bad"
  BY FileDecides DEF walVars
<1>5. Restores(Current)'
  BY DEF Core, Restores, Settled
<1>6. AckedShown'
  BY <1>2 DEF Core, AckedShown
<1>7. SavepointKept'
  BY DEF SavepointKept
<1>8. QED
  BY <1>2, <1>3, <1>4, <1>5, <1>6, <1>7, HealthyStep

\* A step on the log file after which it is healthy and holds the same committed frames.
LEMMA FileStep ==
  ASSUME TypeOK, Core, UNCHANGED <<baseVars, acked, txn>>, Current' = Current,
         ioFailed' = FALSE, header' # "bad",
         \A c \in Candidates' : c.header = header' /\ Rec(c) = Current,
         SavepointKept'
  PROVE  Core' /\ Shown' = Shown
<1>1. Shown' = Shown
  BY DEF Shown, baseVars
<1>2. Restores(Current)'
  BY DEF Core, Restores, Settled, baseVars
<1>3. AckedShown'
  BY <1>1 DEF Core, AckedShown
<1>4. QED
  BY <1>1, <1>2, <1>3, HealthyStep

-----------------------------------------------------------------------------
(* Transactions.                                                           *)

\* The last frame of a commit turns what is shown into what it writes.
LEMMA CommitFrameApplies ==
  ASSUME IInv, Books, phase = "commit", ~ ioFailed, NextFrame.commit
  PROVE  LET a == Append(frames, NextFrame) IN
         /\ a \in Seq(Frame)
         /\ Committed(a) = a
         /\ Overlay(base, a) = Applied
         /\ PagesOf(Current) \subseteq PagesOf(a)
<1> DEFINE a == Append(frames, NextFrame)
           p == MinPage(todo)
<1>1. /\ TypeOK /\ frames \in Seq(Frame) /\ NextFrame \in Frame /\ p \in todo
      /\ NextFrame.page = p /\ NextFrame.txn = txn
  BY NextFrameOK, MinPageOK DEF IInv, PhaseData, TypeOK, NextFrame
<1>2. todo = {p}
  BY DEF NextFrame
<1>3. /\ a \in Seq(Frame) /\ Len(a) = Len(frames) + 1 /\ a[Len(frames) + 1] = NextFrame
      /\ \A i \in 1 .. Len(frames) : a[i] = frames[i]
      /\ Len(frames) \in Nat
  BY <1>1
<1>4. EndsCommitted(a)
  BY <1>1, AppendCommitted
<1> HIDE DEF a, p
<1>5. PICK n \in 0 .. Len(frames) :
        /\ Current = Prefix(frames, n)
        /\ \A i \in n + 1 .. Len(frames) : frames[i].page \in dirty \ todo /\ frames[i].txn = txn
        /\ \A q \in dirty \ todo : \E i \in n + 1 .. Len(frames) : frames[i].page = q
        /\ todo \subseteq dirty
  <2>1. CASE inTx
    <3>1. start \in 0 .. Len(frames) /\ Current = Prefix(frames, start)
      BY <2>1, CurrentIsStart DEF Books
    <3>2. QED
      BY <2>1, <3>1 DEF Books, TailOfCommit
  <2>2. CASE ~ inTx
    <3>1. EndsCommitted(frames) /\ todo = dirty
      BY <2>2 DEF Books, TailOfCommit
    <3>2. Current = Prefix(frames, Len(frames))
      BY <1>1, <3>1, CurrentIsAll, PrefixFull
    <3>3. Len(frames) \in 0 .. Len(frames)
      BY <1>3
    <3>4. QED
      BY <1>3, <3>1, <3>2, <3>3
  <2>3. QED
    BY <2>1, <2>2
<1>6. n \in 0 .. Len(a)
  BY <1>3
<1>7. Prefix(a, n) = Current
  <2>1. /\ Prefix(a, n) \in Seq(Frame) /\ Len(Prefix(a, n)) = n
        /\ \A i \in 1 .. n : Prefix(a, n)[i] = a[i]
    BY <1>3, <1>6, PrefixType
  <2>2. /\ Prefix(frames, n) \in Seq(Frame) /\ Len(Prefix(frames, n)) = n
        /\ \A i \in 1 .. n : Prefix(frames, n)[i] = frames[i]
    BY <1>1, PrefixType
  <2>3. \A i \in 1 .. n : a[i] = frames[i]
    BY <1>3
  <2>4. QED
    BY <1>5, <2>1, <2>2, <2>3, SeqEqual
<1>8. \A i \in n + 1 .. Len(a) : a[i].page \in dirty /\ a[i].txn = txn
  BY <1>1, <1>3, <1>5
<1>9. \A q \in dirty : \E i \in n + 1 .. Len(a) : a[i].page = q
  <2>1. ASSUME NEW q \in dirty
        PROVE  \E i \in n + 1 .. Len(a) : a[i].page = q
    <3>1. CASE q \in todo
      <4>1. q = p /\ Len(frames) + 1 \in n + 1 .. Len(a)
        BY <1>2, <1>3, <3>1
      <4>2. QED
        BY <1>1, <1>3, <4>1
    <3>2. CASE q \notin todo
      <4>1. PICK i \in n + 1 .. Len(frames) : frames[i].page = q
        BY <1>5, <3>2
      <4>2. i \in n + 1 .. Len(a) /\ a[i] = frames[i]
        BY <1>3
      <4>3. QED
        BY <4>1, <4>2
    <3>3. QED
      BY <3>1, <3>2
  <2>2. QED
    BY <2>1
<1>10. /\ \A q \in Page : Overlay(base, a)[q] = IF q \in dirty THEN txn ELSE Overlay(base, Prefix(a, n))[q]
       /\ PagesOf(Prefix(a, n)) \subseteq PagesOf(a)
  <2>1. Holds(a, n, dirty, txn)
    BY <1>8, <1>9 DEF Holds
  <2>2. QED
    BY <1>3, <1>6, <2>1, OverlayExtend
<1>11. Overlay(base, a) = Applied /\ PagesOf(Current) \subseteq PagesOf(a)
  <2>1. base \in [Page -> Txn \cup {Torn}]
    BY <1>1 DEF TypeOK
  <2>2. Overlay(base, a) \in [Page -> Txn \cup {Torn}]
    BY <1>3, <2>1, OverlayType
  <2>3. QED
    BY <1>7, <1>10, <2>2 DEF Applied, Shown
<1>12. Committed(a) = a
  BY <1>3, <1>4, CommittedFull
<1>13. QED
  BY <1>3, <1>11, <1>12 DEF a

\* Beginning a transaction changes nothing of what a crash may leave.
LEMMA BeginKeeps ==
  ASSUME DInv, Begin
  PROVE  Core' /\ Shown' = Shown
<1>1. /\ TypeOK /\ phase = "ready" /\ ~ ioFailed /\ EndsCommitted(frames) /\ start' = Len(frames)
      /\ UNCHANGED <<phase, frames, ioFailed, walVars, baseVars, dirty, acked>> /\ txn' = txn + 1
  BY DEF DInv, IInv, TailCommitted, Begin
<1>2. Current = frames /\ header = "valid"
  BY <1>1, CurrentIsAll DEF DInv, IInv, MemoryMatchesFile
<1>3. Candidates' = Candidates
  BY <1>1, CandidatesKept
<1>4. ASSUME NEW c \in Candidates
      PROVE  /\ c.header = "valid" /\ Len(frames) <= Len(c.log)
             /\ \A i \in 1 .. Len(frames) : c.log[i] = frames[i]
  <2>1. c.header = "valid" /\ Rec(c) = frames
    BY <1>1, <1>2, AgreedDecides DEF DInv
  <2>2. c.log \in Seq(Slot)
    BY <1>1, CandidateType
  <2>3. QED
    BY <2>1, <2>2, RecoverablePrefix DEF Rec
<1>5. SavepointKept'
  BY <1>1, <1>3, <1>4 DEF SavepointKept
<1>6. Current' = Current
  BY <1>1 DEF Current
<1>7. txn' \in Nat /\ txn <= txn' /\ ioFailed \in BOOLEAN
  BY <1>1 DEF TypeOK, Txn
<1>8. QED
  BY <1>1, <1>5, <1>6, <1>7, QuietStep DEF DInv

\* Nor does the start of a commit.
LEMMA CommitKeeps ==
  ASSUME DInv, Commit
  PROVE  Core' /\ Shown' = Shown
<1>1. /\ TypeOK /\ UNCHANGED <<frames, ioFailed, walVars, baseVars, inTx, start, txn, acked>>
      /\ phase = "ready" /\ phase' = "commit" /\ (ioFailed => dirty' = dirty)
  BY DEF DInv, IInv, Commit
<1>2. SavepointKept'
  BY <1>1, CandidatesKept DEF DInv, Core, SavepointKept
<1>3. Current' = Current /\ txn \in Nat
  BY <1>1 DEF Current, TypeOK, Txn
<1>4. txn' \in Nat /\ txn <= txn' /\ ioFailed \in BOOLEAN
  BY <1>1, <1>3 DEF TypeOK
<1>5. QED
  BY <1>1, <1>2, <1>3, <1>4, QuietStep DEF DInv

\* Nor does writing a page in memory.
LEMMA WritePageKeeps ==
  ASSUME DInv, WritePage
  PROVE  Core' /\ Shown' = Shown
<1>1. /\ TypeOK /\ UNCHANGED <<frames, ioFailed, walVars, baseVars, inTx, acked>>
      /\ phase = "ready" /\ phase' = "commit" /\ ~ ioFailed /\ ~ inTx /\ txn' = txn + 1
  BY DEF DInv, IInv, WritePage
<1>2. SavepointKept'
  BY <1>1 DEF SavepointKept
<1>3. Current' = Current
  BY <1>1 DEF Current
<1>4. txn' \in Nat /\ txn <= txn' /\ ioFailed \in BOOLEAN
  BY <1>1 DEF TypeOK, Txn
<1>5. QED
  BY <1>1, <1>2, <1>3, <1>4, QuietStep DEF DInv

\* A frame without a commit changes nothing of what is shown.
LEMMA WriteFrameKeeps ==
  ASSUME DInv, WriteFrame
  PROVE  Core' /\ Shown' = Shown
<1>1. /\ TypeOK /\ frames \in Seq(Frame) /\ NextFrame \in Frame /\ ~ NextFrame.commit
      /\ header = "valid" /\ log = frames /\ ~ ioFailed /\ log \in Seq(Slot) /\ flushed \in 0 .. Len(log)
  BY NextFrameOK DEF DInv, IInv, WriteFrame, PhaseData, MemoryMatchesFile, TypeOK
<1>2. /\ frames' = Append(frames, NextFrame) /\ log' = Append(log, NextFrame)
      /\ UNCHANGED <<phase, ioFailed, header, baseVars, inTx, start, txn, dirty, acked>>
      /\ phase = "commit"
  BY DEF WriteFrame, txVars, replyVars
<1>3. Current' = Current
  BY <1>1, <1>2, CommittedAppend DEF Current
<1>4. Candidates' \subseteq Candidates \cup {File(header, log')}
  <2>1. PICK m \in {flushed, Len(log)} : FlushedTo(m)
    BY DEF WriteFrame
  <2>2. Len(log') = Len(log) + 1 /\ NextFrame \in Slot
    BY <1>1, <1>2 DEF Slot
  <2>3. m \in flushed .. Len(log')
    BY <1>1, <2>2
  <2>4. QED
    BY <1>1, <1>2, <2>1, <2>2, <2>3, FlushedToCandidates
<1>5. Recoverable("valid", log') = Current
  <2>1. frames' \in Seq(Frame) /\ log' = frames'
    BY <1>1, <1>2
  <2>2. QED
    BY <1>2, <1>3, <2>1, RecoverFrames DEF Current
<1>6. ASSUME NEW c \in Candidates'
      PROVE  c.header = header /\ Rec(c) = Current
  <2>1. CASE c \in Candidates
    BY <1>1, <2>1, AgreedDecides DEF DInv
  <2>2. CASE c = File(header, log')
    BY <1>1, <1>5, <2>2, FileFields DEF Rec
  <2>3. QED
    BY <1>4, <2>1, <2>2
<1>7. SavepointKept'
  <2>. SUFFICES ASSUME inTx, NEW c \in Candidates'
                PROVE  /\ c.header = "valid" /\ start <= Len(c.log)
                       /\ \A i \in 1 .. start : c.log[i] = frames'[i]
    BY <1>2 DEF SavepointKept
  <2>1. /\ start \in Nat /\ start <= Len(frames) /\ Len(log') = Len(frames) + 1 /\ Len(frames) \in Nat
        /\ \A i \in 1 .. Len(frames) : frames'[i] = frames[i] /\ log'[i] = frames[i]
    BY <1>1, <1>2 DEF TypeOK, DInv, IInv, SavepointIntact
  <2>2. CASE c \in Candidates
    BY <2>1, <2>2 DEF DInv, Core, SavepointKept
  <2>3. CASE c = File(header, log')
    BY <1>1, <2>1, <2>3, FileFields
  <2>4. QED
    BY <1>4, <2>2, <2>3
<1>8. ioFailed' = FALSE
  BY <1>1, <1>2 DEF TypeOK
<1>9. QED
  BY <1>1, <1>2, <1>3, <1>6, <1>7, <1>8, FileStep DEF DInv

\* The commit frame applies the transaction as a whole.
LEMMA WriteCommitFrameKeeps ==
  ASSUME DInv, WriteCommitFrame
  PROVE  Core' /\ Shown' = Applied
<1> DEFINE a == Append(frames, NextFrame)
<1>1. /\ TypeOK /\ phase = "commit" /\ ~ ioFailed /\ NextFrame.commit /\ header = "valid" /\ log = frames
      /\ UNCHANGED <<ioFailed, baseVars, txn>> /\ phase' # "down" /\ ~ inTx'
      /\ frames' = a /\ SyncedAs(header, a)
  BY DEF DInv, IInv, WriteCommitFrame, CommitFrameSynced, MemoryMatchesFile
<1>2. a \in Seq(Frame) /\ Committed(a) = a /\ Overlay(base, a) = Applied
      /\ PagesOf(Current) \subseteq PagesOf(a)
  BY <1>1, CommitFrameApplies DEF DInv
<1> HIDE DEF a
<1>3. Current' = a /\ Shown' = Applied /\ header' = "valid"
  BY <1>1, <1>2 DEF Current, Shown, baseVars, SyncedAs
<1>4. \A c \in Candidates' : c.header = header' /\ Rec(c) = Current'
  <2>1. Candidates' = {File("valid", a)}
    BY <1>1, <1>2, FrameSlot, SyncedAsCandidates
  <2>2. QED
    BY <1>2, <1>3, <2>1, FileFields, RecoverFrames DEF Rec
<1>5. Restores(Current)'
  BY <1>1, <1>2, <1>3 DEF DInv, Core, Restores, Settled, baseVars
<1>6. AckedShown'
  <2>1. txn \in Nat
    BY <1>1 DEF TypeOK, Txn
  <2>2. ASSUME NEW p \in Page
        PROVE  Applied[p] # Torn /\ acked'[p] <= Applied[p] /\ acked'[p] <= txn
    <3>1. Applied[p] # Torn /\ acked[p] <= Applied[p] /\ acked[p] <= txn
      BY <1>1, AppliedType DEF DInv, Core, AckedShown
    <3>2. p \in dirty => Applied[p] = txn
      BY DEF Applied
    <3>3. acked'[p] = acked[p] \/ (p \in dirty /\ acked'[p] = txn)
      BY DEF WriteCommitFrame, replyVars
    <3>4. QED
      BY <2>1, <3>1, <3>2, <3>3
  <2>3. QED
    BY <1>1, <1>3, <2>2 DEF AckedShown
<1>7. SavepointKept'
  BY <1>1 DEF SavepointKept
<1>8. ioFailed' = FALSE
  BY <1>1 DEF TypeOK
<1>9. QED
  BY <1>3, <1>4, <1>5, <1>6, <1>7, <1>8, HealthyStep

\* A frame that fails changes nothing of what is shown; the outcome is open as a whole.
LEMMA WriteFrameFailsKeeps ==
  ASSUME DInv, WriteFrameFails
  PROVE  Core' /\ Shown' = Shown
<1>1. /\ TypeOK /\ frames \in Seq(Frame) /\ NextFrame \in Frame /\ phase = "commit" /\ phase' # "down"
      /\ UNCHANGED <<frames, baseVars, inTx, start, txn, dirty, acked>> /\ ioFailed' = TRUE
  BY NextFrameOK DEF DInv, IInv, WriteFrameFails, PhaseData, TypeOK, txVars
<1>2. Current' = Current
  BY <1>1 DEF Current
<1>3. CASE ioFailed /\ UNCHANGED walVars
  <2>1. Candidates' = Candidates
    BY <1>3, CandidatesKept
  <2>2. SavepointKept' /\ \A c \in Candidates' : Decides(c)
    BY <1>1, <2>1 DEF DInv, Core, Outcomes, SavepointKept
  <2>3. QED
    BY <1>1, <1>2, <2>2, FailedStep DEF DInv
<1>4. CASE /\ ~ ioFailed
           /\ log' \in {log, Append(log, Torn)} \cup
                       {Append(log, f) : f \in {g \in {NextFrame} : g.commit}}
           /\ \E m \in flushed .. Len(log') : FlushedTo(m)
           /\ UNCHANGED header
  <2>1. header = "valid" /\ log = frames /\ log \in Seq(Slot) /\ flushed \in 0 .. Len(log)
    BY <1>1, <1>4 DEF DInv, IInv, MemoryMatchesFile, TypeOK
  <2>2. PICK x \in Slot :
          /\ log' \in {log, Append(log, x)}
          /\ x = Torn \/ (x = NextFrame /\ NextFrame.commit)
    BY <1>1, <1>4 DEF Slot
  <2>3. Candidates' \subseteq Candidates \cup {File(header, log')}
    <3>1. PICK m \in flushed .. Len(log') : FlushedTo(m)
      BY <1>4
    <3>2. QED
      BY <1>1, <1>4, <2>2, <3>1, FlushedToCandidates
  <2>4. Decides(File(header, log'))
    <3>1. CASE log' = log
      BY <1>1, <3>1, FileIsCandidate DEF DInv, Core, Outcomes
    <3>2. CASE log' = Append(log, Torn)
      <4>1. Recoverable("valid", log') = Current
        BY <1>1, <2>1, <3>2, RecoverFrames DEF Current
      <4>2. QED
        BY <2>1, <4>1, FileFields, CurrentDecides DEF DInv, Rec
    <3>3. CASE log' = Append(frames, NextFrame) /\ NextFrame.commit
      <4> DEFINE a == Append(frames, NextFrame)
      <4>1. /\ a \in Seq(Frame) /\ Committed(a) = a /\ Overlay(base, a) = Applied
            /\ PagesOf(Current) \subseteq PagesOf(a)
        BY <1>1, <1>4, <3>3, CommitFrameApplies DEF DInv
      <4>2. log' = a
        BY <3>3
      <4> HIDE DEF a
      <4>3. Recoverable("valid", a) = a
        BY <4>1, RecoverFrames
      <4>4. Restores(a)
        BY <4>1 DEF DInv, Core, Restores
      <4>5. QED
        BY <2>1, <4>1, <4>2, <4>3, <4>4, FileFields DEF Decides, Rec
    <3>4. QED
      BY <2>1, <2>2, <3>1, <3>2, <3>3
  <2>5. \A c \in Candidates' : Decides(c)
    BY <2>3, <2>4 DEF DInv, Core, Outcomes
  <2>6. SavepointKept'
    <3>. SUFFICES ASSUME inTx, NEW c \in Candidates'
                  PROVE  /\ c.header = "valid" /\ start <= Len(c.log)
                         /\ \A i \in 1 .. start : c.log[i] = frames[i]
      BY <1>1 DEF SavepointKept
    <3>1. CASE c \in Candidates
      BY <3>1 DEF DInv, Core, SavepointKept
    <3>2. CASE c = File(header, log')
      <4>1. start \in Nat /\ start <= Len(frames)
        BY <1>1 DEF TypeOK, DInv, IInv, SavepointIntact
      <4>2. Len(log) <= Len(log') /\ \A i \in 1 .. Len(log) : log'[i] = log[i]
        <5>1. CASE log' = log
          BY <2>1, <5>1
        <5>2. CASE log' = Append(log, x)
          BY <2>1, <5>2
        <5>3. QED
          BY <2>2, <5>1, <5>2
      <4>3. Len(log') \in Nat
        BY <2>1, <2>2
      <4>4. start <= Len(log') /\ \A i \in 1 .. start : log'[i] = frames[i]
        BY <2>1, <4>1, <4>2, <4>3
      <4>5. QED
        BY <2>1, <3>2, <4>4, FileFields
    <3>3. QED
      BY <2>3, <3>1, <3>2
  <2>7. QED
    BY <1>1, <1>2, <2>5, <2>6, FailedStep DEF DInv
<1>5. QED
  BY <1>3, <1>4 DEF WriteFrameFails

\* The truncation leaves the file with what was committed before the transaction.
LEMMA RollbackOkKeeps ==
  ASSUME DInv, inTx, RollbackToOk, phase' = "ready",
         UNCHANGED <<baseVars, start, txn, acked>>
  PROVE  Core' /\ Shown' = Shown
<1>1. TypeOK /\ frames \in Seq(Frame) /\ frames' \in Seq(Frame) /\ header = "valid"
  BY RollbackToType DEF DInv, IInv, TypeOK, SavepointIntact
<1>2. /\ log' = frames' /\ header' = "valid" /\ ioFailed' = FALSE
      /\ Len(frames') = start
      /\ \A i \in 1 .. start : frames'[i] = frames[i]
      /\ EndsCommitted(frames')
  BY RollbackRestores DEF DInv
<1>3. start \in 0 .. Len(frames) /\ Current = Prefix(frames, start)
  BY CurrentIsStart DEF DInv, Books
<1>4. frames' = Current
  <2>1. /\ Prefix(frames, start) \in Seq(Frame) /\ Len(Prefix(frames, start)) = start
        /\ \A i \in 1 .. start : Prefix(frames, start)[i] = frames[i]
    BY <1>1, <1>3, PrefixType
  <2>2. QED
    BY <1>1, <1>2, <1>3, <2>1, SeqEqual
<1>5. Committed(frames') = frames'
  BY <1>1, <1>2, CommittedFull
<1>6. Current' = Current
  BY <1>4, <1>5 DEF Current
<1>7. ASSUME NEW c \in Candidates'
      PROVE  /\ c.header = "valid" /\ Rec(c) = Current
             /\ start <= Len(c.log) /\ \A i \in 1 .. start : c.log[i] = frames'[i]
  <2>1. CASE NothingToRollBack /\ UNCHANGED <<walVars, frames, ioFailed>>
    <3>1. c \in Candidates /\ ~ ioFailed
      BY <2>1, CandidatesKept DEF NothingToRollBack
    <3>2. c.header = "valid" /\ Rec(c) = Current
      BY <1>1, <3>1, AgreedDecides DEF DInv
    <3>3. QED
      BY <2>1, <3>1, <3>2 DEF DInv, Core, SavepointKept
  <2>2. CASE SyncedAs(HeaderAfterSetLen, Resize(log, RollbackTarget))
    <3>1. SyncedAs("valid", frames')
      BY <1>2, <2>2 DEF SyncedAs
    <3>2. c = File("valid", frames')
      BY <1>1, <3>1, FrameSlot, SyncedAsCandidates
    <3>3. start \in Nat
      BY <1>3
    <3>4. QED
      BY <1>1, <1>2, <1>4, <1>5, <3>2, <3>3, FileFields, RecoverFrames DEF Rec
  <2>3. QED
    BY <2>1, <2>2 DEF RollbackToOk
<1>8. SavepointKept'
  BY <1>7 DEF SavepointKept
<1>9. QED
  BY <1>1, <1>2, <1>6, <1>7, <1>8, FileStep DEF DInv

\* A truncation that fails has cut a file to its savepoint or not at all.
LEMMA RollbackFailsKeeps ==
  ASSUME DInv, inTx, RollbackToFails, phase' = "ready",
         UNCHANGED <<baseVars, start, txn, dirty, acked>>
  PROVE  Core' /\ Shown' = Shown
<1>1. TypeOK /\ frames \in Seq(Frame) /\ header = "valid" /\ log \in Seq(Slot)
  BY DEF DInv, IInv, TypeOK, SavepointIntact
<1>2. ioFailed' = TRUE /\ frames' = frames
  BY DEF RollbackToFails
<1>3. /\ start \in 0 .. Len(frames) /\ start \in Nat /\ Current = Prefix(frames, start)
      /\ phase # "down" /\ EndsCommitted(Current)
  BY CurrentIsStart DEF DInv, Books
<1>4. Current' = Current
  BY <1>2, <1>3 DEF Current
<1>5. RollbackTarget = start /\ HeaderAfterSetLen = "valid"
  BY <1>1, <1>3 DEF RollbackTarget, MinOf, HeaderAfterSetLen
<1>6. ASSUME NEW c \in Candidates
      PROVE  /\ c.header = "valid" /\ Decides(c)
             /\ start <= Len(c.log) /\ \A i \in 1 .. start : c.log[i] = frames[i]
             /\ c.log \in Seq(Slot)
  BY <1>1, CandidateType DEF DInv, Core, Outcomes, SavepointKept
<1>7. /\ Current \in Seq(Frame) /\ Len(Current) = start
      /\ \A i \in 1 .. start : Current[i] = frames[i]
      /\ Recoverable("valid", Current) = Current
  BY <1>1, <1>3, PrefixType, RecoverFrames, CommittedFull
<1>8. Decides(File("valid", Current))
  BY <1>7, FileFields, CurrentDecides DEF DInv, Rec
<1>9. Candidates' \subseteq Candidates \cup {File("valid", Current)}
  <2>1. CASE UNCHANGED <<header, log>> /\ \E m \in flushed .. Len(log) : FlushedTo(m)
    <3>1. PICK m \in flushed .. Len(log) : FlushedTo(m)
      BY <2>1
    <3>2. Torn \in Slot
      BY DEF Slot
    <3>3. Candidates' \subseteq Candidates \cup {File(header, log')}
      BY <1>1, <2>1, <3>1, <3>2, FlushedToCandidates
    <3>4. QED
      BY <1>1, <2>1, <3>3, FileIsCandidate
  <2>2. CASE TruncatedTo(HeaderAfterSetLen, RollbackTarget)
    <3>1. Candidates' \subseteq Candidates \cup {File("valid", Resize(c.log, start)) : c \in Candidates}
      BY <1>1, <1>3, <1>5, <2>2, TruncatedToCandidates DEF Header
    <3>2. ASSUME NEW c \in Candidates
          PROVE  Resize(c.log, start) = Current
      <4>1. /\ Resize(c.log, start) \in Seq(Slot) /\ Len(Resize(c.log, start)) = start
            /\ \A i \in 1 .. start : Resize(c.log, start)[i] = c.log[i]
        BY <1>3, <1>6, ResizeKeeps
      <4>2. Current \in Seq(Slot)
        BY <1>7, FrameSlot
      <4>3. QED
        BY <1>6, <1>7, <4>1, <4>2, SeqEqual
    <3>3. QED
      BY <3>1, <3>2
  <2>3. QED
    BY <2>1, <2>2 DEF RollbackToFails
<1>10. ASSUME NEW c \in Candidates'
       PROVE  /\ Decides(c) /\ c.header = "valid"
              /\ start <= Len(c.log) /\ \A i \in 1 .. start : c.log[i] = frames[i]
  <2>1. CASE c \in Candidates
    BY <1>6, <2>1
  <2>2. CASE c = File("valid", Current)
    BY <1>3, <1>7, <1>8, <2>2, FileFields
  <2>3. QED
    BY <1>9, <2>1, <2>2
<1>11. SavepointKept'
  BY <1>2, <1>10 DEF SavepointKept
<1>12. QED
  BY <1>1, <1>2, <1>4, <1>10, <1>11, FailedStep DEF DInv

\* Undoing a commit that failed keeps what is shown.
LEMMA UndoCommitKeeps ==
  ASSUME DInv, UndoCommit
  PROVE  Core' /\ Shown' = Shown
<1>1. inTx
  BY DEF DInv, IInv, PhaseOwner, UndoCommit
<1>2. QED
  BY <1>1, RollbackOkKeeps, RollbackFailsKeeps DEF UndoCommit, txVars, replyVars

\* So does a rollback.
LEMMA RollbackKeeps ==
  ASSUME DInv, Rollback
  PROVE  Core' /\ Shown' = Shown
<1>1. phase' = "ready" /\ inTx
  BY DEF Rollback
<1>2. QED
  BY <1>1, RollbackOkKeeps, RollbackFailsKeeps DEF Rollback

-----------------------------------------------------------------------------
(* Checkpoints.                                                            *)

\* Outside transactions a healthy process shows all of its frames.
LEMMA CheckpointShows ==
  ASSUME IInv, phase \in {"checkpoint", "reset", "recover"}
  PROVE  ~ inTx /\ ~ ioFailed /\ Current = frames /\ header = "valid" /\ log = frames
BY CurrentIsAll DEF IInv, PhaseOwner, TailCommitted, MemoryMatchesFile

\* So does the start of a checkpoint outside a transaction.
LEMMA CheckpointKeeps ==
  ASSUME DInv, Checkpoint, CheckpointDuringTx = FALSE
  PROVE  Core' /\ Shown' = Shown
<1>1. /\ TypeOK /\ UNCHANGED <<frames, ioFailed, walVars, baseVars, txn, dirty, acked>>
      /\ phase = "ready" /\ phase' = "checkpoint" /\ ~ inTx'
  BY DEF DInv, IInv, Checkpoint, txVars, replyVars
<1>2. SavepointKept' /\ Current' = Current
  BY <1>1 DEF SavepointKept, Current
<1>3. txn' \in Nat /\ txn <= txn' /\ ioFailed \in BOOLEAN
  BY <1>1 DEF TypeOK, Txn
<1>4. QED
  BY <1>1, <1>2, <1>3, QuietStep DEF DInv

\* A page that is copied into the base file is still in the log.
LEMMA CheckpointPageKeeps ==
  ASSUME DInv, CheckpointPage
  PROVE  Core' /\ Shown' = Shown
<1> DEFINE p == MinPage(todo)
<1>1. /\ TypeOK /\ UNCHANGED <<frames, ioFailed, walVars, baseDisk, txn, inTx, acked>>
      /\ phase = "checkpoint" /\ phase' \in {"checkpoint", "ready"}
      /\ todo \subseteq PagesOf(frames) /\ todo \subseteq Page /\ p \in todo
  BY MinPageOK DEF DInv, IInv, PhaseData, CheckpointPage, TypeOK, txVars
<1>2. ~ inTx /\ ~ ioFailed /\ Current = frames
  BY <1>1, CheckpointShows DEF DInv
<1>3. Current' = Current
  BY <1>1 DEF Current
<1>4. \A q \in Page \ PagesOf(Current) : base'[q] = base[q]
  <2>1. base \in [Page -> Txn \cup {Torn}] /\ p \in PagesOf(Current)
    BY <1>1, <1>2 DEF TypeOK
  <2>2. PICK v : base' = [base EXCEPT ![p] = v]
    BY DEF CheckpointPage
  <2>3. QED
    BY <2>1, <2>2
<1>5. QED
  BY <1>1, <1>2, <1>3, <1>4, BaseStep DEF DInv, TypeOK

\* The base file is synchronized before the log is emptied.
LEMMA CheckpointSyncKeeps ==
  ASSUME DInv, CheckpointSync
  PROVE  Core' /\ Shown' = Shown
<1>1. /\ TypeOK /\ UNCHANGED <<frames, ioFailed, walVars, base, txn, inTx, acked>>
      /\ phase = "checkpoint" /\ phase' # "down" /\ baseDisk' \in {baseDisk, base'}
  BY DEF DInv, IInv, CheckpointSync, BaseSynced, txVars
<1>2. ~ inTx /\ ~ ioFailed
  BY <1>1, CheckpointShows DEF DInv
<1>3. Current' = Current
  BY <1>1 DEF Current
<1>4. QED
  BY <1>1, <1>2, <1>3, BaseStep DEF DInv, TypeOK

\* After a checkpoint the base file shows what it showed with the log.
LEMMA BaseIsShown ==
  ASSUME DInv, phase = "reset"
  PROVE  Shown = base /\ \A p \in Page : Settled(p)
<1>1. Current = frames /\ base \in [Page -> Txn \cup {Torn}] /\ base = baseDisk
      /\ \A p \in PagesOf(frames) : base[p] = frames[LastFrame(frames, p)].txn
  BY CheckpointShows DEF DInv, IInv, TypeOK, Books, Copied
<1>2. Shown = base
  BY <1>1 DEF Shown, Overlay
<1>3. QED
  BY <1>1, <1>2 DEF DInv, Core, AckedShown, Settled

\* Emptying the log shows the base file, which has all of it.
LEMMA ResetLogKeeps ==
  ASSUME DInv, ResetLog
  PROVE  Core' /\ Shown' = Shown
<1>1. /\ TypeOK /\ phase = "reset" /\ phase' = "ready" /\ frames' = <<>>
      /\ UNCHANGED <<ioFailed, baseVars, txn, inTx>> /\ SyncedAs("valid", <<>>)
  BY DEF DInv, IInv, ResetLog, txVars
<1>2. Current = frames /\ ~ inTx /\ ~ ioFailed /\ Shown = base /\ \A p \in Page : Settled(p)
  BY <1>1, CheckpointShows, BaseIsShown DEF DInv
<1>3. Committed(<<>>) = <<>>
  BY EmptyType, CommittedFull DEF EndsCommitted
<1>4. Current' = <<>> /\ header' = "valid"
  BY <1>1, <1>3 DEF Current, SyncedAs
<1>5. Shown' = Shown
  <2>1. base \in [Page -> Txn \cup {Torn}]
    BY <1>1 DEF TypeOK
  <2>2. QED
    BY <1>1, <1>2, <1>4, <2>1, OverlayEmpty DEF Shown, baseVars
<1>6. \A c \in Candidates' : c.header = header' /\ Rec(c) = Current'
  <2>1. Candidates' = {File("valid", <<>>)}
    BY <1>1, EmptyType, SyncedAsCandidates
  <2>2. Recoverable("valid", <<>>) = <<>>
    BY <1>3, EmptyType, RecoverFrames
  <2>3. QED
    BY <1>4, <2>1, <2>2, FileFields DEF Rec
<1>7. Restores(Current)'
  BY <1>1, <1>2 DEF Restores, Settled, baseVars
<1>8. AckedShown'
  <2>1. txn \in Nat /\ frames # <<>> /\ frames \in Seq(Frame)
        /\ (reply = "pending" => frames[Len(frames)].txn = txn)
    BY <1>1 DEF TypeOK, Txn, DInv, Books, Copied
  <2>2. ASSUME NEW p \in Page
        PROVE  Shown[p] # Torn /\ acked'[p] <= Shown[p] /\ acked'[p] <= txn
    <3>1. Shown[p] # Torn /\ acked[p] <= Shown[p] /\ acked[p] <= txn
      BY DEF DInv, Core, AckedShown
    <3>2. CASE reply = "pending" /\ frames[Len(frames)].page = p
      <4>1. Len(frames) \in 1 .. Len(frames) /\ \A j \in Len(frames) + 1 .. Len(frames) : FALSE
        BY <2>1
      <4>2. p \in PagesOf(frames) /\ LastFrame(frames, p) = Len(frames)
        BY <2>1, <3>2, <4>1, LastFrameUnique DEF PagesOf
      <4>3. Shown[p] = txn
        BY <1>2, <2>1, <3>2, <4>2 DEF Shown, Overlay
      <4>4. acked'[p] = txn
        BY <3>2 DEF ResetLog
      <4>5. QED
        BY <2>1, <3>1, <4>3, <4>4
    <3>3. CASE ~ (reply = "pending" /\ frames[Len(frames)].page = p)
      <4>1. acked'[p] = acked[p]
        BY <3>3 DEF ResetLog
      <4>2. QED
        BY <3>1, <4>1
    <3>4. QED
      BY <3>2, <3>3
  <2>3. QED
    BY <1>1, <1>5, <2>2 DEF AckedShown
<1>9. SavepointKept' /\ ioFailed' = FALSE
  BY <1>1, <1>2 DEF SavepointKept, TypeOK
<1>10. QED
  BY <1>4, <1>5, <1>6, <1>7, <1>8, <1>9, HealthyStep

\* When that fails the old log may come back, over the same base file.
LEMMA ResetLogFailsKeeps ==
  ASSUME DInv, ResetLogFails
  PROVE  Core' /\ Shown' = Shown
<1>1. /\ TypeOK /\ phase = "reset" /\ phase' = "ready" /\ ioFailed' = TRUE
      /\ UNCHANGED <<frames, baseVars, txn, dirty, inTx, acked>>
  BY DEF DInv, IInv, ResetLogFails, txVars
<1>2. ~ inTx /\ Shown = base /\ \A p \in Page : Settled(p)
  BY <1>1, CheckpointShows, BaseIsShown DEF DInv
<1>3. Current' = Current /\ SavepointKept'
  BY <1>1, <1>2 DEF Current, SavepointKept
<1>4. ASSUME NEW c, c.header # "bad", Rec(c) = <<>>
      PROVE  Decides(c)
  <2>1. base \in [Page -> Txn \cup {Torn}]
    BY <1>1 DEF TypeOK
  <2>2. QED
    BY <1>2, <1>4, <2>1, OverlayEmpty DEF Decides, Restores
<1>5. Recoverable("valid", <<>>) = <<>>
  BY EmptyType, RecoverFrames, CommittedFull DEF EndsCommitted
<1>6. /\ Decides(File("valid", <<>>))
      /\ \A s : Decides(File("absent", s))
  <2>1. \A s : Recoverable("absent", s) = <<>>
    BY DEF Recoverable
  <2>2. QED
    BY <1>4, <1>5, <2>1, FileFields DEF Rec
<1>7. \A c \in Candidates : Decides(c)
  BY DEF DInv, Core, Outcomes
<1>8. \A c \in Candidates' : Decides(c)
  <2>1. CASE UNCHANGED walVars
    BY <1>7, <2>1, CandidatesKept
  <2>2. CASE TruncatedTo("absent", 0)
    <3>1. Candidates' \subseteq Candidates \cup {File("absent", Resize(c.log, 0)) : c \in Candidates}
      BY <1>1, <2>2, TruncatedToCandidates DEF Header
    <3>2. QED
      BY <1>6, <1>7, <3>1
  <2>3. CASE /\ header' = "valid" /\ log' = <<>> /\ flushed' = 0
             /\ kept' = kept \cup {File("absent", <<>>), File("valid", <<>>)}
    <3>1. {File(header', Prefix(log', k)) : k \in flushed' .. Len(log')} = {File("valid", <<>>)}
      <4>1. Len(<<>>) = 0 /\ \A k \in 0 .. 0 : k = 0
        OBVIOUS
      <4>2. Prefix(<<>>, Len(<<>>)) = <<>>
        BY EmptyType, PrefixFull
      <4>3. Prefix(<<>>, 0) = <<>>
        BY <4>1, <4>2
      <4>4. 0 \in 0 .. 0
        OBVIOUS
      <4>5. QED
        BY <2>3, <4>1, <4>3, <4>4
    <3>2. Candidates' \subseteq Candidates \cup {File("absent", <<>>), File("valid", <<>>)}
      BY <2>3, <3>1 DEF Candidates
    <3>3. QED
      BY <1>6, <1>7, <3>2
  <2>4. QED
    BY <2>1, <2>2, <2>3 DEF ResetLogFails
<1>9. QED
  BY <1>1, <1>3, <1>8, FailedStep DEF DInv

-----------------------------------------------------------------------------
(* Open and crashes.                                                       *)

\* After a crash there is no transaction, and the log decides what is committed.
LEMMA DownIsHealthy ==
  ASSUME DInv, phase = "down"
  PROVE  /\ TypeOK /\ ~ inTx /\ ~ ioFailed /\ Current = Recoverable(header, log)
         /\ Current \in Seq(Frame) /\ EndsCommitted(Current) /\ Recoverable("valid", Current) = Current
<1>1. TypeOK /\ ~ inTx /\ ~ ioFailed /\ Current = Recoverable(header, log)
  BY DEF DInv, IInv, PhaseOwner, Current
<1>2. Current \in Seq(Frame) /\ EndsCommitted(Current)
  BY <1>1, CurrentOK
<1>3. QED
  BY <1>1, <1>2, RecoverFrames, CommittedFull

\* Cutting the torn tail off changes nothing that a scan finds.
LEMMA TornTailCutKeeps ==
  ASSUME DInv, phase = "down", header = "valid", TornTailCut, NEW c \in Candidates'
  PROVE  c.header = header /\ Rec(c) = Current
<1>1. TypeOK /\ ~ ioFailed /\ Current = Recoverable(header, log)
  BY DownIsHealthy
<1>2. Valid(log) \in Seq(Frame)
  BY <1>1, ValidOK DEF TypeOK
<1>3. Recoverable("valid", Valid(log)) = Committed(Valid(log))
  BY <1>2, RecoverFrames
<1>4. CASE c = File(header, Valid(log))
  BY <1>1, <1>3, <1>4, FileFields DEF Rec, Recoverable
<1>5. CASE c \in Candidates
  BY <1>1, <1>5, AgreedDecides DEF DInv
<1>6. QED
  BY <1>1, <1>4, <1>5, TornTailCutCandidates

\* Opening the log keeps what is shown.
LEMMA OpenWalKeeps ==
  ASSUME DInv, OpenWal
  PROVE  Core' /\ Shown' = Shown
<1>1. /\ phase = "down" /\ phase' = "recover" /\ frames' = Recoverable(header, log)
      /\ UNCHANGED <<ioFailed, baseVars, inTx, txn, dirty, acked>>
  BY DEF OpenWal, txVars, replyVars
<1>2. /\ TypeOK /\ ~ inTx /\ ~ ioFailed /\ Current = frames'
      /\ Current \in Seq(Frame) /\ EndsCommitted(Current) /\ Recoverable("valid", Current) = Current
  BY <1>1, DownIsHealthy
<1>3. Current' = Current
  BY <1>1, <1>2, CommittedFull DEF Current
<1>4. header' = "valid" /\ \A c \in Candidates' : c.header = "valid" /\ Rec(c) = Current
  <2>1. ASSUME NEW s \in Seq(Frame), s = Current, SyncedAs("valid", s)
        PROVE  header' = "valid" /\ \A c \in Candidates' : c.header = "valid" /\ Rec(c) = Current
    <3>1. Candidates' = {File("valid", s)}
      BY <2>1, FrameSlot, SyncedAsCandidates
    <3>2. QED
      BY <1>2, <2>1, <3>1, FileFields DEF Rec, SyncedAs
  <2>2. CASE header = "absent" /\ SyncedAs("valid", <<>>)
    <3>1. Current = <<>>
      BY <1>1, <1>2, <2>2 DEF Recoverable
    <3>2. QED
      BY <2>1, <2>2, <3>1, EmptyType
  <2>3. CASE SyncedAs("valid", Recoverable(header, log))
    BY <1>1, <1>2, <2>1, <2>3
  <2>4. CASE header = "valid" /\ TornTailCut
    BY <1>1, <2>4, TornTailCutKeeps DEF TornTailCut
  <2>5. QED
    BY <2>2, <2>3, <2>4 DEF OpenWal
<1>5. SavepointKept' /\ ioFailed' = FALSE
  BY <1>1, <1>2 DEF SavepointKept, TypeOK
<1>6. QED
  BY <1>1, <1>2, <1>3, <1>4, <1>5, FileStep DEF DInv

\* So does an opening that fails.
LEMMA OpenWalFailsKeeps ==
  ASSUME DInv, OpenWalFails
  PROVE  Core' /\ Shown' = Shown
<1>1. /\ phase = "down" /\ phase' = "down" /\ header = "valid" /\ TornTailCut /\ header' = "valid"
      /\ UNCHANGED <<ioFailed, baseVars, inTx, txn, dirty, acked>>
  BY DEF OpenWalFails, TornTailCut, txVars, replyVars
<1>2. TypeOK /\ ~ inTx /\ ~ ioFailed /\ Current = Recoverable(header, log)
  BY <1>1, DownIsHealthy
<1>3. Valid(log) \in Seq(Frame)
  BY <1>2, ValidOK DEF TypeOK
<1>4. Current' = Current
  BY <1>1, <1>2, <1>3, RecoverFrames DEF Current, Recoverable, TornTailCut
<1>5. \A c \in Candidates' : c.header = header' /\ Rec(c) = Current
  BY <1>1, TornTailCutKeeps
<1>6. SavepointKept' /\ ioFailed' = FALSE
  BY <1>1, <1>2 DEF SavepointKept, TypeOK
<1>7. QED
  BY <1>1, <1>2, <1>4, <1>5, <1>6, FileStep DEF DInv

\* A frame that recovery copies is still in the log.
LEMMA RecoverFrameKeeps ==
  ASSUME DInv, RecoverFrame \/ RecoverFrameFails
  PROVE  Core' /\ Shown' = Shown
<1>1. /\ TypeOK /\ phase = "recover" /\ next <= Len(frames) /\ next \in Nat \ {0}
      /\ frames \in Seq(Frame) /\ base \in [Page -> Txn \cup {Torn}]
      /\ UNCHANGED <<walVars, baseDisk, txn, acked>>
  BY DEF DInv, IInv, PhaseData, TypeOK, RecoverFrame, RecoverFrameFails, ProcessGone, txVars, replyVars
<1>2. ~ inTx /\ ~ ioFailed /\ Current = frames /\ header = "valid" /\ log = frames
  BY <1>1, CheckpointShows DEF DInv
<1>3. ~ inTx' /\ ioFailed' = FALSE
  BY <1>1, <1>2 DEF RecoverFrame, RecoverFrameFails, ProcessGone, txVars, TypeOK
<1>4. Current' = Current
  <2>1. CASE RecoverFrame
    BY <2>1 DEF RecoverFrame, Current
  <2>2. CASE RecoverFrameFails
    <3>1. Current' = Recoverable(header, log)
      BY <1>1, <2>2 DEF RecoverFrameFails, ProcessGone, Current, walVars
    <3>2. QED
      BY <1>2, <3>1, CurrentInFile DEF DInv
  <2>3. QED
    BY <2>1, <2>2
<1>5. \A q \in Page \ PagesOf(Current) : base'[q] = base[q]
  <2>1. frames[next].page \in PagesOf(Current)
    BY <1>1, <1>2 DEF PagesOf
  <2>2. PICK v : base' = [base EXCEPT ![frames[next].page] = v]
    BY DEF RecoverFrame, RecoverFrameFails
  <2>3. QED
    BY <1>1, <2>1, <2>2
<1>6. QED
  BY <1>1, <1>2, <1>3, <1>4, <1>5, BaseStep DEF DInv

\* Recovery synchronizes the base file before it empties the log.
LEMMA RecoverSyncKeeps ==
  ASSUME DInv, RecoverSync \/ RecoverSyncFails
  PROVE  Core' /\ Shown' = Shown
<1>1. /\ TypeOK /\ phase = "recover" /\ UNCHANGED <<walVars, base, txn, acked>>
      /\ baseDisk' \in {baseDisk, base'}
  BY DEF DInv, IInv, RecoverSync, RecoverSyncFails, ProcessGone, txVars, replyVars, baseVars
<1>2. ~ inTx /\ ~ ioFailed
  BY <1>1, CheckpointShows DEF DInv
<1>3. ~ inTx' /\ ioFailed' = FALSE
  BY <1>1, <1>2 DEF RecoverSync, RecoverSyncFails, ProcessGone, txVars, TypeOK
<1>4. Current' = Current
  <2>1. CASE RecoverSync
    BY <2>1 DEF RecoverSync, Current
  <2>2. CASE RecoverSyncFails
    <3>1. Current' = Recoverable(header, log)
      BY <1>1, <2>2 DEF RecoverSyncFails, ProcessGone, Current, walVars
    <3>2. QED
      BY <1>2, <3>1, CurrentInFile DEF DInv
  <2>3. QED
    BY <2>1, <2>2
<1>5. QED
  BY <1>1, <1>2, <1>3, <1>4, BaseStep DEF DInv

\* A crash that leaves a single file, one of those that it could leave, and every
\* settled page of the base file as it is.
LEMMA CrashKeeps ==
  ASSUME DInv, ProcessGone, NEW c \in Candidates, header' = c.header, log' = c.log,
         Candidates' = {c},
         \A p \in Page : Settled(p) => base'[p] = base[p] /\ Settled(p)'
  PROVE  Core' /\ Shown' \in {Shown, Applied}
<1>1. TypeOK /\ Decides(c)
  BY DEF DInv, IInv, Core, Outcomes
<1>2. Current' = Rec(c)
  BY DEF ProcessGone, Current, Rec
<1>3. Overlay(base', Rec(c)) = Overlay(base, Rec(c))
  BY <1>1, OverlaySame DEF Decides, Restores
<1>4. Shown' \in {Shown, Applied}
  BY <1>1, <1>2, <1>3 DEF Shown, Decides
<1>5. Restores(Current)'
  BY <1>1, <1>2 DEF Decides, Restores
<1>6. AckedShown'
  <2>1. txn' = txn /\ acked' = acked /\ txn \in Nat
    BY <1>1 DEF ProcessGone, TypeOK, Txn
  <2>2. QED
    BY <1>1, <1>4, <2>1, AckedKept DEF DInv, Core
<1>7. SavepointKept' /\ ioFailed' = FALSE /\ header' # "bad"
  BY <1>1 DEF ProcessGone, SavepointKept, Decides
<1>8. \A d \in Candidates' : d.header = header' /\ Rec(d) = Current'
  BY <1>2
<1>9. QED
  BY <1>4, <1>5, <1>6, <1>7, <1>8, HealthyStep

\* A crash of the process leaves the open outcome as a whole or not at all.
LEMMA ProcessCrashKeeps ==
  ASSUME DInv, ProcessCrash, "power" \notin CrashKinds
  PROVE  Core' /\ Shown' \in {Shown, Applied}
<1>1. /\ TypeOK /\ log \in Seq(Slot) /\ ProcessGone /\ UNCHANGED <<header, baseVars>>
      /\ log' \in {Prefix(log, flushed), log} /\ flushed' = Len(log')
  BY DEF DInv, IInv, TypeOK, ProcessCrash, FlushedTo
<1> DEFINE c == File(header, log')
<1>2. c \in Candidates /\ c.header = header /\ c.log = log'
  BY <1>1, FileIsCandidate, FileFields
<1>3. Candidates' = {c}
  <2>1. log' \in Seq(Slot)
    BY <1>1, PrefixType DEF TypeOK
  <2>2. \A k \in flushed' .. Len(log') : k = Len(log')
    BY <1>1, <2>1
  <2>3. Len(log') \in flushed' .. Len(log')
    BY <1>1, <2>1
  <2>4. Prefix(log', Len(log')) = log'
    BY <2>1, PrefixFull
  <2>5. QED
    BY <1>1, <2>2, <2>3, <2>4 DEF Candidates
<1>4. \A p \in Page : Settled(p) => base'[p] = base[p] /\ Settled(p)'
  BY <1>1 DEF Settled, baseVars
<1> HIDE DEF c
<1>5. QED
  BY <1>1, <1>2, <1>3, <1>4, CrashKeeps

\* So does a power loss.
LEMMA PowerLossKeeps ==
  ASSUME DInv, PowerLoss
  PROVE  Core' /\ Shown' \in {Shown, Applied}
<1>1. /\ TypeOK /\ ProcessGone /\ "power" \in CrashKinds /\ baseDisk' = base'
      /\ \A p \in Page : base'[p] = base[p] \/ base[p] # baseDisk[p]
  BY DEF DInv, IInv, PowerLoss
<1>2. PICK c \in kept : SyncedAs(c.header, c.log)
  BY DEF PowerLoss
<1>3. c \in Candidates /\ c \in [header : Header, log : Seq(Slot)]
  BY <1>1, <1>2 DEF Candidates, TypeOK
<1>4. Candidates' = {c}
  <2>1. Candidates' = {File(c.header, c.log)}
    BY <1>2, <1>3, SyncedAsCandidates
  <2>2. File(c.header, c.log) = c
    BY <1>3 DEF File
  <2>3. QED
    BY <2>1, <2>2
<1>5. \A p \in Page : Settled(p) => base'[p] = base[p] /\ Settled(p)'
  BY <1>1 DEF Settled
<1>6. header' = c.header /\ log' = c.log
  BY <1>2 DEF SyncedAs
<1>7. QED
  BY <1>1, <1>3, <1>4, <1>5, <1>6, CrashKeeps

-----------------------------------------------------------------------------
(* Every step.                                                             *)

\* Crashes of one kind.
OneKind == ~ ({"process", "power"} \subseteq CrashKinds)

\* A step that changes nothing.
LEMMA StutterKeeps ==
  ASSUME DInv, UNCHANGED vars
  PROVE  Core' /\ Shown' = Shown
<1>1. /\ UNCHANGED <<phase, frames, ioFailed, header, log, walVars, base, baseDisk, baseVars>>
      /\ UNCHANGED <<txn, dirty, inTx, start, acked>>
  BY DEF vars, walVars, baseVars, txVars, replyVars
<1>2. Candidates' = Candidates
  BY <1>1, CandidatesKept
<1>3. SavepointKept' /\ Current' = Current
  BY <1>1, <1>2 DEF DInv, Core, SavepointKept, Current
<1>4. TypeOK /\ txn \in Nat /\ ioFailed \in BOOLEAN
  BY DEF DInv, IInv, TypeOK, Txn
<1>5. txn' \in Nat /\ txn <= txn'
  BY <1>1, <1>4
<1>6. QED
  BY <1>1, <1>3, <1>4, <1>5, QuietStep DEF DInv

\* The steps that change nothing of what is shown.
Hidden ==
  \/ Begin \/ Commit \/ WritePage \/ WriteFrame \/ WriteFrameFails \/ UndoCommit \/ Rollback
  \/ Checkpoint \/ CheckpointPage \/ CheckpointSync \/ ResetLog \/ ResetLogFails
  \/ OpenWal \/ OpenWalFails \/ RecoverFrame \/ RecoverFrameFails
  \/ RecoverSync \/ RecoverSyncFails

\* All steps but commits and crashes keep what is shown.
LEMMA HiddenKeeps ==
  ASSUME DInv, Hidden, CheckpointDuringTx = FALSE
  PROVE  Core' /\ Shown' = Shown
BY BeginKeeps, CommitKeeps, WritePageKeeps, WriteFrameKeeps, WriteFrameFailsKeeps, UndoCommitKeeps,
   RollbackKeeps, CheckpointKeeps, CheckpointPageKeeps, CheckpointSyncKeeps, ResetLogKeeps,
   ResetLogFailsKeeps, OpenWalKeeps, OpenWalFailsKeeps, RecoverFrameKeeps, RecoverSyncKeeps
DEF Hidden

\* Every step is one of these.
LEMMA NextCases ==
  ASSUME [Next]_vars
  PROVE  UNCHANGED vars \/ Hidden \/ WriteCommitFrame \/ ProcessCrash \/ PowerLoss
BY DEF Next, Working, Hidden

\* A crash of the one kind that is possible decides the open outcome as a whole.
LEMMA CrashesKeep ==
  ASSUME DInv, OneKind, ProcessCrash \/ PowerLoss
  PROVE  Core' /\ Shown' \in {Shown, Applied}
<1>1. CASE ProcessCrash
  <2>1. "power" \notin CrashKinds
    BY <1>1 DEF ProcessCrash, OneKind
  <2>2. QED
    BY <1>1, <2>1, ProcessCrashKeeps
<1>2. CASE PowerLoss
  BY <1>2, PowerLossKeeps
<1>3. QED
  BY <1>1, <1>2

\* Every step keeps the invariant.
LEMMA DurableStep ==
  ASSUME DInv, [Next]_vars, CheckpointDuringTx = FALSE, OneKind
  PROVE  DInv'
<1>1. IInv'
  BY SafeStep DEF DInv
<1>2. Books'
  BY BooksStep DEF DInv
<1>3. Core'
  BY NextCases, StutterKeeps, HiddenKeeps, WriteCommitFrameKeeps, CrashesKeep
<1>4. QED
  BY <1>1, <1>2, <1>3 DEF DInv

\* The invariant holds at first.
LEMMA DurableInit == Init => DInv
<1>. SUFFICES ASSUME Init
              PROVE  DInv
  OBVIOUS
<1>1. IInv
  BY SafeInit
<1>2. Books
  BY DEF Init, Books, TailOfCommit, Copied, OpenOutcome
<1>3. Current = <<>> /\ \A s : Recoverable("absent", s) = <<>>
  BY DEF Init, Current, Recoverable
<1>4. Shown = base /\ base = [p \in Page |-> 0] /\ baseDisk = base
  <2>1. base \in [Page -> Txn \cup {Torn}]
    BY <1>1 DEF IInv, TypeOK
  <2>2. QED
    BY <1>3, <2>1, OverlayEmpty DEF Init, Shown
<1>5. 0 # Torn
  OBVIOUS
<1>6. \A c \in Candidates : c.header = "absent"
  BY FileFields DEF Init, Candidates
<1>7. Restores(<<>>)
  BY <1>4, <1>5 DEF Restores, Settled
<1>8. ASSUME NEW c \in Candidates
      PROVE  Decides(c) /\ c.header = header /\ Rec(c) = Current
  BY <1>3, <1>4, <1>6, <1>7 DEF Decides, Shown, Rec, Init
<1>9. Restores(Current)
  BY <1>3, <1>7
<1>10. AckedShown /\ SavepointKept
  BY <1>4, <1>5 DEF Init, AckedShown, SavepointKept
<1>11. QED
  BY <1>1, <1>2, <1>8, <1>9, <1>10 DEF DInv, Core, Outcomes, Agreed

\* The invariant always holds.
LEMMA DurableInv ==
  ASSUME CheckpointDuringTx = FALSE, OneKind
  PROVE  Spec => []DInv
<1>1. DInv /\ [Next]_vars => DInv'
  BY DurableStep
<1>2. QED
  BY <1>1, DurableInit, PTL DEF Spec

-----------------------------------------------------------------------------
(* What the users of the log rely on.                                      *)

Seen == Image = Shown

\* What readers find is what the committed frames show.
LEMMA ImageIsShown == IInv => Seen
<1>. SUFFICES ASSUME IInv
              PROVE  Image = Shown
  BY DEF Seen
<1>1. TypeOK /\ frames \in Seq(Frame) /\ log \in Seq(Slot)
  BY DEF IInv, TypeOK
<1>2. Committed(frames) \in Seq(Frame) /\ Recoverable(header, log) \in Seq(Frame)
  BY <1>1, CommittedOK, RecoverableOK
<1>3. CASE phase \in Running
  BY <1>2, <1>3 DEF Image, Shown, Current, Running
<1>4. CASE phase \notin Running
  <2>1. ~ ioFailed
    BY <1>1, <1>4 DEF IInv, PhaseOwner, Running, TypeOK
  <2>2. Current = Recoverable(header, log)
    BY <2>1, CurrentInFile
  <2>3. QED
    BY <1>2, <1>4, <2>2 DEF Image, Shown
<1>5. QED
  BY <1>3, <1>4

\* A transaction that was reported as committed is never lost and no page is ever seen
\* with mixed content, whatever fails and whenever the process dies or the power fails:
\* for every set of pages, number of transactions and checkpoint threshold.
THEOREM AckedCorrect ==
  ASSUME CheckpointDuringTx = FALSE, OneKind
  PROVE  Spec => []AckedIsDurable
<1>1. DInv => AckedIsDurable
  <2>. SUFFICES ASSUME DInv, NEW p \in Page
                PROVE  Image[p] # Torn /\ Image[p] >= acked[p]
    BY DEF AckedIsDurable
  <2>1. Image = Shown /\ TypeOK
    BY ImageIsShown DEF DInv, IInv, Seen
  <2>2. Shown[p] \in Nat /\ Shown[p] # Torn /\ acked[p] <= Shown[p] /\ acked[p] \in Nat
    BY <2>1, AppliedType DEF DInv, Core
  <2>3. QED
    BY <2>1, <2>2
<1>2. QED
  BY <1>1, DurableInv, PTL

\* Whatever a crash leaves of the log and of the base file, the next open accepts it.
THEOREM OpenableCorrect ==
  ASSUME CheckpointDuringTx = FALSE, OneKind
  PROVE  Spec => []AlwaysOpenable
<1>1. DInv => AlwaysOpenable
  <2>. SUFFICES ASSUME DInv, phase = "down"
                PROVE  CanOpen
    BY DEF AlwaysOpenable
  <2>1. header # "bad"
    BY FileDecides DEF DInv, IInv
  <2>2. Restores(Recoverable(header, log))
    BY DEF DInv, Core, Current
  <2>3. QED
    BY <2>1, <2>2 DEF CanOpen, Restores, Settled
<1>2. QED
  BY <1>1, DurableInv, PTL

\* A step that shows nothing new is a step of the store, or none.
LEMMA HiddenMaps ==
  ASSUME DInv, Hidden, Image' = Image
  PROVE  [Store!Next]_(Store!vars)
<1>1. TypeOK
  BY DEF DInv, IInv
<1>2. CASE Begin
  <2>1. dirty = {} /\ dirty' = {} /\ txn < MaxTxn /\ txn' = txn + 1
    BY <1>2 DEF Begin, DInv, Books, OpenOutcome
  <2>2. QED
    BY <2>1 DEF Store!Next, Store!Start
<1>3. CASE Commit
  <2>1. dirty \subseteq dirty' /\ dirty' \in SUBSET Page /\ txn' = txn
    BY <1>1, <1>3 DEF Commit, TypeOK
  <2>2. QED
    BY <2>1 DEF Store!Next, Store!Start
<1>4. CASE WritePage
  <2>1. dirty = {} /\ dirty' \in SUBSET Page /\ txn < MaxTxn /\ txn' = txn + 1
    BY <1>4 DEF WritePage, DInv, Books, OpenOutcome
  <2>2. QED
    BY <2>1 DEF Store!Next, Store!Start
<1>5. CASE Rollback
  <2>1. txn' = txn /\ (dirty' = {} \/ dirty' = dirty)
    BY <1>5 DEF Rollback
  <2>2. QED
    BY <2>1 DEF Store!Next, Store!Rollback, Store!vars
<1>6. CASE RecoverFrameFails \/ RecoverSyncFails
  <2>1. dirty = {} /\ dirty' = {} /\ txn' = txn
    BY <1>6 DEF RecoverFrameFails, RecoverSyncFails, ProcessGone, DInv, Books, OpenOutcome
  <2>2. QED
    BY <2>1 DEF Store!vars
<1>7. CASE \/ WriteFrame \/ WriteFrameFails \/ UndoCommit
           \/ Checkpoint \/ CheckpointPage \/ CheckpointSync \/ ResetLog \/ ResetLogFails
           \/ OpenWal \/ OpenWalFails \/ RecoverFrame \/ RecoverSync
  <2>1. UNCHANGED <<txn, dirty>>
    BY <1>7 DEF WriteFrame, WriteFrameFails, UndoCommit, Checkpoint, CheckpointPage, CheckpointSync,
       ResetLog, ResetLogFails, OpenWal, OpenWalFails, RecoverFrame, RecoverSync, txVars
  <2>2. QED
    BY <2>1 DEF Store!vars
<1>8. QED
  BY <1>2, <1>3, <1>4, <1>5, <1>6, <1>7 DEF Hidden

\* Every step is a step of the store, or none.
LEMMA StepMaps ==
  ASSUME DInv, Seen, Seen', [Next]_vars, CheckpointDuringTx = FALSE, OneKind
  PROVE  [Store!Next]_(Store!vars)
<1>1. Image = Shown /\ Image' = Shown' /\ Store!Applied = Applied
  BY DEF Seen, Store!Applied, Applied
<1>2. CASE UNCHANGED vars
  <2>1. UNCHANGED <<txn, dirty>> /\ Image' = Image
    BY <1>1, <1>2, StutterKeeps DEF vars, txVars
  <2>2. QED
    BY <2>1 DEF Store!vars
<1>3. CASE Hidden
  BY <1>1, <1>3, HiddenKeeps, HiddenMaps
<1>4. CASE WriteCommitFrame
  <2>1. Image' = Store!Applied /\ dirty' = {} /\ txn' = txn
    BY <1>1, <1>4, WriteCommitFrameKeeps DEF WriteCommitFrame
  <2>2. dirty # {}
    <3>1. todo # {} /\ phase = "commit" /\ ~ ioFailed
      BY <1>4 DEF WriteCommitFrame, DInv, IInv, PhaseData
    <3>2. todo \subseteq dirty
      BY <3>1 DEF DInv, Books, TailOfCommit
    <3>3. QED
      BY <3>1, <3>2
  <2>3. QED
    BY <2>1, <2>2 DEF Store!Next, Store!Commit
<1>5. CASE ProcessCrash \/ PowerLoss
  <2>1. dirty' = {} /\ txn' = txn
    BY <1>5 DEF ProcessCrash, PowerLoss, ProcessGone
  <2>2. QED
    BY <1>1, <1>5, <2>1, CrashesKeep DEF Store!Next, Store!Crash
<1>6. QED
  BY <1>2, <1>3, <1>4, <1>5, NextCases

\* The store starts as it should.
LEMMA InitMaps == Init => Store!Init
<1>. SUFFICES ASSUME Init
              PROVE  Store!Init
  OBVIOUS
<1>1. IInv /\ base \in [Page -> Txn \cup {Torn}]
  BY SafeInit DEF IInv, TypeOK
<1>2. Current = <<>>
  BY DEF Init, Current, Recoverable
<1>3. Shown = base
  BY <1>1, <1>2, OverlayEmpty DEF Shown
<1>4. Image = Shown
  BY <1>1, ImageIsShown DEF Seen
<1>5. QED
  BY <1>3, <1>4 DEF Init, Store!Init

\* The log implements the store of whole transactions: every execution, with its failures,
\* checkpoints, crashes and recoveries, looks like one in which a transaction is applied at
\* once when its last frame is synchronized, or when a crash decides for it, or never.
THEOREM StoreCorrect ==
  ASSUME CheckpointDuringTx = FALSE, OneKind
  PROVE  Spec => ImplementsStore
<1>1. Spec => []DInv
  BY DurableInv
<1>2. DInv => Seen
  BY ImageIsShown DEF DInv
<1>3. DInv /\ Seen /\ Seen' /\ [Next]_vars => [Store!Next]_(Store!vars)
  BY StepMaps
<1>4. QED
  BY <1>1, <1>2, <1>3, InitMaps, PTL DEF Spec, ImplementsStore, Store!Spec

==============================================================================

---------------------------- MODULE SessionProofs ----------------------------
(***************************************************************************)
(* Proofs about Session, for every set of threads, every bound, and every  *)
(* choice of what is used and of what fails: a transaction has an owner,   *)
(* nobody sleeps for a notification that was given before, a closure that  *)
(* reports success has committed all it wrote and one that reports an      *)
(* error nothing, and sessions implement isolated transactions.            *)
(***************************************************************************)
EXTENDS Session, TLAPS

USE SessionAssumption

Job     == {"none", "begin", "body", "commit", "undo", "guard"}
Verdict == {"none", "committed", "failed"}

\* The state of a thread in the middle of a call, or of a transaction closure.
Busy(r) == r.phase # "idle" \/ r.job # "none"

\* The part of TypeOK that an operation on the connection may change.
ConnectionTyped ==
  /\ inTx \in BOOLEAN /\ txWrites \subseteq Write /\ committed \subseteq Write
  /\ ioFailed \in BOOLEAN /\ stale \subseteq Write /\ written \in 0 .. MaxWrites
  /\ lastRead \in [by : 0 .. MaxSessions, saw : SUBSET Write]

-----------------------------------------------------------------------------
(* Types of the operators.                                                 *)

\* What a closure does next is a job.
LEMMA FollowType ==
  ASSUME NEW job \in Job, NEW ok \in BOOLEAN
  PROVE  Follow(job, ok) \in Job
BY DEF Follow, Job

\* A thread that asks is ready.
LEMMA AskingType ==
  ASSUME TypeOK, NEW t \in Thread, NEW job \in Job, handle[t] \in Sess
  PROVE  /\ Asking(t, job) \in ThreadState
         /\ Asking(t, job).phase = "ready"
<1>1. th[t] \in ThreadState /\ patient[handle[t]] \in BOOLEAN
  BY DEF TypeOK
<1>2. QED
  BY <1>1 DEF Asking, ThreadState, Job

\* A thread that returns from a call has the state of one.
LEMMA ReturnedType ==
  ASSUME TypeOK, NEW t \in Thread, NEW ok \in BOOLEAN, handle[t] \in Sess,
         txWrites' \subseteq Write, committed' \subseteq Write
  PROVE  Returned(t, ok) \in ThreadState
<1> DEFINE job  == th[t].job
           next == Follow(job, ok)
           made == IF job = "body" /\ ok
                     THEN {w \in txWrites' \cup committed' : w.no > written} ELSE {}
           verdict == IF next = job \/ next = "body" THEN th[t].verdict
                      ELSE IF job = "commit" THEN "committed" ELSE "failed"
<1>1. th[t] \in ThreadState
  BY DEF TypeOK
<1>2. job \in Job /\ next \in Job
  BY <1>1, FollowType DEF ThreadState, Job
<1>3. made \subseteq Write
  OBVIOUS
<1>4. verdict \in Verdict
  BY <1>1 DEF ThreadState, Verdict
<1>5. CASE next = "guard"
  BY <1>5, AskingType DEF Returned, Job
<1>6. CASE next # "guard"
  <2>1. Returned(t, ok) = [phase |-> "idle", late |-> FALSE, job |-> next,
                           mine |-> th[t].mine \cup made, verdict |-> verdict]
    BY <1>6 DEF Returned
  <2>2. th[t].mine \cup made \in SUBSET Write
    BY <1>1, <1>3 DEF ThreadState
  <2> HIDE DEF job, next, made, verdict
  <2>3. QED
    BY <1>2, <1>4, <2>1, <2>2 DEF ThreadState, Job, Verdict
<1>7. QED
  BY <1>5, <1>6

\* A statement keeps the types of the connection.
LEMMA OperationType ==
  ASSUME TypeOK, NEW s \in Sess, NEW op, NEW ok \in BOOLEAN, Operation(op, s, ok)
  PROVE  ConnectionTyped'
<1>1. ConnectionTyped
  BY DEF TypeOK, ConnectionTyped
<1>2. lastRead' \in [by : 0 .. MaxSessions, saw : SUBSET Write]
  BY <1>1 DEF Operation, ConnectionTyped, NoRead, Visible, Sess
<1>3. CASE Begin(ok)
  BY <1>1, <1>2, <1>3 DEF Begin, ConnectionTyped
<1>4. CASE WriteRow(s, ok)
  <2> DEFINE w == [by |-> s, no |-> written + 1]
  <2>1. CASE ok /\ written < MaxWrites /\ written' = written + 1
    <3>1. written' \in 0 .. MaxWrites /\ w \in Write
      BY <1>1, <2>1 DEF ConnectionTyped, Write
    <3> HIDE DEF w
    <3>2. /\ txWrites' \in {txWrites, txWrites \cup {w}}
          /\ committed' \in {committed, committed \cup {w}}
          /\ UNCHANGED <<inTx, stale, ioFailed>>
      BY <1>4, <2>1 DEF WriteRow, w
    <3>3. QED
      BY <1>1, <1>2, <3>1, <3>2 DEF ConnectionTyped
  <2>2. CASE UNCHANGED <<inTx, stale, written, txWrites, committed>>
    <3>1. ioFailed' \in {TRUE, FALSE, ioFailed}
      BY <1>4, <2>2 DEF WriteRow
    <3>2. QED
      BY <1>1, <1>2, <2>2, <3>1 DEF ConnectionTyped
  <2>3. QED
    BY <1>4, <2>1, <2>2 DEF WriteRow
<1>5. CASE ReadRows(ok)
  BY <1>1, <1>2, <1>5 DEF ReadRows, ConnectionTyped
<1>6. CASE CommitTx(ok)
  BY <1>1, <1>2, <1>6 DEF CommitTx, ConnectionTyped
<1>7. CASE RollbackTx(ok)
  BY <1>1, <1>2, <1>7 DEF RollbackTx, ConnectionTyped
<1>8. QED
  BY <1>3, <1>4, <1>5, <1>6, <1>7 DEF Operation

\* Notification changes only the phase of those who sleep.
LEMMA WokenType ==
  ASSUME NEW f \in [Thread -> ThreadState]
  PROVE  /\ Woken(f) \in [Thread -> ThreadState]
         /\ \A t \in Thread : Busy(Woken(f)[t]) <=> Busy(f[t])
<1>1. ASSUME NEW t \in Thread
      PROVE  /\ Woken(f)[t] \in ThreadState
             /\ Busy(Woken(f)[t]) <=> Busy(f[t])
  BY DEF Woken, ThreadState, Busy
<1>2. QED
  BY <1>1 DEF Woken

\* A rollback keeps the types of the connection.
LEMMA RollbackType ==
  ASSUME TypeOK, NEW ok \in BOOLEAN, RollbackTx(ok), UNCHANGED lastRead
  PROVE  ConnectionTyped'
<1>1. ConnectionTyped
  BY DEF TypeOK, ConnectionTyped
<1>2. QED
  BY <1>1 DEF RollbackTx, ConnectionTyped

-----------------------------------------------------------------------------
(* The inductive invariant.                                                *)

SharedTyped ==
  /\ owner \in 0 .. MaxSessions /\ nextId \in 1 .. MaxSessions + 1
  /\ poisoned \in BOOLEAN /\ dbOpen \in BOOLEAN
  /\ closed \in [Sess -> BOOLEAN] /\ patient \in [Sess -> BOOLEAN]

ThreadsTyped ==
  /\ handle \in [Thread -> 0 .. MaxSessions]
  /\ th \in [Thread -> ThreadState]

\* The types, in three parts.
LEMMA TypeParts == TypeOK <=> SharedTyped /\ ConnectionTyped /\ ThreadsTyped
BY DEF TypeOK, SharedTyped, ConnectionTyped, ThreadsTyped

\* A thread in the middle of a call, or of a transaction closure, holds a session.
CallsHaveSessions == \A t \in Thread : Busy(th[t]) => handle[t] # 0

\* The owner can still end its transaction, and be served.
OwnerLives == owner # 0 => ~ closed[owner] /\ Users(owner) # {}

\* A transaction has an owner, which made its writes.
TransactionOwned ==
  /\ inTx => owner # 0
  /\ \A w \in txWrites : inTx /\ w.by = owner

IInv == TypeOK /\ CallsHaveSessions /\ OwnerLives /\ TransactionOwned

\* A handle that is not released refers to a session.
LEMMA HandleType ==
  ASSUME TypeOK, NEW t \in Thread, handle[t] # 0
  PROVE  handle[t] \in Sess
BY DEF TypeOK, Sess

\* What the steps of one thread that serve no request have in common: th
\* changes for that thread only, or threads that were asleep are woken.
LEMMA ThreadStep ==
  ASSUME IInv, NEW t \in Thread, NEW r \in ThreadState,
         Busy(r) => handle[t] # 0,
         th' = [th EXCEPT ![t] = r], UNCHANGED <<shared, connection, handle>>
  PROVE  IInv'
<1>1. TypeOK /\ CallsHaveSessions /\ OwnerLives /\ TransactionOwned
  BY DEF IInv
<1>2. UNCHANGED <<owner, nextId, poisoned, dbOpen, closed, patient, inTx, txWrites,
                  committed, ioFailed, stale, written, lastRead, handle>>
  BY DEF shared, connection
<1>3. th \in [Thread -> ThreadState]
  BY <1>1 DEF TypeOK
<1>4. th' \in [Thread -> ThreadState]
  BY <1>3
<1>5. TypeOK'
  BY <1>1, <1>2, <1>4 DEF TypeOK
<1>6. CallsHaveSessions'
  BY <1>1, <1>2, <1>3 DEF CallsHaveSessions
<1>7. OwnerLives' /\ TransactionOwned'
  BY <1>1, <1>2 DEF OwnerLives, TransactionOwned, Users
<1>8. QED
  BY <1>5, <1>6, <1>7 DEF IInv

-----------------------------------------------------------------------------
(* Initially, and one lemma for each action.                               *)

\* The invariant holds at first.
LEMMA InitInv == Init => IInv
<1> SUFFICES ASSUME Init PROVE IInv
  OBVIOUS
<1>1. Resting \in ThreadState
  BY DEF Resting, ThreadState
<1>2. SharedTyped
  <2>1. owner \in 0 .. MaxSessions /\ nextId \in 1 .. MaxSessions + 1
    BY DEF Init
  <2>2. poisoned \in BOOLEAN /\ dbOpen \in BOOLEAN
    BY DEF Init
  <2>3. closed \in [Sess -> BOOLEAN] /\ patient \in [Sess -> BOOLEAN]
    BY DEF Init
  <2>4. QED
    BY <2>1, <2>2, <2>3 DEF SharedTyped
<1>3. ConnectionTyped
  <2>1. inTx \in BOOLEAN /\ ioFailed \in BOOLEAN
    BY DEF Init
  <2>2. txWrites \subseteq Write /\ committed \subseteq Write /\ stale \subseteq Write
    BY DEF Init
  <2>3. written \in 0 .. MaxWrites
    BY DEF Init
  <2>4. lastRead \in [by : 0 .. MaxSessions, saw : SUBSET Write]
    BY DEF Init, NoRead
  <2>5. QED
    BY <2>1, <2>2, <2>3, <2>4 DEF ConnectionTyped
<1>4. ThreadsTyped
  BY <1>1 DEF Init, ThreadsTyped
<1>5. CallsHaveSessions /\ OwnerLives /\ TransactionOwned
  BY DEF Init, CallsHaveSessions, Busy, OwnerLives, TransactionOwned, Resting
<1>6. QED
  BY <1>2, <1>3, <1>4, <1>5, TypeParts DEF IInv

\* Beginning a call keeps the invariant.
LEMMA CallInv ==
  ASSUME IInv, NEW t \in Thread, Call(t) PROVE IInv'
<1>1. TypeOK /\ handle[t] \in Sess /\ th[t].job \in Job
  BY HandleType DEF IInv, Call, TypeOK, ThreadState, Job
<1>2. Asking(t, th[t].job) \in ThreadState
  BY <1>1, AskingType
<1>3. QED
  BY <1>2, ThreadStep DEF Call

\* Beginning a transaction closure keeps it.
LEMMA TransactionInv ==
  ASSUME IInv, NEW t \in Thread, Transaction(t) PROVE IInv'
<1> DEFINE r == [Asking(t, "begin") EXCEPT !.mine = {}, !.verdict = "none"]
<1>1. TypeOK /\ handle[t] \in Sess /\ "begin" \in Job
  BY HandleType DEF IInv, Transaction, Job
<1>2. Asking(t, "begin") \in ThreadState
  BY <1>1, AskingType
<1>3. r \in ThreadState
  BY <1>2 DEF ThreadState
<1> HIDE DEF r
<1>4. QED
  BY <1>3, ThreadStep DEF Transaction, r

\* The return of its callback keeps it.
LEMMA CallbackEndsInv ==
  ASSUME IInv, NEW t \in Thread, CallbackEnds(t) PROVE IInv'
<1>1. PICK job \in {"commit", "undo", "guard"} : th' = [th EXCEPT ![t] = Asking(t, job)]
  BY DEF CallbackEnds
<1>2. TypeOK /\ handle[t] # 0 /\ handle[t] \in Sess /\ job \in Job
  BY HandleType DEF IInv, CallsHaveSessions, Busy, CallbackEnds, Job
<1>3. Asking(t, job) \in ThreadState
  BY <1>2, AskingType
<1>4. QED
  BY <1>1, <1>2, <1>3, ThreadStep DEF CallbackEnds

\* A call that is refused keeps the invariant.
LEMMA RefuseInv ==
  ASSUME IInv, NEW t \in Thread, th[t].phase = "ready", Refuse(t) PROVE IInv'
<1>1. TypeOK /\ handle[t] # 0 /\ handle[t] \in Sess
  BY HandleType DEF IInv, CallsHaveSessions, Busy
<1>2. txWrites' \subseteq Write /\ committed' \subseteq Write
  BY <1>1 DEF Refuse, connection, TypeOK
<1>3. Returned(t, FALSE) \in ThreadState
  BY <1>1, <1>2, ReturnedType
<1>4. QED
  BY <1>1, <1>3, ThreadStep DEF Refuse

\* One that goes to sleep keeps it.
LEMMA SleepInv ==
  ASSUME IInv, NEW t \in Thread, th[t].phase = "ready", Sleep(t) PROVE IInv'
<1> DEFINE r == [th[t] EXCEPT !.phase = "asleep"]
<1>1. TypeOK /\ handle[t] # 0
  BY DEF IInv, CallsHaveSessions, Busy
<1>2. r \in ThreadState /\ th' = [th EXCEPT ![t] = r]
  BY <1>1 DEF TypeOK, ThreadState, Sleep
<1> HIDE DEF r
<1>3. QED
  BY <1>1, <1>2, ThreadStep DEF Sleep

\* One whose timeout elapses keeps it.
LEMMA ElapseInv ==
  ASSUME IInv, NEW t \in Thread, Elapse(t) PROVE IInv'
<1> DEFINE r == [th[t] EXCEPT !.phase = "ready", !.late = TRUE]
<1>1. TypeOK /\ handle[t] # 0
  BY DEF IInv, CallsHaveSessions, Busy, Elapse, Idle
<1>2. r \in ThreadState /\ th' = [th EXCEPT ![t] = r]
  BY <1>1 DEF TypeOK, ThreadState, Elapse
<1> HIDE DEF r
<1>3. QED
  BY <1>1, <1>2, ThreadStep DEF Elapse

\* What an operation of session s does to a transaction that is nobody else's.
LEMMA OperationOwned ==
  ASSUME IInv, NEW s \in Sess, NEW op, NEW ok \in BOOLEAN, Operation(op, s, ok),
         owner \in {0, s}
  PROVE  \A w \in txWrites' : inTx' /\ w.by = s
<1>1. inTx \in BOOLEAN /\ \A w \in txWrites : inTx /\ w.by = s
  <2>1. \A w \in txWrites : inTx /\ w.by = owner /\ owner # 0
    BY DEF IInv, TransactionOwned
  <2>2. QED
    BY <2>1 DEF IInv, TypeOK
<1>2. CASE Begin(ok)
  BY <1>1, <1>2 DEF Begin
<1>3. CASE WriteRow(s, ok)
  BY <1>1, <1>3 DEF WriteRow
<1>4. CASE ReadRows(ok)
  BY <1>1, <1>4 DEF ReadRows
<1>5. CASE CommitTx(ok)
  BY <1>1, <1>5 DEF CommitTx
<1>6. CASE RollbackTx(ok)
  BY <1>6 DEF RollbackTx
<1>7. QED
  BY <1>2, <1>3, <1>4, <1>5, <1>6 DEF Operation

\* A call that is served keeps the invariant: whoever opens a transaction owns it.
LEMMA ServeInv ==
  ASSUME IInv, NEW t \in Thread, th[t].phase = "ready", Serve(t) PROVE IInv'
<1> DEFINE s == handle[t]
<1>1. TypeOK /\ s # 0 /\ s \in Sess /\ ~ closed[s] /\ owner \in {0, s}
  BY HandleType DEF IInv, CallsHaveSessions, Busy, Serve, Refused, Mine
<1>2. PICK op \in Requests(th[t].job), ok \in BOOLEAN :
        /\ Operation(op, s, ok)
        /\ owner' = IF inTx' THEN s ELSE 0
        /\ LET f == [th EXCEPT ![t] = Returned(t, ok)]
           IN  th' = IF owner' = 0 THEN Woken(f) ELSE f
  BY DEF Serve
<1> DEFINE f == [th EXCEPT ![t] = Returned(t, ok)]
<1>3. UNCHANGED <<nextId, poisoned, dbOpen, closed, patient, handle>>
  BY DEF Serve
<1> HIDE DEF s
<1>4. ConnectionTyped'
  BY <1>1, <1>2, OperationType
<1>5. Returned(t, ok) \in ThreadState
  BY <1>1, <1>4, ReturnedType DEF ConnectionTyped, s
<1>6. f \in [Thread -> ThreadState] /\ th' \in {f, Woken(f)}
  BY <1>1, <1>2, <1>5 DEF TypeOK
<1>7. /\ th' \in [Thread -> ThreadState]
      /\ \A u \in Thread : Busy(th'[u]) <=> Busy(f[u])
  BY <1>6, WokenType
<1>8. TypeOK'
  <2>1. owner' \in 0 .. MaxSessions
    BY <1>1, <1>2 DEF Sess
  <2>2. SharedTyped'
    BY <1>1, <1>3, <2>1, TypeParts DEF SharedTyped
  <2>3. ThreadsTyped'
    BY <1>1, <1>3, <1>7, TypeParts DEF ThreadsTyped
  <2>4. QED
    BY <1>4, <2>2, <2>3 DEF TypeOK, SharedTyped, ConnectionTyped, ThreadsTyped
<1>9. CallsHaveSessions'
  <2>1. ASSUME NEW u \in Thread, Busy(th'[u]) PROVE handle'[u] # 0
    <3>1. CASE u = t
      BY <1>1, <1>3, <3>1 DEF s
    <3>2. CASE u # t
      <4>1. Busy(th[u])
        BY <1>1, <1>7, <2>1, <3>2 DEF TypeOK
      <4>2. QED
        BY <1>3, <4>1 DEF IInv, CallsHaveSessions
    <3>3. QED
      BY <3>1, <3>2
  <2>2. QED
    BY <2>1 DEF CallsHaveSessions
<1>10. OwnerLives'
  <2>1. handle'[t] = s
    BY <1>3 DEF s
  <2>2. owner' \in {0, s} /\ ~ closed'[s]
    BY <1>1, <1>2, <1>3
  <2>3. QED
    BY <2>1, <2>2 DEF OwnerLives, Users
<1>11. TransactionOwned'
  <2>1. \A w \in txWrites' : inTx' /\ w.by = s
    BY <1>1, <1>2, OperationOwned
  <2>2. QED
    BY <1>1, <1>2, <2>1 DEF TransactionOwned
<1>12. QED
  BY <1>8, <1>9, <1>10, <1>11 DEF IInv

-----------------------------------------------------------------------------
(* Handles.                                                                *)

\* A new session has a number that nobody has.
LEMMA NewSessionInv ==
  ASSUME IInv, NEW t \in Thread, NewSession(t) PROVE IInv'
<1>1. TypeOK /\ nextId \in Sess /\ handle[t] = 0
  BY DEF IInv, NewSession
<1>2. UNCHANGED <<owner, poisoned, dbOpen, closed, connection, th>>
  BY DEF NewSession
<1>3. /\ handle' = [handle EXCEPT ![t] = nextId]
      /\ nextId' = nextId + 1
      /\ \E wait \in BOOLEAN : patient' = [patient EXCEPT ![nextId] = wait]
  BY DEF NewSession
<1>4. TypeOK'
  <2>1. nextId' \in 1 .. MaxSessions + 1
    BY <1>1, <1>3 DEF Sess
  <2>2. patient' \in [Sess -> BOOLEAN]
    BY <1>1, <1>3 DEF TypeOK
  <2>3. handle' \in [Thread -> 0 .. MaxSessions]
    BY <1>1, <1>3 DEF TypeOK, Sess
  <2>4. QED
    BY <1>1, <1>2, <2>1, <2>2, <2>3 DEF TypeOK, connection
<1>5. CallsHaveSessions'
  BY <1>1, <1>2, <1>3 DEF IInv, CallsHaveSessions, TypeOK, Sess
<1>6. OwnerLives'
  BY <1>1, <1>2, <1>3 DEF IInv, OwnerLives, Users, TypeOK
<1>7. TransactionOwned'
  BY <1>2 DEF IInv, TransactionOwned, connection
<1>8. QED
  BY <1>4, <1>5, <1>6, <1>7 DEF IInv

\* A clone refers to the same session.
LEMMA CloneInv ==
  ASSUME IInv, NEW t \in Thread, Clone(t) PROVE IInv'
<1>1. TypeOK /\ handle[t] = 0
  BY DEF IInv, Clone
<1>2. UNCHANGED <<owner, nextId, poisoned, dbOpen, closed, patient, connection, th>>
  BY DEF Clone, shared
<1>3. PICK u \in Thread : handle[u] # 0 /\ handle' = [handle EXCEPT ![t] = handle[u]]
  BY DEF Clone
<1>4. handle' \in [Thread -> 0 .. MaxSessions]
  BY <1>1, <1>3 DEF TypeOK
<1>5. TypeOK'
  BY <1>1, <1>2, <1>4 DEF TypeOK, connection
<1>6. CallsHaveSessions'
  BY <1>1, <1>2, <1>3 DEF IInv, CallsHaveSessions, TypeOK
<1>7. OwnerLives'
  BY <1>1, <1>2, <1>3 DEF IInv, OwnerLives, Users, TypeOK
<1>8. TransactionOwned'
  BY <1>2 DEF IInv, TransactionOwned, connection
<1>9. QED
  BY <1>5, <1>6, <1>7, <1>8 DEF IInv

\* After a rollback no transaction is left to be owned.
LEMMA RollbackOwned ==
  ASSUME NEW ok \in BOOLEAN, RollbackTx(ok)
  PROVE  TransactionOwned'
BY DEF RollbackTx, TransactionOwned

\* Closing a session rolls back the transaction it owns.
LEMMA CloseInv ==
  ASSUME IInv, NEW t \in Thread, Close(t) PROVE IInv'
<1> DEFINE s == handle[t]
<1>1. TypeOK /\ s # 0 /\ s \in Sess
  BY HandleType DEF IInv, Close
<1>2. UNCHANGED <<nextId, poisoned, dbOpen, patient, handle>>
  BY DEF Close
<1>3. \/ /\ owner # s
         /\ closed' = [closed EXCEPT ![s] = TRUE]
         /\ UNCHANGED <<owner, th, connection>>
      \/ /\ owner = s /\ RollbackTx(TRUE)
         /\ closed' = [closed EXCEPT ![s] = TRUE] /\ UNCHANGED lastRead
         /\ owner' = 0 /\ th' = Woken(th)
      \/ /\ owner = s /\ RollbackTx(FALSE)
         /\ UNCHANGED <<lastRead, closed, owner, th>>
  BY DEF Close
<1> HIDE DEF s
<1>4. closed' \in [Sess -> BOOLEAN] /\ owner' \in 0 .. MaxSessions
  <2>1. closed' \in {closed, [closed EXCEPT ![s] = TRUE]} /\ owner' \in {0, owner}
    BY <1>3
  <2>2. closed \in [Sess -> BOOLEAN] /\ owner \in 0 .. MaxSessions
    BY <1>1 DEF TypeOK
  <2>3. closed' \in [Sess -> BOOLEAN]
    BY <1>1, <2>1, <2>2
  <2>4. owner' \in 0 .. MaxSessions
    BY <2>1, <2>2
  <2>5. QED
    BY <2>3, <2>4
<1>5. ConnectionTyped'
  <2>1. CASE UNCHANGED connection
    BY <1>1, <2>1 DEF TypeOK, ConnectionTyped, connection
  <2>2. CASE \E ok \in BOOLEAN : RollbackTx(ok) /\ UNCHANGED lastRead
    BY <1>1, <2>2, RollbackType
  <2>3. QED
    BY <1>3, <2>1, <2>2
<1>6. /\ th' \in [Thread -> ThreadState]
      /\ \A u \in Thread : Busy(th'[u]) <=> Busy(th[u])
  BY <1>1, <1>3, WokenType DEF TypeOK
<1>7. TypeOK'
  BY <1>1, <1>2, <1>4, <1>5, <1>6 DEF TypeOK, ConnectionTyped
<1>8. CallsHaveSessions'
  BY <1>2, <1>6 DEF IInv, CallsHaveSessions
<1>9. OwnerLives'
  <2>1. CASE owner' = 0
    BY <2>1 DEF OwnerLives
  <2>2. CASE owner' # 0
    <3>1. owner' = owner /\ closed'[owner] = closed[owner]
      <4>1. CASE owner # s
        <5>1. owner' = owner /\ closed' = [closed EXCEPT ![s] = TRUE]
          BY <1>3, <4>1
        <5>2. owner \in Sess
          BY <1>1, <2>2, <5>1 DEF TypeOK, Sess
        <5>3. QED
          BY <1>1, <4>1, <5>1, <5>2 DEF TypeOK
      <4>2. CASE owner = s
        BY <1>3, <2>2, <4>2
      <4>3. QED
        BY <4>1, <4>2
    <3>2. ~ closed[owner] /\ Users(owner) # {}
      BY <2>2, <3>1 DEF IInv, OwnerLives
    <3>3. QED
      BY <1>2, <3>1, <3>2 DEF OwnerLives, Users
  <2>3. QED
    BY <2>1, <2>2
<1>10. TransactionOwned'
  <2>1. CASE UNCHANGED <<owner, connection>>
    BY <2>1 DEF IInv, TransactionOwned, connection
  <2>2. CASE \E ok \in BOOLEAN : RollbackTx(ok)
    BY <2>2, RollbackOwned
  <2>3. QED
    BY <1>3, <2>1, <2>2
<1>11. QED
  BY <1>7, <1>8, <1>9, <1>10 DEF IInv

\* Dropping the last handle of a session does as well.
LEMMA DropInv ==
  ASSUME IInv, NEW t \in Thread, Drop(t) PROVE IInv'
<1> DEFINE s == handle[t]
<1>1. TypeOK /\ s # 0 /\ s \in Sess /\ ~ Busy(th[t])
  BY HandleType DEF IInv, Drop, Idle, Busy
<1>2. /\ UNCHANGED <<nextId, dbOpen, closed, patient>>
      /\ handle' = [handle EXCEPT ![t] = 0]
  BY DEF Drop
<1>3. \/ /\ Users(s) = {t} /\ owner = s
         /\ \E ok \in BOOLEAN : RollbackTx(ok) /\ poisoned' = (poisoned \/ ~ ok)
         /\ owner' = 0 /\ th' = Woken(th) /\ UNCHANGED lastRead
      \/ /\ ~ (Users(s) = {t} /\ owner = s)
         /\ UNCHANGED <<connection, poisoned, owner, th>>
  BY DEF Drop
<1> HIDE DEF s
<1>4. poisoned' \in BOOLEAN /\ owner' \in 0 .. MaxSessions
  <2>1. poisoned \in BOOLEAN /\ owner \in 0 .. MaxSessions
    BY <1>1 DEF TypeOK
  <2>2. owner' \in {0, owner}
    BY <1>3
  <2>3. poisoned' \in BOOLEAN
    BY <1>3, <2>1
  <2>4. owner' \in 0 .. MaxSessions
    BY <2>1, <2>2
  <2>5. QED
    BY <2>3, <2>4
<1>5. ConnectionTyped'
  <2>1. CASE UNCHANGED connection
    BY <1>1, <2>1 DEF TypeOK, ConnectionTyped, connection
  <2>2. CASE \E ok \in BOOLEAN : RollbackTx(ok) /\ UNCHANGED lastRead
    BY <1>1, <2>2, RollbackType
  <2>3. QED
    BY <1>3, <2>1, <2>2
<1>6. /\ th' \in [Thread -> ThreadState]
      /\ \A u \in Thread : Busy(th'[u]) <=> Busy(th[u])
  BY <1>1, <1>3, WokenType DEF TypeOK
<1>7. handle' \in [Thread -> 0 .. MaxSessions]
  BY <1>1, <1>2 DEF TypeOK
<1>8. TypeOK'
  BY <1>1, <1>2, <1>4, <1>5, <1>6, <1>7 DEF TypeOK, ConnectionTyped
<1>9. CallsHaveSessions'
  BY <1>1, <1>2, <1>6 DEF IInv, CallsHaveSessions, TypeOK
<1>10. OwnerLives'
  <2>1. CASE owner' = 0
    BY <2>1 DEF OwnerLives
  <2>2. CASE owner' # 0
    <3>1. owner' = owner /\ ~ (Users(s) = {t} /\ owner = s)
      BY <1>3, <2>2
    <3>2. ~ closed[owner] /\ Users(owner) # {}
      BY <2>2, <3>1 DEF IInv, OwnerLives
    <3>3. PICK u \in Thread : u # t /\ handle[u] = owner
      BY <3>1, <3>2 DEF Users, s
    <3>4. handle'[u] = owner
      BY <1>1, <1>2, <3>3 DEF TypeOK
    <3>5. QED
      BY <1>2, <3>1, <3>2, <3>4 DEF OwnerLives, Users
  <2>3. QED
    BY <2>1, <2>2
<1>11. TransactionOwned'
  <2>1. CASE UNCHANGED <<owner, connection>>
    BY <2>1 DEF IInv, TransactionOwned, connection
  <2>2. CASE \E ok \in BOOLEAN : RollbackTx(ok)
    BY <2>2, RollbackOwned
  <2>3. QED
    BY <1>3, <2>1, <2>2
<1>12. QED
  BY <1>8, <1>9, <1>10, <1>11 DEF IInv

\* Closing the database keeps the invariant.
LEMMA CloseDatabaseInv ==
  ASSUME IInv, CloseDatabase PROVE IInv'
<1>1. TypeOK /\ owner = 0
  BY DEF IInv, CloseDatabase
<1>2. /\ UNCHANGED <<owner, nextId, poisoned, closed, patient, handle>>
      /\ dbOpen' = FALSE /\ th' = Woken(th)
      /\ (RollbackTx(TRUE) /\ UNCHANGED lastRead) \/ UNCHANGED connection
  BY DEF CloseDatabase
<1>3. ConnectionTyped'
  <2>1. CASE UNCHANGED connection
    BY <1>1, <2>1 DEF TypeOK, ConnectionTyped, connection
  <2>2. CASE RollbackTx(TRUE) /\ UNCHANGED lastRead
    BY <1>1, <2>2, RollbackType
  <2>3. QED
    BY <1>2, <2>1, <2>2
<1>4. /\ th' \in [Thread -> ThreadState]
      /\ \A u \in Thread : Busy(th'[u]) <=> Busy(th[u])
  BY <1>1, <1>2, WokenType DEF TypeOK
<1>5. TypeOK'
  BY <1>1, <1>2, <1>3, <1>4 DEF TypeOK, ConnectionTyped
<1>6. CallsHaveSessions'
  BY <1>2, <1>4 DEF IInv, CallsHaveSessions
<1>7. OwnerLives'
  BY <1>1, <1>2 DEF OwnerLives
<1>8. TransactionOwned'
  <2>1. CASE UNCHANGED connection
    BY <1>2, <2>1 DEF IInv, TransactionOwned, connection
  <2>2. CASE RollbackTx(TRUE)
    BY <2>2, RollbackOwned
  <2>3. QED
    BY <1>2, <2>1, <2>2
<1>9. QED
  BY <1>5, <1>6, <1>7, <1>8 DEF IInv

-----------------------------------------------------------------------------
(* The theorems.                                                           *)

\* Every step keeps the invariant.
LEMMA NextInv ==
  ASSUME IInv, [Next]_vars PROVE IInv'
<1>1. CASE CloseDatabase
  BY <1>1, CloseDatabaseInv
<1>2. ASSUME NEW t \in Thread, Step(t) PROVE IInv'
  <2>1. CASE Access(t)
    BY <2>1, RefuseInv, SleepInv, ServeInv DEF Access
  <2>2. QED
    BY <1>2, <2>1, NewSessionInv, CloneInv, CallInv, TransactionInv, CallbackEndsInv,
       ElapseInv, CloseInv, DropInv DEF Step
<1>3. CASE UNCHANGED vars
  BY <1>3 DEF vars, shared, connection, IInv, TypeOK, CallsHaveSessions, OwnerLives,
              TransactionOwned, Users
<1>4. QED
  BY <1>1, <1>2, <1>3 DEF Next

\* The invariant always holds.
LEMMA Invariant == Spec => []IInv
<1>1. QED
  BY InitInv, NextInv, PTL DEF Spec

\* Sessions, threads and the connection are well typed in every reachable state.
THEOREM TypeCorrect == Spec => []TypeOK
<1>1. IInv => TypeOK
  BY DEF IInv
<1>2. QED
  BY <1>1, Invariant, PTL

\* An open transaction always has an owner that is not closed, that some thread
\* still holds, and that made all of its writes.
THEOREM OwnerCorrect == Spec => []TransactionHasOwner
<1>1. IInv => TransactionHasOwner
  BY DEF IInv, TypeOK, OwnerLives, TransactionOwned, TransactionHasOwner
<1>2. QED
  BY <1>1, Invariant, PTL

-----------------------------------------------------------------------------
(* No lost wakeup.                                                         *)

\* After a notification nobody sleeps.
LEMMA NobodySleeps ==
  ASSUME NEW f \in [Thread -> ThreadState], th' = Woken(f)
  PROVE  NoLostWakeup'
<1>1. \A t \in Thread : th'[t].phase # "asleep"
  BY DEF Woken, ThreadState
<1>2. QED
  BY <1>1 DEF NoLostWakeup

\* A step that leaves alone what sleepers wait for, and puts nobody to sleep.
LEMMA SleepersWait ==
  ASSUME IInv, NoLostWakeup, UNCHANGED <<owner, poisoned, dbOpen>>,
         \A u \in Thread : th'[u].phase = "asleep" =>
                             th[u].phase = "asleep" /\ handle'[u] = handle[u]
  PROVE  NoLostWakeup'
BY DEF NoLostWakeup, Mine

\* The thread of a step does not sleep after it.
LEMMA ActorAwake ==
  ASSUME IInv, NoLostWakeup, NEW t \in Thread, NEW r \in ThreadState, r.phase # "asleep",
         th' = [th EXCEPT ![t] = r], UNCHANGED <<owner, poisoned, dbOpen, handle>>
  PROVE  NoLostWakeup'
<1>1. th \in [Thread -> ThreadState]
  BY DEF IInv, TypeOK
<1>2. \A u \in Thread : th'[u].phase = "asleep" => th[u].phase = "asleep"
  BY <1>1
<1>3. QED
  BY <1>2, SleepersWait

\* A thread that returns does not sleep.
LEMMA AwakeType ==
  ASSUME TypeOK, NEW t \in Thread, NEW ok \in BOOLEAN, handle[t] \in Sess
  PROVE  Returned(t, ok).phase # "asleep"
<1>1. CASE Follow(th[t].job, ok) = "guard"
  <2>1. "guard" \in Job
    BY DEF Job
  <2>2. Asking(t, "guard").phase = "ready"
    BY <2>1, AskingType
  <2>3. QED
    BY <1>1, <2>2 DEF Returned
<1>2. CASE Follow(th[t].job, ok) # "guard"
  BY <1>2 DEF Returned
<1>3. QED
  BY <1>1, <1>2

\* A call that ends the transaction notifies; one that opens it leaves the sleepers waiting for it.
LEMMA ServeWakes ==
  ASSUME IInv, NoLostWakeup, NEW t \in Thread, th[t].phase = "ready", Serve(t)
  PROVE  NoLostWakeup'
<1> DEFINE s == handle[t]
<1>1. TypeOK /\ s \in Sess /\ owner \in {0, s}
  BY HandleType DEF IInv, CallsHaveSessions, Busy, Serve, Mine
<1>2. PICK op \in Requests(th[t].job), ok \in BOOLEAN :
        /\ Operation(op, s, ok)
        /\ owner' = IF inTx' THEN s ELSE 0
        /\ LET f == [th EXCEPT ![t] = Returned(t, ok)]
           IN  th' = IF owner' = 0 THEN Woken(f) ELSE f
  BY DEF Serve
<1>3. UNCHANGED <<poisoned, dbOpen, handle>>
  BY DEF Serve
<1> DEFINE f == [th EXCEPT ![t] = Returned(t, ok)]
<1>4. ConnectionTyped'
  BY <1>1, <1>2, OperationType
<1>5. Returned(t, ok) \in ThreadState /\ Returned(t, ok).phase # "asleep"
  BY <1>1, <1>4, ReturnedType, AwakeType DEF ConnectionTyped
<1>6. f \in [Thread -> ThreadState]
  BY <1>1, <1>5 DEF TypeOK
<1>7. CASE owner' = 0
  <2>1. th' = Woken(f)
    BY <1>2, <1>7
  <2> HIDE DEF f
  <2>2. QED
    BY <1>6, <2>1, NobodySleeps
<1>8. CASE owner' # 0 /\ owner = s
  <2>1. owner' = owner /\ th' = f
    BY <1>2, <1>8
  <2>2. QED
    BY <1>3, <1>5, <2>1, ActorAwake
<1>9. CASE owner' # 0 /\ owner = 0
  <2>1. \A u \in Thread : th[u].phase # "asleep"
    BY <1>9 DEF NoLostWakeup, Mine
  <2>2. \A u \in Thread : th'[u].phase # "asleep"
    BY <1>1, <1>2, <1>5, <1>9, <2>1 DEF TypeOK
  <2>3. QED
    BY <2>2 DEF NoLostWakeup
<1>10. QED
  BY <1>1, <1>7, <1>8, <1>9

\* No step loses a wakeup.
LEMMA WakeupNext ==
  ASSUME IInv, NoLostWakeup, [Next]_vars PROVE NoLostWakeup'
<1> USE DEF IInv
<1>1. th \in [Thread -> ThreadState]
  BY DEF TypeOK
<1>2. CASE CloseDatabase
  BY <1>1, <1>2, NobodySleeps DEF CloseDatabase
<1>3. CASE UNCHANGED vars
  BY <1>3, SleepersWait DEF vars, shared
<1>4. ASSUME NEW t \in Thread, Step(t) PROVE NoLostWakeup'
  <2>1. CASE NewSession(t)
    <3>1. handle[t] = 0 /\ UNCHANGED <<owner, poisoned, dbOpen, th>>
      BY <2>1 DEF NewSession
    <3>2. handle' = [handle EXCEPT ![t] = nextId]
      BY <2>1 DEF NewSession
    <3>3. th[t].phase # "asleep"
      BY <3>1 DEF CallsHaveSessions, Busy
    <3>4. QED
      BY <3>1, <3>2, <3>3, SleepersWait DEF TypeOK
  <2>2. CASE Clone(t)
    <3>1. handle[t] = 0 /\ UNCHANGED <<owner, poisoned, dbOpen, th>>
      BY <2>2 DEF Clone, shared
    <3>2. PICK u \in Thread : handle' = [handle EXCEPT ![t] = handle[u]]
      BY <2>2 DEF Clone
    <3>3. th[t].phase # "asleep"
      BY <3>1 DEF CallsHaveSessions, Busy
    <3>4. QED
      BY <3>1, <3>2, <3>3, SleepersWait DEF TypeOK
  <2>3. CASE Call(t)
    <3>1. handle[t] \in Sess /\ th[t].job \in Job
      BY <2>3, HandleType DEF Call, TypeOK, ThreadState, Job
    <3>2. QED
      BY <2>3, <3>1, AskingType, ActorAwake DEF Call, shared
  <2>4. CASE Transaction(t)
    <3>1. handle[t] \in Sess /\ "begin" \in Job
      BY <2>4, HandleType DEF Transaction, Job
    <3> DEFINE a == Asking(t, "begin")
               r == [a EXCEPT !.mine = {}, !.verdict = "none"]
    <3>2. a \in ThreadState /\ a.phase = "ready"
      BY <3>1, AskingType
    <3>3. th' = [th EXCEPT ![t] = r] /\ UNCHANGED <<owner, poisoned, dbOpen, handle>>
      BY <2>4 DEF Transaction, shared
    <3> HIDE DEF a
    <3>4. r \in ThreadState /\ r.phase # "asleep"
      BY <3>2 DEF ThreadState
    <3> HIDE DEF r
    <3>5. QED
      BY <3>3, <3>4, ActorAwake
  <2>5. CASE CallbackEnds(t)
    <3>1. PICK job \in {"commit", "undo", "guard"} : th' = [th EXCEPT ![t] = Asking(t, job)]
      BY <2>5 DEF CallbackEnds
    <3>2. handle[t] \in Sess /\ job \in Job
      BY <2>5, HandleType DEF CallbackEnds, CallsHaveSessions, Busy, Job
    <3>3. QED
      BY <2>5, <3>1, <3>2, AskingType, ActorAwake DEF CallbackEnds, shared
  <2>6. CASE th[t].phase = "ready" /\ Refuse(t)
    <3>1. handle[t] \in Sess /\ UNCHANGED <<txWrites, committed>>
      BY <2>6, HandleType DEF CallsHaveSessions, Busy, Refuse, connection
    <3>2. Returned(t, FALSE) \in ThreadState /\ Returned(t, FALSE).phase # "asleep"
      BY <3>1, ReturnedType, AwakeType DEF TypeOK
    <3>3. QED
      BY <2>6, <3>2, ActorAwake DEF Refuse, shared
  <2>7. CASE th[t].phase = "ready" /\ Sleep(t)
    <3>1. ~ Mine(t) /\ ~ poisoned /\ dbOpen
      BY <2>7 DEF Sleep, Refused
    <3>2. UNCHANGED <<owner, poisoned, dbOpen, handle>>
      BY <2>7 DEF Sleep, shared
    <3>3. \A u \in Thread : u # t => th'[u] = th[u]
      BY <1>1, <2>7 DEF Sleep
    <3>4. QED
      BY <3>1, <3>2, <3>3 DEF NoLostWakeup, Mine
  <2>8. CASE th[t].phase = "ready" /\ Serve(t)
    BY <2>8, ServeWakes
  <2>9. CASE Elapse(t)
    <3> DEFINE r == [th[t] EXCEPT !.phase = "ready", !.late = TRUE]
    <3>1. th' = [th EXCEPT ![t] = r] /\ UNCHANGED <<owner, poisoned, dbOpen, handle>>
      BY <1>1, <2>9 DEF Elapse, shared, ThreadState
    <3>2. r \in ThreadState /\ r.phase # "asleep"
      BY <1>1 DEF ThreadState
    <3> HIDE DEF r
    <3>3. QED
      BY <3>1, <3>2, ActorAwake
  <2>10. CASE Close(t)
    <3>1. UNCHANGED <<poisoned, dbOpen, handle>>
      BY <2>10 DEF Close
    <3>2. UNCHANGED <<owner, th>> \/ th' = Woken(th)
      BY <2>10 DEF Close
    <3>3. QED
      BY <1>1, <3>1, <3>2, SleepersWait, NobodySleeps
  <2>11. CASE Drop(t)
    <3>1. \/ UNCHANGED <<owner, poisoned, dbOpen, th>>
          \/ th' = Woken(th)
      BY <2>11 DEF Drop
    <3>2. th[t].phase # "asleep" /\ handle' = [handle EXCEPT ![t] = 0]
      BY <2>11 DEF Drop, Idle
    <3>3. \A u \in Thread : th[u].phase = "asleep" => handle'[u] = handle[u]
      BY <3>2 DEF TypeOK
    <3>4. QED
      BY <1>1, <3>1, <3>3, SleepersWait, NobodySleeps
  <2>12. QED
    BY <1>4, <2>1, <2>2, <2>3, <2>4, <2>5, <2>6, <2>7, <2>8, <2>9, <2>10, <2>11
       DEF Step, Access
<1>5. QED
  BY <1>2, <1>3, <1>4 DEF Next

\* Nobody sleeps while the transaction is free or his own, or while he could only
\* be told that the database cannot be used: whoever makes that so wakes everyone
\* (changed.notify_all).
THEOREM WakeupCorrect == Spec => []NoLostWakeup
<1>1. Init => NoLostWakeup
  BY DEF Init, NoLostWakeup, Resting
<1>2. QED
  BY <1>1, Invariant, WakeupNext, PTL DEF Spec

-----------------------------------------------------------------------------
(* All or nothing, while no session is shared (Clones = FALSE) and no      *)
(* rollback fails after the pager has rolled back (Faults lacks "read").   *)

\* Nothing succeeds any more before the database is opened again.
Broken == ~ inTx /\ ioFailed

\* The transaction of the closure of thread t is open, with all that it wrote.
Underway(t) == inTx /\ owner = handle[t] /\ th[t].mine \subseteq txWrites

\* What the closure of thread t, which runs or has run, has written.
Closure(t) ==
  LET r == th[t] IN
  /\ \A w \in r.mine : w.no <= written
  /\ r.job # "none" => /\ r.verdict = "none" /\ r.mine \cap committed = {}
                       /\ \A w \in r.mine : w.by = handle[t]
  /\ r.job = "begin" => r.mine = {}
  /\ r.job \in {"body", "commit"} => Underway(t) \/ Broken \/ closed[handle[t]]
  /\ r.verdict = "failed" => /\ r.mine \cap committed = {}
                             /\ poisoned \/ r.mine \cap txWrites = {}
  /\ r.verdict = "committed" => r.mine \subseteq committed

\* A session is used by one thread.
OneThreadEach ==
  \A t, u \in Thread :
    handle[t] # 0 => handle[t] < nextId /\ (handle[u] = handle[t] => u = t)

\* A new write has a new number.
Numbered == \A w \in txWrites \cup committed : w.no <= written

CInv ==
  /\ OneThreadEach /\ Numbered
  /\ ~ dbOpen => ~ inTx
  /\ \A t \in Thread : Closure(t)

\* What every step does to the writes: new ones have new numbers, and only those
\* of the transaction become committed.
DataStep ==
  /\ written \in Nat /\ written' \in Nat /\ written <= written'
  /\ committed \subseteq committed'
  /\ \A w \in committed' : w \in committed \cup txWrites \/ w.no > written
  /\ \A w \in txWrites' : w \in txWrites \/ w.no > written
  /\ Broken => Broken'
  /\ Numbered'

\* A rollback publishes nothing and empties the transaction.
LEMMA RollbackData ==
  ASSUME TypeOK, Numbered, NEW ok \in BOOLEAN, RollbackTx(ok)
  PROVE  DataStep /\ UNCHANGED committed /\ txWrites' = {} /\ ~ inTx'
BY DEF RollbackTx, DataStep, Numbered, Broken, TypeOK

\* A step that leaves the connection alone is a step of the data.
LEMMA UnchangedData ==
  ASSUME TypeOK, Numbered, UNCHANGED connection
  PROVE  DataStep
BY DEF connection, DataStep, Numbered, Broken, TypeOK

\* A statement changes the data as a transaction may.
LEMMA OperationData ==
  ASSUME TypeOK, Numbered, NEW s \in Sess, NEW op, NEW ok \in BOOLEAN,
         Operation(op, s, ok)
  PROVE  DataStep
<1>1. written \in Nat /\ inTx \in BOOLEAN /\ ioFailed \in BOOLEAN
  BY DEF TypeOK
<1>2. \A w \in txWrites \cup committed : w.no \in Nat /\ w.no <= written
  BY DEF TypeOK, Write, Numbered
<1>3. CASE Begin(ok)
  BY <1>1, <1>2, <1>3 DEF Begin, DataStep, Numbered, Broken
<1>4. CASE WriteRow(s, ok)
  <2> DEFINE w == [by |-> s, no |-> written + 1]
  <2>1. w.no = written + 1
    OBVIOUS
  <2> HIDE DEF w
  <2>2. CASE ok
    <3>1. /\ written' = written + 1 /\ UNCHANGED <<inTx, ioFailed>> /\ ~ ioFailed
          /\ txWrites' \in {txWrites, txWrites \cup {w}}
          /\ committed' \in {committed, committed \cup {w}}
      BY <1>4, <2>2 DEF WriteRow, w
    <3>2. QED
      BY <1>1, <1>2, <2>1, <3>1 DEF DataStep, Numbered, Broken
  <2>3. CASE ~ ok
    <3>1. /\ UNCHANGED <<written, txWrites, committed, inTx>>
          /\ Broken => UNCHANGED ioFailed
      BY <1>4, <2>3 DEF WriteRow, Broken
    <3>2. QED
      BY <1>1, <1>2, <3>1 DEF DataStep, Numbered, Broken
  <2>4. QED
    BY <2>2, <2>3
<1>5. CASE ReadRows(ok)
  BY <1>1, <1>2, <1>5 DEF ReadRows, DataStep, Numbered, Broken
<1>6. CASE CommitTx(ok)
  BY <1>1, <1>2, <1>6 DEF CommitTx, DataStep, Numbered, Broken
<1>7. CASE RollbackTx(ok)
  BY <1>7, RollbackData
<1>8. QED
  BY <1>3, <1>4, <1>5, <1>6, <1>7 DEF Operation

\* A thread whose closure a step does not advance.
LEMMA ClosureKept ==
  ASSUME IInv, NEW u \in Thread, Closure(u), DataStep,
         th'[u].job = th[u].job, th'[u].mine = th[u].mine,
         th'[u].verdict = th[u].verdict,
         th[u].job # "none" => handle'[u] = handle[u],
         \A s \in Sess : closed[s] => closed'[s],
         poisoned => poisoned' /\ UNCHANGED committed,
         th[u].job # "none" /\ owner = handle[u] => UNCHANGED committed,
         th[u].job \in {"body", "commit"} /\ Underway(u) =>
           Underway(u)' \/ Broken' \/ closed'[handle[u]]
  PROVE  Closure(u)'
<1> DEFINE r == th[u]
<1>1. TypeOK /\ r \in ThreadState /\ written \in Nat /\ written' \in Nat
  BY DEF IInv, TypeOK, DataStep
<1>2. \A w \in r.mine : w.no \in Nat /\ w.no <= written
  BY <1>1 DEF ThreadState, Write, Closure
<1>3. \A w \in r.mine : /\ w.no <= written'
                        /\ w \in committed' => w \in committed \cup txWrites
                        /\ w \in txWrites' => w \in txWrites
  <2>1. \A w \in r.mine : ~ (w.no > written)
    BY <1>1, <1>2
  <2>2. \A w \in r.mine : w.no <= written'
    BY <1>1, <1>2 DEF DataStep
  <2>3. QED
    BY <2>1, <2>2 DEF DataStep
<1>4. r.job # "none" => r.mine \cap committed' = {}
  <2>1. ASSUME NEW w \in r.mine, w \in committed', r.job # "none" PROVE FALSE
    <3>1. w.by = handle[u] /\ w \notin committed /\ w \in txWrites
      BY <1>3, <2>1 DEF Closure
    <3>2. owner = handle[u]
      BY <3>1 DEF IInv, TransactionOwned
    <3>3. QED
      BY <2>1, <3>1, <3>2
  <2>2. QED
    BY <2>1
<1>5. r.job \in {"body", "commit"} => Underway(u)' \/ Broken' \/ closed'[handle[u]]
  <2>1. r.job # "none" => handle[u] \in Sess
    BY <1>1, HandleType DEF IInv, CallsHaveSessions, Busy
  <2>2. QED
    BY <2>1 DEF Closure, DataStep
<1>6. r.verdict = "failed" => /\ r.mine \cap committed' = {}
                              /\ poisoned' \/ r.mine \cap txWrites' = {}
  <2>1. CASE poisoned
    BY <2>1 DEF Closure
  <2>2. CASE ~ poisoned
    BY <1>3, <2>2 DEF Closure
  <2>3. QED
    BY <2>1, <2>2
<1>7. r.verdict = "committed" => r.mine \subseteq committed'
  BY DEF Closure, DataStep
<1>8. QED
  BY <1>3, <1>4, <1>5, <1>6, <1>7 DEF Closure

\* The parts of a thread that waking and waiting do not touch.
SameClosure(a, b) == a.job = b.job /\ a.mine = b.mine /\ a.verdict = b.verdict

\* Notification leaves closures as they are.
LEMMA WokenClosure ==
  ASSUME NEW f \in [Thread -> ThreadState], NEW u \in Thread
  PROVE  SameClosure(Woken(f)[u], f[u])
BY DEF Woken, ThreadState, SameClosure

\* What Returned makes of a thread.
LEMMA ReturnedParts ==
  ASSUME TypeOK, NEW t \in Thread, NEW ok \in BOOLEAN, handle[t] \in Sess
  PROVE  LET job  == th[t].job
             next == Follow(job, ok)
             r    == Returned(t, ok)
         IN  /\ r.job = next
             /\ next = "guard" => r.mine = th[t].mine /\ r.verdict = th[t].verdict
             /\ next # "guard" =>
                  /\ r.mine = th[t].mine \cup
                       (IF job = "body" /\ ok
                          THEN {w \in txWrites' \cup committed' : w.no > written} ELSE {})
                  /\ r.verdict = IF next = job \/ next = "body" THEN th[t].verdict
                                 ELSE IF job = "commit" THEN "committed" ELSE "failed"
<1>1. th[t] \in ThreadState
  BY DEF TypeOK
<1>2. CASE Follow(th[t].job, ok) = "guard"
  BY <1>1, <1>2 DEF Returned, Asking, ThreadState
<1>3. CASE Follow(th[t].job, ok) # "guard"
  BY <1>3 DEF Returned
<1>4. QED
  BY <1>2, <1>3

\* The closure of the thread that is served.  Its job decides what it asked for.
LEMMA ServedClosure ==
  ASSUME IInv, CInv, NEW t \in Thread, ~ Refused(t), Mine(t), handle[t] \in Sess,
         NEW op \in Requests(th[t].job), NEW ok \in BOOLEAN,
         Operation(op, handle[t], ok), owner' = IF inTx' THEN handle[t] ELSE 0,
         SameClosure(th'[t], Returned(t, ok)),
         UNCHANGED <<poisoned, closed, handle>>
  PROVE  Closure(t)'
<1> DEFINE s == handle[t]
           r == th[t]
           n == th'[t]
           made == {w \in txWrites' \cup committed' : w.no > written}
<1>1. /\ TypeOK /\ r \in ThreadState /\ ~ poisoned /\ ~ closed[s]
      /\ Closure(t) /\ Numbered /\ DataStep
  BY OperationData DEF IInv, TypeOK, CInv, Refused
<1>2. /\ \A w \in r.mine : w.no \in Nat /\ w.no <= written
      /\ written \in Nat /\ written' \in Nat /\ written <= written'
  BY <1>1 DEF ThreadState, Write, Closure, DataStep
<1>3. \A w \in r.mine : /\ w.no <= written' /\ ~ (w.no > written)
                        /\ w \in committed' => w \in committed \cup txWrites
                        /\ w \in txWrites' => w \in txWrites
  <2>1. \A w \in r.mine : w.no <= written' /\ ~ (w.no > written)
    BY <1>2
  <2>2. QED
    BY <1>1, <2>1 DEF DataStep
<1>4. /\ n.job = Follow(r.job, ok)
      /\ Follow(r.job, ok) = "guard" => n.mine = r.mine /\ n.verdict = r.verdict
      /\ Follow(r.job, ok) # "guard" =>
           /\ n.mine = r.mine \cup (IF r.job = "body" /\ ok THEN made ELSE {})
           /\ n.verdict = IF Follow(r.job, ok) \in {r.job, "body"} THEN r.verdict
                          ELSE IF r.job = "commit" THEN "committed" ELSE "failed"
  BY <1>1, ReturnedParts DEF SameClosure
<1> HIDE DEF n, made
<1>5. CASE r.job = "none"
  <2>1. n.job = "none" /\ n.mine = r.mine /\ n.verdict = r.verdict
    BY <1>4, <1>5 DEF Follow
  <2>2. \A w \in r.mine : w.no <= written'
    BY <1>3
  <2>3. r.verdict = "failed" => r.mine \cap committed' = {} /\ r.mine \cap txWrites' = {}
    BY <1>1, <1>3 DEF Closure
  <2>4. r.verdict = "committed" => r.mine \subseteq committed'
    BY <1>1 DEF Closure, DataStep
  <2>5. QED
    BY <2>1, <2>2, <2>3, <2>4 DEF Closure, n
<1>6. CASE r.job = "begin"
  <2>1. Begin(ok) /\ r.mine = {} /\ r.verdict = "none"
    BY <1>1, <1>6 DEF Requests, Operation, Closure
  <2>2. /\ n.mine = {}
        /\ n.job = IF ok THEN "body" ELSE "none"
        /\ n.verdict = IF ok THEN "none" ELSE "failed"
    BY <1>4, <1>6, <2>1 DEF Follow
  <2>3. ok => inTx' /\ owner' = handle'[t]
    BY <2>1 DEF Begin
  <2>4. QED
    BY <2>2, <2>3 DEF Closure, Underway, n
<1>7. CASE r.job = "body"
  <2>1. /\ r.verdict = "none" /\ r.mine \cap committed = {}
        /\ \A w \in r.mine : w.by = s
        /\ Underway(t) \/ Broken
    BY <1>1, <1>7 DEF Closure
  <2>2. /\ n.job = "body" /\ n.verdict = "none"
        /\ n.mine = r.mine \cup (IF ok THEN made ELSE {})
    BY <1>4, <1>7, <2>1 DEF Follow
  <2>3. CASE op = "write" /\ ok
    <3> DEFINE w == [by |-> s, no |-> written + 1]
    <3>1. WriteRow(s, TRUE)
      BY <2>3 DEF Operation
    <3>2. inTx /\ ~ ioFailed /\ Underway(t)
      BY <2>1, <3>1 DEF WriteRow, Broken, Underway
    <3>3. /\ txWrites' = txWrites \cup {w} /\ written' = written + 1
          /\ UNCHANGED <<committed, inTx>>
      BY <3>1, <3>2 DEF WriteRow
    <3>4. w.no = written + 1 /\ w.by = s
      OBVIOUS
    <3> HIDE DEF w
    <3>5. \A x \in txWrites \cup committed : x.no \in Nat /\ ~ (x.no > written)
      BY <1>1, <1>2 DEF TypeOK, Write, Numbered
    <3>6. made = {w}
      BY <1>2, <3>3, <3>4, <3>5 DEF made
    <3>7. n.mine = r.mine \cup {w} /\ w \notin committed /\ w.no <= written'
      BY <1>2, <2>2, <2>3, <3>3, <3>4, <3>5, <3>6
    <3>8. Underway(t)'
      BY <2>1, <3>2, <3>3, <3>7 DEF Underway, n
    <3>9. n.mine \cap committed' = {} /\ \A x \in n.mine : x.no <= written' /\ x.by = s
      BY <1>3, <2>1, <3>3, <3>4, <3>7
    <3>10. QED
      BY <2>2, <3>8, <3>9 DEF Closure, n
  <2>4. CASE ~ (op = "write" /\ ok)
    <3>1. (op = "read" /\ ReadRows(ok)) \/ (op = "write" /\ ~ ok /\ WriteRow(s, FALSE))
      BY <1>7, <2>4 DEF Requests, Operation
    <3>2. UNCHANGED <<txWrites, committed, inTx, written>>
      BY <3>1 DEF ReadRows, WriteRow
    <3>3. made = {}
      <4>1. \A x \in txWrites \cup committed : x.no \in Nat /\ ~ (x.no > written)
        BY <1>1, <1>2 DEF TypeOK, Write, Numbered
      <4>2. QED
        BY <3>2, <4>1 DEF made
    <3>4. n.mine = r.mine
      BY <2>2, <3>3
    <3>5. Underway(t)' \/ Broken'
      BY <1>1, <2>1, <3>2, <3>4 DEF Underway, DataStep, n
    <3>6. QED
      BY <1>3, <2>1, <2>2, <3>2, <3>4, <3>5 DEF Closure, n
  <2>5. QED
    BY <2>3, <2>4
<1>8. CASE r.job = "commit"
  <2>1. /\ r.verdict = "none" /\ r.mine \cap committed = {}
        /\ \A w \in r.mine : w.by = s
        /\ Underway(t) \/ Broken
    BY <1>1, <1>8 DEF Closure
  <2>2. CommitTx(ok)
    BY <1>8 DEF Requests, Operation
  <2>3. CASE ok
    <3>1. n.job = "none" /\ n.mine = r.mine /\ n.verdict = "committed"
      BY <1>4, <1>8, <2>3 DEF Follow
    <3>2. r.mine \subseteq committed'
      BY <2>1, <2>2, <2>3 DEF CommitTx, Underway, Broken
    <3>3. QED
      BY <1>3, <3>1, <3>2 DEF Closure, n
  <2>4. CASE ~ ok
    <3>1. n.job = "guard" /\ n.mine = r.mine /\ n.verdict = "none"
      BY <1>4, <1>8, <2>1, <2>4 DEF Follow
    <3>2. UNCHANGED committed
      BY <2>2, <2>4 DEF CommitTx
    <3>3. QED
      BY <1>3, <2>1, <3>1, <3>2 DEF Closure, n
  <2>5. QED
    BY <2>3, <2>4
<1>9. CASE r.job \in {"undo", "guard"}
  <2>1. /\ r.verdict = "none" /\ r.mine \cap committed = {}
        /\ \A w \in r.mine : w.by = s
    BY <1>1, <1>9 DEF Closure
  <2>2. UNCHANGED committed /\ txWrites' = {}
    BY <1>9 DEF Requests, Operation, RollbackTx
  <2>3. \/ n.job = "guard" /\ n.mine = r.mine /\ n.verdict = "none"
        \/ n.job = "none" /\ n.mine = r.mine /\ n.verdict = "failed"
    BY <1>4, <1>9, <2>1 DEF Follow
  <2>4. QED
    BY <1>3, <2>1, <2>2, <2>3 DEF Closure, n
<1>10. QED
  BY <1>1, <1>5, <1>6, <1>7, <1>8, <1>9 DEF ThreadState

\* Only the owner's writes are in the transaction.
LEMMA NotMine ==
  ASSUME IInv, NEW t \in Thread, Closure(t), th[t].job # "none",
         owner # handle[t] \/ ~ inTx \/ closed[handle[t]]
  PROVE  th[t].mine \cap txWrites = {}
<1>1. ASSUME NEW w \in th[t].mine, w \in txWrites PROVE FALSE
  <2>1. inTx /\ w.by = owner /\ w.by = handle[t] /\ owner # 0 /\ ~ closed[owner]
    BY <1>1 DEF IInv, TransactionOwned, OwnerLives, Closure
  <2>2. QED
    BY <2>1
<1>2. QED
  BY <1>1

\* A closure whose call is refused has not committed.
LEMMA RefusedClosure ==
  ASSUME IInv, CInv, NEW t \in Thread, th[t].phase = "ready", Refuse(t)
  PROVE  Closure(t)'
<1> DEFINE r == th[t]
           n == th'[t]
<1>1. TypeOK /\ handle[t] \in Sess /\ r \in ThreadState /\ Closure(t)
  BY HandleType DEF IInv, TypeOK, CallsHaveSessions, Busy, CInv
<1>2. UNCHANGED <<owner, poisoned, closed, inTx, txWrites, committed, ioFailed, written, handle>>
  BY DEF Refuse, shared, connection
<1>3. n = Returned(t, FALSE)
  BY <1>1 DEF Refuse, TypeOK
<1>4. /\ n.job = Follow(r.job, FALSE)
      /\ n.mine = r.mine
      /\ n.verdict = IF Follow(r.job, FALSE) \in {"guard", "body", r.job} THEN r.verdict
                     ELSE IF r.job = "commit" THEN "committed" ELSE "failed"
  <2>1. LET next == Follow(r.job, FALSE)
            x    == Returned(t, FALSE)
        IN  /\ x.job = next
            /\ next = "guard" => x.mine = r.mine /\ x.verdict = r.verdict
            /\ next # "guard" =>
                 /\ x.mine = r.mine \cup {}
                 /\ x.verdict = IF next = r.job \/ next = "body" THEN r.verdict
                                ELSE IF r.job = "commit" THEN "committed" ELSE "failed"
    BY <1>1, ReturnedParts
  <2>2. QED
    BY <1>3, <2>1
<1> HIDE DEF n
<1>5. r.job # "none" => poisoned \/ r.mine \cap txWrites = {}
  <2>1. CASE poisoned \/ closed[handle[t]]
    BY <1>1, <2>1, NotMine
  <2>2. CASE ~ dbOpen
    BY <1>1, <2>2, NotMine DEF CInv
  <2>3. CASE ~ Mine(t)
    BY <1>1, <2>3, NotMine DEF Mine
  <2>4. QED
    BY <2>1, <2>2, <2>3 DEF Refuse, Refused
<1>6. CASE r.job \in {"none", "body"}
  <2>1. n.job = r.job /\ n.mine = r.mine /\ n.verdict = r.verdict
    BY <1>4, <1>6 DEF Follow
  <2>2. QED
    BY <1>1, <1>2, <2>1 DEF Closure, Underway, Broken, n
<1>7. CASE r.job \in {"commit", "undo"}
  <2>1. n.job = "guard" /\ n.mine = r.mine /\ n.verdict = r.verdict
    BY <1>4, <1>7 DEF Follow
  <2>2. r.verdict = "none"
    BY <1>1, <1>7 DEF Closure
  <2>3. QED
    BY <1>1, <1>2, <1>7, <2>1, <2>2 DEF Closure, n
<1>8. CASE r.job \in {"begin", "guard"}
  <2>1. n.job = "none" /\ n.mine = r.mine /\ n.verdict = "failed"
    BY <1>4, <1>8 DEF Follow
  <2>2. QED
    BY <1>1, <1>2, <1>5, <1>8, <2>1 DEF Closure, n
<1>9. QED
  BY <1>1, <1>6, <1>7, <1>8 DEF ThreadState

\* A step that changes nothing but the call a thread is in.
LEMMA QuietStep ==
  ASSUME IInv, CInv, UNCHANGED <<shared, connection, handle>>,
         \A u \in Thread : Closure(u) => Closure(u)' \/ SameClosure(th'[u], th[u])
  PROVE  CInv'
<1>1. TypeOK /\ Numbered /\ DataStep
  BY UnchangedData DEF IInv, CInv
<1>2. UNCHANGED <<owner, nextId, poisoned, dbOpen, closed, inTx, txWrites, committed,
                  ioFailed, handle>>
  BY DEF shared, connection
<1>3. ASSUME NEW u \in Thread PROVE Closure(u)'
  <2>1. CASE SameClosure(th'[u], th[u])
    BY <1>1, <1>2, <2>1, ClosureKept DEF CInv, SameClosure, Underway
  <2>2. QED
    BY <2>1 DEF CInv
<1>4. QED
  BY <1>1, <1>2, <1>3 DEF CInv, OneThreadEach, DataStep

\* A call that is served keeps the books of all closures.
LEMMA ServeClosures ==
  ASSUME IInv, CInv, NEW t \in Thread, th[t].phase = "ready", Serve(t)
  PROVE  CInv'
<1> DEFINE s == handle[t]
<1>1. TypeOK /\ s \in Sess /\ owner \in {0, s} /\ ~ Refused(t) /\ Mine(t) /\ Numbered
  BY HandleType DEF IInv, CInv, CallsHaveSessions, Busy, Serve, Mine
<1>2. PICK op \in Requests(th[t].job), ok \in BOOLEAN :
        /\ Operation(op, s, ok)
        /\ owner' = IF inTx' THEN s ELSE 0
        /\ LET f == [th EXCEPT ![t] = Returned(t, ok)]
           IN  th' = IF owner' = 0 THEN Woken(f) ELSE f
  BY DEF Serve
<1>3. UNCHANGED <<nextId, poisoned, dbOpen, closed, patient, handle>>
  BY DEF Serve
<1> DEFINE f == [th EXCEPT ![t] = Returned(t, ok)]
<1>4. ConnectionTyped' /\ DataStep
  BY <1>1, <1>2, OperationType, OperationData
<1>5. Returned(t, ok) \in ThreadState
  BY <1>1, <1>4, ReturnedType DEF ConnectionTyped
<1>6. f \in [Thread -> ThreadState] /\ th' \in {f, Woken(f)}
  BY <1>1, <1>2, <1>5 DEF TypeOK
<1>7. \A u \in Thread : SameClosure(th'[u], f[u])
  <2> HIDE DEF f
  <2>1. QED
    BY <1>6, WokenClosure DEF SameClosure
<1>8. Closure(t)'
  <2>1. f[t] = Returned(t, ok)
    BY <1>1 DEF TypeOK
  <2>2. SameClosure(th'[t], Returned(t, ok))
    BY <1>7, <2>1
  <2> HIDE DEF f
  <2>3. QED
    BY <1>1, <1>2, <1>3, <2>2, ServedClosure
<1>9. ASSUME NEW u \in Thread, u # t PROVE Closure(u)'
  <2>1. SameClosure(th'[u], th[u])
    <3>1. f[u] = th[u]
      BY <1>1, <1>9 DEF TypeOK
    <3>2. QED
      BY <1>7, <3>1
  <2>2. th[u].job # "none" => owner # handle[u]
    <3>1. th[u].job # "none" => handle[u] # 0
      BY DEF IInv, CallsHaveSessions, Busy
    <3>2. QED
      BY <1>1, <1>9, <3>1 DEF CInv, OneThreadEach
  <2>3. ~ poisoned
    BY <1>1 DEF Refused
  <2> HIDE DEF f
  <2>4. QED
    BY <1>3, <1>4, <2>1, <2>2, <2>3, ClosureKept DEF CInv, SameClosure, Underway
<1>10. dbOpen'
  BY <1>1, <1>3 DEF Refused
<1>11. QED
  BY <1>3, <1>4, <1>8, <1>9, <1>10 DEF CInv, OneThreadEach, DataStep

\* A session that starts has no closure behind it; one that ends has none.
LEMMA HandleClosures ==
  ASSUME ~ Clones, IInv, CInv, NEW t \in Thread, NewSession(t) \/ Clone(t) PROVE CInv'
<1>1. NewSession(t)
  BY DEF Clone
<1>2. TypeOK /\ Numbered /\ handle[t] = 0 /\ nextId \in Sess
  BY <1>1 DEF NewSession, IInv, CInv
<1>3. /\ UNCHANGED <<owner, poisoned, dbOpen, closed, connection, th>>
      /\ handle' = [handle EXCEPT ![t] = nextId] /\ nextId' = nextId + 1
  BY <1>1 DEF NewSession
<1>4. DataStep
  BY <1>2, <1>3, UnchangedData
<1>5. \A u \in Thread : th[u].job # "none" => handle'[u] = handle[u]
  BY <1>2, <1>3 DEF IInv, CallsHaveSessions, Busy, TypeOK
<1>6. ASSUME NEW u \in Thread PROVE Closure(u)'
  <2>1. UNCHANGED <<inTx, txWrites, committed>>
    BY <1>3 DEF connection
  <2>2. th[u].job # "none" /\ Underway(u) => Underway(u)'
    BY <1>3, <1>5, <2>1 DEF Underway
  <2>3. QED
    BY <1>3, <1>4, <1>5, <2>1, <2>2, ClosureKept DEF CInv
<1>7. OneThreadEach'
  <2>1. nextId \in Nat /\ nextId # 0
    BY <1>2 DEF Sess
  <2>2. \A u \in Thread : handle[u] \in Nat
    BY <1>2 DEF TypeOK
  <2>3. \A u \in Thread : handle'[u] = IF u = t THEN nextId ELSE handle[u]
    BY <1>2, <1>3 DEF TypeOK
  <2>4. \A u, v \in Thread :
          handle[u] # 0 => handle[u] < nextId /\ (handle[v] = handle[u] => v = u)
    BY DEF CInv, OneThreadEach
  <2>5. QED
    BY <1>3, <2>1, <2>2, <2>3, <2>4 DEF OneThreadEach
<1>8. QED
  BY <1>3, <1>4, <1>6, <1>7 DEF CInv, DataStep, connection

\* A step that rolls back, for thread t or for nobody.
LEMMA UndoneClosures ==
  ASSUME IInv, CInv, NEW ok \in BOOLEAN, RollbackTx(ok),
         UNCHANGED nextId, poisoned => poisoned',
         \A s \in Sess : closed[s] => closed'[s],
         th' \in {th, Woken(th)},
         \A u \in Thread : handle'[u] \in {0, handle[u]},
         \A u \in Thread : th[u].job # "none" =>
           /\ handle'[u] = handle[u]
           /\ owner = handle[u] /\ inTx => Broken' \/ closed'[handle[u]]
  PROVE  CInv'
<1>1. TypeOK /\ Numbered
  BY DEF IInv, CInv
<1>2. DataStep /\ UNCHANGED committed /\ ~ inTx'
  BY <1>1, RollbackData
<1>3. \A u \in Thread : SameClosure(th'[u], th[u])
  BY <1>1, WokenClosure DEF TypeOK, SameClosure
<1>4. ASSUME NEW u \in Thread PROVE Closure(u)'
  BY <1>2, <1>3, ClosureKept DEF CInv, SameClosure, Underway
<1>5. OneThreadEach'
  BY DEF CInv, OneThreadEach
<1>6. QED
  BY <1>2, <1>4, <1>5 DEF CInv, DataStep

\* Closing a session keeps them: a closure whose transaction goes with it has failed.
LEMMA CloseClosures ==
  ASSUME "read" \notin Faults, IInv, CInv, NEW t \in Thread, Close(t) PROVE CInv'
<1> DEFINE s == handle[t]
<1>1. TypeOK /\ s # 0 /\ s \in Sess /\ closed \in [Sess -> BOOLEAN]
  BY HandleType DEF IInv, Close, TypeOK
<1>2. UNCHANGED <<nextId, poisoned, dbOpen, patient, handle>>
  BY DEF Close
<1>3. CASE owner # s
  <2>1. closed' = [closed EXCEPT ![s] = TRUE] /\ UNCHANGED <<owner, th, connection>>
    BY <1>3 DEF Close
  <2>2. \A r \in Sess : closed[r] => closed'[r]
    BY <1>1, <2>1
  <2>3. DataStep /\ UNCHANGED <<inTx, txWrites, committed>>
    BY <1>1, <2>1, UnchangedData DEF CInv, connection
  <2>4. ASSUME NEW u \in Thread PROVE Closure(u)'
    BY <1>2, <2>1, <2>2, <2>3, ClosureKept DEF CInv, Underway
  <2>5. QED
    BY <1>2, <2>3, <2>4 DEF CInv, OneThreadEach, DataStep
<1>4. CASE owner = s /\ RollbackTx(TRUE) /\ closed' = [closed EXCEPT ![s] = TRUE] /\ th' = Woken(th)
  <2>1. \A r \in Sess : closed[r] => closed'[r]
    BY <1>1, <1>4
  <2>2. closed'[s]
    BY <1>1, <1>4
  <2> HIDE DEF s
  <2>3. \A u \in Thread : owner = handle[u] => closed'[handle[u]]
    BY <1>4, <2>2
  <2>4. QED
    BY <1>2, <1>4, <2>1, <2>3, UndoneClosures
<1>5. CASE owner = s /\ RollbackTx(FALSE) /\ UNCHANGED <<closed, th>>
  <2>1. inTx => Broken'
    BY <1>5 DEF RollbackTx, Broken
  <2>2. QED
    BY <1>2, <1>5, <2>1, UndoneClosures
<1>6. QED
  BY <1>3, <1>4, <1>5 DEF Close

\* Dropping a handle keeps them.
LEMMA DropClosures ==
  ASSUME IInv, CInv, NEW t \in Thread, Drop(t) PROVE CInv'
<1>1. TypeOK /\ handle[t] # 0 /\ th[t].job = "none" /\ UNCHANGED <<nextId, dbOpen, closed>>
  BY DEF IInv, Drop
<1>2. \A u \in Thread : handle'[u] = IF u = t THEN 0 ELSE handle[u]
  BY <1>1 DEF Drop, TypeOK
<1>3. CASE /\ owner = handle[t] /\ th' = Woken(th)
           /\ \E ok \in BOOLEAN : RollbackTx(ok) /\ poisoned' = (poisoned \/ ~ ok)
  <2>1. \A u \in Thread : th[u].job # "none" => u # t /\ handle[u] # owner
    BY <1>1, <1>3 DEF CInv, OneThreadEach
  <2>2. QED
    BY <1>1, <1>2, <1>3, <2>1, UndoneClosures
<1>4. CASE UNCHANGED <<connection, poisoned, owner, th>>
  <2>1. DataStep /\ UNCHANGED <<inTx, txWrites, committed>>
    BY <1>1, <1>4, UnchangedData DEF CInv, connection
  <2>2. \A u \in Thread : th[u].job # "none" => handle'[u] = handle[u]
    BY <1>1, <1>2
  <2>3. ASSUME NEW u \in Thread PROVE Closure(u)'
    BY <1>1, <1>4, <2>1, <2>2, ClosureKept DEF CInv, Underway
  <2>4. OneThreadEach'
    BY <1>1, <1>2 DEF CInv, OneThreadEach
  <2>5. QED
    BY <1>1, <2>1, <2>3, <2>4 DEF CInv, DataStep
<1>5. QED
  BY <1>3, <1>4 DEF Drop

\* Closing the database keeps them.
LEMMA CloseDatabaseClosures ==
  ASSUME IInv, CInv, CloseDatabase PROVE CInv'
<1>1. TypeOK /\ owner = 0 /\ ~ inTx
  BY DEF IInv, TransactionOwned, CloseDatabase
<1>2. UNCHANGED <<owner, nextId, poisoned, closed, handle, connection>> /\ th' = Woken(th)
  BY <1>1 DEF CloseDatabase
<1>3. DataStep /\ UNCHANGED <<inTx, txWrites, committed>>
  BY <1>1, <1>2, UnchangedData DEF CInv, connection
<1>4. \A u \in Thread : SameClosure(th'[u], th[u])
  BY <1>1, <1>2, WokenClosure DEF TypeOK
<1>5. ASSUME NEW u \in Thread PROVE Closure(u)'
  BY <1>1, <1>2, <1>3, <1>4, ClosureKept DEF CInv, SameClosure, Underway
<1>6. QED
  BY <1>1, <1>2, <1>3, <1>5 DEF CInv, OneThreadEach, DataStep

\* Asking for the next step of a closure, and starting one.
LEMMA AskingClosures ==
  ASSUME IInv, CInv, NEW t \in Thread, Call(t) \/ Transaction(t) \/ CallbackEnds(t)
  PROVE  CInv'
<1>1. TypeOK /\ th \in [Thread -> ThreadState] /\ UNCHANGED <<shared, connection, handle>>
  BY DEF IInv, TypeOK, Call, Transaction, CallbackEnds
<1>2. UNCHANGED <<owner, poisoned, closed, inTx, txWrites, committed, ioFailed, written, handle>>
  BY <1>1 DEF shared, connection
<1>3. \A u \in Thread : u # t => SameClosure(th'[u], th[u])
  BY <1>1 DEF Call, Transaction, CallbackEnds, SameClosure
<1>4. CASE Call(t)
  <2>1. SameClosure(th'[t], th[t])
    BY <1>1, <1>4 DEF Call, Asking, SameClosure, ThreadState
  <2>2. QED
    BY <1>1, <1>3, <2>1, QuietStep
<1>5. CASE Transaction(t)
  <2> DEFINE n == th'[t]
  <2>1. n.job = "begin" /\ n.mine = {} /\ n.verdict = "none"
    BY <1>1, <1>5 DEF Transaction, Asking, ThreadState
  <2> HIDE DEF n
  <2>2. Closure(t)'
    BY <2>1 DEF Closure, n
  <2>3. QED
    BY <1>1, <1>3, <2>2, QuietStep
<1>6. CASE CallbackEnds(t)
  <2> DEFINE n == th'[t]
  <2>1. /\ th[t].job = "body"
        /\ n.job \in {"commit", "undo", "guard"}
        /\ n.mine = th[t].mine /\ n.verdict = th[t].verdict
    BY <1>1, <1>6 DEF CallbackEnds, Asking, ThreadState
  <2> HIDE DEF n
  <2>2. Closure(t)'
    BY <1>2, <2>1 DEF CInv, Closure, Underway, Broken, n
  <2>3. QED
    BY <1>1, <1>3, <2>2, QuietStep
<1>7. QED
  BY <1>4, <1>5, <1>6

\* Waiting, and giving up, keep them.
LEMMA WaitingClosures ==
  ASSUME IInv, CInv, NEW t \in Thread,
         Elapse(t) \/ (th[t].phase = "ready" /\ (Sleep(t) \/ Refuse(t)))
  PROVE  CInv'
<1>1. th \in [Thread -> ThreadState] /\ UNCHANGED <<shared, connection, handle>>
  BY DEF IInv, TypeOK, Elapse, Sleep, Refuse
<1>2. \A u \in Thread : u # t => SameClosure(th'[u], th[u])
  BY <1>1 DEF Elapse, Sleep, Refuse, SameClosure
<1>3. CASE th[t].phase = "ready" /\ Refuse(t)
  BY <1>1, <1>2, <1>3, RefusedClosure, QuietStep
<1>4. CASE Elapse(t) \/ Sleep(t)
  <2>1. SameClosure(th'[t], th[t])
    BY <1>1, <1>4 DEF Elapse, Sleep, SameClosure, ThreadState
  <2>2. QED
    BY <1>1, <1>2, <2>1, QuietStep
<1>5. QED
  BY <1>3, <1>4

\* Every step keeps the books of all closures.
LEMMA ClosuresNext ==
  ASSUME ~ Clones, "read" \notin Faults, IInv, CInv, [Next]_vars PROVE CInv'
<1>1. CASE UNCHANGED vars
  BY <1>1, QuietStep DEF vars, SameClosure
<1>2. QED
  BY <1>1, HandleClosures, AskingClosures, WaitingClosures, ServeClosures, CloseClosures,
     DropClosures, CloseDatabaseClosures DEF Next, Step, Access

\* A transaction closure that reports success has committed all it wrote, and one
\* that reports an error has committed nothing, now and later: not when its commit
\* or its rollback failed, it was closed in the middle, or another session's
\* rollback poisoned the database.
THEOREM ClosuresCorrect ==
  ASSUME ~ Clones, "read" \notin Faults
  PROVE  Spec => []AllOrNothing
<1>1. Init => CInv
  BY DEF Init, CInv, OneThreadEach, Numbered, Closure, Resting
<1>2. IInv /\ CInv /\ [Next]_vars => CInv'
  BY ClosuresNext
<1>3. CInv => AllOrNothing
  BY DEF CInv, Closure, AllOrNothing
<1>4. QED
  BY <1>1, <1>2, <1>3, Invariant, PTL DEF Spec

-----------------------------------------------------------------------------
(* Sessions implement isolated transactions: Session refines SessionStore, *)
(* as long as no rollback fails after the pager has rolled back (Faults    *)
(* without "read").                                                        *)

Buffer == [s \in Sess |-> {w \in txWrites : w.by = s}]

\* The writes left in the memory engine by a rollback that failed are out of
\* reach: storage requires a reopen.
StaleHidden == stale # {} => ioFailed /\ ~ inTx

RInv == IInv /\ StaleHidden

-----------------------------------------------------------------------------
(* StaleHidden is invariant.                                               *)

\* A rollback that fails before the pager keeps the stale writes out of reach.
LEMMA RollbackHides ==
  ASSUME "read" \notin Faults, StaleHidden, NEW ok \in BOOLEAN, RollbackTx(ok)
  PROVE  StaleHidden'
BY DEF RollbackTx, StaleHidden

\* So does every statement.
LEMMA OperationHides ==
  ASSUME "read" \notin Faults, TypeOK, StaleHidden,
         NEW s \in Sess, NEW op, NEW ok \in BOOLEAN, Operation(op, s, ok)
  PROVE  StaleHidden'
<1>1. CASE stale' = {}
  BY <1>1 DEF StaleHidden
<1>2. CASE stale' # {}
  <2>1. inTx \in BOOLEAN /\ ioFailed \in BOOLEAN
    BY DEF TypeOK
  <2>2. CASE RollbackTx(ok)
    BY <2>2, RollbackHides
  <2>3. CASE UNCHANGED stale
    <3>1. ioFailed /\ ~ inTx
      BY <1>2, <2>3 DEF StaleHidden
    <3>2. CASE Begin(ok)
      BY <2>1, <3>1, <3>2 DEF Begin, StaleHidden
    <3>3. CASE WriteRow(s, ok)
      BY <2>1, <3>1, <3>3 DEF WriteRow, StaleHidden
    <3>4. CASE ReadRows(ok)
      BY <3>1, <3>4 DEF ReadRows, StaleHidden
    <3>5. CASE CommitTx(ok)
      BY <3>1, <3>5 DEF CommitTx, StaleHidden
    <3>6. QED
      BY <2>2, <3>2, <3>3, <3>4, <3>5 DEF Operation
  <2>4. QED
    BY <2>2, <2>3 DEF Operation, Begin, WriteRow, ReadRows, CommitTx
<1>3. QED
  BY <1>1, <1>2

\* What a step does to the connection.
LEMMA StepCases ==
  ASSUME IInv, [Next]_vars
  PROVE  \/ UNCHANGED connection
         \/ /\ owner \in Sess /\ UNCHANGED lastRead
            /\ \E ok \in BOOLEAN : RollbackTx(ok)
         \/ \E s \in Sess, op \in Op, ok \in BOOLEAN :
              owner \in {0, s} /\ Operation(op, s, ok)
<1>1. CASE CloseDatabase
  <2>1. ~ inTx
    BY <1>1 DEF CloseDatabase, IInv, TransactionOwned
  <2>2. QED
    BY <1>1, <2>1 DEF CloseDatabase
<1>2. ASSUME NEW t \in Thread, Close(t) \/ Drop(t)
      PROVE  \/ UNCHANGED connection
             \/ /\ owner \in Sess /\ UNCHANGED lastRead
                /\ \E ok \in BOOLEAN : RollbackTx(ok)
  <2>1. handle[t] \in Sess
    BY <1>2, HandleType DEF IInv, Close, Drop
  <2>2. QED
    BY <1>2, <2>1 DEF Close, Drop
<1>3. ASSUME NEW t \in Thread, Serve(t), th[t].phase = "ready"
      PROVE  \E s \in Sess, op \in Op, ok \in BOOLEAN :
               owner \in {0, s} /\ Operation(op, s, ok)
  <2>1. handle[t] \in Sess /\ owner \in {0, handle[t]}
    BY <1>3, HandleType DEF IInv, CallsHaveSessions, Busy, Serve, Mine
  <2>2. Requests(th[t].job) \subseteq Op
    BY DEF Requests, Op
  <2>3. PICK op \in Requests(th[t].job), ok \in BOOLEAN : Operation(op, handle[t], ok)
    BY <1>3 DEF Serve
  <2>4. QED
    BY <2>1, <2>2, <2>3
<1>4. ASSUME NEW t \in Thread,
             \/ NewSession(t) \/ Clone(t) \/ Call(t) \/ Transaction(t) \/ CallbackEnds(t)
             \/ Elapse(t) \/ Refuse(t) \/ Sleep(t)
      PROVE  UNCHANGED connection
  BY <1>4 DEF NewSession, Clone, Call, Transaction, CallbackEnds, Elapse, Refuse, Sleep
<1>5. CASE UNCHANGED vars
  BY <1>5 DEF vars
<1>6. QED
  BY <1>1, <1>2, <1>3, <1>4, <1>5 DEF Next, Step, Access

\* And every step.
LEMMA HiddenInv ==
  ASSUME "read" \notin Faults, RInv, [Next]_vars
  PROVE  StaleHidden'
<1>1. TypeOK /\ IInv /\ StaleHidden
  BY DEF RInv, IInv
<1>2. CASE UNCHANGED connection
  BY <1>1, <1>2 DEF connection, StaleHidden
<1>3. QED
  BY <1>1, <1>2, StepCases, RollbackHides, OperationHides

-----------------------------------------------------------------------------
(* The buffers of the sessions.                                            *)

\* Only the session that may work has uncommitted writes.
LEMMA OneWriter ==
  ASSUME IInv, NEW s \in Sess, owner \in {0, s}
  PROVE  /\ Buffer = [r \in Sess |-> IF r = s THEN txWrites ELSE {}]
         /\ ~ inTx => txWrites = {}
<1>1. \A w \in txWrites : w.by = s
  BY DEF IInv, TypeOK, TransactionOwned
<1>2. \A r \in Sess : {w \in txWrites : w.by = r} = IF r = s THEN txWrites ELSE {}
  BY <1>1
<1>3. QED
  BY <1>2 DEF Buffer, IInv, TransactionOwned

\* A step that leaves the writes of the transaction alone leaves the buffers.
LEMMA BufferKept ==
  ASSUME UNCHANGED txWrites PROVE Buffer' = Buffer
BY DEF Buffer

\* Without writes in the transaction every buffer is empty.
LEMMA BufferEmptied ==
  ASSUME txWrites' = {} PROVE Buffer' = [r \in Sess |-> {}]
BY DEF Buffer

\* The step of SessionStore that a step of a session maps to, by operation.
LEMMA FailureMaps ==
  ASSUME UNCHANGED <<txWrites, committed>>, lastRead' \in {lastRead, NoRead}
  PROVE  Store!Next
BY DEF Store!Next, Store!Nothing, Store!Forgets, Store!NoRead, NoRead

\* A rollback is one of the store.
LEMMA RollbackMaps ==
  ASSUME IInv, NEW s \in Sess, owner \in {0, s}, NEW ok \in BOOLEAN, RollbackTx(ok),
         lastRead' \in {lastRead, NoRead}
  PROVE  Store!Next
<1>1. Buffer' = [Buffer EXCEPT ![s] = {}]
  BY OneWriter, BufferEmptied DEF RollbackTx
<1>2. Store!Rollback(s)
  BY <1>1 DEF Store!Rollback, Store!Forgets, Store!NoRead, NoRead, RollbackTx, Buffer
<1>3. QED
  BY <1>2 DEF Store!Next

\* A session that may use the connection is alone with its writes.
LEMMA AloneMaps ==
  ASSUME IInv, NEW s \in Sess, owner \in {0, s}
  PROVE  Store!Alone(s)
BY OneWriter DEF Store!Alone, Buffer

\* A commit is one of the store, or a rollback if it fails.
LEMMA CommitMaps ==
  ASSUME IInv, NEW s \in Sess, owner \in {0, s}, NEW ok \in BOOLEAN, CommitTx(ok),
         lastRead' = NoRead
  PROVE  Store!Next
<1>1. CASE UNCHANGED <<txWrites, committed>>
  BY <1>1, FailureMaps
<1>2. CASE txWrites' = {} /\ committed' = committed \cup txWrites
  <2>1. Buffer' = [Buffer EXCEPT ![s] = {}] /\ Buffer[s] = txWrites
    BY <1>2, OneWriter, BufferEmptied
  <2>2. Store!Commit(s)
    BY <1>2, <2>1, AloneMaps DEF Store!Commit, Store!Forgets, Store!NoRead, NoRead, Buffer
  <2>3. QED
    BY <2>2 DEF Store!Next
<1>3. QED
  BY <1>1, <1>2 DEF CommitTx

\* A read is one of the store.
LEMMA ReadMaps ==
  ASSUME RInv, NEW s \in Sess, owner \in {0, s}, ReadRows(TRUE),
         lastRead' = [by |-> s, saw |-> Visible]
  PROVE  Store!Next
<1>1. Buffer[s] = txWrites /\ Buffer' = Buffer
  BY OneWriter, BufferKept DEF ReadRows, RInv
<1>2. stale = {}
  BY DEF ReadRows, RInv, StaleHidden
<1>3. Visible = committed \cup Buffer[s]
  BY <1>1, <1>2 DEF Visible
<1>4. Store!Read(s)
  BY <1>1, <1>3, AloneMaps DEF Store!Read, ReadRows, RInv, Buffer
<1>5. QED
  BY <1>4 DEF Store!Next

\* A write is one of the store.
LEMMA WriteMaps ==
  ASSUME IInv, NEW s \in Sess, owner \in {0, s}, NEW ok \in BOOLEAN, WriteRow(s, ok),
         lastRead' = NoRead
  PROVE  Store!Next
<1> DEFINE w == [by |-> s, no |-> written + 1]
<1>1. CASE UNCHANGED <<txWrites, committed>>
  BY <1>1, FailureMaps
<1>2. CASE /\ written < MaxWrites
           /\ txWrites' = IF inTx THEN txWrites \cup {w} ELSE txWrites
           /\ committed' = IF inTx THEN committed ELSE committed \cup {w}
  <2>1. w \in Write /\ w.by = s
    <3>1. written \in 0 .. MaxWrites /\ written < MaxWrites
      BY <1>2 DEF IInv, TypeOK
    <3>2. written + 1 \in 1 .. MaxWrites
      BY <3>1, SessionAssumption DEF SessionAssumption
    <3>3. QED
      BY <3>2 DEF Write
  <2>2. w \in Store!WriteOf(s)
    BY <2>1 DEF Store!WriteOf
  <2> HIDE DEF w
  <2>3. inTx \in BOOLEAN
    BY DEF IInv, TypeOK
  <2>4. CASE inTx
    <3>1. Buffer' = [Buffer EXCEPT ![s] = @ \cup {w}]
      <4>1. \A r \in Sess : {v \in txWrites \cup {w} : v.by = r} =
              IF r = s THEN {v \in txWrites : v.by = r} \cup {w}
              ELSE {v \in txWrites : v.by = r}
        BY <2>1
      <4>2. txWrites' = txWrites \cup {w}
        BY <1>2, <2>4
      <4>3. Buffer' = [r \in Sess |-> {v \in txWrites \cup {w} : v.by = r}]
        BY <4>2 DEF Buffer
      <4>4. \A r \in Sess : {v \in txWrites \cup {w} : v.by = r} =
                           IF r = s THEN Buffer[r] \cup {w} ELSE Buffer[r]
        BY <4>1 DEF Buffer
      <4>5. DOMAIN Buffer = Sess
        BY DEF Buffer
      <4> HIDE DEF Buffer
      <4>6. QED
        BY <4>3, <4>4, <4>5
    <3>2. Store!Write(s)
      BY <1>2, <2>2, <2>4, <3>1, AloneMaps
         DEF Store!Write, Store!Forgets, Store!NoRead, NoRead, Buffer
    <3>3. QED
      BY <3>2 DEF Store!Next
  <2>5. CASE ~ inTx
    <3>1. Buffer[s] = {} /\ Buffer' = Buffer
      BY <1>2, <2>5, OneWriter, BufferKept
    <3>2. Store!Autocommit(s)
      BY <1>2, <2>2, <2>5, <3>1, AloneMaps
         DEF Store!Autocommit, Store!Forgets, Store!NoRead, NoRead, Buffer
    <3>3. QED
      BY <3>2 DEF Store!Next
  <2>6. QED
    BY <2>3, <2>4, <2>5
<1>3. QED
  BY <1>1, <1>2 DEF WriteRow

\* Every statement is a step of the store.
LEMMA OperationMaps ==
  ASSUME RInv, NEW s \in Sess, owner \in {0, s}, NEW op, NEW ok \in BOOLEAN,
         Operation(op, s, ok)
  PROVE  Store!Next
<1>1. IInv
  BY DEF RInv
<1>2. CASE op = "read" /\ ok
  <2>1. ReadRows(TRUE) /\ lastRead' = [by |-> s, saw |-> Visible]
    BY <1>2 DEF Operation
  <2>2. QED
    BY <2>1, ReadMaps
<1>3. CASE ~ (op = "read" /\ ok)
  <2>1. lastRead' = NoRead
    BY <1>3 DEF Operation
  <2>2. CASE Begin(ok) \/ ReadRows(ok)
    BY <2>1, <2>2, FailureMaps DEF Begin, ReadRows
  <2>3. CASE WriteRow(s, ok)
    BY <1>1, <2>1, <2>3, WriteMaps
  <2>4. CASE CommitTx(ok)
    BY <1>1, <2>1, <2>4, CommitMaps
  <2>5. CASE RollbackTx(ok)
    BY <1>1, <2>1, <2>5, RollbackMaps
  <2>6. QED
    BY <2>2, <2>3, <2>4, <2>5 DEF Operation
<1>4. QED
  BY <1>2, <1>3

-----------------------------------------------------------------------------
(* The refinement.                                                         *)

\* The store starts as it should.
LEMMA InitMaps == Init => Store!Init
BY DEF Init, Store!Init, NoRead, Store!NoRead

\* Every step is a step of the store, or none.
LEMMA StepMaps ==
  ASSUME RInv, [Next]_vars PROVE [Store!Next]_(Store!vars)
<1>1. IInv
  BY DEF RInv
<1>2. CASE UNCHANGED connection
  BY <1>2 DEF connection, Store!vars
<1>3. CASE \E ok \in BOOLEAN : owner \in Sess /\ UNCHANGED lastRead /\ RollbackTx(ok)
  BY <1>1, <1>3, RollbackMaps
<1>4. CASE \E s \in Sess, op \in Op, ok \in BOOLEAN : owner \in {0, s} /\ Operation(op, s, ok)
  BY <1>4, OperationMaps
<1>5. QED
  BY <1>1, <1>2, <1>3, <1>4, StepCases

\* The invariant always holds when no rollback fails after the pager.
LEMMA RInvariant ==
  ASSUME "read" \notin Faults PROVE Spec => []RInv
<1>1. Init => RInv
  BY InitInv DEF RInv, StaleHidden, Init
<1>2. RInv /\ [Next]_vars => RInv'
  BY NextInv, HiddenInv DEF RInv
<1>3. QED
  BY <1>1, <1>2, PTL DEF Spec

\* As long as no rollback fails after the pager has rolled back, sessions are
\* isolated: every execution is one of SessionStore, where a session writes, reads
\* and commits only while no other one has uncommitted writes.
THEOREM Isolation ==
  ASSUME "read" \notin Faults PROVE Spec => ImplementsSessionStore
<1>1. Spec => []RInv
  BY RInvariant
<1>2. RInv /\ [Next]_vars => [Store!Next]_(Store!vars)
  BY StepMaps
<1>3. QED
  BY <1>1, <1>2, InitMaps, PTL DEF Spec, ImplementsSessionStore, Store!Spec

==============================================================================

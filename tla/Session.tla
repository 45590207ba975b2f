------------------------------- MODULE Session -------------------------------
(***************************************************************************)
(* Sessions over one connection (src/session.rs).                          *)
(*                                                                         *)
(* Every call of a session runs under the mutex of the shared state, from  *)
(* the checks to the notification, except while it sleeps on the condition *)
(* variable: Access is therefore one action, which a thread that was put   *)
(* to sleep takes again when it is woken.  The connection knows only one   *)
(* transaction; what keeps the sessions apart is the owner.                *)
(*                                                                         *)
(* The connection is modelled by what a session can tell of it: the open   *)
(* transaction, its writes, the committed writes, whether its storage      *)
(* requires a reopen, and the writes that were rolled back in the pager    *)
(* but are still in the memory engine.                                     *)
(***************************************************************************)
EXTENDS Naturals, Functions

CONSTANTS
  Thread,      \* threads of the application
  MaxSessions, \* bound: sessions created
  MaxWrites,   \* bound: writes
  Uses,        \* subset of {"statement", "closure"}: what threads call
  Clones,      \* threads may share a session
  Waits,       \* the busy timeouts, as sets: TRUE when it is above zero
  Faults       \* subset of {"wal", "read"}: the I/O that may fail

ASSUME SessionAssumption ==
  /\ MaxSessions \in Nat /\ MaxWrites \in Nat
  /\ Uses \subseteq {"statement", "closure"} /\ Clones \in BOOLEAN
  /\ Waits \subseteq BOOLEAN /\ Faults \subseteq {"wal", "read"}

VARIABLES
  \* the shared state
  owner,     \* the session that owns the transaction, 0 when there is none
  nextId,    \* the next session
  poisoned,  \* a rollback failed while a session was dropped
  dbOpen,    \* the connection is there
  closed,    \* per session
  patient,   \* per session: its busy timeout is above zero
  \* the connection
  inTx,      \* a transaction is open
  txWrites,  \* its writes
  committed, \* the committed writes
  ioFailed,  \* storage requires a reopen
  stale,     \* writes rolled back in the pager, not in the memory engine
  written,   \* writes so far
  lastRead,  \* what the last operation read, and for whom
  \* the threads
  handle,    \* per thread: the session it uses, 0 when none
  th         \* per thread: the call it is in, and its transaction closure

shared     == <<owner, nextId, poisoned, dbOpen, closed, patient>>
connection == <<inTx, txWrites, committed, ioFailed, stale, written, lastRead>>
vars       == <<shared, connection, handle, th>>

Sess   == 1 .. MaxSessions
Write  == [by : Sess, no : 1 .. MaxWrites]
Op     == {"begin", "write", "read", "commit", "rollback"}
NoRead == [by |-> 0, saw |-> {}]
Resting == [phase |-> "idle", late |-> FALSE,
            job |-> "none", mine |-> {}, verdict |-> "none"]

Idle(t)    == th[t].phase = "idle"
Users(s)   == {t \in Thread : handle[t] = s}

-----------------------------------------------------------------------------
(* The connection: what an operation of session s does, and whether it     *)
(* succeeds.                                                               *)

Begin(ok) ==
  /\ ok <=> ~ inTx /\ ~ ioFailed
  /\ inTx' = (inTx \/ ok)
  /\ UNCHANGED <<txWrites, committed, ioFailed, stale, written>>

\* Without a transaction the statement is one.  It may be refused; its undoing
\* truncates the WAL, which may fail, or repair it.
WriteRow(s, ok) ==
  LET w == [by |-> s, no |-> written + 1]
  IN /\ \/ /\ ok /\ ~ ioFailed /\ written < MaxWrites
           /\ written' = written + 1
           /\ txWrites' = IF inTx THEN txWrites \cup {w} ELSE txWrites
           /\ committed' = IF inTx THEN committed ELSE committed \cup {w}
           /\ UNCHANGED ioFailed
        \/ /\ ~ ok
           /\ \/ UNCHANGED ioFailed
              \/ ~ inTx /\ ~ ioFailed /\ "wal" \in Faults /\ ioFailed' = TRUE
              \/ inTx /\ ioFailed' = FALSE
           /\ UNCHANGED <<written, txWrites, committed>>
     /\ UNCHANGED <<inTx, stale>>

ReadRows(ok) ==
  /\ ok <=> ~ ioFailed
  /\ UNCHANGED <<inTx, txWrites, committed, ioFailed, stale, written>>

\* A commit that fails leaves the transaction open; undoing its frames may
\* fail too.
CommitTx(ok) ==
  /\ \/ /\ ok /\ inTx /\ ~ ioFailed
        /\ inTx' = FALSE /\ txWrites' = {}
        /\ committed' = committed \cup txWrites
        /\ UNCHANGED ioFailed
     \/ /\ ~ ok /\ inTx /\ (ioFailed \/ "wal" \in Faults)
        /\ ioFailed' \in BOOLEAN
        /\ UNCHANGED <<inTx, txWrites, committed>>
     \/ /\ ~ ok /\ ~ inTx
        /\ UNCHANGED <<inTx, txWrites, committed, ioFailed>>
  /\ UNCHANGED <<stale, written>>

\* The transaction is gone before anything can fail: the truncation of the WAL,
\* or the reading of what the rollback restored.
RollbackTx(ok) ==
  /\ \/ /\ ok /\ inTx
        /\ ioFailed' = FALSE /\ stale' = {}
     \/ /\ ~ ok /\ inTx
        /\ stale' = stale \cup txWrites
        /\ \/ "wal" \in Faults /\ ioFailed' = TRUE
           \/ "read" \in Faults /\ ioFailed' = FALSE
     \/ /\ ~ ok /\ ~ inTx
        /\ UNCHANGED <<ioFailed, stale>>
  /\ inTx' = FALSE /\ txWrites' = {}
  /\ UNCHANGED <<committed, written>>

Visible == committed \cup txWrites \cup stale

Operation(op, s, ok) ==
  /\ \/ op = "begin"    /\ Begin(ok)
     \/ op = "write"    /\ WriteRow(s, ok)
     \/ op = "read"     /\ ReadRows(ok)
     \/ op = "commit"   /\ CommitTx(ok)
     \/ op = "rollback" /\ RollbackTx(ok)
  /\ lastRead' = IF op = "read" /\ ok THEN [by |-> s, saw |-> Visible] ELSE NoRead

-----------------------------------------------------------------------------
(* A call, and what Session::transaction does with its result: begin, the  *)
(* closure, commit or rollback, and the rollback of the guard.             *)

Asking(t, job) ==
  [th[t] EXCEPT !.phase = "ready", !.job = job, !.late = ~ patient[handle[t]]]

\* What a call may ask for.
Requests(job) ==
  CASE job = "begin"             -> {"begin"}
    [] job = "body"              -> {"read", "write"}
    [] job = "commit"            -> {"commit"}
    [] job \in {"undo", "guard"} -> {"rollback"}
    [] OTHER                     -> Op

\* Fault: the guard is disarmed before the commit.
FollowDisarmed(job, ok) ==
  CASE job \in {"none", "body"} -> job
    [] job = "begin" /\ ok      -> "body"
    [] job = "undo" /\ ~ ok     -> "guard"
    [] OTHER                    -> "none"

\* The job that follows, by the job of a call and its result.
Follow(job, ok) ==
  CASE job \in {"none", "body"}             -> job
    [] job = "begin" /\ ok                  -> "body"
    [] job \in {"commit", "undo"} /\ ~ ok   -> "guard"
    [] OTHER                                -> "none"

Returned(t, ok) ==
  LET job  == th[t].job
      next == Follow(job, ok)
      made == IF job = "body" /\ ok THEN {w \in txWrites' \cup committed' : w.no > written}
                                    ELSE {}
  IN IF next = "guard" THEN Asking(t, "guard")
     ELSE [phase |-> "idle", late |-> FALSE, job |-> next,
           mine |-> th[t].mine \cup made,
           verdict |-> IF next = job \/ next = "body" THEN th[t].verdict
                       ELSE IF job = "commit" THEN "committed" ELSE "failed"]

\* A thread asks for a statement, inside a transaction closure or outside.
Call(t) ==
  /\ Idle(t) /\ handle[t] # 0
  /\ "statement" \in Uses \/ th[t].job = "body"
  /\ th' = [th EXCEPT ![t] = Asking(t, th[t].job)]
  /\ UNCHANGED <<shared, connection, handle>>

\* Session::transaction
Transaction(t) ==
  /\ "closure" \in Uses
  /\ Idle(t) /\ handle[t] # 0 /\ th[t].job = "none"
  /\ th' = [th EXCEPT ![t] = [Asking(t, "begin") EXCEPT
                                !.mine = {}, !.verdict = "none"]]
  /\ UNCHANGED <<shared, connection, handle>>

\* The closure returns a value, returns an error, or panics.
CallbackEnds(t) ==
  /\ Idle(t) /\ th[t].job = "body"
  /\ \E job \in {"commit", "undo", "guard"} :
       th' = [th EXCEPT ![t] = Asking(t, job)]
  /\ UNCHANGED <<shared, connection, handle>>

-----------------------------------------------------------------------------
(* Session::access                                                         *)

Mine(t)    == owner \in {0, handle[t]}
Refused(t) == closed[handle[t]] \/ poisoned \/ ~ dbOpen

\* Fault: the sleepers are not notified.
WokenNone(f) == f

\* changed.notify_all()
Woken(f) == [u \in Thread |->
               IF f[u].phase = "asleep" THEN [f[u] EXCEPT !.phase = "ready"] ELSE f[u]]

Refuse(t) ==
  /\ Refused(t) \/ (~ Mine(t) /\ th[t].late)
  /\ th' = [th EXCEPT ![t] = Returned(t, FALSE)]
  /\ UNCHANGED <<shared, connection, handle>>

Sleep(t) ==
  /\ ~ Refused(t) /\ ~ Mine(t) /\ ~ th[t].late
  /\ th' = [th EXCEPT ![t].phase = "asleep"]
  /\ UNCHANGED <<shared, connection, handle>>

\* Fault: a session is served although another one owns the transaction.
ServeAnyone(t) ==
  /\ ~ Refused(t)
  /\ \E op \in Requests(th[t].job), ok \in BOOLEAN :
       /\ Operation(op, handle[t], ok)
       /\ owner' = IF inTx' THEN handle[t] ELSE 0
       /\ LET f == [th EXCEPT ![t] = Returned(t, ok)]
          IN  th' = IF owner' = 0 THEN Woken(f) ELSE f
  /\ UNCHANGED <<nextId, poisoned, dbOpen, closed, patient, handle>>

Serve(t) ==
  /\ ~ Refused(t) /\ Mine(t)
  /\ \E op \in Requests(th[t].job), ok \in BOOLEAN :
       /\ Operation(op, handle[t], ok)
       /\ owner' = IF inTx' THEN handle[t] ELSE 0
       /\ LET f == [th EXCEPT ![t] = Returned(t, ok)]
          IN  th' = IF owner' = 0 THEN Woken(f) ELSE f
  /\ UNCHANGED <<nextId, poisoned, dbOpen, closed, patient, handle>>

Access(t) ==
  /\ th[t].phase = "ready"
  /\ Refuse(t) \/ Sleep(t) \/ Serve(t)

\* Fault: the sleeper waits for a notification only.
ElapseUnnoticed(t) ==
  /\ ~ Idle(t) /\ ~ th[t].late
  /\ th' = [th EXCEPT ![t].late = TRUE]
  /\ UNCHANGED <<shared, connection, handle>>

\* The busy timeout elapses, also while the thread waits for the mutex.
Elapse(t) ==
  /\ ~ Idle(t) /\ ~ th[t].late
  /\ th' = [th EXCEPT ![t].phase = "ready", ![t].late = TRUE]
  /\ UNCHANGED <<shared, connection, handle>>

-----------------------------------------------------------------------------
(* Handles.                                                                *)

\* Fault: the exhaustion of the session numbers goes unnoticed.
NewSessionUnchecked(t) ==
  /\ handle[t] = 0 /\ dbOpen
  /\ handle' = [handle EXCEPT ![t] = nextId]
  /\ nextId' = nextId + 1
  /\ \E wait \in Waits : patient' = [patient EXCEPT ![nextId] = wait]
  /\ UNCHANGED <<owner, poisoned, dbOpen, closed, connection, th>>

\* SessionDatabase::session_with_timeout
NewSession(t) ==
  /\ handle[t] = 0 /\ dbOpen /\ nextId \in Sess
  /\ handle' = [handle EXCEPT ![t] = nextId]
  /\ nextId' = nextId + 1
  /\ \E wait \in Waits : patient' = [patient EXCEPT ![nextId] = wait]
  /\ UNCHANGED <<owner, poisoned, dbOpen, closed, connection, th>>

\* Session is Clone.
Clone(t) ==
  /\ Clones /\ handle[t] = 0
  /\ \E u \in Thread : handle[u] # 0 /\ handle' = [handle EXCEPT ![t] = handle[u]]
  /\ UNCHANGED <<shared, connection, th>>

\* Fault: Session::close gives the ownership up and forgets the transaction.
CloseKeepsTx(t) ==
  /\ Idle(t) /\ handle[t] # 0
  /\ LET s == handle[t]
     IN /\ ~ closed[s]
        /\ closed' = [closed EXCEPT ![s] = TRUE]
        /\ IF owner = s THEN owner' = 0 /\ th' = Woken(th) ELSE UNCHANGED <<owner, th>>
  /\ UNCHANGED <<nextId, poisoned, dbOpen, patient, connection, handle>>

\* Session::close.  When the rollback fails it returns at once.
Close(t) ==
  /\ Idle(t) /\ handle[t] # 0
  /\ LET s == handle[t]
     IN /\ ~ closed[s]
        /\ \/ /\ owner # s
              /\ closed' = [closed EXCEPT ![s] = TRUE]
              /\ UNCHANGED <<owner, th, connection>>
           \/ /\ owner = s /\ RollbackTx(TRUE)
              /\ closed' = [closed EXCEPT ![s] = TRUE] /\ lastRead' = lastRead
              /\ owner' = 0 /\ th' = Woken(th)
           \/ /\ owner = s /\ RollbackTx(FALSE)
              /\ UNCHANGED <<lastRead, closed, owner, th>>
  /\ UNCHANGED <<nextId, poisoned, dbOpen, patient, handle>>

\* A handle is dropped; the last one of the owner rolls back (SessionHandle::drop).
Drop(t) ==
  /\ Idle(t) /\ handle[t] # 0 /\ th[t].job = "none"
  /\ handle' = [handle EXCEPT ![t] = 0]
  /\ IF Users(handle[t]) = {t} /\ owner = handle[t]
       THEN /\ \E ok \in BOOLEAN : RollbackTx(ok) /\ poisoned' = (poisoned \/ ~ ok)
            /\ owner' = 0 /\ th' = Woken(th) /\ UNCHANGED lastRead
       ELSE UNCHANGED <<connection, poisoned, owner, th>>
  /\ UNCHANGED <<nextId, dbOpen, closed, patient>>

\* SessionDatabase::close.  Closing the connection rolls back, and takes a
\* checkpoint, which may fail.
CloseDatabase ==
  /\ dbOpen /\ owner = 0
  /\ ~ ioFailed
  /\ dbOpen' = FALSE
  /\ IF inTx THEN RollbackTx(TRUE) /\ UNCHANGED lastRead ELSE UNCHANGED connection
  /\ th' = Woken(th)
  /\ UNCHANGED <<owner, nextId, poisoned, closed, patient, handle>>

-----------------------------------------------------------------------------
Init ==
  /\ owner = 0 /\ nextId = 1 /\ poisoned = FALSE /\ dbOpen = TRUE
  /\ closed = [s \in Sess |-> FALSE] /\ patient = [s \in Sess |-> FALSE]
  /\ inTx = FALSE /\ txWrites = {} /\ committed = {}
  /\ ioFailed = FALSE /\ stale = {} /\ written = 0
  /\ lastRead = NoRead
  /\ handle = [t \in Thread |-> 0]
  /\ th = [t \in Thread |-> Resting]

Step(t) ==
  \/ NewSession(t) \/ Clone(t) \/ Call(t) \/ Transaction(t) \/ CallbackEnds(t)
  \/ Access(t) \/ Elapse(t) \/ Close(t) \/ Drop(t)

Next == CloseDatabase \/ \E t \in Thread : Step(t)

\* The mutex is handed to everyone who waits for it, and time passes.
Fairness == \A t \in Thread : WF_vars(Access(t)) /\ WF_vars(Elapse(t))

Spec == Init /\ [][Next]_vars /\ Fairness

-----------------------------------------------------------------------------
(* Properties.                                                             *)

ThreadState ==
  [phase : {"idle", "ready", "asleep"}, late : BOOLEAN,
   job : {"none", "begin", "body", "commit", "undo", "guard"},
   mine : SUBSET Write, verdict : {"none", "committed", "failed"}]

TypeOK ==
  /\ owner \in 0 .. MaxSessions /\ nextId \in 1 .. MaxSessions + 1
  /\ poisoned \in BOOLEAN /\ dbOpen \in BOOLEAN
  /\ closed \in [Sess -> BOOLEAN] /\ patient \in [Sess -> BOOLEAN]
  /\ inTx \in BOOLEAN /\ txWrites \subseteq Write /\ committed \subseteq Write
  /\ ioFailed \in BOOLEAN /\ stale \subseteq Write /\ written \in 0 .. MaxWrites
  /\ lastRead \in [by : 0 .. MaxSessions, saw : SUBSET Write]
  /\ handle \in [Thread -> 0 .. MaxSessions]
  /\ th \in [Thread -> ThreadState]

\* An open transaction has an owner, which made all of its writes and is not a
\* session that was closed or has no handle left.
TransactionHasOwner ==
  inTx => /\ owner # 0 /\ ~ closed[owner] /\ Users(owner) # {}
          /\ \A w \in txWrites : w.by = owner

\* Conversely a session owns, and keeps the others out, only while a
\* transaction is open.
OwnerHasTransaction == owner # 0 => inTx

\* A transaction closure that reports success has committed all it wrote, one
\* that reports an error nothing.
AllOrNothing ==
  \A t \in Thread :
    /\ th[t].verdict = "committed" => th[t].mine \subseteq committed
    /\ th[t].verdict = "failed" => th[t].mine \cap committed = {}

\* Nobody sleeps while the transaction is free or his own, or while he could
\* only be told that the database cannot be used.
NoLostWakeup ==
  \A t \in Thread : th[t].phase = "asleep" => ~ Mine(t) /\ ~ poisoned /\ dbOpen

\* Every call returns, with an answer or Busy.
EveryCallReturns == \A t \in Thread : ~ Idle(t) ~> Idle(t)

\* Sessions are isolated: see SessionStore.
Store == INSTANCE SessionStore WITH
  Sess <- Sess, Writes <- Write, db <- committed, read <- lastRead,
  buffer <- [s \in Sess |-> {w \in txWrites : w.by = s}]

ImplementsSessionStore == Store!Spec

=============================================================================

---------------------------- MODULE SessionStore ----------------------------
(***************************************************************************)
(* What sessions promise: one database, changed by one session at a time.  *)
(* What a session writes in a transaction is its own until it commits, a   *)
(* commit publishes all of it and a rollback none.  While a session has    *)
(* uncommitted writes no other one reads, writes or commits.               *)
(***************************************************************************)
EXTENDS Naturals

CONSTANTS Sess, Writes

VARIABLES
  db,      \* the committed writes
  buffer,  \* per session: its uncommitted writes
  read     \* what the last operation read, and for whom

vars == <<db, buffer, read>>

NoRead == [by |-> 0, saw |-> {}]

Init ==
  /\ db = {}
  /\ buffer = [s \in Sess |-> {}]
  /\ read = NoRead

\* An operation that is not a read leaves nothing read, or what was.
Forgets == read' \in {read, NoRead}

\* No other session has uncommitted writes.
Alone(s) == \A r \in Sess \ {s} : buffer[r] = {}

\* A write names the session that made it.
WriteOf(s) == {w \in Writes : w.by = s}

\* A write of a transaction, and one that is its own transaction.
Write(s) ==
  /\ Alone(s)
  /\ \E w \in WriteOf(s) : buffer' = [buffer EXCEPT ![s] = @ \cup {w}]
  /\ UNCHANGED db /\ Forgets

Autocommit(s) ==
  /\ Alone(s)
  /\ buffer[s] = {}
  /\ \E w \in WriteOf(s) : db' = db \cup {w}
  /\ UNCHANGED buffer /\ Forgets

Commit(s) ==
  /\ Alone(s)
  /\ db' = db \cup buffer[s]
  /\ buffer' = [buffer EXCEPT ![s] = {}]
  /\ Forgets

Rollback(s) ==
  /\ buffer' = [buffer EXCEPT ![s] = {}]
  /\ UNCHANGED db /\ Forgets

Read(s) ==
  /\ Alone(s)
  /\ read' = [by |-> s, saw |-> db \cup buffer[s]]
  /\ UNCHANGED <<db, buffer>>

\* BEGIN, and what fails.
Nothing == UNCHANGED <<db, buffer>> /\ Forgets

Next == Nothing \/ \E s \in Sess :
  Write(s) \/ Autocommit(s) \/ Commit(s) \/ Rollback(s) \/ Read(s)

Spec == Init /\ [][Next]_vars
=============================================================================

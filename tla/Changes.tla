------------------------------- MODULE Changes -------------------------------
(***************************************************************************)
(* The change feed of a Connection (src/lib.rs, src/realtime/mod.rs).      *)
(* Clones of a connection share one pager, one list of pending changes and *)
(* one event bus, and may be used by several threads.                      *)
(*                                                                         *)
(* A statement runs under the locks of pager and executor.  What it means  *)
(* for the feed is done after both were released, from what was captured   *)
(* while they were held: a change is queued (queue_change), the pending    *)
(* changes are published or dropped (finish_pending_changes), or those of  *)
(* savepoints undone are dropped (discard_changes_after_savepoint).  These *)
(* take the mutex of the list; the events they hand out are then published *)
(* one at a time, without any lock.                                        *)
(*                                                                         *)
(* A change is named by a number.  Savepoints are named by their position, *)
(* the outermost 1.                                                        *)
(***************************************************************************)
EXTENDS Naturals, Sequences, SequencesExt

CONSTANTS
  Thread,     \* threads that use the connection
  MaxChanges, \* bound: statements that change rows
  MaxDepth,   \* bound: named savepoints open at once
  Calls       \* subset of {"transaction", "savepoint", "release"}: what is used

ChangesAssumption ==
  /\ MaxChanges \in Nat /\ MaxDepth \in Nat
  /\ Calls \subseteq {"transaction", "savepoint", "release"}

VARIABLES
  inTx,      \* a transaction is open
  depth,     \* Pager::savepoint_depth
  open,      \* changes of the open transaction, each with its savepoint
  committed, \* history: the committed changes, in the order of their commits
  pending,   \* pending_changes: each change with the depth captured for it
  call,      \* per thread: the part of its statement that follows the unlock
  ready,     \* per thread: the events it has yet to publish
  published, \* history: the events that subscribers have received
  moved,     \* history: the changes whose savepoint was released
  stranded,  \* history: those that were undone, and whose undoing then failed
  changes    \* changes made so far

dbVars   == <<inTx, depth, open, committed, moved, stranded, changes>>
feedVars == <<dbVars, pending, call, ready, published>>

Change == 1 .. MaxChanges
Entry  == [change : Change, depth : 0 .. MaxDepth]
NoCall == [do |-> "none"]
Call   == {NoCall} \cup [do : {"queue"}, entry : Entry, inTx : BOOLEAN]
                 \cup [do : {"discard"}, depth : 0 .. MaxDepth]
                 \cup [do : {"publish", "drop"}]

NamesOf(s) == [i \in DOMAIN s |-> s[i].change]

\* Vec::retain: of the entries s, those made with at most d savepoints open.
Retained(s, d) ==
  LET kept[n \in 0 .. Len(s)] ==
        IF n = 0 THEN <<>>
        ELSE IF s[n].depth <= d THEN Append(kept[n - 1], s[n])
        ELSE kept[n - 1]
  IN  kept[Len(s)]

\* The entries s, those of the savepoint at position k and inside it given to what
\* surrounds it.
Lowered(s, k) ==
  [i \in DOMAIN s |-> [s[i] EXCEPT !.depth = IF @ < k THEN @ ELSE k - 1]]

\* The changes of the savepoint at position k and inside it; all, for 0.
Since(k) == {e.change : e \in {f \in ToSet(open) : f.depth >= k}}

-----------------------------------------------------------------------------
(* Statements, while the locks are held.                                   *)

Idle(t) == call[t] = NoCall /\ ready[t] = <<>>

Then(t, c) ==
  /\ Idle(t)
  /\ call' = [call EXCEPT ![t] = c]
  /\ UNCHANGED <<pending, ready, published>>

\* INSERT, UPDATE or DELETE.
Mutate(t) ==
  /\ changes < MaxChanges
  /\ changes' = changes + 1
  /\ LET e == [change |-> changes + 1, depth |-> depth]
     IN  /\ Then(t, [do |-> "queue", entry |-> e, inTx |-> inTx])
         /\ open' = IF inTx THEN Append(open, e) ELSE open
         /\ committed' = IF inTx THEN committed ELSE Append(committed, e.change)
  /\ UNCHANGED <<inTx, depth, moved, stranded>>

Begin(t) ==
  /\ "transaction" \in Calls
  /\ ~ inTx
  /\ Then(t, NoCall)
  /\ inTx' = TRUE
  /\ UNCHANGED <<depth, open, committed, moved, stranded, changes>>

\* COMMIT, and Connection::commit.
CommitTx(t) ==
  /\ inTx
  /\ Then(t, [do |-> "publish"])
  /\ committed' = committed \o NamesOf(open)
  /\ inTx' = FALSE /\ depth' = 0 /\ open' = <<>>
  /\ UNCHANGED <<moved, stranded, changes>>

\* ROLLBACK, and Connection::rollback.
Rollback(t) ==
  /\ inTx
  /\ Then(t, [do |-> "drop"])
  /\ inTx' = FALSE /\ depth' = 0 /\ open' = <<>>
  /\ UNCHANGED <<committed, moved, stranded, changes>>

\* The pager has rolled back when truncating the log fails, or loading catalog, graph, memories
\* or vectors anew: the call returns the error, and the changes stay pending.
RollbackFails(t) ==
  /\ inTx
  /\ Then(t, NoCall)
  /\ inTx' = FALSE /\ depth' = 0 /\ open' = <<>>
  /\ stranded' = stranded \cup Since(0)
  /\ UNCHANGED <<committed, moved, changes>>

\* SAVEPOINT begins a transaction when there is none.
Savepoint(t) ==
  /\ "savepoint" \in Calls
  /\ depth < MaxDepth
  /\ Then(t, NoCall)
  /\ inTx' = TRUE /\ depth' = depth + 1
  /\ UNCHANGED <<open, committed, moved, stranded, changes>>

\* ROLLBACK TO the savepoint at position k, which stays open.
RollbackTo(t) ==
  \E k \in 1 .. depth :
    /\ Then(t, [do |-> "discard", depth |-> k - 1])
    /\ open' = Retained(open, k - 1)
    /\ depth' = k
    /\ UNCHANGED <<inTx, committed, moved, stranded, changes>>

\* As RollbackFails.  The savepoints are undone from the innermost on, and the last of them
\* that was is open again only when all were.
RollbackToFails(t) ==
  \E k \in 1 .. depth :
    /\ Then(t, NoCall)
    /\ open' = Retained(open, k - 1)
    /\ stranded' = stranded \cup Since(k)
    /\ depth' \in {k - 1, k}
    /\ UNCHANGED <<inTx, committed, moved, changes>>

\* RELEASE: what was done since the savepoint belongs to what surrounds it.
Release(t) ==
  /\ "release" \in Calls
  /\ \E k \in 1 .. depth :
       /\ Then(t, NoCall)
       /\ open' = Lowered(open, k)
       /\ moved' = moved \cup Since(k)
       /\ depth' = k - 1
  /\ UNCHANGED <<inTx, committed, stranded, changes>>

-----------------------------------------------------------------------------
(* The feed, after the locks were released.                                *)

\* queue_change.  Outside a transaction it also takes whatever is pending.
Queue(t) ==
  /\ call[t].do = "queue"
  /\ IF call[t].inTx
       THEN pending' = Append(pending, call[t].entry) /\ UNCHANGED ready
       ELSE /\ ready' = [ready EXCEPT ![t] = Append(NamesOf(pending), call[t].entry.change)]
            /\ pending' = <<>>
  /\ call' = [call EXCEPT ![t] = NoCall]
  /\ UNCHANGED <<dbVars, published>>

\* Fault: the changes made before the savepoint are dropped with the others.
DiscardAll(t) ==
  /\ call[t].do = "discard"
  /\ pending' = <<>>
  /\ call' = [call EXCEPT ![t] = NoCall]
  /\ UNCHANGED <<dbVars, ready, published>>

\* discard_changes_after_savepoint
Discard(t) ==
  /\ call[t].do = "discard"
  /\ pending' = Retained(pending, call[t].depth)
  /\ call' = [call EXCEPT ![t] = NoCall]
  /\ UNCHANGED <<dbVars, ready, published>>

\* Fault: a rollback leaves the changes pending.
FinishKept(t) ==
  /\ call[t].do \in {"publish", "drop"}
  /\ ready' = [ready EXCEPT ![t] = IF call[t].do = "publish" THEN NamesOf(pending) ELSE <<>>]
  /\ pending' = IF call[t].do = "publish" THEN <<>> ELSE pending
  /\ call' = [call EXCEPT ![t] = NoCall]
  /\ UNCHANGED <<dbVars, published>>

\* finish_pending_changes
Finish(t) ==
  /\ call[t].do \in {"publish", "drop"}
  /\ ready' = [ready EXCEPT ![t] = IF call[t].do = "publish" THEN NamesOf(pending) ELSE <<>>]
  /\ pending' = <<>>
  /\ call' = [call EXCEPT ![t] = NoCall]
  /\ UNCHANGED <<dbVars, published>>

\* RealtimeBus::publish
Publish(t) ==
  /\ ready[t] # <<>>
  /\ published' = Append(published, Head(ready[t]))
  /\ ready' = [ready EXCEPT ![t] = Tail(@)]
  /\ UNCHANGED <<dbVars, pending, call>>

-----------------------------------------------------------------------------
FeedInit ==
  /\ inTx = FALSE /\ depth = 0 /\ open = <<>> /\ committed = <<>>
  /\ moved = {} /\ stranded = {} /\ changes = 0
  /\ pending = <<>> /\ published = <<>>
  /\ call = [t \in Thread |-> NoCall] /\ ready = [t \in Thread |-> <<>>]

Statement(t) ==
  \/ Mutate(t) \/ Begin(t) \/ CommitTx(t) \/ Rollback(t)
  \/ RollbackFails(t) \/ Savepoint(t) \/ RollbackTo(t) \/ RollbackToFails(t) \/ Release(t)

\* The rest of a statement that has released its locks.
Afterwards(t) == Queue(t) \/ Discard(t) \/ Finish(t) \/ Publish(t)

FeedNext == \E t \in Thread : Statement(t) \/ Afterwards(t)

FeedSpec == FeedInit /\ [][FeedNext]_feedVars

-----------------------------------------------------------------------------
(* Properties.                                                             *)

FeedTypeOK ==
  /\ inTx \in BOOLEAN /\ depth \in 0 .. MaxDepth /\ changes \in 0 .. MaxChanges
  /\ open \in Seq(Entry) /\ pending \in Seq(Entry)
  /\ moved \subseteq Change /\ stranded \subseteq Change
  /\ committed \in Seq(Change) /\ published \in Seq(Change)
  /\ call \in [Thread -> Call] /\ ready \in [Thread -> Seq(Change)]

\* Subscribers hear of committed changes only, of each at most once.  A rollback that failed
\* after it had undone changes is the one exception: these may be published with a later commit.
OnlyCommitted ==
  /\ FeedTypeOK
  /\ ToSet(published) \subseteq ToSet(committed) \cup stranded
  /\ IsInjective(published)

\* Whatever fails, subscribers hear of committed changes only.
NeverUndone == ToSet(published) \subseteq ToSet(committed)

Quiet == ~ inTx /\ \A t \in Thread : Idle(t)

\* Once every thread is idle and no transaction is open, no committed change
\* has been lost.
NothingLost == Quiet => ToSet(committed) \subseteq ToSet(published)

\* Subscribers hear of changes in the order in which they were committed, and whatever
\* is lost was made inside a savepoint that was released: changes made before a
\* savepoint, or after a ROLLBACK TO it, are never dropped with those that it undoes.
KeptUnlessReleased ==
  /\ \A i, j \in DOMAIN published : i < j /\ {published[i], published[j]} \cap stranded = {} =>
       \E a, b \in DOMAIN committed :
         a < b /\ committed[a] = published[i] /\ committed[b] = published[j]
  /\ Quiet => ToSet(committed) \ moved \subseteq ToSet(published)

=============================================================================

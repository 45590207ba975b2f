----------------------------- MODULE Replication -----------------------------
(***************************************************************************)
(* Snapshots that databases export, ship and apply                         *)
(* (src/pager/replication.rs).                                             *)
(*                                                                         *)
(* A database is its pages, the number of its commits, and the sequence    *)
(* number of the snapshot it applied last (wal_sequence of its header).    *)
(* The content of a page is the number of the commit, counted over all     *)
(* databases, that wrote it.  The network keeps every snapshot for ever:   *)
(* it may be lost, or arrive late, twice and out of order.  A commit is    *)
(* atomic and durable, which is the subject of Wal.                        *)
(***************************************************************************)
EXTENDS Naturals, FiniteSets, FiniteSetsExt

CONSTANTS
  Node,       \* the databases
  Writers,    \* those that applications write to
  Exporters,  \* those that snapshots are taken of
  Followers,  \* those that apply snapshots
  MaxPages,   \* bound: pages of a database
  MaxCommits, \* bound: commits of applications
  MaxDamages, \* bound: snapshots that are damaged on their way
  MaxUnloaded \* bound: nodes whose last load failed

VARIABLES
  store,   \* the committed database of each node
  tx,      \* its open transaction, or NoTx
  view,    \* the caches of its executor, and what is known of them
  net,     \* the snapshots under way
  commits, \* commits of applications so far
  history  \* what each of them made of its database

vars == <<store, tx, view, net, commits, history>>

Page == 1 .. MaxPages
NoTx == [by |-> "none"]

\* A committed state: pages behind the end of the database do not exist.
Content == UNION {[1 .. n -> 0 .. MaxCommits] : n \in Page}
Empty   == [p \in {1} |-> 0]

\* The commit that made a state: each leaves its number in a page.
Version(c) == Max({c[p] : p \in DOMAIN c})

-----------------------------------------------------------------------------
(* The caches.  The catalog stands for all that is cleared before it is    *)
(* loaded.  The graph is loaded over the one in memory, where the records  *)
(* that the pages no longer have stay.                                     *)

\* The records of a state: those of each page, as the commit left them that wrote it.
Records(pages) == {<<p, pages[p]>> : p \in DOMAIN pages}

\* Caches that were cleared and filled from the pages: loaded says that the last load went
\* to its end, and left are the records that were taken from the pages behind the caches.
Fresh(pages) ==
  [catalog |-> Records(pages), graph |-> Records(pages), loaded |-> TRUE, left |-> {}]

\* A transaction changes in the caches what it changes in the pages.  What a statement that fails
\* leaves in them is the subject of Tables and of GraphStore.
Edited(records, from, to) ==
  (records \ (Records(from) \ Records(to))) \cup (Records(to) \ Records(from))

Follows(v, from, to) ==
  [v EXCEPT !.catalog = Edited(@, from, to), !.graph = Edited(@, from, to)]

Left(v, from, to) == v.left \cup (Records(from) \ Records(to))

\* reload_from_pager, after the pages were replaced.
Reloaded(v, from, to) ==
  [catalog |-> Records(to), graph |-> v.graph \cup Records(to), loaded |-> TRUE,
   left |-> Left(v, from, to)]

MayFail == Cardinality({n \in Node : ~ view[n].loaded}) < MaxUnloaded

\* The load fails: before anything was replaced, or when some records were loaded over the
\* graph that it began with.
Unloaded(v, graph, from, to) ==
  IF ~ MayFail THEN {} ELSE
  {[v EXCEPT !.loaded = FALSE, !.left = Left(v, from, to)]} \cup
  {[catalog |-> Records(to), graph |-> graph \cup some, loaded |-> FALSE,
    left |-> Left(v, from, to)] : some \in SUBSET Records(to)}

-----------------------------------------------------------------------------
(* The databases.                                                          *)

\* The pages with page p written, or added behind the others.
Overwritten(pages, p, content) ==
  [q \in DOMAIN pages \cup {p} |-> IF q = p THEN content ELSE pages[q]]

Begin(n) ==
  /\ n \in Writers /\ tx[n] = NoTx /\ commits < MaxCommits
  /\ tx' = [tx EXCEPT ![n] = [by |-> "application", pages |-> store[n].pages]]
  /\ UNCHANGED <<store, view, net, commits, history>>

\* A page is written or allocated, on behalf of the commit to come.
WritePage(n) ==
  /\ tx[n].by = "application" /\ commits < MaxCommits
  /\ \E p \in Page :
       /\ p \in DOMAIN tx[n].pages \/ p = Cardinality(DOMAIN tx[n].pages) + 1
       /\ tx' = [tx EXCEPT ![n].pages = Overwritten(@, p, commits + 1)]
  /\ UNCHANGED <<store, view, net, commits, history>>

\* commit_transaction counts the commits of this database.
Commit(n) ==
  /\ tx[n].by = "application" /\ tx[n].pages # store[n].pages /\ commits < MaxCommits
  /\ store' = [store EXCEPT ![n].pages = tx[n].pages, ![n].changes = @ + 1]
  /\ view' = [view EXCEPT ![n] = Follows(@, store[n].pages, tx[n].pages)]
  /\ commits' = commits + 1 /\ history' = history \cup {tx[n].pages}
  /\ tx' = [tx EXCEPT ![n] = NoTx]
  /\ UNCHANGED net

\* The caches are cleared and loaded.
Rollback(n) ==
  /\ tx[n].by = "application"
  /\ tx' = [tx EXCEPT ![n] = NoTx]
  /\ view' = [view EXCEPT ![n] = Fresh(store[n].pages)]
  /\ UNCHANGED <<store, net, commits, history>>

\* The call returns the error of the load; the transaction is gone.
RollbackFails(n) ==
  /\ tx[n].by = "application"
  /\ tx' = [tx EXCEPT ![n] = NoTx]
  /\ LET now == store[n].pages
     IN  \E v \in Unloaded(Follows(view[n], now, tx[n].pages), {}, tx[n].pages, now) :
           view' = [view EXCEPT ![n] = v]
  /\ UNCHANGED <<store, net, commits, history>>

\* The process ends; the next one opens the database.
Restart(n) ==
  /\ tx' = [tx EXCEPT ![n] = NoTx]
  /\ view' = [view EXCEPT ![n] = Fresh(store[n].pages)]
  /\ UNCHANGED <<store, net, commits, history>>

-----------------------------------------------------------------------------
(* Snapshots.                                                              *)

\* Fault: the sequence number does not count commits, but what was applied.
SequenceOfApplied(db) == db.applied + 1

\* create_chunk and export_chunk: the number of commits, but at least 1.
Sequence(db) == Max({db.changes, 1})

Snapshot(n) == [sequence |-> Sequence(store[n]), total |-> Cardinality(DOMAIN store[n].pages),
                frames |-> store[n].pages, intact |-> TRUE]

\* Fault: a snapshot is taken of what the cache holds.
ExportUnguarded(n) ==
  /\ n \in Exporters
  /\ net' = net \cup {[Snapshot(n) EXCEPT !.frames = IF tx[n] = NoTx THEN @ ELSE tx[n].pages,
                         !.total = Cardinality(DOMAIN (IF tx[n] = NoTx THEN store[n].pages
                                                       ELSE tx[n].pages))]}
  /\ UNCHANGED <<store, tx, view, commits, history>>

\* Connection::export_replication_chunk; require_committed_snapshot.
Export(n) ==
  /\ n \in Exporters /\ tx[n] = NoTx
  /\ net' = net \cup {Snapshot(n)}
  /\ UNCHANGED <<store, tx, view, commits, history>>

\* WalReplicationChunk::verify, and the layout of the snapshot: checksums are
\* right, and each page is there.
Valid(chunk) ==
  /\ chunk.intact
  /\ DOMAIN chunk.frames = 1 .. chunk.total

\* A frame is lost, or a page changed.
Damage ==
  /\ Cardinality({chunk \in net : ~ Valid(chunk)}) < MaxDamages
  /\ \E chunk \in net :
       /\ Valid(chunk)
       /\ \E p \in DOMAIN chunk.frames :
            \E damaged \in {[chunk EXCEPT !.intact = FALSE, !.frames = [@ EXCEPT ![p] = 0]],
                            [chunk EXCEPT !.frames = [q \in DOMAIN @ \ {p} |-> @[q]]]} :
              net' = net \cup {damaged}
  /\ UNCHANGED <<store, tx, view, commits, history>>

\* Fault: the number of the last snapshot is not looked up in the database.
NewerAnyway(n, chunk) == chunk.sequence > 0

\* A receiver is made for each call: what it knows is in the header.
Newer(n, chunk) == chunk.sequence > store[n].applied

\* apply_chunk: the header of the snapshot, and a transaction.
ApplyBegin(n) ==
  /\ n \in Followers /\ tx[n] = NoTx
  /\ \E chunk \in net :
       /\ Valid(chunk) /\ Newer(n, chunk)
       /\ tx' = [tx EXCEPT ![n] = [by |-> "receiver", chunk |-> chunk, left |-> 1 .. chunk.total,
                                   pages |-> store[n].pages]]
  /\ UNCHANGED <<store, view, net, commits, history>>

\* Fault: without a transaction, each page is a commit of its own.
ApplyFrameAlone(n) ==
  /\ tx[n].by = "receiver" /\ tx[n].left # {}
  /\ LET p == Min(tx[n].left)
     IN  /\ tx' = [tx EXCEPT ![n].left = @ \ {p}]
         /\ store' = [store EXCEPT ![n].pages =
                        [q \in 1 .. Max(DOMAIN @ \cup {p}) |->
                           IF q = p THEN tx[n].chunk.frames[p] ELSE IF q \in DOMAIN @ THEN @[q] ELSE 0]]
  /\ UNCHANGED <<view, net, commits, history>>

\* The frames are written in the order of their pages.
ApplyFrame(n) ==
  /\ tx[n].by = "receiver"
  /\ \E p \in tx[n].left :
       /\ \A q \in tx[n].left : p <= q
       /\ tx' = [tx EXCEPT ![n].left = @ \ {p},
                           ![n].pages = Overwritten(@, p, tx[n].chunk.frames[p])]
  /\ UNCHANGED <<store, view, net, commits, history>>

\* Fault: the caches are not loaded anew.
ApplyCommitOnly(n) ==
  /\ tx[n].by = "receiver" /\ tx[n].left = {}
  /\ store' = [store EXCEPT ![n] = [pages   |-> [p \in 1 .. tx[n].chunk.total |-> tx[n].pages[p]],
                                    changes |-> @.changes + 1,
                                    applied |-> tx[n].chunk.sequence]]
  /\ tx' = [tx EXCEPT ![n] = NoTx]
  /\ UNCHANGED <<view, net, commits, history>>

\* The transaction takes the pages of the snapshot; what lies behind them is cut
\* off.  Then the caches are loaded anew.  When that fails the call returns an
\* error, and the pages stay.
ApplyCommit(n) ==
  /\ tx[n].by = "receiver" /\ tx[n].left = {}
  /\ LET pages == [p \in 1 .. tx[n].chunk.total |-> tx[n].pages[p]]
     IN  /\ store' = [store EXCEPT ![n] = [pages   |-> pages,
                                           changes |-> @.changes + 1,
                                           applied |-> tx[n].chunk.sequence]]
         /\ \E v \in {Reloaded(view[n], store[n].pages, pages)}
                     \cup Unloaded(view[n], view[n].graph, store[n].pages, pages) :
              view' = [view EXCEPT ![n] = v]
  /\ tx' = [tx EXCEPT ![n] = NoTx]
  /\ UNCHANGED <<net, commits, history>>

\* A write or the commit fails, and the transaction is rolled back.
ApplyFails(n) ==
  /\ tx[n].by = "receiver"
  /\ tx' = [tx EXCEPT ![n] = NoTx]
  /\ UNCHANGED <<store, view, net, commits, history>>

-----------------------------------------------------------------------------
(* The specification.                                                      *)

Init ==
  /\ store = [n \in Node |-> [pages |-> Empty, changes |-> 0, applied |-> 0]]
  /\ tx = [n \in Node |-> NoTx] /\ view = [n \in Node |-> Fresh(Empty)]
  /\ net = {} /\ commits = 0 /\ history = {Empty}

Next ==
  \/ \E n \in Node :
       \/ Begin(n) \/ WritePage(n) \/ Commit(n) \/ Rollback(n)
       \/ RollbackFails(n) \/ Restart(n)
       \/ Export(n) \/ ApplyBegin(n) \/ ApplyFrame(n) \/ ApplyCommit(n) \/ ApplyFails(n)
  \/ Damage

Spec == Init /\ [][Next]_vars

-----------------------------------------------------------------------------
(* Properties.                                                             *)

\* The databases consist of the pages up to their size.
TypeOK ==
  /\ \A n \in Node : /\ store[n].pages \in Content
                     /\ view[n].catalog \cup view[n].graph \cup view[n].left
                          \subseteq Page \X (0 .. MaxCommits)
                     /\ store[n].changes \in Nat /\ store[n].applied \in Nat
                     /\ tx[n].by \in {"none", "application", "receiver"}
  /\ commits \in 0 .. MaxCommits /\ history \subseteq Content

\* What the caches v of a database with these pages show.  Unless the last load failed, which
\* its caller was told, the catalog is that of the pages, and the graph has all that they have.
\* Whatever else the graph has was taken away by a snapshot, or by a rollback that failed,
\* after the caches were cleared: not by a commit.
Shows(v, pages) ==
  /\ v.loaded => v.catalog = Records(pages) /\ Records(pages) \subseteq v.graph
  /\ v.graph \subseteq Records(pages) \cup v.left

\* A database is at any time what some commit of an application made, whatever part of
\* a snapshot was lost, and wherever applying it stopped; and the caches above the pager
\* follow every snapshot that is applied, up to the graph, which keeps what it lacks.
SnapshotsAreWhole ==
  TypeOK /\ \A n \in Node : store[n].pages \in history /\ Shows(view[n], store[n].pages)

\* A graph is that of the pages.
GraphIsReplaced ==
  \A n \in Node : view[n].loaded => view[n].graph = Records(store[n].pages)

\* A database never goes back to an older state, whichever snapshots arrive late,
\* twice, or after a restart.
NeverBack == \A n \in Node : Version(store'[n].pages) >= Version(store[n].pages)
NeverGoesBack == [][NeverBack]_vars

\* A snapshot that is newer than a database is not refused for its number, except
\* that of the first commit, which has the number of one that was taken before it.
NewerIsAccepted ==
  \A n \in Node, chunk \in net :
    Valid(chunk) /\ Version(chunk.frames) > Max({1, Version(store[n].pages)})
      => Newer(n, chunk)

=============================================================================

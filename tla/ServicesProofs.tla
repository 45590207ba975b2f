--------------------------- MODULE ServicesProofs ---------------------------
(***************************************************************************)
(* Proofs about the parts beside the transaction engine, which MCServices  *)
(* composes.  Replication: what a follower shows is a committed state, as  *)
(* a whole but for what its graph keeps, and with one source it never goes *)
(* back.  Devices: an acknowledged value survives every power loss, and    *)
(* what is imported is one capsule.  Remote databases: a writer reads, and *)
(* a push stores, what its statements left, but for the pages that it has  *)
(* lost.  The lock file: processes that use or replace a database together *)
(* have robbed each other of the lock, after two found it stale at the     *)
(* same time; until then the base file and the log belong together.        *)
(***************************************************************************)
EXTENDS MCServices, OrderLemmas, FiniteSetTheorems

-----------------------------------------------------------------------------
(* Replication.                                                            *)

\* The bounds leave room for a page.
Room == MaxPages \in Nat \ {0} /\ MaxExported \in Nat

Database == [pages : Replicas!Content, changes : Nat, applied : Nat]

\* A snapshot of one of the states in h, as a whole.
Shipped(k, h) ==
  /\ k = [sequence |-> k.sequence, total |-> k.total, frames |-> k.frames, intact |-> TRUE]
  /\ k.sequence \in Nat /\ k.total \in Replicas!Page
  /\ k.frames \in h /\ DOMAIN k.frames = 1 .. k.total

\* A transaction of an application, and one of a receiver: the pages that it has written
\* are those of its snapshot.
Writing(t) ==
  t = [by |-> "application", pages |-> t.pages] /\ t.pages \in Replicas!Content
Applying(t, h) ==
  /\ DOMAIN t = {"by", "chunk", "left", "pages"} /\ t.by = "receiver"
  /\ Shipped(t.chunk, h)
  /\ \A p \in (1 .. t.chunk.total) \ t.left :
       p \in DOMAIN t.pages /\ t.pages[p] = t.chunk.frames[p]
Doing(t, h) == t = Replicas!NoTx \/ Writing(t) \/ Applying(t, h)

CopyInv ==
  /\ store \in [Node -> Database]
  /\ commits \in 0 .. MaxExported /\ history \subseteq Replicas!Content
  /\ \A n \in Node : store[n].pages \in history
  /\ \A k \in net : Replicas!Valid(k) => Shipped(k, history)
  /\ tx = [n \in Node |-> tx[n]] /\ \A n \in Node : Doing(tx[n], history)

LEMMA SameCardinality ==
  ASSUME NEW S
  PROVE  Replicas!Cardinality(S) = Cardinality(S)
BY DEF Replicas!Cardinality, Cardinality

\* The pages of a state are numbered from 1.
LEMMA ContentIs ==
  ASSUME Room, NEW c
  PROVE  c \in Replicas!Content <=>
           \E m \in Replicas!Page : c \in [1 .. m -> 0 .. MaxExported]
BY DEF Replicas!Content

LEMMA ContentSize ==
  ASSUME Room, NEW c \in Replicas!Content
  PROVE  /\ Replicas!Cardinality(DOMAIN c) \in Replicas!Page /\ DOMAIN c = 1 .. Replicas!Cardinality(DOMAIN c)
         /\ c \in [1 .. Replicas!Cardinality(DOMAIN c) -> 0 .. MaxExported]
<1>1. PICK m \in Replicas!Page : c \in [1 .. m -> 0 .. MaxExported]
  BY ContentIs
<1>2. m \in Nat \ {0} /\ DOMAIN c = 1 .. m
  BY <1>1 DEF Replicas!Page, Room
<1>3. Replicas!Cardinality(1 .. m) = m
  BY <1>2, FS_Interval, SameCardinality
<1>4. QED
  BY <1>1, <1>2, <1>3

\* A page is written, or added at the end.
LEMMA ContentGrows ==
  ASSUME Room, NEW c \in Replicas!Content, NEW v \in 0 .. MaxExported, NEW p \in Replicas!Page,
         p \in DOMAIN c \/ p = Replicas!Cardinality(DOMAIN c) + 1
  PROVE  Replicas!Overwritten(c, p, v) \in Replicas!Content
<1> DEFINE m == Replicas!Cardinality(DOMAIN c)
           d == [q \in DOMAIN c \cup {p} |-> IF q = p THEN v ELSE c[q]]
<1>1. m \in Replicas!Page /\ m \in Nat /\ p \in Nat \ {0} /\ c \in [1 .. m -> 0 .. MaxExported]
  BY ContentSize DEF Replicas!Page, Room
<1> HIDE DEF m
<1>2. \/ DOMAIN c \cup {p} = 1 .. m
      \/ p = m + 1 /\ DOMAIN c \cup {p} = 1 .. p
  <2>1. CASE p \in DOMAIN c
    BY <1>1, <2>1
  <2>2. CASE p = m + 1
    BY <1>1, <2>2
  <2>3. QED
    BY <2>1, <2>2 DEF m
<1>3. \A q \in DOMAIN c \cup {p} : (IF q = p THEN v ELSE c[q]) \in 0 .. MaxExported
  BY <1>1
<1>4. d \in [DOMAIN c \cup {p} -> 0 .. MaxExported]
  BY <1>3
<1> HIDE DEF d
<1>5. \E k \in Replicas!Page : d \in [1 .. k -> 0 .. MaxExported]
  BY <1>1, <1>2, <1>4
<1>6. QED
  BY <1>5, ContentIs DEF d, Replicas!Overwritten

\* What is going on still is, when there are more states.
LEMMA DoingLater ==
  ASSUME NEW t, NEW h, NEW h2, h \subseteq h2
  PROVE  /\ Shipped(t, h) => Shipped(t, h2)
         /\ Doing(t, h) => Doing(t, h2)
BY DEF Shipped, Doing, Applying

\* A step of one node.
LEMMA NodeSteps ==
  ASSUME Room, CopyInv, NEW n \in Node, NEW t, NEW db \in Database,
         Doing(t, history'), tx' = [tx EXCEPT ![n] = t],
         store' = [store EXCEPT ![n] = db], db.pages \in history', history \subseteq history', history' \subseteq Replicas!Content,
         commits' \in 0 .. MaxExported, net' = net
  PROVE  CopyInv'
<1>1. store' \in [Node -> Database]
  BY DEF CopyInv
<1>2. \A m \in Node : store'[m].pages \in history'
  BY DEF CopyInv
<1>3. \A k \in net' : Replicas!Valid(k) => Shipped(k, history')
  BY DoingLater DEF CopyInv
<1>4. tx' = [m \in Node |-> tx'[m]] /\ \A m \in Node : Doing(tx'[m], history')
  BY DoingLater DEF CopyInv
<1>5. QED
  BY <1>1, <1>2, <1>3, <1>4 DEF CopyInv, Replicas!Valid

LEMMA TxSteps ==
  ASSUME Room, CopyInv, NEW n \in Node, NEW t, Doing(t, history), tx' = [tx EXCEPT ![n] = t],
         UNCHANGED <<store, net, commits, history>>
  PROVE  CopyInv'
<1>1. store[n] \in Database /\ store[n].pages \in history
  BY DEF CopyInv
<1>2. store' = [store EXCEPT ![n] = store[n]]
  BY DEF CopyInv
<1>3. QED
  BY <1>1, <1>2, NodeSteps DEF CopyInv

-----------------------------------------------------------------------------
(* The steps of applications, and the snapshots.                           *)

LEMMA CopyInit ==
  ASSUME Room, Replicas!Init
  PROVE  CopyInv
<1>1. Replicas!Empty \in [1 .. 1 -> 0 .. MaxExported] /\ 1 \in Replicas!Page
  BY DEF Replicas!Empty, Replicas!Page, Room
<1>2. Replicas!Empty \in Replicas!Content
  BY <1>1, ContentIs
<1>3. QED
  BY <1>2 DEF Replicas!Init, CopyInv, Database, Doing, Room

LEMMA CopyBegin ==
  ASSUME Room, CopyInv, NEW n \in Node, Replicas!Begin(n)
  PROVE  CopyInv'
<1> DEFINE t == [by |-> "application", pages |-> store[n].pages]
<1>1. Writing(t)
  BY DEF CopyInv, Writing, Database
<1>2. tx' = [tx EXCEPT ![n] = t] /\ UNCHANGED <<store, net, commits, history>>
  BY DEF Replicas!Begin
<1>3. Doing(t, history)
  BY <1>1 DEF Doing
<1>4. QED
  BY <1>2, <1>3, TxSteps

\* A transaction of an application is not the one of a receiver, or none.
LEMMA Kinds ==
  ASSUME CopyInv, NEW n \in Node
  PROVE  /\ tx[n].by = "application" => Writing(tx[n])
         /\ tx[n].by = "receiver" => Applying(tx[n], history)
<1>1. Doing(tx[n], history)
  BY DEF CopyInv
<1>2. /\ tx[n] = Replicas!NoTx => tx[n].by = "none"
      /\ Writing(tx[n]) => tx[n].by = "application"
      /\ Applying(tx[n], history) => tx[n].by = "receiver"
  BY DEF Replicas!NoTx, Writing, Applying
<1>3. QED
  BY <1>1, <1>2 DEF Doing

LEMMA CopyWritePage ==
  ASSUME Room, CopyInv, NEW n \in Node, Replicas!WritePage(n)
  PROVE  CopyInv'
<1>1. PICK p \in Replicas!Page :
        /\ p \in DOMAIN tx[n].pages \/ p = Replicas!Cardinality(DOMAIN tx[n].pages) + 1
        /\ tx' = [tx EXCEPT ![n].pages = Replicas!Overwritten(@, p, commits + 1)]
  BY DEF Replicas!WritePage
<1>2. /\ Writing(tx[n]) /\ commits + 1 \in 0 .. MaxExported
      /\ UNCHANGED <<store, net, commits, history>>
  BY Kinds DEF Replicas!WritePage, CopyInv, Room
<1> DEFINE d == Replicas!Overwritten(tx[n].pages, p, commits + 1)
           t == [tx[n] EXCEPT !.pages = d]
<1>3. tx' = [tx EXCEPT ![n] = t]
  BY <1>1
<1>4. d \in Replicas!Content
  BY <1>1, <1>2, ContentGrows DEF Writing
<1> HIDE DEF d
<1>5. t = [by |-> "application", pages |-> d]
  BY <1>2 DEF Writing
<1> HIDE DEF t
<1>6. Doing(t, history)
  BY <1>4, <1>5 DEF Doing, Writing
<1>7. QED
  BY <1>2, <1>3, <1>6, TxSteps

LEMMA CopyCommit ==
  ASSUME Room, CopyInv, NEW n \in Node, Replicas!Commit(n)
  PROVE  CopyInv'
<1> DEFINE db == [store[n] EXCEPT !.pages = tx[n].pages, !.changes = @ + 1]
<1>1. Writing(tx[n]) /\ store[n] \in Database /\ commits + 1 \in 0 .. MaxExported
  BY Kinds DEF Replicas!Commit, CopyInv, Room
<1>2. /\ store' = [store EXCEPT ![n] = db]
      /\ tx' = [tx EXCEPT ![n] = Replicas!NoTx] /\ net' = net
      /\ commits' = commits + 1 /\ history' = history \cup {tx[n].pages}
  BY DEF Replicas!Commit
<1>3. db \in Database /\ db.pages = tx[n].pages /\ tx[n].pages \in Replicas!Content
  <2>1. tx[n].pages \in Replicas!Content /\ store[n].changes + 1 \in Nat
    BY <1>1 DEF Database, Writing
  <2>2. PICK x \in Database, y \in Replicas!Content, z \in Nat :
           x = store[n] /\ y = tx[n].pages /\ z = store[n].changes + 1
    BY <1>1, <2>1
  <2>3. db = [x EXCEPT !.pages = y, !.changes = z]
    BY <2>2
  <2> HIDE DEF db
  <2>4. db \in Database /\ db.pages = y
    BY <2>3 DEF Database
  <2>5. QED
    BY <2>2, <2>4
<1> HIDE DEF db
<1>4. history \subseteq history' /\ history' \subseteq Replicas!Content /\ db.pages \in history'
  BY <1>2, <1>3 DEF CopyInv
<1>5. QED
  BY <1>1, <1>2, <1>3, <1>4, NodeSteps DEF Doing

\* The end of a transaction that leaves the databases.
Ends(n) == \/ Replicas!Rollback(n) \/ Replicas!RollbackFails(n) \/ Replicas!Restart(n)
           \/ Replicas!ApplyFails(n)

LEMMA CopyEnds ==
  ASSUME Room, CopyInv, NEW n \in Node, Ends(n)
  PROVE  CopyInv'
<1>1. tx' = [tx EXCEPT ![n] = Replicas!NoTx] /\ UNCHANGED <<store, net, commits, history>>
  BY DEF Ends, Replicas!Rollback, Replicas!RollbackFails, Replicas!Restart, Replicas!ApplyFails
<1>2. QED
  BY <1>1, TxSteps DEF Doing

\* What is sent is a state of the database, and what is damaged on its way is not valid.
LEMMA SnapshotIsShipped ==
  ASSUME Room, CopyInv, NEW n \in Node
  PROVE  Shipped(Replicas!Snapshot(n), history)
<1>1. store[n] \in Database /\ store[n].pages \in history
  BY DEF CopyInv
<1>2. Replicas!Cardinality(DOMAIN store[n].pages) \in Replicas!Page
      /\ DOMAIN store[n].pages = 1 .. Replicas!Cardinality(DOMAIN store[n].pages)
  BY <1>1, ContentSize DEF Database
<1>3. Replicas!Sequence(store[n]) \in Nat
  <2>1. store[n].changes \in Nat
    BY <1>1 DEF Database
  <2>2. \E x \in {store[n].changes, 1} : \A y \in {store[n].changes, 1} : x >= y
    BY <2>1
  <2>3. Replicas!Sequence(store[n]) \in {store[n].changes, 1}
    BY <2>2 DEF Replicas!Sequence, Replicas!Max, Max
  <2>4. QED
    BY <2>1, <2>3
<1> DEFINE k == Replicas!Snapshot(n)
<1>4. k = [sequence |-> Replicas!Sequence(store[n]), total |-> Replicas!Cardinality(DOMAIN store[n].pages),
           frames |-> store[n].pages, intact |-> TRUE]
  BY DEF Replicas!Snapshot
<1> HIDE DEF k
<1>5. Shipped(k, history)
  BY <1>1, <1>2, <1>3, <1>4 DEF Shipped
<1>6. QED
  BY <1>5 DEF k

\* What damage to page p makes of a snapshot.
Spoilt(k, p) == {[k EXCEPT !.intact = FALSE, !.frames = [@ EXCEPT ![p] = 0]],
                 [k EXCEPT !.frames = [q \in DOMAIN @ \ {p} |-> @[q]]]}

LEMMA DamagedIsInvalid ==
  ASSUME NEW k, NEW h, Shipped(k, h), NEW p \in DOMAIN k.frames, NEW d \in Spoilt(k, p)
  PROVE  ~ Replicas!Valid(d)
<1>1. CASE d = [k EXCEPT !.intact = FALSE, !.frames = [@ EXCEPT ![p] = 0]]
  <2>1. d.intact = FALSE
    BY <1>1 DEF Shipped
  <2>2. QED
    BY <2>1 DEF Replicas!Valid
<1>2. CASE d = [k EXCEPT !.frames = [q \in DOMAIN @ \ {p} |-> @[q]]]
  <2> DEFINE f == [q \in DOMAIN k.frames \ {p} |-> k.frames[q]]
  <2>1. d = [k EXCEPT !.frames = f]
    BY <1>2
  <2>2. DOMAIN f = DOMAIN k.frames \ {p}
    OBVIOUS
  <2> HIDE DEF f
  <2>3. d.frames = f /\ d.total = k.total
    BY <2>1 DEF Shipped
  <2>4. QED
    BY <2>2, <2>3 DEF Replicas!Valid, Shipped
<1>3. QED
  BY <1>1, <1>2 DEF Spoilt

LEMMA DamageAdds ==
  ASSUME Room, CopyInv, Replicas!Damage
  PROVE  \E d : ~ Replicas!Valid(d) /\ net' = net \cup {d}
<1>1. \E k \in net : Replicas!Valid(k) /\ \E p \in DOMAIN k.frames :
                      \E d \in Spoilt(k, p) : net' = net \cup {d}
  BY DEF Replicas!Damage, Spoilt
<1>2. PICK k \in net : Replicas!Valid(k) /\ \E p \in DOMAIN k.frames :
                                            \E d \in Spoilt(k, p) : net' = net \cup {d}
  BY <1>1
<1>3. PICK p \in DOMAIN k.frames : \E d \in Spoilt(k, p) : net' = net \cup {d}
  BY <1>2
<1>4. PICK d \in Spoilt(k, p) : net' = net \cup {d}
  BY <1>3
<1>5. Shipped(k, history)
  BY <1>2 DEF CopyInv
<1>6. ~ Replicas!Valid(d)
  BY <1>5, DamagedIsInvalid
<1>7. QED
  BY <1>4, <1>6

LEMMA DamageLeaves ==
  ASSUME Replicas!Damage
  PROVE  UNCHANGED <<store, tx, view, commits, history>>
BY DEF Replicas!Damage

LEMMA CopySends ==
  ASSUME Room, CopyInv, (\E n \in Node : Replicas!Export(n)) \/ Replicas!Damage
  PROVE  CopyInv'
<1>1. UNCHANGED <<store, tx, commits, history>>
  <2>1. CASE Replicas!Damage
    BY <2>1, DamageLeaves
  <2>2. CASE \E n \in Node : Replicas!Export(n)
    BY <2>2 DEF Replicas!Export
  <2>3. QED
    BY <2>1, <2>2
<1>2. \A k \in net' : Replicas!Valid(k) => Shipped(k, history)
  <2>1. CASE \E n \in Node : Replicas!Export(n)
    <3>1. PICK n \in Node : net' = net \cup {Replicas!Snapshot(n)}
      BY <2>1 DEF Replicas!Export
    <3>2. QED
      BY <3>1, SnapshotIsShipped DEF CopyInv
  <2>2. CASE Replicas!Damage
    BY <2>2, DamageAdds DEF CopyInv
  <2>3. QED
    BY <2>1, <2>2
<1>3. QED
  BY <1>1, <1>2 DEF CopyInv, Replicas!Valid

-----------------------------------------------------------------------------
(* The steps of receivers.                                                 *)

LEMMA CopyApplyBegin ==
  ASSUME Room, CopyInv, NEW n \in Node, Replicas!ApplyBegin(n)
  PROVE  CopyInv'
<1>1. PICK k \in net :
         /\ Replicas!Valid(k)
         /\ tx' = [tx EXCEPT ![n] = [by |-> "receiver", chunk |-> k, left |-> 1 .. k.total,
                                     pages |-> store[n].pages]]
  BY DEF Replicas!ApplyBegin
<1> DEFINE t == [by |-> "receiver", chunk |-> k, left |-> 1 .. k.total, pages |-> store[n].pages]
<1>2. Shipped(k, history)
  BY <1>1 DEF CopyInv
<1>3. Applying(t, history)
  BY <1>2 DEF Applying
<1> HIDE DEF t
<1>4. UNCHANGED <<store, net, commits, history>>
  BY DEF Replicas!ApplyBegin
<1>5. Doing(t, history) /\ tx' = [tx EXCEPT ![n] = t]
  BY <1>1, <1>3 DEF Doing, t
<1>6. QED
  BY <1>4, <1>5, TxSteps

LEMMA CopyApplyFrame ==
  ASSUME Room, CopyInv, NEW n \in Node, Replicas!ApplyFrame(n)
  PROVE  CopyInv'
<1>1. Applying(tx[n], history) /\ UNCHANGED <<store, net, commits, history>>
  BY Kinds DEF Replicas!ApplyFrame
<1>2. PICK p \in tx[n].left :
         tx' = [tx EXCEPT ![n].left = @ \ {p},
                          ![n].pages = Replicas!Overwritten(@, p, tx[n].chunk.frames[p])]
  BY DEF Replicas!ApplyFrame
<1> DEFINE d == Replicas!Overwritten(tx[n].pages, p, tx[n].chunk.frames[p])
           t == [tx[n] EXCEPT !.left = @ \ {p}, !.pages = d]
<1>3. /\ p \in DOMAIN d /\ d[p] = tx[n].chunk.frames[p]
      /\ \A q \in DOMAIN tx[n].pages : q # p => q \in DOMAIN d /\ d[q] = tx[n].pages[q]
  BY DEF Replicas!Overwritten
<1>4. tx' = [tx EXCEPT ![n] = t]
  BY <1>2
<1> HIDE DEF d
<1>5. Applying(t, history)
  <2>1. /\ DOMAIN t = {"by", "chunk", "left", "pages"} /\ t.by = "receiver"
        /\ t.chunk = tx[n].chunk /\ t.left = tx[n].left \ {p} /\ t.pages = d
    BY <1>1 DEF Applying
  <2> HIDE DEF t
  <2>2. QED
    BY <1>1, <1>3, <2>1 DEF Applying
<1> HIDE DEF t
<1>6. Doing(t, history)
  BY <1>5 DEF Doing
<1>7. QED
  BY <1>1, <1>4, <1>6, TxSteps

\* When no page is left, the database is the snapshot.
LEMMA Applied ==
  ASSUME NEW t, NEW h, Room, Applying(t, h), t.left = {}, h \subseteq Replicas!Content
  PROVE  [p \in 1 .. t.chunk.total |-> t.pages[p]] = t.chunk.frames
<1>1. t.chunk.frames \in Replicas!Content /\ DOMAIN t.chunk.frames = 1 .. t.chunk.total
  BY DEF Applying, Shipped
<1>2. \A p \in 1 .. t.chunk.total : t.pages[p] = t.chunk.frames[p]
  BY DEF Applying
<1>3. t.chunk.frames = [p \in 1 .. t.chunk.total |-> t.chunk.frames[p]]
  BY <1>1, ContentIs
<1>4. QED
  BY <1>2, <1>3

LEMMA CopyApplyCommit ==
  ASSUME Room, CopyInv, NEW n \in Node, Replicas!ApplyCommit(n)
  PROVE  CopyInv'
<1> DEFINE c == tx[n].chunk.frames
           db == [pages |-> c, changes |-> store[n].changes + 1, applied |-> tx[n].chunk.sequence]
<1>1. Applying(tx[n], history) /\ UNCHANGED <<net, commits, history>> /\ tx[n].left = {}
      /\ tx' = [tx EXCEPT ![n] = Replicas!NoTx]
  BY Kinds DEF Replicas!ApplyCommit
<1>2. [p \in 1 .. tx[n].chunk.total |-> tx[n].pages[p]] = c
  BY <1>1, Applied DEF CopyInv
<1>4. store' = [store EXCEPT ![n] = db]
  BY <1>2 DEF Replicas!ApplyCommit
<1>5. c \in history /\ c \in Replicas!Content
  BY <1>1 DEF Applying, Shipped, CopyInv
<1> HIDE DEF c
<1>6. db \in Database /\ db.pages = c
  <2>1. store[n].changes + 1 \in Nat /\ tx[n].chunk.sequence \in Nat
    BY <1>1 DEF CopyInv, Database, Applying, Shipped
  <2>2. QED
    BY <1>5, <2>1 DEF Database
<1> HIDE DEF db
<1>7. QED
  BY <1>1, <1>4, <1>5, <1>6, NodeSteps DEF Doing, CopyInv

LEMMA CopySteps ==
  ASSUME Room, CopyInv, Replicas!Next
  PROVE  CopyInv'
<1>1. ASSUME NEW n \in Node,
             \/ Replicas!Begin(n) \/ Replicas!WritePage(n) \/ Replicas!Commit(n)
             \/ Ends(n)
      PROVE  CopyInv'
  BY <1>1, CopyBegin, CopyWritePage, CopyCommit, CopyEnds
<1>2. ASSUME NEW n \in Node,
             Replicas!ApplyBegin(n) \/ Replicas!ApplyFrame(n) \/ Replicas!ApplyCommit(n)
      PROVE  CopyInv'
  BY <1>2, CopyApplyBegin, CopyApplyFrame, CopyApplyCommit
<1>3. ASSUME (\E n \in Node : Replicas!Export(n)) \/ Replicas!Damage
      PROVE  CopyInv'
  BY <1>3, CopySends
<1>4. QED
  BY <1>1, <1>2, <1>3 DEF Replicas!Next, Ends

LEMMA CopyStutters ==
  ASSUME CopyInv, UNCHANGED Replicas!vars
  PROVE  CopyInv'
BY DEF CopyInv, Replicas!vars, Replicas!Valid

-----------------------------------------------------------------------------
(* The caches.                                                             *)

Entries == Replicas!Page \X (0 .. MaxExported)
Caches  == [catalog : SUBSET Entries, graph : SUBSET Entries, loaded : BOOLEAN,
            left : SUBSET Entries]

ViewInv ==
  view \in [Node -> Caches] /\ \A n \in Node : Replicas!Shows(view[n], store[n].pages)

LEMMA RecordsAre ==
  ASSUME Room, NEW c \in Replicas!Content
  PROVE  Replicas!Records(c) \subseteq Entries
<1>1. PICK m \in Replicas!Page : c \in [1 .. m -> 0 .. MaxExported]
  BY ContentIs
<1>2. 1 .. m \subseteq Replicas!Page
  BY <1>1 DEF Replicas!Page, Room
<1>3. QED
  BY <1>1, <1>2 DEF Replicas!Records, Entries

\* Caches with these parts show the pages.
LEMMA CachesShow ==
  ASSUME NEW c, NEW v, DOMAIN v = {"catalog", "graph", "loaded", "left"}, v = [i \in DOMAIN v |-> v[i]],
         v.catalog \subseteq Entries, v.graph \subseteq Entries, v.left \subseteq Entries,
         v.loaded \in BOOLEAN,
         v.loaded => v.catalog = Replicas!Records(c) /\ Replicas!Records(c) \subseteq v.graph,
         v.graph \subseteq Replicas!Records(c) \cup v.left
  PROVE  v \in Caches /\ Replicas!Shows(v, c)
<1>1. v = [catalog |-> v.catalog, graph |-> v.graph, loaded |-> v.loaded, left |-> v.left]
  OBVIOUS
<1>2. v \in Caches
  BY <1>1 DEF Caches
<1>3. QED
  BY <1>2 DEF Replicas!Shows

\* Caches that were cleared and loaded.
LEMMA FreshShows ==
  ASSUME Room, NEW c \in Replicas!Content
  PROVE  Replicas!Fresh(c) \in Caches /\ Replicas!Shows(Replicas!Fresh(c), c)
<1> DEFINE v == Replicas!Fresh(c)
<1>1. v = [catalog |-> Replicas!Records(c), graph |-> Replicas!Records(c), loaded |-> TRUE,
           left |-> {}]
  BY DEF Replicas!Fresh
<1> HIDE DEF v
<1>2. v \in Caches
  BY <1>1, RecordsAre DEF Caches
<1>3. Replicas!Shows(v, c)
  BY <1>1 DEF Replicas!Shows
<1>4. QED
  BY <1>2, <1>3 DEF v

\* A transaction takes along what it changes.
LEMMA FollowsShows ==
  ASSUME Room, NEW a \in Replicas!Content, NEW c \in Replicas!Content,
         NEW u \in Caches, Replicas!Shows(u, a)
  PROVE  /\ Replicas!Follows(u, a, c) \in Caches
         /\ Replicas!Shows(Replicas!Follows(u, a, c), c)
<1> DEFINE v == Replicas!Follows(u, a, c)
<1>1. v = [u EXCEPT !.catalog = Replicas!Edited(u.catalog, a, c),
                    !.graph = Replicas!Edited(u.graph, a, c)]
  BY DEF Replicas!Follows
<1> HIDE DEF v
<1>2. /\ v.catalog = Replicas!Edited(u.catalog, a, c) /\ v.graph = Replicas!Edited(u.graph, a, c)
      /\ v.loaded = u.loaded /\ v.left = u.left
      /\ v = [catalog |-> v.catalog, graph |-> v.graph, loaded |-> v.loaded, left |-> v.left]
  BY <1>1 DEF Caches
<1>3. /\ Replicas!Records(a) \subseteq Entries /\ Replicas!Records(c) \subseteq Entries
      /\ u.catalog \subseteq Entries /\ u.graph \subseteq Entries
      /\ u.left \subseteq Entries /\ u.loaded \in BOOLEAN
  BY RecordsAre DEF Caches
<1>4. v \in Caches
  <2>1. v.catalog \subseteq Entries /\ v.graph \subseteq Entries
    BY <1>2, <1>3 DEF Replicas!Edited
  <2>2. QED
    BY <1>2, <1>3, <2>1 DEF Caches
<1>5. v.graph \subseteq Replicas!Records(c) \cup v.left
  BY <1>2 DEF Replicas!Shows, Replicas!Edited
<1>6. v.loaded => v.catalog = Replicas!Records(c) /\ Replicas!Records(c) \subseteq v.graph
  BY <1>2 DEF Replicas!Shows, Replicas!Edited
<1>7. QED
  BY <1>4, <1>5, <1>6 DEF Replicas!Shows, v

\* What becomes of the caches when the pages were replaced, or rolled back.
LEMMA LoadsShow ==
  ASSUME Room, NEW a \in Replicas!Content, NEW c \in Replicas!Content,
         NEW u \in Caches, Replicas!Shows(u, a), NEW g \in SUBSET u.graph,
         NEW v \in {Replicas!Reloaded(u, a, c)} \cup Replicas!Unloaded(u, g, a, c)
  PROVE  v \in Caches /\ Replicas!Shows(v, c)
<1> DEFINE l == u.left \cup (Replicas!Records(a) \ Replicas!Records(c))
<1>1. /\ Replicas!Records(a) \subseteq Entries /\ Replicas!Records(c) \subseteq Entries
      /\ u.catalog \subseteq Entries /\ u.graph \subseteq Entries
      /\ u.left \subseteq Entries
  BY RecordsAre DEF Caches
<1>2. u.graph \subseteq Replicas!Records(a) \cup u.left
  BY DEF Replicas!Shows
<1>3. l \subseteq Entries /\ u.graph \subseteq Replicas!Records(c) \cup l
  BY <1>1, <1>2
<1>4. Replicas!Left(u, a, c) = l
  BY DEF Replicas!Left
<1> HIDE DEF l
<1>5. CASE v = Replicas!Reloaded(u, a, c)
  <2>1. v = [catalog |-> Replicas!Records(c), graph |-> u.graph \cup Replicas!Records(c),
             loaded |-> TRUE, left |-> l]
    BY <1>4, <1>5 DEF Replicas!Reloaded
  <2>2. v \in Caches
    BY <1>1, <1>3, <2>1 DEF Caches
  <2>3. Replicas!Shows(v, c)
    BY <1>3, <2>1 DEF Replicas!Shows
  <2>4. QED
    BY <2>2, <2>3
<1>6. CASE v = [u EXCEPT !.loaded = FALSE, !.left = Replicas!Left(u, a, c)]
  <2>1. v = [catalog |-> u.catalog, graph |-> u.graph, loaded |-> FALSE, left |-> l]
    BY <1>4, <1>6 DEF Caches
  <2>2. v \in Caches
    BY <1>1, <1>3, <2>1 DEF Caches
  <2>3. Replicas!Shows(v, c)
    BY <1>3, <2>1 DEF Replicas!Shows
  <2>4. QED
    BY <2>2, <2>3
<1>7. ASSUME NEW some \in SUBSET Replicas!Records(c),
             v = [catalog |-> Replicas!Records(c), graph |-> g \cup some, loaded |-> FALSE,
                  left |-> Replicas!Left(u, a, c)]
      PROVE  v \in Caches /\ Replicas!Shows(v, c)
  <2>1. v.catalog = Replicas!Records(c) /\ v.graph = g \cup some /\ ~ v.loaded /\ v.left = l
    BY <1>4, <1>7
  <2>2. v \in Caches
    BY <1>1, <1>3, <1>4, <1>7 DEF Caches
  <2>3. Replicas!Shows(v, c)
    BY <1>3, <2>1 DEF Replicas!Shows
  <2>4. QED
    BY <2>2, <2>3
<1>8. QED
  BY <1>5, <1>6, <1>7 DEF Replicas!Unloaded

\* A step of one node.
LEMMA ViewNodeSteps ==
  ASSUME CopyInv, ViewInv, NEW n \in Node, NEW v \in Caches, NEW c,
         view' = [view EXCEPT ![n] = v], Replicas!Shows(v, c), store'[n].pages = c,
         \A m \in Node : m # n => store'[m] = store[m]
  PROVE  ViewInv'
<1>1. view' \in [Node -> Caches] /\ view'[n] = v /\ \A m \in Node : m # n => view'[m] = view[m]
  BY DEF ViewInv
<1>2. \A m \in Node : Replicas!Shows(view'[m], store'[m].pages)
  BY <1>1 DEF ViewInv
<1>3. QED
  BY <1>1, <1>2 DEF ViewInv, Replicas!Shows, Replicas!Records

LEMMA ViewCommit ==
  ASSUME Room, CopyInv, ViewInv, NEW n \in Node, Replicas!Commit(n)
  PROVE  ViewInv'
<1> DEFINE db == [store[n] EXCEPT !.pages = tx[n].pages, !.changes = @ + 1]
           c == tx[n].pages
           v == Replicas!Follows(view[n], store[n].pages, c)
<1>1. /\ store[n].pages \in Replicas!Content /\ c \in Replicas!Content
      /\ view[n] \in Caches /\ Replicas!Shows(view[n], store[n].pages)
  BY Kinds DEF Replicas!Commit, CopyInv, Database, Writing, ViewInv
<1>2. store' = [store EXCEPT ![n] = db] /\ view' = [view EXCEPT ![n] = v]
  BY DEF Replicas!Commit
<1>3. db.pages = c
  BY DEF CopyInv, Database
<1> HIDE DEF db
<1>4. store'[n].pages = c /\ \A m \in Node : m # n => store'[m] = store[m]
  BY <1>2, <1>3 DEF CopyInv
<1>5. v \in Caches /\ Replicas!Shows(v, c)
  BY <1>1, FollowsShows
<1> HIDE DEF v, c
<1>6. QED
  BY <1>2, <1>4, <1>5, ViewNodeSteps

LEMMA ViewApplyCommit ==
  ASSUME Room, CopyInv, ViewInv, NEW n \in Node, Replicas!ApplyCommit(n)
  PROVE  ViewInv'
<1> DEFINE c == tx[n].chunk.frames
           db == [pages |-> c, changes |-> store[n].changes + 1, applied |-> tx[n].chunk.sequence]
<1>1. Applying(tx[n], history) /\ tx[n].left = {}
  BY Kinds DEF Replicas!ApplyCommit
<1>2. [p \in 1 .. tx[n].chunk.total |-> tx[n].pages[p]] = c
  BY <1>1, Applied DEF CopyInv
<1>3. /\ store[n].pages \in Replicas!Content /\ c \in Replicas!Content
      /\ view[n] \in Caches /\ Replicas!Shows(view[n], store[n].pages)
  BY <1>1 DEF Applying, Shipped, CopyInv, Database, ViewInv
<1>4. PICK v \in {Replicas!Reloaded(view[n], store[n].pages, c)}
                  \cup Replicas!Unloaded(view[n], view[n].graph, store[n].pages, c) :
        view' = [view EXCEPT ![n] = v]
  BY <1>2 DEF Replicas!ApplyCommit
<1>5. store' = [store EXCEPT ![n] = db] /\ db.pages = c
  BY <1>2 DEF Replicas!ApplyCommit
<1> HIDE DEF c, db
<1>6. store'[n].pages = c /\ \A m \in Node : m # n => store'[m] = store[m]
  BY <1>5 DEF CopyInv
<1>7. v \in Caches /\ Replicas!Shows(v, c)
  BY <1>3, <1>4, LoadsShow
<1>8. QED
  BY <1>4, <1>6, <1>7, ViewNodeSteps

LEMMA ViewEnds ==
  ASSUME Room, CopyInv, ViewInv, NEW n \in Node, Ends(n)
  PROVE  ViewInv'
<1> DEFINE c == store[n].pages
<1>1. /\ c \in Replicas!Content /\ view[n] \in Caches /\ Replicas!Shows(view[n], c)
  BY DEF CopyInv, Database, ViewInv
<1>2. store' = store
  BY DEF Ends, Replicas!Rollback, Replicas!RollbackFails, Replicas!Restart, Replicas!ApplyFails
<1>3. CASE view' = view
  BY <1>2, <1>3 DEF ViewInv, Replicas!Shows, Replicas!Records
<1>4. CASE view' = [view EXCEPT ![n] = Replicas!Fresh(c)]
  BY <1>1, <1>2, <1>4, FreshShows, ViewNodeSteps
<1>5. CASE Replicas!RollbackFails(n)
  <2> DEFINE d == tx[n].pages
             u == Replicas!Follows(view[n], c, d)
  <2>1. d \in Replicas!Content
    BY <1>5, Kinds DEF Replicas!RollbackFails, Writing
  <2>2. u \in Caches /\ Replicas!Shows(u, d)
    BY <1>1, <2>1, FollowsShows
  <2>3. PICK v \in Replicas!Unloaded(u, {}, d, c) : view' = [view EXCEPT ![n] = v]
    BY <1>5 DEF Replicas!RollbackFails
  <2> HIDE DEF u, d
  <2>4. v \in Caches /\ Replicas!Shows(v, c)
    BY <1>1, <2>1, <2>2, <2>3, LoadsShow
  <2>5. QED
    BY <1>2, <2>3, <2>4, ViewNodeSteps
<1>6. QED
  BY <1>3, <1>4, <1>5 DEF Ends, Replicas!Rollback, Replicas!Restart, Replicas!ApplyFails

LEMMA ViewSteps ==
  ASSUME Room, CopyInv, ViewInv, [Replicas!Next]_(Replicas!vars)
  PROVE  ViewInv'
<1>1. ASSUME NEW n \in Node, Replicas!Commit(n) \/ Replicas!ApplyCommit(n) \/ Ends(n)
      PROVE  ViewInv'
  BY <1>1, ViewCommit, ViewApplyCommit, ViewEnds
<1>2. ASSUME store' = store, view' = view PROVE ViewInv'
  BY <1>2 DEF ViewInv, Replicas!Shows, Replicas!Records
<1>3. \/ store' = store /\ view' = view
      \/ \E n \in Node : Replicas!Commit(n) \/ Replicas!ApplyCommit(n) \/ Ends(n)
  <2>1. ASSUME NEW n \in Node,
               \/ Replicas!Begin(n) \/ Replicas!WritePage(n) \/ Replicas!Export(n)
               \/ Replicas!ApplyBegin(n) \/ Replicas!ApplyFrame(n)
        PROVE  store' = store /\ view' = view
    BY <2>1 DEF Replicas!Begin, Replicas!WritePage, Replicas!Export, Replicas!ApplyBegin,
                Replicas!ApplyFrame
  <2>2. ASSUME Replicas!Damage PROVE store' = store /\ view' = view
    BY <2>2, DamageLeaves
  <2>3. ASSUME UNCHANGED Replicas!vars PROVE store' = store /\ view' = view
    BY <2>3 DEF Replicas!vars
  <2>4. QED
    BY <2>1, <2>2, <2>3 DEF Replicas!Next, Ends
<1>4. QED
  BY <1>1, <1>2, <1>3

\* In any arrangement of databases, writers, exporters and followers: a database is at any
\* time what some commit of an application made, whatever part of a snapshot was lost, and
\* wherever applying it stopped; and the caches above the pager follow, but for what the graph
\* keeps, unless the load failed (apply_chunk, reload_from_pager).
THEOREM WholeCorrect ==
  ASSUME Room
  PROVE  Replicas!Spec => []Replicas!SnapshotsAreWhole
<1>1. Replicas!Init => CopyInv /\ ViewInv
  <2> SUFFICES ASSUME Replicas!Init PROVE CopyInv /\ ViewInv
    OBVIOUS
  <2>1. CopyInv
    BY CopyInit
  <2>2. Replicas!Empty \in Replicas!Content /\ \A n \in Node : store[n].pages = Replicas!Empty
    <3>1. \A n \in Node : store[n].pages = Replicas!Empty
      BY DEF Replicas!Init
    <3>2. Replicas!Empty \in history
      BY DEF Replicas!Init
    <3>3. QED
      BY <2>1, <3>1, <3>2 DEF CopyInv
  <2>3. view = [n \in Node |-> Replicas!Fresh(Replicas!Empty)]
    BY DEF Replicas!Init
  <2>4. ViewInv
    BY <2>2, <2>3, FreshShows DEF ViewInv
  <2>5. QED
    BY <2>1, <2>4
<1>2. CopyInv /\ ViewInv /\ [Replicas!Next]_(Replicas!vars) => CopyInv' /\ ViewInv'
  BY CopySteps, CopyStutters, ViewSteps
<1>3. CopyInv /\ ViewInv => Replicas!SnapshotsAreWhole
  <2> SUFFICES ASSUME CopyInv, ViewInv PROVE Replicas!SnapshotsAreWhole
    OBVIOUS
  <2>1. \A n \in Node : store[n] \in Database /\ store[n].pages \in history
    BY DEF CopyInv
  <2>2. \A n \in Node : tx[n].by \in {"none", "application", "receiver"}
    BY DEF CopyInv, Doing, Writing, Applying, Replicas!NoTx
  <2>3. \A n \in Node : view[n].catalog \cup view[n].graph \cup view[n].left \subseteq Entries
    BY DEF ViewInv, Caches
  <2>4. QED
    BY <2>1, <2>2, <2>3
    DEF CopyInv, ViewInv, Database, Entries, Replicas!SnapshotsAreWhole, Replicas!TypeOK
<1>4. QED
  BY <1>1, <1>2, <1>3, PTL DEF Replicas!Spec

-----------------------------------------------------------------------------
(* The order of the states.                                                *)

\* Applications write to one database, snapshots are taken of it, and others apply them.
OneSource ==
  /\ Room
  /\ \A m, n \in Writers : m = n
  /\ Exporters \subseteq Writers /\ Followers \cap Writers = {}

\* The number of a snapshot of c.
NumberOf(c) == IF Replicas!Version(c) = 0 THEN 1 ELSE Replicas!Version(c)

\* The writer counts its commits and applies nothing; its transaction leaves its number in a
\* page that it changes.  A follower has the number of what it shows, and applies what is newer.
Counted(n, db, t, c) ==
  /\ n \in Writers => db.changes = c /\ Replicas!Version(db.pages) = c /\ db.applied = 0
  /\ n \notin Writers => \/ db.applied = 0 /\ db.pages = Replicas!Empty
                         \/ db.applied = NumberOf(db.pages)
  /\ t.by = "application" =>
       /\ n \in Writers
       /\ \A p \in DOMAIN t.pages : t.pages[p] <= c + 1
       /\ t.pages = db.pages \/ \E p \in DOMAIN t.pages : t.pages[p] = c + 1
  /\ t.by = "receiver" =>
       /\ n \notin Writers
       /\ t.chunk.sequence > db.applied /\ t.chunk.sequence = NumberOf(t.chunk.frames)

VersionInv ==
  /\ \A n \in Node : Counted(n, store[n], tx[n], commits)
  /\ \A k \in net : Replicas!Valid(k) => k.sequence = NumberOf(k.frames)

\* The version of a state is the greatest number in its pages.
LEMMA VersionIs ==
  ASSUME Room, NEW c \in Replicas!Content
  PROVE  /\ Replicas!Version(c) \in 0 .. MaxExported
         /\ \E p \in DOMAIN c : c[p] = Replicas!Version(c)
         /\ \A p \in DOMAIN c : c[p] <= Replicas!Version(c)
<1> DEFINE S == {c[p] : p \in DOMAIN c}
<1>1. PICK m \in Replicas!Page : c \in [1 .. m -> 0 .. MaxExported]
  BY ContentIs
<1>2. m \in Nat \ {0} /\ 1 \in DOMAIN c
  BY <1>1 DEF Replicas!Page, Room
<1>3. S \subseteq 0 .. MaxExported /\ S # {}
  BY <1>1, <1>2
<1> HIDE DEF S
<1>4. \E x \in S : \A y \in S : y <= x
  BY <1>3, GreatestElement DEF Room
<1>5. \E x \in S : \A y \in S : x >= y
  BY <1>3, <1>4 DEF Room
<1>6. Replicas!Max(S) \in S /\ \A y \in S : Replicas!Max(S) >= y
  BY <1>5 DEF Replicas!Max
<1>7. Replicas!Version(c) = Replicas!Max(S)
  BY DEF Replicas!Version, S
<1>8. Replicas!Version(c) \in S /\ \A y \in S : y <= Replicas!Version(c)
  BY <1>3, <1>6, <1>7 DEF Room
<1>9. QED
  BY <1>3, <1>8 DEF S

LEMMA VersionUnique ==
  ASSUME Room, NEW c \in Replicas!Content, NEW v \in Nat,
         \E p \in DOMAIN c : c[p] = v, \A p \in DOMAIN c : c[p] <= v
  PROVE  Replicas!Version(c) = v
<1>1. /\ Replicas!Version(c) \in Nat /\ \E p \in DOMAIN c : c[p] = Replicas!Version(c)
      /\ \A p \in DOMAIN c : c[p] <= Replicas!Version(c)
  BY VersionIs DEF Room
<1>2. Replicas!Version(c) <= v /\ v <= Replicas!Version(c)
  BY <1>1
<1>3. QED
  BY <1>1, <1>2

LEMMA VersionOfEmpty ==
  ASSUME Room
  PROVE  Replicas!Empty \in Replicas!Content /\ Replicas!Version(Replicas!Empty) = 0
<1>1. Replicas!Empty \in [1 .. 1 -> 0 .. MaxExported] /\ 1 \in Replicas!Page
  BY DEF Replicas!Empty, Replicas!Page, Room
<1>2. Replicas!Empty \in Replicas!Content
  BY <1>1, ContentIs
<1>3. 1 \in DOMAIN Replicas!Empty /\ \A p \in DOMAIN Replicas!Empty : Replicas!Empty[p] = 0
  BY DEF Replicas!Empty
<1>4. QED
  BY <1>2, <1>3, VersionUnique

LEMMA GreaterOfTwo ==
  ASSUME NEW x \in Nat
  PROVE  /\ Replicas!Max({x, 1}) = IF x = 0 THEN 1 ELSE x
         /\ Replicas!Max({1, x}) = IF x = 0 THEN 1 ELSE x
<1>1. \A y \in {x, 1} : (\A z \in {x, 1} : y >= z) <=> y = IF x = 0 THEN 1 ELSE x
  OBVIOUS
<1>2. (IF x = 0 THEN 1 ELSE x) \in {x, 1} /\ {1, x} = {x, 1}
  OBVIOUS
<1>3. QED
  BY <1>1, <1>2 DEF Replicas!Max

LEMMA VersionInit ==
  ASSUME OneSource, Replicas!Init
  PROVE  VersionInv
<1>1. \A n \in Node : /\ store[n].pages = Replicas!Empty /\ store[n].changes = 0
                      /\ store[n].applied = 0 /\ tx[n] = Replicas!NoTx
  BY DEF Replicas!Init
<1>2. Replicas!Version(Replicas!Empty) = 0
  BY VersionOfEmpty DEF OneSource
<1>3. QED
  BY <1>1, <1>2 DEF Replicas!Init, VersionInv, Counted, Replicas!NoTx

\* A step of one node.
LEMMA VersionNodeSteps ==
  ASSUME OneSource, CopyInv, VersionInv, NEW n \in Node, NEW t, NEW db,
         tx' = [tx EXCEPT ![n] = t], store' = [store EXCEPT ![n] = db], net' = net,
         commits' = commits \/ n \in Writers, Counted(n, db, t, commits')
  PROVE  VersionInv'
<1>1. ASSUME NEW m \in Node, m # n PROVE Counted(m, store'[m], tx'[m], commits')
  <2>1. Counted(m, store[m], tx[m], commits) /\ store'[m] = store[m] /\ tx'[m] = tx[m]
    BY <1>1 DEF VersionInv, CopyInv
  <2>2. commits' = commits \/ m \notin Writers
    BY <1>1 DEF OneSource
  <2>3. QED
    BY <2>1, <2>2 DEF Counted
<1>2. store'[n] = db /\ tx'[n] = t
  BY DEF CopyInv
<1>3. \A m \in Node : Counted(m, store'[m], tx'[m], commits')
  BY <1>1, <1>2
<1>4. \A k \in net' : Replicas!Valid(k) => k.sequence = NumberOf(k.frames)
  BY DEF VersionInv
<1>5. QED
  BY <1>3, <1>4 DEF VersionInv, Replicas!Valid

LEMMA VersionTxSteps ==
  ASSUME OneSource, CopyInv, VersionInv, NEW n \in Node, NEW t, tx' = [tx EXCEPT ![n] = t],
         UNCHANGED <<store, net, commits>>, Counted(n, store[n], t, commits)
  PROVE  VersionInv'
<1>1. store' = [store EXCEPT ![n] = store[n]]
  BY DEF CopyInv
<1>2. QED
  BY <1>1, VersionNodeSteps

LEMMA VersionBegin ==
  ASSUME OneSource, CopyInv, VersionInv, NEW n \in Node, Replicas!Begin(n)
  PROVE  VersionInv'
<1> DEFINE t == [by |-> "application", pages |-> store[n].pages]
<1>1. /\ tx' = [tx EXCEPT ![n] = t] /\ UNCHANGED <<store, net, commits>> /\ n \in Writers
  BY DEF Replicas!Begin
<1>2. Counted(n, store[n], tx[n], commits) /\ store[n].pages \in Replicas!Content /\ commits \in Nat
  BY DEF VersionInv, CopyInv, Database, OneSource, Room
<1>3. \A p \in DOMAIN store[n].pages : store[n].pages[p] <= commits + 1
  <2>1. /\ Replicas!Version(store[n].pages) = commits
        /\ \A p \in DOMAIN store[n].pages : store[n].pages[p] <= Replicas!Version(store[n].pages)
    BY <1>1, <1>2, VersionIs DEF Counted, OneSource
  <2>2. \A p \in DOMAIN store[n].pages : store[n].pages[p] \in Nat
    <3>1. PICK c \in Replicas!Content : c = store[n].pages
      BY <1>2
    <3>2. c \in [1 .. Replicas!Cardinality(DOMAIN c) -> 0 .. MaxExported]
      BY ContentSize DEF OneSource
    <3>3. 0 .. MaxExported \subseteq Nat
      BY DEF OneSource, Room
    <3>4. \A p \in DOMAIN c : c[p] \in 0 .. MaxExported
      BY <3>2
    <3>5. \A p \in DOMAIN c : c[p] \in Nat
      BY <3>3, <3>4
    <3>6. QED
      BY <3>1, <3>5
  <2>3. QED
    BY <1>2, <2>1, <2>2
<1>4. Counted(n, store[n], t, commits)
  BY <1>1, <1>2, <1>3 DEF Counted
<1> HIDE DEF t
<1>5. QED
  BY <1>1, <1>4, VersionTxSteps

LEMMA VersionWritePage ==
  ASSUME OneSource, CopyInv, VersionInv, NEW n \in Node, Replicas!WritePage(n)
  PROVE  VersionInv'
<1>1. PICK p \in Replicas!Page :
        tx' = [tx EXCEPT ![n].pages = Replicas!Overwritten(@, p, commits + 1)]
  BY DEF Replicas!WritePage
<1>2. /\ tx[n].by = "application" /\ Writing(tx[n]) /\ commits \in Nat
      /\ UNCHANGED <<store, net, commits>> /\ Counted(n, store[n], tx[n], commits)
  BY Kinds DEF Replicas!WritePage, CopyInv, VersionInv, OneSource, Room
<1> DEFINE d == Replicas!Overwritten(tx[n].pages, p, commits + 1)
           t == [tx[n] EXCEPT !.pages = d]
<1>3. tx' = [tx EXCEPT ![n] = t]
  BY <1>1
<1>4. /\ p \in DOMAIN d /\ d[p] = commits + 1
      /\ \A q \in DOMAIN d : d[q] <= commits + 1
  <2>1. p \in DOMAIN d /\ d[p] = commits + 1
    BY DEF Replicas!Overwritten
  <2>2. \A q \in DOMAIN d : q # p => q \in DOMAIN tx[n].pages /\ d[q] = tx[n].pages[q]
    BY DEF Replicas!Overwritten
  <2>3. \A q \in DOMAIN tx[n].pages : tx[n].pages[q] <= commits + 1
    BY <1>2 DEF Counted
  <2> HIDE DEF d
  <2>4. QED
    BY <1>2, <2>1, <2>2, <2>3
<1> HIDE DEF d
<1>5. t.by = "application" /\ t.pages = d
  BY <1>2 DEF Writing
<1> HIDE DEF t
<1>6. Counted(n, store[n], t, commits)
  BY <1>2, <1>4, <1>5 DEF Counted
<1>7. QED
  BY <1>2, <1>3, <1>6, VersionTxSteps

\* What is committed has the number of the commit in a page, and no greater one.
LEMMA CommitVersion ==
  ASSUME OneSource, CopyInv, VersionInv, NEW n \in Node, Replicas!Commit(n)
  PROVE  /\ n \in Writers /\ store[n].changes = commits
         /\ Replicas!Version(store[n].pages) = commits
         /\ Replicas!Version(tx[n].pages) = commits + 1 /\ store[n].applied = 0
<1>1. /\ tx[n].by = "application" /\ Writing(tx[n]) /\ commits \in Nat
      /\ tx[n].pages # store[n].pages /\ Counted(n, store[n], tx[n], commits)
  BY Kinds DEF Replicas!Commit, CopyInv, VersionInv, OneSource, Room
<1>2. /\ tx[n].pages \in Replicas!Content /\ n \in Writers
      /\ \E p \in DOMAIN tx[n].pages : tx[n].pages[p] = commits + 1
      /\ \A p \in DOMAIN tx[n].pages : tx[n].pages[p] <= commits + 1
  BY <1>1 DEF Counted, Writing
<1>3. PICK v \in Nat : v = commits + 1
  BY <1>1
<1>4. Replicas!Version(tx[n].pages) = v
  BY <1>2, <1>3, VersionUnique DEF OneSource
<1>5. QED
  BY <1>1, <1>2, <1>3, <1>4 DEF Counted

LEMMA VersionCommit ==
  ASSUME OneSource, CopyInv, VersionInv, NEW n \in Node, Replicas!Commit(n)
  PROVE  VersionInv'
<1> DEFINE db == [store[n] EXCEPT !.pages = tx[n].pages, !.changes = @ + 1]
<1>1. /\ store' = [store EXCEPT ![n] = db] /\ tx' = [tx EXCEPT ![n] = Replicas!NoTx]
      /\ net' = net /\ commits' = commits + 1
  BY DEF Replicas!Commit
<1>2. store[n] \in Database
  BY DEF CopyInv
<1>3. db.pages = tx[n].pages /\ db.changes = store[n].changes + 1 /\ db.applied = store[n].applied
  BY <1>2 DEF Database
<1> HIDE DEF db
<1>4. Counted(n, db, Replicas!NoTx, commits')
  BY <1>1, <1>3, CommitVersion DEF Counted, Replicas!NoTx
<1>5. QED
  BY <1>1, <1>4, CommitVersion, VersionNodeSteps

LEMMA VersionEnds ==
  ASSUME OneSource, CopyInv, VersionInv, NEW n \in Node,
         Ends(n)
  PROVE  VersionInv'
<1>1. tx' = [tx EXCEPT ![n] = Replicas!NoTx] /\ UNCHANGED <<store, net, commits>>
  BY DEF Ends, Replicas!Rollback, Replicas!RollbackFails, Replicas!Restart, Replicas!ApplyFails
<1>2. Counted(n, store[n], Replicas!NoTx, commits)
  BY DEF VersionInv, Counted, Replicas!NoTx
<1>3. QED
  BY <1>1, <1>2, VersionTxSteps

LEMMA VersionApplyBegin ==
  ASSUME OneSource, CopyInv, VersionInv, NEW n \in Node, Replicas!ApplyBegin(n)
  PROVE  VersionInv'
<1>1. PICK k \in net :
         /\ Replicas!Valid(k) /\ Replicas!Newer(n, k)
         /\ tx' = [tx EXCEPT ![n] = [by |-> "receiver", chunk |-> k, left |-> 1 .. k.total,
                                     pages |-> store[n].pages]]
  BY DEF Replicas!ApplyBegin
<1> DEFINE t == [by |-> "receiver", chunk |-> k, left |-> 1 .. k.total, pages |-> store[n].pages]
<1>2. /\ n \notin Writers /\ UNCHANGED <<store, net, commits>>
      /\ k.sequence = NumberOf(k.frames) /\ k.sequence > store[n].applied
      /\ Counted(n, store[n], tx[n], commits)
  BY <1>1 DEF Replicas!ApplyBegin, VersionInv, OneSource, Replicas!Newer
<1>3. t.by = "receiver" /\ t.chunk = k
  OBVIOUS
<1> HIDE DEF t
<1>4. Counted(n, store[n], t, commits)
  BY <1>2, <1>3 DEF Counted
<1>5. QED
  BY <1>1, <1>2, <1>4, VersionTxSteps DEF t

LEMMA VersionApplyFrame ==
  ASSUME OneSource, CopyInv, VersionInv, NEW n \in Node, Replicas!ApplyFrame(n)
  PROVE  VersionInv'
<1>1. /\ Applying(tx[n], history) /\ UNCHANGED <<store, net, commits>>
      /\ tx[n].by = "receiver" /\ Counted(n, store[n], tx[n], commits)
  BY Kinds DEF Replicas!ApplyFrame, VersionInv
<1>2. PICK p \in tx[n].left :
         tx' = [tx EXCEPT ![n].left = @ \ {p},
                          ![n].pages = Replicas!Overwritten(@, p, tx[n].chunk.frames[p])]
  BY DEF Replicas!ApplyFrame
<1> DEFINE d == Replicas!Overwritten(tx[n].pages, p, tx[n].chunk.frames[p])
           t == [tx[n] EXCEPT !.left = @ \ {p}, !.pages = d]
<1>3. tx' = [tx EXCEPT ![n] = t]
  BY <1>2
<1> HIDE DEF d
<1>4. t.by = "receiver" /\ t.chunk = tx[n].chunk
  BY <1>1 DEF Applying
<1> HIDE DEF t
<1>5. Counted(n, store[n], t, commits)
  BY <1>1, <1>4 DEF Counted
<1>6. QED
  BY <1>1, <1>3, <1>5, VersionTxSteps

LEMMA VersionApplyCommit ==
  ASSUME OneSource, CopyInv, VersionInv, NEW n \in Node, Replicas!ApplyCommit(n)
  PROVE  VersionInv'
<1> DEFINE c == tx[n].chunk.frames
           db == [pages |-> c, changes |-> store[n].changes + 1, applied |-> tx[n].chunk.sequence]
<1>1. /\ Applying(tx[n], history) /\ UNCHANGED <<net, commits>> /\ tx[n].left = {}
      /\ tx' = [tx EXCEPT ![n] = Replicas!NoTx]
      /\ tx[n].by = "receiver" /\ Counted(n, store[n], tx[n], commits)
  BY Kinds DEF Replicas!ApplyCommit, VersionInv
<1>2. [p \in 1 .. tx[n].chunk.total |-> tx[n].pages[p]] = c
  BY <1>1, Applied DEF CopyInv, OneSource
<1>3. store' = [store EXCEPT ![n] = db]
  BY <1>2 DEF Replicas!ApplyCommit
<1>4. db.pages = c /\ db.applied = tx[n].chunk.sequence
  OBVIOUS
<1> HIDE DEF c, db
<1>5. Counted(n, db, Replicas!NoTx, commits)
  BY <1>1, <1>4 DEF Counted, c, Replicas!NoTx
<1>6. QED
  BY <1>1, <1>3, <1>5, VersionNodeSteps

\* The number of a snapshot is the version of what it is taken of.
LEMMA SnapshotNumber ==
  ASSUME OneSource, CopyInv, VersionInv, NEW n \in Node \cap Writers
  PROVE  Replicas!Snapshot(n).sequence = NumberOf(Replicas!Snapshot(n).frames)
<1>1. /\ store[n].changes = commits /\ Replicas!Version(store[n].pages) = commits
      /\ commits \in Nat
  BY DEF VersionInv, Counted, CopyInv, OneSource, Room
<1>2. Replicas!Sequence(store[n]) = NumberOf(store[n].pages)
  BY <1>1, GreaterOfTwo DEF Replicas!Sequence, NumberOf
<1>3. QED
  BY <1>2 DEF Replicas!Snapshot

LEMMA VersionSends ==
  ASSUME OneSource, CopyInv, VersionInv, (\E n \in Node : Replicas!Export(n)) \/ Replicas!Damage
  PROVE  VersionInv'
<1>1. UNCHANGED <<store, tx, commits>>
  BY DEF Replicas!Export, Replicas!Damage
<1>2. \A k \in net' : Replicas!Valid(k) => k.sequence = NumberOf(k.frames)
  <2>1. CASE \E n \in Node : Replicas!Export(n)
    <3>1. PICK n \in Node \cap Writers : net' = net \cup {Replicas!Snapshot(n)}
      BY <2>1 DEF Replicas!Export, OneSource
    <3>2. PICK k : k = Replicas!Snapshot(n)
      OBVIOUS
    <3>3. k.sequence = NumberOf(k.frames)
      BY <3>2, SnapshotNumber
    <3>4. QED
      BY <3>1, <3>2, <3>3 DEF VersionInv
  <2>2. CASE Replicas!Damage
    BY <2>2, DamageAdds DEF VersionInv, OneSource
  <2>3. QED
    BY <2>1, <2>2
<1>3. QED
  BY <1>1, <1>2 DEF VersionInv, Replicas!Valid

LEMMA VersionSteps ==
  ASSUME OneSource, CopyInv, VersionInv, [Replicas!Next]_(Replicas!vars)
  PROVE  VersionInv'
<1>1. ASSUME NEW n \in Node,
             \/ Replicas!Begin(n) \/ Replicas!WritePage(n) \/ Replicas!Commit(n)
             \/ Ends(n)
      PROVE  VersionInv'
  BY <1>1, VersionBegin, VersionWritePage, VersionCommit, VersionEnds
<1>2. ASSUME NEW n \in Node,
             Replicas!ApplyBegin(n) \/ Replicas!ApplyFrame(n) \/ Replicas!ApplyCommit(n)
      PROVE  VersionInv'
  BY <1>2, VersionApplyBegin, VersionApplyFrame, VersionApplyCommit
<1>3. ASSUME (\E n \in Node : Replicas!Export(n)) \/ Replicas!Damage
      PROVE  VersionInv'
  BY <1>3, VersionSends
<1>4. ASSUME UNCHANGED Replicas!vars
      PROVE  VersionInv'
  BY <1>4 DEF VersionInv, Replicas!vars, Replicas!Valid
<1>5. QED
  BY <1>1, <1>2, <1>3, <1>4 DEF Replicas!Next, Ends

\* What is applied is not older than what it replaces.
LEMMA NeverBackSteps ==
  ASSUME OneSource, CopyInv, VersionInv, [Replicas!Next]_(Replicas!vars)
  PROVE  Replicas!NeverBack
<1> DEFINE Unchanged(n) == store'[n].pages = store[n].pages
<1>1. ASSUME NEW n \in Node, Replicas!Commit(n)
      PROVE  /\ \A m \in Node : m # n => Unchanged(m)
             /\ Replicas!Version(store'[n].pages) >= Replicas!Version(store[n].pages)
  <2> DEFINE db == [store[n] EXCEPT !.pages = tx[n].pages, !.changes = @ + 1]
  <2>0. store[n] \in Database /\ commits \in Nat
    BY DEF CopyInv, OneSource, Room
  <2>1. store' = [store EXCEPT ![n] = db]
    BY <1>1 DEF Replicas!Commit
  <2>2. db.pages = tx[n].pages
    BY <2>0 DEF Database
  <2> HIDE DEF db
  <2>3. store'[n].pages = tx[n].pages /\ \A m \in Node : m # n => Unchanged(m)
    BY <2>1, <2>2 DEF CopyInv
  <2>4. QED
    BY <1>1, <2>0, <2>3, CommitVersion
<1>2. ASSUME NEW n \in Node, Replicas!ApplyCommit(n)
      PROVE  /\ \A m \in Node : m # n => Unchanged(m)
             /\ Replicas!Version(store'[n].pages) >= Replicas!Version(store[n].pages)
  <2> DEFINE c == tx[n].chunk.frames
             db == [pages |-> c, changes |-> store[n].changes + 1, applied |-> tx[n].chunk.sequence]
  <2>1. /\ Applying(tx[n], history) /\ tx[n].left = {}
        /\ tx[n].by = "receiver" /\ Counted(n, store[n], tx[n], commits)
    BY <1>2, Kinds DEF Replicas!ApplyCommit, VersionInv
  <2>2. [p \in 1 .. tx[n].chunk.total |-> tx[n].pages[p]] = c
    BY <2>1, Applied DEF CopyInv, OneSource
  <2>3. store' = [store EXCEPT ![n] = db]
    BY <1>2, <2>2 DEF Replicas!ApplyCommit
  <2>4. store'[n].pages = c /\ \A m \in Node : m # n => Unchanged(m)
    BY <2>3 DEF CopyInv
  <2>5. c \in Replicas!Content /\ store[n].pages \in Replicas!Content
    BY <2>1 DEF Applying, Shipped, CopyInv, Database
  <2>6. /\ tx[n].chunk.sequence = NumberOf(c) /\ NumberOf(c) > store[n].applied
        /\ \/ store[n].pages = Replicas!Empty
           \/ store[n].applied = NumberOf(store[n].pages)
    BY <2>1 DEF Counted
  <2> HIDE DEF c, db
  <2>7. Replicas!Version(c) \in Nat /\ Replicas!Version(store[n].pages) \in Nat
    BY <2>5, VersionIs DEF OneSource, Room
  <2>8. Replicas!Version(c) >= Replicas!Version(store[n].pages)
    BY <2>6, <2>7, VersionOfEmpty DEF NumberOf, OneSource
  <2>9. QED
    BY <2>4, <2>8
<1>3. \A n \in Node : Replicas!Version(store[n].pages) \in Nat
  <2>1. \A n \in Node : store[n].pages \in Replicas!Content
    BY DEF CopyInv, Database
  <2>2. QED
    BY <2>1, VersionIs DEF OneSource, Room
<1>4. ASSUME \A m \in Node : Unchanged(m) PROVE Replicas!NeverBack
  BY <1>3, <1>4 DEF Replicas!NeverBack
<1>5. \/ \A m \in Node : Unchanged(m)
      \/ \E n \in Node : Replicas!Commit(n) \/ Replicas!ApplyCommit(n)
  <2>1. ASSUME NEW n \in Node,
               \/ Replicas!Begin(n) \/ Replicas!WritePage(n) \/ Replicas!Export(n)
               \/ Replicas!ApplyBegin(n) \/ Replicas!ApplyFrame(n)
        PROVE  store' = store
    BY <2>1 DEF Replicas!Begin, Replicas!WritePage, Replicas!Export, Replicas!ApplyBegin,
                Replicas!ApplyFrame
  <2>2. ASSUME NEW n \in Node, Ends(n) PROVE store' = store
    BY <2>2 DEF Ends, Replicas!Rollback, Replicas!RollbackFails, Replicas!Restart,
                Replicas!ApplyFails
  <2>3. ASSUME Replicas!Damage \/ UNCHANGED Replicas!vars PROVE store' = store
    BY <2>3, DamageLeaves DEF Replicas!vars
  <2>4. QED
    BY <2>1, <2>2, <2>3 DEF Replicas!Next, Ends
<1>6. ASSUME NEW n \in Node, Replicas!Commit(n) \/ Replicas!ApplyCommit(n)
      PROVE  Replicas!NeverBack
  <2>1. \A m \in Node : Replicas!Version(store'[m].pages) >= Replicas!Version(store[m].pages)
    BY <1>1, <1>2, <1>3, <1>6
  <2>2. QED
    BY <2>1 DEF Replicas!NeverBack
<1>7. QED
  BY <1>4, <1>5, <1>6

-----------------------------------------------------------------------------
(* The theorems about replication.                                         *)

\* The invariant of a source and its followers.
THEOREM SourceInvCorrect ==
  ASSUME OneSource
  PROVE  Replicas!Spec => [](CopyInv /\ VersionInv)
<1>1. Replicas!Init => CopyInv /\ VersionInv
  BY CopyInit, VersionInit DEF OneSource
<1>2. CopyInv /\ VersionInv /\ [Replicas!Next]_(Replicas!vars) => CopyInv' /\ VersionInv'
  BY CopySteps, CopyStutters, VersionSteps DEF OneSource
<1>3. QED
  BY <1>1, <1>2, PTL DEF Replicas!Spec

\* A database never goes back to an older state, whichever snapshots arrive late, twice or
\* damaged, and wherever a receiver stops or starts anew (ReplicationReceiver::apply_chunk).
THEOREM NeverBackCorrect ==
  ASSUME OneSource
  PROVE  Replicas!Spec => Replicas!NeverGoesBack
<1>1. CopyInv /\ VersionInv /\ [Replicas!Next]_(Replicas!vars) => Replicas!NeverBack
  BY NeverBackSteps
<1>2. QED
  BY <1>1, SourceInvCorrect, PTL DEF Replicas!Spec, Replicas!NeverGoesBack

\* The parts of MCServices do not disturb each other.
LEMMA ReplicasRun ==
  Parts => Replicas!Spec
<1>1. PartsInit => Replicas!Init
  BY DEF PartsInit
<1>2. [PartsNext]_<<part, feedVars, replicaVars, vars, deviceVars, remoteVars>>
        => [Replicas!Next]_(Replicas!vars)
  BY DEF PartsNext, replicaVars, Replicas!vars
<1>3. QED
  BY <1>1, <1>2, PTL DEF Parts, Replicas!Spec

\* A snapshot that is newer than a database has a greater number than what it applied last.
LEMMA NewerHasNumber ==
  ASSUME OneSource, CopyInv, VersionInv
  PROVE  Replicas!NewerIsAccepted
<1> SUFFICES ASSUME NEW n \in Node, NEW k \in net, Replicas!Valid(k),
                    Replicas!Version(k.frames) > Replicas!Max({1, Replicas!Version(store[n].pages)})
             PROVE  Replicas!Newer(n, k)
  BY DEF Replicas!NewerIsAccepted
<1>1. /\ Shipped(k, history) /\ k.sequence = NumberOf(k.frames)
      /\ Counted(n, store[n], tx[n], commits) /\ store[n].pages \in Replicas!Content
  BY DEF CopyInv, VersionInv, Database
<1>2. k.frames \in Replicas!Content
  BY <1>1 DEF Shipped, CopyInv
<1>3. /\ Replicas!Version(k.frames) \in Nat /\ Replicas!Version(store[n].pages) \in Nat
  BY <1>1, <1>2, VersionIs DEF OneSource, Room
<1>4. /\ Replicas!Version(k.frames) > 1
      /\ Replicas!Version(k.frames) > Replicas!Version(store[n].pages)
  BY <1>3, GreaterOfTwo
<1>5. store[n].applied = 0 \/ store[n].applied = NumberOf(store[n].pages)
  BY <1>1 DEF Counted
<1>6. QED
  BY <1>1, <1>3, <1>4, <1>5 DEF NumberOf, Replicas!Newer

\* A follower and its caches show what some commit of the source made, and a snapshot that
\* is newer than a database is not refused for its number (create_chunk, apply_chunk).
THEOREM SnapshotsCorrect ==
  ASSUME OneSource
  PROVE  Parts => []SnapshotsAreSound
<1>1. CopyInv /\ VersionInv => Replicas!NewerIsAccepted
  BY NewerHasNumber
<1>2. Replicas!Spec => []Replicas!SnapshotsAreWhole
  BY WholeCorrect DEF OneSource
<1>3. QED
  BY <1>1, <1>2, ReplicasRun, SourceInvCorrect, PTL DEF SnapshotsAreSound

-----------------------------------------------------------------------------
(* The slots of a device.                                                  *)

WriteBounds == MaxWrites \in Nat /\ MaxTries \in Nat

CallSteps == {"erase", "program", "sync", "commit", "finish"}
DeviceCalls == [step : CallSteps, bank : Devices!Bank, record : Devices!Record]

SlotTyped ==
  /\ bank \in [Devices!Bank -> Devices!Contents]
  /\ kept \in [Devices!Bank -> SUBSET Devices!Contents]
  /\ \A b \in Devices!Bank : bank[b] \in kept[b]
  /\ write = Devices!Idle \/ write \in DeviceCalls
  /\ acked \in 0 .. MaxWrites /\ tries \in 0 .. MaxTries
  /\ cut \in BOOLEAN /\ doubtful \in BOOLEAN /\ air \subseteq Devices!Record

\* What a write leaves of the bank that it uses does not hide the record with number s, and
\* makes the slot unreadable only if the write was torn.
Harmless(c, s, torn) ==
  c.mark => IF c.record = Devices!NoRecord THEN torn ELSE c.record.sequence < s

Unmarked(w)   == [record |-> w.record, mark |-> FALSE]
Committing(w) == [record |-> w.record, mark |-> TRUE]

\* The bank with the last record that is safe, or the one that is left alone until there is
\* a record.
Lasting(b) ==
  /\ kept[b] = {bank[b]}
  /\ IF bank[b].mark THEN bank[b].record # Devices!NoRecord ELSE bank[b] = Devices!Erased /\ b = 1
  /\ acked <= bank[b].record.sequence
  /\ \A c \in air : /\ c.sequence <= bank[b].record.sequence
                    /\ c.sequence = bank[b].record.sequence => c = bank[b].record

\* The bank o beside the record with number s, and the write that uses it.
Using(o, s) ==
  /\ write # Devices!Idle => write.bank = o /\ write.record.sequence = s + 1
  /\ write.step # "finish" =>
       /\ Harmless(bank[o], s, cut)
       /\ \A c \in kept[o] : Harmless(c, s, cut \/ write.step \in Devices!Open)
  /\ write.step = "sync" => bank[o] = Unmarked(write)
  /\ write.step = "commit" => kept[o] = {Unmarked(write)}
  /\ write.step = "finish" =>
       bank[o] = Committing(write) /\ kept[o] \subseteq {Unmarked(write), Committing(write)}

RecordIsKept == \E b \in Devices!Bank : Lasting(b) /\ Using(1 - b, bank[b].record.sequence)

OneCapsule == \A c, d \in air : c.sequence = d.sequence => c = d

SlotInv == SlotTyped /\ (~ doubtful => RecordIsKept /\ OneCapsule)

-----------------------------------------------------------------------------

LEMMA TwoBanks ==
  ASSUME NEW b \in Devices!Bank
  PROVE  1 - b \in Devices!Bank /\ 1 - b # b /\ 1 - (1 - b) = b /\ Devices!Bank = {b, 1 - b}
BY DEF Devices!Bank

LEMMA RecordIs ==
  ASSUME WriteBounds, NEW r \in Devices!Record \cup {Devices!NoRecord}
  PROVE  /\ r.sequence \in 0 .. MaxWrites
         /\ r = Devices!NoRecord => r.sequence = 0
         /\ r # Devices!NoRecord => r \in Devices!Record /\ r.sequence > 0
BY DEF WriteBounds, Devices!Record, Devices!NoRecord

LEMMA ContentsIs ==
  ASSUME WriteBounds, NEW c \in Devices!Contents
  PROVE  /\ c.record \in Devices!Record \cup {Devices!NoRecord} /\ c.mark \in BOOLEAN
         /\ c.record.sequence \in 0 .. MaxWrites
         /\ c = [record |-> c.record, mark |-> c.mark]
<1>1. c.record \in Devices!Record \cup {Devices!NoRecord} /\ c.mark \in BOOLEAN
      /\ c = [record |-> c.record, mark |-> c.mark]
  BY DEF Devices!Contents
<1>2. QED
  BY <1>1, RecordIs

LEMMA SmallContents ==
  /\ Devices!Erased \in Devices!Contents /\ Devices!Garbage \in Devices!Contents
  /\ Devices!Erased.mark = FALSE /\ Devices!Erased.record = Devices!NoRecord
  /\ Devices!Garbage.record = Devices!NoRecord /\ Devices!NoRecord.sequence = 0
BY DEF Devices!Erased, Devices!Garbage, Devices!Contents, Devices!NoRecord

\* The records of the committed banks have a greatest one.
LEMMA LatestIs ==
  ASSUME WriteBounds, SlotTyped, Devices!Committed # {}
  PROVE  \E b \in Devices!Committed :
           /\ Devices!Latest = bank[b].record
           /\ \A c \in Devices!Committed : bank[c].record.sequence <= bank[b].record.sequence
<1> DEFINE R == {bank[b].record : b \in Devices!Committed}
           Top(r) == \A b \in Devices!Committed : bank[b].record.sequence <= r.sequence
<1>1. \A b \in Devices!Committed : b \in {0, 1} /\ bank[b].record.sequence \in Nat
  <2> TAKE b \in Devices!Committed
  <2>1. b \in {0, 1} /\ b \in Devices!Bank
    BY DEF Devices!Committed, Devices!Bank
  <2>2. bank[b] \in Devices!Contents
    BY <2>1 DEF SlotTyped
  <2>3. QED
    BY <2>1, <2>2, ContentsIs DEF WriteBounds
<1>2. \E b \in Devices!Committed : Top(bank[b].record)
  BY <1>1
<1>3. \E r \in R : Top(r)
  BY <1>2
<1>4. Devices!Latest = CHOOSE r \in R : Top(r)
  BY DEF Devices!Latest
<1> HIDE DEF Top
<1>5. Devices!Latest \in R /\ Top(Devices!Latest)
  BY <1>3, <1>4
<1>6. QED
  BY <1>5 DEF Top

LEMMA LatestTyped ==
  ASSUME WriteBounds, SlotTyped
  PROVE  /\ Devices!Latest \in Devices!Record \cup {Devices!NoRecord}
         /\ Devices!Target \in Devices!Bank
<1>1. CASE Devices!Committed = {}
  BY <1>1 DEF Devices!Latest, Devices!Target, Devices!Bank
<1>2. CASE Devices!Committed # {}
  <2>1. PICK b \in Devices!Committed : Devices!Latest = bank[b].record
    BY <1>2, LatestIs
  <2>2. b \in Devices!Bank /\ bank[b] \in Devices!Contents
    BY DEF Devices!Committed, SlotTyped
  <2>3. Devices!LatestBank \in Devices!Committed
    BY <2>1 DEF Devices!LatestBank
  <2>4. Devices!LatestBank \in Devices!Bank
    BY <2>3 DEF Devices!Committed
  <2>5. Devices!Target = 1 - Devices!LatestBank
    BY <1>2 DEF Devices!Target
  <2>6. QED
    BY <2>1, <2>2, <2>4, <2>5, ContentsIs, TwoBanks
<1>3. QED
  BY <1>1, <1>2

\* A committed record with a greater number than the other bank's is the one that is read.
LEMMA NewestIsRead ==
  ASSUME WriteBounds, SlotTyped, NEW b \in Devices!Bank, bank[b].mark,
         bank[1 - b].mark => bank[1 - b].record.sequence < bank[b].record.sequence
  PROVE  /\ Devices!Latest = bank[b].record
         /\ Devices!Committed # {} /\ Devices!LatestBank = b
<1>1. b \in Devices!Committed
  BY DEF Devices!Committed
<1>2. \A c \in Devices!Bank : bank[c].record.sequence \in Nat
  <2> TAKE c \in Devices!Bank
  <2>1. bank[c] \in Devices!Contents
    BY DEF SlotTyped
  <2>2. QED
    BY <2>1, ContentsIs DEF WriteBounds
<1>3. \A c \in Devices!Committed : c = b \/ bank[c].record.sequence < bank[b].record.sequence
  BY TwoBanks DEF Devices!Committed
<1>4. PICK t \in Devices!Committed :
        /\ Devices!Latest = bank[t].record
        /\ \A c \in Devices!Committed : bank[c].record.sequence <= bank[t].record.sequence
  BY <1>1, LatestIs
<1>5. t \in Devices!Bank
  BY DEF Devices!Committed
<1>6. t = b
  BY <1>1, <1>2, <1>3, <1>4, <1>5
<1>7. \A c \in Devices!Committed : bank[c].record = bank[b].record => c = b
  BY <1>2, <1>3
<1>8. Devices!LatestBank = b
  BY <1>1, <1>4, <1>6, <1>7 DEF Devices!LatestBank
<1>9. QED
  BY <1>1, <1>4, <1>6, <1>8

\* Before its commit unit is programmed, a write leaves the slot as it was read.
LEMMA LastingIsRead ==
  ASSUME WriteBounds, SlotTyped, NEW b \in Devices!Bank, Lasting(b),
         Harmless(bank[1 - b], bank[b].record.sequence, cut)
  PROVE  /\ Devices!Corrupted => cut
         /\ ~ Devices!Corrupted =>
              Devices!Latest = bank[b].record /\ Devices!Target = 1 - b
<1> DEFINE o == 1 - b
<1>1. o \in Devices!Bank /\ o # b /\ Devices!Bank = {b, o} /\ Devices!Bank = {0, 1}
  BY TwoBanks DEF Devices!Bank
<1>2. bank[b] \in Devices!Contents /\ bank[o] \in Devices!Contents
  BY <1>1 DEF SlotTyped
<1> DEFINE s == bank[b].record.sequence
           z == bank[o].record.sequence
<1>3. s \in Nat /\ z \in Nat /\ (bank[b].record = Devices!NoRecord => s = 0)
  <2>1. bank[b].record \in Devices!Record \cup {Devices!NoRecord}
        /\ bank[o].record \in Devices!Record \cup {Devices!NoRecord}
    BY <1>2, ContentsIs
  <2>2. QED
    BY <2>1, RecordIs DEF WriteBounds
<1>4. \A c : c \in Devices!Committed <=> (c = b \/ c = o) /\ bank[c].mark
  BY <1>1 DEF Devices!Committed
<1>5. bank[o].mark => IF bank[o].record = Devices!NoRecord THEN cut ELSE z < s
  BY DEF Harmless
<1>6. (bank[o].mark /\ bank[o].record = Devices!NoRecord) => cut
  BY <1>5
<1>7. Devices!Corrupted => bank[o].mark /\ bank[o].record = Devices!NoRecord
  <2> SUFFICES ASSUME Devices!Corrupted
               PROVE  bank[o].mark /\ bank[o].record = Devices!NoRecord
    OBVIOUS
  <2>1. CASE \E c \in Devices!Committed : bank[c].record = Devices!NoRecord
    <3>1. PICK c \in Devices!Committed : bank[c].record = Devices!NoRecord
      BY <2>1
    <3>2. c # b
      BY <3>1, <1>4 DEF Lasting
    <3>3. QED
      BY <3>1, <3>2, <1>4
  <2>2. CASE Devices!Committed = Devices!Bank
             /\ bank[0].record.sequence = bank[1].record.sequence
    <3>1. z = s /\ bank[o].mark
      BY <2>2, <1>1, <1>4
    <3>2. QED
      BY <3>1, <1>3, <1>5
  <2>3. QED
    BY <2>1, <2>2 DEF Devices!Corrupted
<1>8. ASSUME ~ Devices!Corrupted
      PROVE  bank[o].mark => z < s
  <2>1. bank[o].mark => bank[o].record # Devices!NoRecord
    BY <1>4, <1>8 DEF Devices!Corrupted
  <2>2. QED
    BY <2>1, <1>5
<1>9. ASSUME ~ Devices!Corrupted
      PROVE  Devices!Latest = bank[b].record /\ Devices!Target = o
  <2>1. CASE bank[b].mark
    <3>1. Devices!Latest = bank[b].record /\ Devices!Committed # {} /\ Devices!LatestBank = b
      BY <2>1, <1>8, <1>9, NewestIsRead
    <3>2. QED
      BY <3>1 DEF Devices!Target
  <2>2. CASE ~ bank[b].mark
    <3>1. bank[b].record = Devices!NoRecord /\ b = 1
      BY <2>2, SmallContents DEF Lasting
    <3>2. ~ bank[o].mark
      BY <3>1, <1>3, <1>8, <1>9
    <3>3. Devices!Committed = {}
      BY <2>2, <3>2, <1>4
    <3>4. QED
      BY <3>1, <3>3 DEF Devices!Target, Devices!Latest
  <2>3. QED
    BY <2>1, <2>2
<1>10. QED
  BY <1>6, <1>7, <1>9

-----------------------------------------------------------------------------
(* The steps of a write.                                                   *)

\* A slot that is well formed, with the last safe record in bank b.
LEMMA BanksAre ==
  ASSUME WriteBounds, SlotTyped, NEW b \in Devices!Bank
  PROVE  /\ bank[b] \in Devices!Contents /\ kept[b] \subseteq Devices!Contents
         /\ bank[b].record.sequence \in Nat
         /\ (bank[b].record = Devices!NoRecord) => bank[b].record.sequence = 0
         /\ \A c \in kept[b] : c.record.sequence \in Nat
<1>1. bank[b] \in Devices!Contents /\ kept[b] \subseteq Devices!Contents
  BY DEF SlotTyped
<1>2. \A c \in Devices!Contents :
        c.record.sequence \in Nat /\ (c.record = Devices!NoRecord => c.record.sequence = 0)
  BY ContentsIs, RecordIs DEF WriteBounds
<1>3. QED
  BY <1>1, <1>2

LEMMA WriteIs ==
  ASSUME SlotTyped, write.step # "idle"
  PROVE  write \in DeviceCalls
BY DEF SlotTyped, Devices!Idle

LEMMA MarkedIs ==
  ASSUME NEW c \in Devices!Contents
  PROVE  /\ Devices!Marked(c) \in Devices!Contents
         /\ Devices!Marked(c).record = c.record /\ Devices!Marked(c).mark = TRUE
BY DEF Devices!Contents, Devices!Marked

LEMMA UnmarkedIs ==
  ASSUME NEW w \in DeviceCalls
  PROVE  /\ Unmarked(w) \in Devices!Contents /\ Committing(w) \in Devices!Contents
         /\ Devices!Marked(Unmarked(w)) = Committing(w)
         /\ Devices!Marked(Committing(w)) = Committing(w)
<1>1. Unmarked(w) \in Devices!Contents /\ Committing(w) \in Devices!Contents
  BY DEF DeviceCalls, Unmarked, Committing, Devices!Contents
<1>2. Unmarked(w).record = w.record /\ Committing(w).record = w.record
  BY DEF Unmarked, Committing
<1>3. ASSUME NEW c \in Devices!Contents, c.record = w.record, c.mark = TRUE
      PROVE  c = Committing(w)
  BY <1>3 DEF Devices!Contents, Committing
<1>4. QED
  BY <1>1, <1>2, <1>3, MarkedIs

\* Only the bank in use changes, to what may be read of it.
LEMMA ChangeTyped ==
  ASSUME SlotTyped, NEW to \in Devices!Contents, NEW between \in SUBSET Devices!Contents,
         write \in DeviceCalls, Devices!Change(to, between)
  PROVE  /\ bank' \in [Devices!Bank -> Devices!Contents]
         /\ kept' \in [Devices!Bank -> SUBSET Devices!Contents]
         /\ \A c \in Devices!Bank : bank'[c] \in kept'[c]
         /\ bank'[write.bank] = to
         /\ kept'[write.bank] = kept[write.bank] \cup between \cup {to}
         /\ \A c \in Devices!Bank : c # write.bank => bank'[c] = bank[c] /\ kept'[c] = kept[c]
<1>1. write.bank \in Devices!Bank
  BY DEF DeviceCalls
<1>2. /\ bank' = [bank EXCEPT ![write.bank] = to]
      /\ kept' = [kept EXCEPT ![write.bank] = @ \cup between \cup {to}]
  BY DEF Devices!Change
<1>3. QED
  BY <1>1, <1>2 DEF SlotTyped

LEMMA TornIs ==
  ASSUME NEW b
  PROVE  Devices!Torn(b) \subseteq {Devices!Erased, Devices!Garbage}
BY DEF Devices!Torn

LEMMA StepOf ==
  ASSUME NEW w \in DeviceCalls, NEW s \in CallSteps
  PROVE  /\ [w EXCEPT !.step = s] \in DeviceCalls
         /\ [w EXCEPT !.step = s].step = s
         /\ [w EXCEPT !.step = s].bank = w.bank
         /\ [w EXCEPT !.step = s].record = w.record
         /\ Unmarked([w EXCEPT !.step = s]) = Unmarked(w)
         /\ Committing([w EXCEPT !.step = s]) = Committing(w)
BY DEF DeviceCalls, Unmarked, Committing

\* The well-formedness of the slot, step by step.
LEMMA SlotTypedSteps ==
  ASSUME WriteBounds, SlotTyped, [Devices!DeviceNext]_(Devices!deviceVars)
  PROVE  SlotTyped'
<1> USE DEF WriteBounds
<1>1. CASE UNCHANGED Devices!deviceVars
  BY <1>1 DEF Devices!deviceVars, SlotTyped
<1>2. ASSUME NEW v \in Devices!Payload, Devices!Write(v)
      PROVE  SlotTyped'
  <2>1. Devices!Latest.sequence \in 0 .. MaxWrites /\ Devices!Target \in Devices!Bank
    BY LatestTyped, RecordIs
  <2>2. Devices!Latest.sequence + 1 \in 1 .. MaxWrites
    BY <2>1, <1>2 DEF Devices!Write
  <2>3. write' \in DeviceCalls
    BY <2>1, <2>2, <1>2 DEF Devices!Write, DeviceCalls, CallSteps, Devices!Record
  <2>4. QED
    BY <2>3, <1>2 DEF Devices!Write, SlotTyped
<1>3. ASSUME write \in DeviceCalls, write' = Devices!Idle \/ write' \in DeviceCalls,
             NEW to \in Devices!Contents, NEW between \in SUBSET Devices!Contents,
             Devices!Change(to, between),
             acked' = acked, tries' = tries, air' = air, cut' \in BOOLEAN, doubtful' \in BOOLEAN
      PROVE  SlotTyped'
  BY <1>3, ChangeTyped DEF SlotTyped
<1>4. Devices!Erased \in Devices!Contents /\ \A b : Devices!Torn(b) \in SUBSET Devices!Contents
      /\ {Devices!Erased} \in SUBSET Devices!Contents
  BY SmallContents, TornIs
<1>5. \A b \in BOOLEAN, c \in BOOLEAN : (b \/ c) \in BOOLEAN
  OBVIOUS
<1>6. CASE Devices!Erase
  <2>1. write \in DeviceCalls /\ "program" \in CallSteps
    BY <1>6, WriteIs DEF Devices!Erase, CallSteps
  <2>2. write' \in DeviceCalls
    BY <1>6, <2>1, StepOf DEF Devices!Erase
  <2>3. QED
    BY <1>6, <2>1, <2>2, <1>3, <1>4 DEF Devices!Erase, SlotTyped
<1>7. CASE Devices!Program
  <2>1. write \in DeviceCalls /\ "sync" \in CallSteps
    BY <1>7, WriteIs DEF Devices!Program, CallSteps
  <2>2. write' \in DeviceCalls
    BY <1>7, <2>1, StepOf DEF Devices!Program
  <2>3. Unmarked(write) \in Devices!Contents
    BY <2>1, UnmarkedIs
  <2>4. Devices!Change(Unmarked(write), {Devices!Erased})
    BY <1>7 DEF Devices!Program, Unmarked
  <2>5. QED
    BY <1>7, <2>1, <2>2, <2>3, <2>4, <1>3, <1>4 DEF Devices!Program, SlotTyped
<1>8. ASSUME write \in DeviceCalls, kept' = Devices!Synced, bank' = bank,
             write' = Devices!Idle \/ write' \in DeviceCalls, acked' \in 0 .. MaxWrites,
             UNCHANGED <<tries, doubtful, air>>, cut' \in BOOLEAN
      PROVE  SlotTyped'
  BY <1>8 DEF SlotTyped, Devices!Synced
<1>9. CASE Devices!SyncRecord
  <2>1. write \in DeviceCalls /\ "commit" \in CallSteps
    BY <1>9, WriteIs DEF Devices!SyncRecord, CallSteps
  <2>2. write' \in DeviceCalls
    BY <1>9, <2>1, StepOf DEF Devices!SyncRecord
  <2>3. QED
    BY <1>9, <2>1, <2>2, <1>8 DEF Devices!SyncRecord, SlotTyped
<1>10. ASSUME write \in DeviceCalls, Devices!Mark
       PROVE  \E to \in Devices!Contents, between \in SUBSET Devices!Contents :
                Devices!Change(to, between)
  <2>1. bank[write.bank] \in Devices!Contents /\ kept[write.bank] \subseteq Devices!Contents
    BY <1>10 DEF SlotTyped, DeviceCalls
  <2>2. Devices!Marked(bank[write.bank]) \in Devices!Contents
        /\ {Devices!Marked(c) : c \in kept[write.bank]} \in SUBSET Devices!Contents
    BY <2>1, MarkedIs
  <2>3. QED
    BY <1>10, <2>2 DEF Devices!Mark
<1>11. CASE Devices!ProgramCommit
  <2>1. write \in DeviceCalls /\ "finish" \in CallSteps
    BY <1>11, WriteIs DEF Devices!ProgramCommit, CallSteps
  <2>2. write' \in DeviceCalls
    BY <1>11, <2>1, StepOf DEF Devices!ProgramCommit
  <2>3. PICK to \in Devices!Contents, between \in SUBSET Devices!Contents :
          Devices!Change(to, between)
    BY <1>11, <2>1, <1>10 DEF Devices!ProgramCommit
  <2>4. QED
    BY <1>11, <2>1, <2>2, <2>3, <1>3 DEF Devices!ProgramCommit, SlotTyped
<1>12. CASE Devices!SyncCommit
  <2>1. write \in DeviceCalls
    BY <1>12, WriteIs DEF Devices!SyncCommit
  <2>2. write.record.sequence \in 0 .. MaxWrites
    BY <2>1 DEF DeviceCalls, Devices!Record
  <2>3. QED
    BY <1>12, <2>1, <2>2, <1>8 DEF Devices!SyncCommit, SlotTyped
<1>13. CASE Devices!Fails
  <2>1. write \in DeviceCalls
    BY <1>13 DEF Devices!Fails, SlotTyped
  <2>2. /\ write' = Devices!Idle /\ cut' \in BOOLEAN /\ doubtful' \in BOOLEAN
        /\ acked' = acked /\ tries' = tries /\ air' = air
    BY <1>13, <1>5 DEF Devices!Fails, SlotTyped
  <2>3. CASE UNCHANGED <<bank, kept>>
    BY <2>2, <2>3 DEF SlotTyped
  <2>4. ASSUME NEW to \in Devices!Torn(write.bank),
               Devices!Change(to, Devices!Torn(write.bank))
        PROVE  SlotTyped'
    BY <2>1, <2>2, <2>4, <1>3, <1>4
  <2>5. CASE Devices!Change(Devices!Erased, {})
    BY <2>1, <2>2, <2>5, <1>3, <1>4
  <2>6. CASE Devices!Mark
    BY <2>1, <2>2, <2>6, <1>3, <1>10
  <2>7. QED
    BY <1>13, <2>3, <2>4, <2>5, <2>6 DEF Devices!Fails
<1>14. CASE Devices!PowerLoss
  <2> DEFINE Left(b) == kept[b] \cup (IF write.step = "erase" /\ write.bank = b
                                      THEN Devices!Torn(b) ELSE {})
  <2>1. PICK low \in Left(0), high \in Left(1) :
          /\ bank' = [b \in Devices!Bank |-> IF b = 0 THEN low ELSE high]
          /\ kept' = [b \in Devices!Bank |-> IF b = 0 THEN {low} ELSE {high}]
    BY <1>14 DEF Devices!PowerLoss
  <2>2. Left(0) \subseteq Devices!Contents /\ Left(1) \subseteq Devices!Contents
    BY <1>4 DEF SlotTyped, Devices!Bank
  <2>3. /\ write' = Devices!Idle /\ cut' \in BOOLEAN /\ doubtful' \in BOOLEAN
        /\ acked' = acked /\ tries' = tries /\ air' = air
    BY <1>14, <1>5 DEF Devices!PowerLoss, SlotTyped
  <2> HIDE DEF Left
  <2>4. QED
    BY <2>1, <2>2, <2>3 DEF SlotTyped
<1>15. CASE Devices!ExportCapsule
  <2>1. Devices!Latest \in Devices!Record
    BY <1>15, LatestTyped DEF Devices!ExportCapsule
  <2>2. QED
    BY <1>15, <2>1 DEF Devices!ExportCapsule, SlotTyped
<1>16. QED
  BY <1>1, <1>2, <1>6, <1>7, <1>9, <1>11, <1>12, <1>13, <1>14, <1>15 DEF Devices!DeviceNext

-----------------------------------------------------------------------------
(* What is kept, step by step.                                             *)

\* The slot as it is before a step: bank b has the safe record, number s, and the other
\* bank is the one to write.
SlotAt(b, o, s) ==
  /\ b \in Devices!Bank /\ o = 1 - b /\ s \in Nat /\ bank[b].record.sequence = s
  /\ Lasting(b) /\ Using(o, s)

LEMMA SlotAtIs ==
  ASSUME WriteBounds, SlotTyped
  PROVE  RecordIsKept <=> \E b, o, s : SlotAt(b, o, s)
<1>1. ASSUME RecordIsKept PROVE \E b, o, s : SlotAt(b, o, s)
  <2>1. PICK b \in Devices!Bank : Lasting(b) /\ Using(1 - b, bank[b].record.sequence)
    BY <1>1 DEF RecordIsKept
  <2>2. bank[b].record.sequence \in Nat
    BY BanksAre
  <2>3. SlotAt(b, 1 - b, bank[b].record.sequence)
    BY <2>1, <2>2 DEF SlotAt
  <2>4. QED
    BY <2>3
<1>2. ASSUME NEW b, NEW o, NEW s, SlotAt(b, o, s) PROVE RecordIsKept
  BY <1>2 DEF SlotAt, RecordIsKept
<1>3. QED
  BY <1>1, <1>2

LEMMA StillLasting ==
  ASSUME NEW b, Lasting(b), bank'[b] = bank[b], kept'[b] = kept[b], acked' = acked, air' = air
  PROVE  Lasting(b)'
BY DEF Lasting

LEMMA HarmlessWhenTorn ==
  ASSUME NEW c, NEW s, NEW torn, Harmless(c, s, torn)
  PROVE  Harmless(c, s, TRUE)
BY DEF Harmless

LEMMA UnmarkedIsHarmless ==
  ASSUME NEW c, c.mark = FALSE, NEW s, NEW torn
  PROVE  Harmless(c, s, torn)
BY DEF Harmless

LEMMA LeftoversAreHarmless ==
  ASSUME NEW s
  PROVE  Harmless(Devices!Erased, s, TRUE) /\ Harmless(Devices!Garbage, s, TRUE)
BY SmallContents DEF Harmless

\* A write that is not at its last step leaves harmless bytes, if it may be torn.
LEMMA LeavesHarmless ==
  ASSUME NEW o, NEW s, Using(o, s), write.step # "finish"
  PROVE  \A c \in kept[o] \cup Devices!Torn(o) : Harmless(c, s, TRUE)
<1>1. \A c \in kept[o] : Harmless(c, s, TRUE)
  BY HarmlessWhenTorn DEF Using
<1>2. QED
  BY <1>1, TornIs, LeftoversAreHarmless

\* Bytes of the other bank change, and the safe record stays.
LEMMA ChangeOther ==
  ASSUME SlotTyped, NEW b, NEW o, NEW s, SlotAt(b, o, s), write \in DeviceCalls,
         NEW to \in Devices!Contents, NEW between \in SUBSET Devices!Contents,
         Devices!Change(to, between), acked' = acked, air' = air, Using(o, s)'
  PROVE  SlotAt(b, o, s)'
<1>1. b \in Devices!Bank /\ write.bank = o /\ b # o
  BY TwoBanks DEF SlotAt, Using, DeviceCalls, Devices!Idle
<1>2. bank'[b] = bank[b] /\ kept'[b] = kept[b]
  BY <1>1, ChangeTyped
<1>3. Lasting(b)'
  BY <1>2, StillLasting DEF SlotAt
<1>4. QED
  BY <1>2, <1>3 DEF SlotAt

LEMMA CallAt ==
  ASSUME SlotTyped, NEW b, NEW o, NEW s, SlotAt(b, o, s), write.step # "idle"
  PROVE  /\ write \in DeviceCalls /\ write # Devices!Idle /\ b \in Devices!Bank
         /\ write.bank = o /\ write.record.sequence = s + 1 /\ o \in Devices!Bank
         /\ b # o /\ 1 - o = b
<1>1. write \in DeviceCalls /\ write # Devices!Idle
  BY WriteIs DEF Devices!Idle
<1>2. QED
  BY <1>1, TwoBanks DEF SlotAt, Using

LEMMA BeginKeeps ==
  ASSUME WriteBounds, SlotTyped, NEW b, NEW o, NEW s, SlotAt(b, o, s),
         NEW v, Devices!Write(v)
  PROVE  SlotAt(b, o, s)'
<1>1. /\ write = Devices!Idle /\ ~ Devices!Corrupted
      /\ write' = [step |-> "erase", bank |-> Devices!Target,
                   record |-> [sequence |-> Devices!Latest.sequence + 1, value |-> v]]
      /\ UNCHANGED <<bank, kept, acked, cut, doubtful, air>>
  BY DEF Devices!Write
<1>2. write.step = "idle"
  BY <1>1 DEF Devices!Idle
<1>3. Harmless(bank[o], s, cut) /\ \A c \in kept[o] : Harmless(c, s, TRUE)
  BY <1>2, LeavesHarmless DEF SlotAt, Using
<1>4. Devices!Target = o /\ Devices!Latest.sequence = s
  BY <1>1, <1>3, LastingIsRead DEF SlotAt
<1>5. write'.step = "erase" /\ write'.bank = o /\ write'.record.sequence = s + 1
  BY <1>1, <1>4
<1>6. Harmless(bank[o], s, cut)' /\ \A c \in kept'[o] : Harmless(c, s, (cut \/ write.step \in Devices!Open)')
  BY <1>1, <1>3, <1>5 DEF Devices!Open, Harmless
<1>7. Using(o, s)'
  BY <1>5, <1>6 DEF Using
<1>8. QED
  BY <1>1, <1>7, StillLasting DEF SlotAt

LEMMA EraseKeeps ==
  ASSUME WriteBounds, SlotTyped, NEW b, NEW o, NEW s, SlotAt(b, o, s), Devices!Erase
  PROVE  SlotAt(b, o, s)'
<1>1. /\ write.step = "erase" /\ Devices!Change(Devices!Erased, Devices!Torn(write.bank))
      /\ write' = [write EXCEPT !.step = "program"]
      /\ UNCHANGED <<acked, tries, cut, doubtful, air>>
  BY DEF Devices!Erase
<1>2. write \in DeviceCalls /\ write.bank = o /\ write.record.sequence = s + 1
      /\ o \in Devices!Bank
  BY <1>1, CallAt
<1>3. write'.step = "program" /\ write'.bank = o /\ write'.record.sequence = s + 1
  BY <1>1, <1>2, StepOf DEF CallSteps
<1>4. /\ Devices!Erased \in Devices!Contents
      /\ Devices!Torn(write.bank) \in SUBSET Devices!Contents
  BY SmallContents, TornIs
<1>5. /\ bank'[o] = Devices!Erased
      /\ kept'[o] = kept[o] \cup Devices!Torn(o) \cup {Devices!Erased}
  BY <1>1, <1>2, <1>4, ChangeTyped
<1>6. \A c \in kept'[o] : Harmless(c, s, TRUE)
  BY <1>1, <1>5, LeavesHarmless, LeftoversAreHarmless DEF SlotAt
<1>7. Harmless(bank[o], s, cut)'
  BY <1>5, UnmarkedIsHarmless, SmallContents
<1>8. Using(o, s)'
  BY <1>3, <1>6, <1>7 DEF Using, Harmless, Devices!Open
<1>9. QED
  BY <1>1, <1>2, <1>4, <1>8, ChangeOther

LEMMA ProgramKeeps ==
  ASSUME WriteBounds, SlotTyped, NEW b, NEW o, NEW s, SlotAt(b, o, s), Devices!Program
  PROVE  SlotAt(b, o, s)'
<1>1. /\ write.step = "program" /\ Devices!Change(Unmarked(write), {Devices!Erased})
      /\ write' = [write EXCEPT !.step = "sync"]
      /\ UNCHANGED <<acked, tries, cut, doubtful, air>>
  BY DEF Devices!Program, Unmarked
<1>2. write \in DeviceCalls /\ write.bank = o /\ write.record.sequence = s + 1
      /\ o \in Devices!Bank
  BY <1>1, CallAt
<1>3. write'.step = "sync" /\ write'.bank = o /\ write'.record.sequence = s + 1
      /\ Unmarked(write') = Unmarked(write)
  BY <1>1, <1>2, StepOf DEF CallSteps
<1>4. Devices!Erased \in Devices!Contents /\ {Devices!Erased} \in SUBSET Devices!Contents
      /\ Unmarked(write) \in Devices!Contents /\ Unmarked(write).mark = FALSE
  BY <1>2, SmallContents, UnmarkedIs DEF Unmarked
<1>5. /\ bank'[o] = Unmarked(write)
      /\ kept'[o] = kept[o] \cup {Devices!Erased} \cup {Unmarked(write)}
  BY <1>1, <1>2, <1>4, ChangeTyped
<1>6. \A c \in kept'[o] : Harmless(c, s, TRUE)
  BY <1>1, <1>4, <1>5, LeavesHarmless, LeftoversAreHarmless, UnmarkedIsHarmless DEF SlotAt
<1>7. Harmless(bank[o], s, cut)'
  BY <1>4, <1>5, UnmarkedIsHarmless
<1>8. Using(o, s)'
  BY <1>3, <1>5, <1>6, <1>7 DEF Using, Harmless, Devices!Open, Unmarked
<1>9. QED
  BY <1>1, <1>2, <1>4, <1>8, ChangeOther

LEMMA SyncRecordKeeps ==
  ASSUME WriteBounds, SlotTyped, NEW b, NEW o, NEW s, SlotAt(b, o, s), Devices!SyncRecord
  PROVE  SlotAt(b, o, s)'
<1>1. /\ write.step = "sync" /\ kept' = Devices!Synced
      /\ write' = [write EXCEPT !.step = "commit"]
      /\ UNCHANGED <<bank, acked, tries, doubtful, air>>
  BY DEF Devices!SyncRecord
<1>2. write \in DeviceCalls /\ write.bank = o /\ write.record.sequence = s + 1
      /\ o \in Devices!Bank /\ b \in Devices!Bank
  BY <1>1, CallAt
<1>3. write'.step = "commit" /\ write'.bank = o /\ write'.record.sequence = s + 1
      /\ Unmarked(write') = Unmarked(write)
  BY <1>1, <1>2, StepOf DEF CallSteps
<1>4. bank[o] = Unmarked(write) /\ Unmarked(write).mark = FALSE
  BY <1>1 DEF SlotAt, Using, Unmarked
<1>5. kept'[o] = {Unmarked(write)} /\ kept'[b] = {bank[b]}
  BY <1>1, <1>2, <1>4 DEF Devices!Synced
<1>6. kept'[b] = kept[b]
  BY <1>5 DEF SlotAt, Lasting
<1>7. \A c \in kept'[o] : Harmless(c, s, (cut \/ write.step \in Devices!Open)')
  BY <1>4, <1>5, UnmarkedIsHarmless
<1>8. Harmless(bank[o], s, cut)'
  BY <1>1, <1>4, UnmarkedIsHarmless
<1>9. Using(o, s)'
  BY <1>3, <1>5, <1>7, <1>8 DEF Using
<1>10. QED
  BY <1>1, <1>6, <1>9, StillLasting DEF SlotAt

LEMMA CommitUnitKeeps ==
  ASSUME WriteBounds, SlotTyped, NEW b, NEW o, NEW s, SlotAt(b, o, s), Devices!ProgramCommit
  PROVE  SlotAt(b, o, s)'
<1>1. /\ write.step = "commit" /\ Devices!Mark
      /\ write' = [write EXCEPT !.step = "finish"]
      /\ UNCHANGED <<acked, tries, cut, doubtful, air>>
  BY DEF Devices!ProgramCommit
<1>2. write \in DeviceCalls /\ write.bank = o /\ write.record.sequence = s + 1
      /\ o \in Devices!Bank
  BY <1>1, CallAt
<1>3. write'.step = "finish" /\ write'.bank = o /\ write'.record.sequence = s + 1
      /\ Unmarked(write') = Unmarked(write) /\ Committing(write') = Committing(write)
  BY <1>1, <1>2, StepOf DEF CallSteps
<1>4. kept[o] = {Unmarked(write)} /\ bank[o] = Unmarked(write)
  BY <1>1, <1>2 DEF SlotAt, Using, SlotTyped
<1>5. /\ Unmarked(write) \in Devices!Contents /\ Committing(write) \in Devices!Contents
      /\ Devices!Marked(Unmarked(write)) = Committing(write)
  BY <1>2, UnmarkedIs
<1>6. {Devices!Marked(c) : c \in kept[o]} = {Committing(write)}
  BY <1>4, <1>5
<1>7. Devices!Change(Committing(write), {Committing(write)})
  BY <1>1, <1>2, <1>4, <1>5, <1>6 DEF Devices!Mark
<1>8. {Committing(write)} \in SUBSET Devices!Contents
  BY <1>5
<1>9. /\ bank'[o] = Committing(write)
      /\ kept'[o] = kept[o] \cup {Committing(write)} \cup {Committing(write)}
  BY <1>2, <1>5, <1>7, <1>8, ChangeTyped
<1>10. Using(o, s)'
  BY <1>3, <1>4, <1>9 DEF Using
<1>11. QED
  BY <1>1, <1>2, <1>5, <1>7, <1>8, <1>10, ChangeOther

\* The commit unit is on the flash: the new record is safe, and the old one harmless.
LEMMA NewIsLasting ==
  ASSUME WriteBounds, SlotTyped, NEW b, NEW o, NEW s, SlotAt(b, o, s), write.step = "finish",
         bank'[o] = Committing(write), kept'[o] = {bank'[o]},
         bank'[b] = bank[b], kept'[b] = {bank[b]},
         write' = Devices!Idle, acked' \in {acked, s + 1}, air' = air
  PROVE  SlotAt(o, b, s + 1)'
<1>1. write \in DeviceCalls /\ write.bank = o /\ write.record.sequence = s + 1
      /\ o \in Devices!Bank /\ b \in Devices!Bank /\ 1 - o = b
  BY CallAt
<1>2. Committing(write).record = write.record /\ Committing(write).mark = TRUE
      /\ write.record # Devices!NoRecord
  <2>1. write.record \in Devices!Record
    BY <1>1 DEF DeviceCalls
  <2>2. write.record.sequence # 0
    BY <2>1 DEF Devices!Record, WriteBounds
  <2>3. QED
    BY <2>2, SmallContents DEF Committing
<1>3. \A c \in air : c.sequence \in Nat /\ c.sequence <= s
  BY DEF SlotAt, Lasting, SlotTyped, Devices!Record, WriteBounds
<1>4. acked \in Nat /\ acked <= s /\ s \in Nat
  BY DEF SlotAt, Lasting, SlotTyped, WriteBounds
<1>5. acked' <= s + 1 /\ \A c \in air' : c.sequence <= s + 1 /\ c.sequence # s + 1
  BY <1>3, <1>4
<1>6. Lasting(o)'
  BY <1>1, <1>2, <1>5 DEF Lasting
<1>7. bank[b].mark => bank[b].record # Devices!NoRecord /\ bank[b].record.sequence < s + 1
  BY <1>4 DEF SlotAt, Lasting
<1>8. \A torn : Harmless(bank[b], s + 1, torn)
  BY <1>7 DEF Harmless
<1>9. Using(b, s + 1)'
  BY <1>8 DEF Using, Devices!Idle
<1>10. QED
  BY <1>1, <1>2, <1>4, <1>6, <1>9 DEF SlotAt

LEMMA SyncCommitKeeps ==
  ASSUME WriteBounds, SlotTyped, NEW b, NEW o, NEW s, SlotAt(b, o, s), Devices!SyncCommit
  PROVE  SlotAt(o, b, s + 1)'
<1>1. /\ write.step = "finish" /\ kept' = Devices!Synced
      /\ write' = Devices!Idle /\ acked' = write.record.sequence
      /\ UNCHANGED <<bank, tries, cut, doubtful, air>>
  BY DEF Devices!SyncCommit
<1>2. write.record.sequence = s + 1 /\ o \in Devices!Bank /\ b \in Devices!Bank
  BY <1>1, CallAt
<1>3. kept'[o] = {bank[o]} /\ kept'[b] = {bank[b]}
  BY <1>1, <1>2 DEF Devices!Synced
<1>4. bank[o] = Committing(write)
  BY <1>1 DEF SlotAt, Using
<1>5. QED
  BY <1>1, <1>2, <1>3, <1>4, NewIsLasting

LEMMA FailsKeeps ==
  ASSUME WriteBounds, SlotTyped, NEW b, NEW o, NEW s, SlotAt(b, o, s), Devices!Fails, ~ doubtful'
  PROVE  SlotAt(b, o, s)'
<1>1. /\ write # Devices!Idle /\ write.step \in Devices!Open /\ cut' = TRUE
      /\ write' = Devices!Idle /\ UNCHANGED <<acked, tries, air>>
  BY DEF Devices!Fails
<1>2. write.step # "idle" /\ write.step # "finish" /\ write.step # "commit"
  BY <1>1 DEF Devices!Open
<1>3. write \in DeviceCalls /\ write.bank = o /\ o \in Devices!Bank
  BY <1>2, CallAt
<1>4. \A c \in kept[o] \cup Devices!Torn(o) : Harmless(c, s, TRUE)
  BY <1>2, LeavesHarmless DEF SlotAt
<1>5. ASSUME \A c \in kept'[o] : Harmless(c, s, TRUE), bank'[o] \in kept'[o]
      PROVE  Using(o, s)'
  BY <1>1, <1>5 DEF Using, Devices!Idle
<1>6. CASE UNCHANGED <<bank, kept>>
  <2>1. bank[o] \in kept[o]
    BY <1>3 DEF SlotTyped
  <2>2. QED
    BY <2>1, <1>1, <1>4, <1>5, <1>6, StillLasting DEF SlotAt
<1>7. ASSUME NEW to \in Devices!Contents, NEW between \in SUBSET Devices!Contents,
             Devices!Change(to, between),
             \A c \in between \cup {to} : Harmless(c, s, TRUE)
      PROVE  SlotAt(b, o, s)'
  <2>1. bank'[o] = to /\ kept'[o] = kept[o] \cup between \cup {to}
    BY <1>3, <1>7, ChangeTyped
  <2>2. Using(o, s)'
    BY <2>1, <1>4, <1>5, <1>7
  <2>3. QED
    BY <2>2, <1>1, <1>3, <1>7, ChangeOther
<1>8. ASSUME NEW to \in Devices!Torn(write.bank), Devices!Change(to, Devices!Torn(write.bank))
      PROVE  SlotAt(b, o, s)'
  <2>1. Devices!Torn(o) \in SUBSET Devices!Contents
    BY SmallContents, TornIs
  <2>2. QED
    BY <2>1, <1>3, <1>4, <1>7, <1>8
<1>9. CASE Devices!Change(Devices!Erased, {})
  <2>1. Devices!Erased \in Devices!Contents /\ {} \in SUBSET Devices!Contents
        /\ \A c \in {} \cup {Devices!Erased} : Harmless(c, s, TRUE)
    BY SmallContents, LeftoversAreHarmless
  <2>2. QED
    BY <2>1, <1>7, <1>9
<1>10. QED
  BY <1>2, <1>6, <1>8, <1>9 DEF Devices!Fails

LEMMA PowerLossKeeps ==
  ASSUME WriteBounds, SlotTyped, NEW b, NEW o, NEW s, SlotAt(b, o, s), Devices!PowerLoss
  PROVE  SlotAt(b, o, s)' \/ SlotAt(o, b, s + 1)'
<1> DEFINE Left(c) == kept[c] \cup (IF write.step = "erase" /\ write.bank = c
                                    THEN Devices!Torn(c) ELSE {})
<1>1. PICK low \in Left(0), high \in Left(1) :
        /\ bank' = [c \in Devices!Bank |-> IF c = 0 THEN low ELSE high]
        /\ kept' = [c \in Devices!Bank |-> IF c = 0 THEN {low} ELSE {high}]
  BY DEF Devices!PowerLoss
<1>2. /\ cut' = (cut \/ write.step \in Devices!Open) /\ write' = Devices!Idle
      /\ UNCHANGED <<acked, tries, doubtful, air>>
  BY DEF Devices!PowerLoss
<1>3. b \in Devices!Bank /\ o \in Devices!Bank /\ b # o /\ 1 - o = b /\ o = 1 - b
      /\ Devices!Bank = {0, 1}
  BY TwoBanks DEF SlotAt, Devices!Bank
<1>4. \A c \in Devices!Bank : bank'[c] \in Left(c) /\ kept'[c] = {bank'[c]}
  <2> HIDE DEF Left
  <2>1. QED
    BY <1>1, <1>3
<1>5. ~ (write.step = "erase" /\ write.bank = b)
  BY <1>3 DEF SlotAt, Using, Devices!Idle
<1>6. bank'[b] = bank[b] /\ kept'[b] = {bank[b]} /\ kept'[b] = kept[b]
  BY <1>3, <1>4, <1>5 DEF SlotAt, Lasting
<1>7. Lasting(b)' /\ bank'[b].record.sequence = s
  BY <1>2, <1>6, StillLasting DEF SlotAt
<1>8. ASSUME Harmless(bank'[o], s, cut')
      PROVE  SlotAt(b, o, s)'
  <2>1. Using(o, s)'
    BY <1>2, <1>3, <1>4, <1>8 DEF Using, Devices!Idle, Harmless
  <2>2. QED
    BY <2>1, <1>3, <1>7 DEF SlotAt
<1>9. CASE write.step = "finish"
  <2>1. bank'[o] \in kept[o]
    BY <1>3, <1>4, <1>9
  <2>2. bank'[o] = Unmarked(write) \/ bank'[o] = Committing(write)
    BY <2>1, <1>9 DEF SlotAt, Using
  <2>3. CASE bank'[o] = Unmarked(write)
    BY <2>3, <1>8, UnmarkedIsHarmless DEF Unmarked
  <2>4. CASE bank'[o] = Committing(write)
    BY <2>4, <1>2, <1>3, <1>4, <1>6, <1>9, NewIsLasting
  <2>5. QED
    BY <2>2, <2>3, <2>4
<1>10. CASE write.step # "finish"
  <2>1. ASSUME bank'[o] \in kept[o]
        PROVE  Harmless(bank'[o], s, cut')
    BY <2>1, <1>2, <1>10 DEF SlotAt, Using
  <2>2. ASSUME write.step = "erase", bank'[o] \in Devices!Torn(o)
        PROVE  Harmless(bank'[o], s, cut')
    <3>1. cut' = TRUE
      BY <2>2, <1>2 DEF Devices!Open
    <3>2. QED
      BY <3>1, <2>2, TornIs, LeftoversAreHarmless
  <2>3. QED
    BY <2>1, <2>2, <1>3, <1>4, <1>8
<1>11. QED
  BY <1>9, <1>10

LEMMA ExportKeeps ==
  ASSUME WriteBounds, SlotTyped, NEW b, NEW o, NEW s, SlotAt(b, o, s), Devices!ExportCapsule,
         OneCapsule
  PROVE  SlotAt(b, o, s)' /\ OneCapsule'
<1>1. /\ write = Devices!Idle /\ ~ Devices!Corrupted /\ air' = air \cup {Devices!Latest}
      /\ UNCHANGED <<bank, kept, write, acked, tries, cut, doubtful>>
  BY DEF Devices!ExportCapsule
<1>2. Harmless(bank[o], s, cut)
  BY <1>1 DEF SlotAt, Using, Devices!Idle
<1>3. Devices!Latest = bank[b].record /\ Devices!Latest.sequence = s
  BY <1>1, <1>2, LastingIsRead DEF SlotAt
<1>4. \A c \in air : c.sequence <= s /\ (c.sequence = s => c = Devices!Latest)
  BY <1>3 DEF SlotAt, Lasting
<1>5. \A c \in air' : c.sequence <= s /\ (c.sequence = s => c = Devices!Latest)
  BY <1>1, <1>3, <1>4 DEF SlotAt
<1>6. Lasting(b)'
  BY <1>1, <1>3, <1>5 DEF SlotAt, Lasting
<1>7. SlotAt(b, o, s)'
  BY <1>1, <1>6 DEF SlotAt, Using
<1>8. OneCapsule'
  BY <1>1, <1>3, <1>4 DEF OneCapsule
<1>9. QED
  BY <1>7, <1>8

LEMMA SlotSteps ==
  ASSUME WriteBounds, SlotInv, [Devices!DeviceNext]_(Devices!deviceVars)
  PROVE  SlotInv'
<1>1. SlotTyped /\ SlotTyped'
  BY SlotTypedSteps DEF SlotInv
<1>2. CASE UNCHANGED Devices!deviceVars
  <2>1. UNCHANGED <<bank, kept, write, acked, tries, cut, doubtful, air>>
    BY <1>2 DEF Devices!deviceVars
  <2>2. RecordIsKept' = RecordIsKept /\ OneCapsule' = OneCapsule
    BY <2>1 DEF RecordIsKept, OneCapsule, Lasting, Using, Harmless
  <2>3. QED
    BY <2>1, <2>2, <1>1 DEF SlotInv
<1>3. CASE Devices!DeviceNext
  <2> SUFFICES ASSUME ~ doubtful' PROVE RecordIsKept' /\ OneCapsule'
    BY <1>1 DEF SlotInv
  <2>1. ~ doubtful
    BY <1>3 DEF Devices!DeviceNext, Devices!Write, Devices!Erase, Devices!Program,
       Devices!SyncRecord, Devices!ProgramCommit, Devices!SyncCommit, Devices!Fails,
       Devices!PowerLoss, Devices!ExportCapsule
  <2>2. RecordIsKept /\ OneCapsule
    BY <2>1 DEF SlotInv
  <2>3. PICK b, o, s : SlotAt(b, o, s)
    BY <2>2, <1>1, SlotAtIs
  <2>4. SlotAt(b, o, s)' => RecordIsKept'
    <3>1. SlotAt(b, o, s)' => (b \in Devices!Bank /\ o = 1 - b)
          /\ (Lasting(b) /\ Using(o, s) /\ bank[b].record.sequence = s)'
      BY DEF SlotAt
    <3>2. QED
      BY <3>1 DEF RecordIsKept
  <2>5. SlotAt(o, b, s + 1)' => RecordIsKept'
    <3>1. SlotAt(o, b, s + 1)' => (o \in Devices!Bank /\ b = 1 - o)
          /\ (Lasting(o) /\ Using(b, s + 1) /\ bank[o].record.sequence = s + 1)'
      BY DEF SlotAt
    <3>2. QED
      BY <3>1 DEF RecordIsKept
  <2>6. air' = air => OneCapsule'
    BY <2>2 DEF OneCapsule
  <2>7. ASSUME NEW v \in Devices!Payload, Devices!Write(v) PROVE RecordIsKept' /\ OneCapsule'
    BY <2>7, <1>1, <2>3, <2>4, <2>6, BeginKeeps DEF Devices!Write
  <2>8. CASE Devices!Erase
    BY <2>8, <1>1, <2>3, <2>4, <2>6, EraseKeeps DEF Devices!Erase
  <2>9. CASE Devices!Program
    BY <2>9, <1>1, <2>3, <2>4, <2>6, ProgramKeeps DEF Devices!Program
  <2>10. CASE Devices!SyncRecord
    BY <2>10, <1>1, <2>3, <2>4, <2>6, SyncRecordKeeps DEF Devices!SyncRecord
  <2>11. CASE Devices!ProgramCommit
    BY <2>11, <1>1, <2>3, <2>4, <2>6, CommitUnitKeeps DEF Devices!ProgramCommit
  <2>12. CASE Devices!SyncCommit
    BY <2>12, <1>1, <2>3, <2>5, <2>6, SyncCommitKeeps DEF Devices!SyncCommit
  <2>13. CASE Devices!Fails
    BY <2>13, <1>1, <2>3, <2>4, <2>6, FailsKeeps DEF Devices!Fails
  <2>14. CASE Devices!PowerLoss
    BY <2>14, <1>1, <2>3, <2>4, <2>5, <2>6, PowerLossKeeps DEF Devices!PowerLoss
  <2>15. CASE Devices!ExportCapsule
    BY <2>15, <1>1, <2>2, <2>3, <2>4, ExportKeeps
  <2>16. QED
    BY <1>3, <2>7, <2>8, <2>9, <2>10, <2>11, <2>12, <2>13, <2>14, <2>15 DEF Devices!DeviceNext
<1>4. QED
  BY <1>2, <1>3

LEMMA SlotInit ==
  ASSUME WriteBounds, Devices!DeviceInit
  PROVE  SlotInv
<1>1. /\ bank = [b \in Devices!Bank |-> Devices!Erased]
      /\ kept = [b \in Devices!Bank |-> {Devices!Erased}]
      /\ write = Devices!Idle /\ acked = 0 /\ tries = 0 /\ air = {}
      /\ cut = FALSE /\ doubtful = FALSE
  BY DEF Devices!DeviceInit
<1>2. SlotTyped
  <2>1. bank \in [Devices!Bank -> Devices!Contents]
        /\ kept \in [Devices!Bank -> SUBSET Devices!Contents]
        /\ \A b \in Devices!Bank : bank[b] \in kept[b]
    BY <1>1, SmallContents
  <2>2. acked \in 0 .. MaxWrites /\ tries \in 0 .. MaxTries
    BY <1>1 DEF WriteBounds
  <2>3. cut \in BOOLEAN /\ doubtful \in BOOLEAN /\ air \subseteq Devices!Record
    BY <1>1
  <2>4. QED
    BY <1>1, <2>1, <2>2, <2>3 DEF SlotTyped
<1>3. 1 \in Devices!Bank /\ 0 \in Devices!Bank
  BY DEF Devices!Bank
<1>4. Lasting(1)
  BY <1>1, <1>3, SmallContents DEF Lasting
<1>5. Using(0, 0)
  BY <1>1, <1>3, UnmarkedIsHarmless, SmallContents DEF Using, Devices!Idle
<1>6. SlotAt(1, 0, 0)
  BY <1>1, <1>3, <1>4, <1>5, SmallContents DEF SlotAt
<1>7. RecordIsKept /\ OneCapsule
  BY <1>1, <1>2, <1>6, SlotAtIs DEF OneCapsule
<1>8. QED
  BY <1>2, <1>7 DEF SlotInv

\* What was acknowledged is what is read, or a write was torn.
LEMMA SlotKeeps ==
  ASSUME WriteBounds, SlotInv
  PROVE  Devices!AckedIsKept /\ Devices!OneValuePerSequence
<1>1. ASSUME ~ doubtful
      PROVE  IF Devices!Corrupted THEN cut ELSE Devices!Latest.sequence >= acked
  <2>1. SlotTyped /\ RecordIsKept
    BY <1>1 DEF SlotInv
  <2>2. PICK b, o, s : SlotAt(b, o, s)
    BY <2>1, SlotAtIs
  <2>3. acked \in Nat /\ acked <= s /\ s \in Nat /\ b \in Devices!Bank /\ o = 1 - b
        /\ bank[b].record.sequence = s
    BY <2>1, <2>2 DEF SlotAt, Lasting, SlotTyped, WriteBounds
  <2>4. CASE write.step # "finish"
    <3>1. Harmless(bank[1 - b], bank[b].record.sequence, cut) /\ Lasting(b)
      BY <2>2, <2>3, <2>4 DEF SlotAt, Using
    <3>2. QED
      BY <3>1, <2>1, <2>3, LastingIsRead
  <2>5. CASE write.step = "finish"
    <3>1. write \in DeviceCalls /\ write.record.sequence = s + 1 /\ o \in Devices!Bank
          /\ 1 - o = b
      BY <2>1, <2>2, <2>5, CallAt
    <3>2. bank[o] = Committing(write)
      BY <2>2, <2>5 DEF SlotAt, Using
    <3>3. bank[o].mark /\ bank[o].record.sequence = s + 1
          /\ bank[o].record # Devices!NoRecord
      BY <3>1, <3>2, <2>3, SmallContents DEF Committing
    <3>4. Devices!Latest = bank[o].record
      BY <3>1, <3>3, <2>1, <2>3, NewestIsRead
    <3>5. ~ Devices!Corrupted
      <4>1. \A c \in Devices!Committed : bank[c].record # Devices!NoRecord
        BY <3>1, <3>3, <2>2, <2>3, TwoBanks DEF SlotAt, Lasting, Devices!Committed
      <4>2. bank[0].record.sequence # bank[1].record.sequence
        BY <3>1, <3>3, <2>3 DEF Devices!Bank
      <4>3. QED
        BY <4>1, <4>2 DEF Devices!Corrupted
    <3>6. QED
      BY <3>3, <3>4, <3>5, <2>3
  <2>6. QED
    BY <2>4, <2>5
<1>2. QED
  BY <1>1 DEF SlotInv, OneCapsule, Devices!AckedIsKept, Devices!OneValuePerSequence

-----------------------------------------------------------------------------
(* Importing.                                                              *)

\* An import in progress: what it has written is what its capsule says.
Importing(i) ==
  /\ i.stage \in {"check", "memory", "head", "commit"} /\ i.capsule \in air
  /\ i.stage # "commit" => i.head \in air \cup {Devices!NoRecord}
  /\ i.stage = "commit" => i.head = i.capsule
  /\ i.stage \in {"check", "memory"} => i.memory = i.head.value
  /\ i.stage \in {"head", "commit"} => i.memory = i.capsule.value
  /\ DOMAIN i = {"stage", "capsule", "head", "memory"}

ImportInv ==
  /\ head \in air \cup {Devices!NoRecord} /\ memory = head.value
  /\ import = Devices!NoImport \/ Importing(import)

LEMMA ImportSteps ==
  ASSUME ImportInv, [Devices!Next]_(Devices!vars)
  PROVE  ImportInv'
<1>1. ASSUME air \subseteq air', UNCHANGED <<head, memory, import>>
      PROVE  ImportInv'
  <2>1. Importing(import) => Importing(import)'
    BY <1>1 DEF Importing
  <2>2. QED
    BY <2>1, <1>1 DEF ImportInv
<1>2. CASE UNCHANGED Devices!vars
  BY <1>1, <1>2 DEF Devices!vars, Devices!deviceVars
<1>3. CASE Devices!DeviceNext /\ UNCHANGED <<head, memory, import>>
  <2>1. air \subseteq air'
    BY <1>3 DEF Devices!DeviceNext, Devices!Write, Devices!Erase, Devices!Program,
       Devices!SyncRecord, Devices!ProgramCommit, Devices!SyncCommit, Devices!Fails,
       Devices!PowerLoss, Devices!ExportCapsule
  <2>2. QED
    BY <2>1, <1>1, <1>3
<1>4. ASSUME NEW c \in air, Devices!Receive(c)
      PROVE  ImportInv'
  <2>1. Importing(import)'
    BY <1>4 DEF Devices!Receive, Devices!deviceVars, Importing, ImportInv
  <2>2. QED
    BY <2>1, <1>4 DEF Devices!Receive, Devices!deviceVars, ImportInv
<1>5. ASSUME UNCHANGED <<air, head, memory>>, Importing(import)' \/ import' = Devices!NoImport
      PROVE  ImportInv'
  BY <1>5 DEF ImportInv
<1>6. ASSUME import.stage # "none" PROVE Importing(import)
  BY <1>6 DEF ImportInv, Devices!NoImport
<1>7. CASE Devices!Check
  <2>1. CASE Devices!Checks(import.capsule)
    <3>1. Importing(import) /\ UNCHANGED <<air, head, memory>>
          /\ import.stage = "check" /\ import' = [import EXCEPT !.stage = "memory"]
      BY <2>1, <1>6, <1>7 DEF Devices!Check, Devices!deviceVars
    <3>2. Importing(import)'
      BY <3>1 DEF Importing
    <3>3. QED
      BY <3>1, <3>2, <1>5
  <2>2. CASE ~ Devices!Checks(import.capsule)
    BY <2>2, <1>5, <1>7 DEF Devices!Check, Devices!deviceVars
  <2>3. QED
    BY <2>1, <2>2
<1>8. CASE Devices!WriteMemory
  <2>1. Importing(import) /\ UNCHANGED <<air, head, memory>>
        /\ import.stage = "memory"
        /\ import' = [import EXCEPT !.stage = "head", !.memory = import.capsule.value]
    BY <1>6, <1>8 DEF Devices!WriteMemory, Devices!deviceVars
  <2>2. Importing(import)'
    BY <2>1 DEF Importing
  <2>3. QED
    BY <2>1, <2>2, <1>5
<1>9. CASE Devices!WriteHead
  <2>1. Importing(import) /\ UNCHANGED <<air, head, memory>>
        /\ import.stage = "head"
        /\ import' = [import EXCEPT !.stage = "commit", !.head = import.capsule]
    BY <1>6, <1>9 DEF Devices!WriteHead, Devices!deviceVars
  <2>2. Importing(import)'
    BY <2>1 DEF Importing
  <2>3. QED
    BY <2>1, <2>2, <1>5
<1>10. CASE Devices!CommitImport
  <2>1. Importing(import) /\ import.stage = "commit"
    BY <1>6, <1>10 DEF Devices!CommitImport
  <2>2. QED
    BY <2>1, <1>10 DEF Devices!CommitImport, Devices!deviceVars, Importing, ImportInv
<1>11. CASE Devices!ImportFails
  BY <1>5, <1>11 DEF Devices!ImportFails, Devices!deviceVars
<1>12. QED
  BY <1>2, <1>3, <1>4, <1>7, <1>8, <1>9, <1>10, <1>11 DEF Devices!Next

LEMMA DevicesRun ==
  Parts => Devices!Spec
<1>1. PartsInit => Devices!Init
  BY DEF PartsInit
<1>2. [PartsNext]_<<part, feedVars, replicaVars, vars, deviceVars, remoteVars>>
        => [Devices!Next]_(Devices!vars)
  BY DEF PartsNext, deviceVars, Devices!vars, Devices!deviceVars
<1>3. QED
  BY <1>1, <1>2, PTL DEF Parts, Devices!Spec

LEMMA DevicesInvCorrect ==
  ASSUME WriteBounds
  PROVE  Devices!Spec => [](SlotInv /\ ImportInv)
<1>1. Devices!Init => SlotInv /\ ImportInv
  <2> SUFFICES ASSUME Devices!Init PROVE SlotInv /\ ImportInv
    OBVIOUS
  <2>1. SlotInv
    BY SlotInit DEF Devices!Init
  <2>2. ImportInv
    BY DEF Devices!Init, ImportInv, Devices!NoRecord
  <2>3. QED
    BY <2>1, <2>2
<1>2. SlotInv /\ ImportInv /\ [Devices!Next]_(Devices!vars) => (SlotInv /\ ImportInv)'
  <2> SUFFICES ASSUME SlotInv, ImportInv, [Devices!Next]_(Devices!vars)
               PROVE  (SlotInv /\ ImportInv)'
    OBVIOUS
  <2>1. [Devices!DeviceNext]_(Devices!deviceVars)
    BY DEF Devices!Next, Devices!vars, Devices!Receive, Devices!Check, Devices!WriteMemory,
       Devices!WriteHead, Devices!CommitImport, Devices!ImportFails
  <2>2. SlotInv'
    BY <2>1, SlotSteps
  <2>3. QED
    BY <2>2, ImportSteps
<1>3. QED
  BY <1>1, <1>2, PTL DEF Devices!Spec

\* What a device acknowledged is what it reads, after any power loss, and no two values are
\* exported under one sequence number (write, latest, export_capsule).
THEOREM DevicesCorrect ==
  ASSUME WriteBounds
  PROVE  Parts => []DevicesKeepValues
<1>1. SlotInv => DevicesKeepValues
  BY SlotKeeps DEF DevicesKeepValues
<1>2. QED
  BY <1>1, DevicesRun, DevicesInvCorrect, PTL

\* The document and the head that are imported are those of one capsule that the device
\* exported (import_capsule).
THEOREM DocumentCorrect ==
  ASSUME WriteBounds
  PROVE  Parts => []DocumentMatchesHead
<1>1. SlotInv /\ ImportInv => DocumentMatchesHead
  <2> SUFFICES ASSUME SlotInv, ImportInv PROVE DocumentMatchesHead
    OBVIOUS
  <2>1. SlotTyped
    BY DEF SlotInv
  <2>2. write # Devices!Idle => write.bank \in Devices!Bank /\ write.record \in Devices!Record
    BY <2>1 DEF SlotTyped, DeviceCalls
  <2>3. head \in Devices!Record \cup {Devices!NoRecord}
    BY <2>1 DEF SlotTyped, ImportInv
  <2>4. memory \in Devices!Payload
    BY <2>3 DEF ImportInv, Devices!Record, Devices!NoRecord, Devices!Payload
  <2>5. Devices!TypeOK
    BY <2>1, <2>2, <2>3, <2>4 DEF SlotTyped, Devices!TypeOK
  <2>6. QED
    BY <2>5 DEF DocumentMatchesHead, Devices!DocumentMatchesHead, ImportInv
<1>2. QED
  BY <1>1, DevicesRun, DevicesInvCorrect, PTL

-----------------------------------------------------------------------------
(* Remote databases.                                                       *)

\* The bounds are numbers, and leave room for the smallest object.
RemoteBounds ==
  /\ MaxRemotePages \in Nat /\ MaxRemotePages >= 2 /\ MaxRemoteWrites \in Nat
  /\ Absent \notin Nat /\ Writer \cap Reader = {}

RemoteFields == {"total", "cache", "frames", "begun", "undo", "dirty", "pushed"}
RemoteValues == 0 .. MaxRemoteWrites
RemotePages  == Seq(RemoteValues)

Shape(s) ==
  /\ DOMAIN s = RemoteFields /\ s.total \in 1 .. MaxRemotePages
  /\ DOMAIN s.cache \subseteq 1 .. s.total

\* In a transaction, which began with the pages b: the undo log has what was changed of them
\* and not written past it, and every page that was added, which the cache alone has.
Changing(s, b, alone) ==
  /\ b \in RemotePages /\ Len(b) = s.begun /\ s.begun \in 1 .. s.total
  /\ DOMAIN s.frames \subseteq 1 .. s.begun
  /\ s.dirty \subseteq DOMAIN s.undo /\ DOMAIN s.undo \subseteq DOMAIN s.cache
  /\ \A p \in DOMAIN s.undo : IF p <= s.begun THEN p \in s.dirty /\ s.undo[p] \in RemoteValues
                              ELSE s.undo[p] = Absent
  /\ \A p \in 1 .. s.total : p > s.begun => p \in DOMAIN s.undo /\ p \in alone

\* The pager of a writer whose statements left the pages n.
Formed(s, n, b, alone, past) ==
  /\ Shape(s) /\ n \in RemotePages /\ Len(n) = s.total
  /\ alone \subseteq DOMAIN s.cache /\ DOMAIN s.frames \subseteq 1 .. s.total
  /\ \A p \in DOMAIN s.cache : s.cache[p] \in RemoteValues
  /\ \A p \in DOMAIN s.frames : s.frames[p] \in RemoteValues
  /\ IF Remotes!InTx(s) THEN Changing(s, b, alone)
     ELSE DOMAIN s.undo = {} /\ s.dirty = {} /\ past = {}

\* Below the cache, in the log or else in the object, page p is v.
Beneath(s, obj, p, v) ==
  IF p \in DOMAIN s.frames THEN s.frames[p] = v ELSE p \in DOMAIN obj /\ obj[p] = v

\* A page that is not lost is in the cache as the statements left it, and below the cache too
\* unless it may be in the cache alone; and a rollback finds it as it was.
Has(s, n, b, alone, past, obj, p) ==
  /\ p \in DOMAIN s.cache => s.cache[p] = n[p]
  /\ p \notin alone /\ p \notin DOMAIN s.undo => Beneath(s, obj, p, n[p])
  /\ Remotes!InTx(s) /\ p <= s.begun /\ p \notin past =>
       IF p \in DOMAIN s.undo THEN s.undo[p] = b[p] /\ (p \notin alone => Beneath(s, obj, p, b[p]))
       ELSE n[p] = b[p]

\* What a push has gathered.
Gathered(s, n, lost) ==
  /\ s.pushed \in RemotePages /\ Len(s.pushed) <= s.total
  /\ \A i \in 1 .. Len(s.pushed) : i \in lost \/ s.pushed[i] = n[i]

WriterInv(s, n, b, alone, past, lost, obj) ==
  /\ Formed(s, n, b, alone, past)
  /\ \A p \in 1 .. s.total : p \in lost \/ Has(s, n, b, alone, past, obj, p)
  /\ s.pushed # Absent => Gathered(s, n, lost)

ReaderInv(s) == Shape(s) /\ DOMAIN s.frames = {} /\ s.dirty = {}

\* What the statements of each writer meant, and what becomes of its pages.
Meanings(m) == m = [w \in Writer |-> [now |-> m[w].now, before |-> m[w].before]]
IsFate(h)   == DOMAIN h = {"alone", "past", "evicted", "kept", "replaced"}
Fates(f)    == f = [w \in Writer |-> f[w]] /\ \A w \in Writer : IsFate(f[w])
LostBy(h)   == h.evicted \cup h.kept \cup h.replaced

OfWriter(s, m, h, obj) == WriterInv(s, m.now, m.before, h.alone, h.past, LostBy(h), obj)

RemoteInv ==
  /\ written \in RemoteValues
  /\ puts \in Seq(RemotePages) /\ Len(puts) > 0 /\ Len(Remotes!object) <= MaxRemotePages
  /\ pager = [c \in Remotes!Client |-> pager[c]]
  /\ Meanings(meant) /\ Fates(fate)
  /\ \A w \in Writer : pager[w] # Absent => OfWriter(pager[w], meant[w], fate[w], Remotes!object)
  /\ \A r \in Reader : pager[r] # Absent => ReaderInv(pager[r])

-----------------------------------------------------------------------------

\* The function c is f with the value v at p.
IsSet(c, f, p, v) ==
  /\ DOMAIN c = DOMAIN f \cup {p} /\ c[p] = v
  /\ \A q \in DOMAIN f : q # p => c[q] = f[q]

\* The fields of the pager u.
Is(u, total, cache, frames, begun, undo, dirty, pushed) ==
  /\ DOMAIN u = RemoteFields /\ u.total = total /\ u.cache = cache /\ u.frames = frames
  /\ u.begun = begun /\ u.undo = undo /\ u.dirty = dirty /\ u.pushed = pushed

LEMMA FormedIs ==
  ASSUME RemoteBounds, NEW s, NEW n, NEW b, NEW alone, NEW past, Formed(s, n, b, alone, past)
  PROVE  /\ DOMAIN s = RemoteFields
         /\ s.total \in Nat /\ s.total >= 1 /\ s.total <= MaxRemotePages
         /\ DOMAIN n = 1 .. s.total
         /\ \A p \in 1 .. s.total : n[p] \in RemoteValues
         /\ Remotes!InTx(s) =>
              /\ s.begun \in Nat /\ s.begun >= 1 /\ s.begun <= s.total
              /\ DOMAIN b = 1 .. s.begun /\ \A p \in 1 .. s.begun : b[p] \in RemoteValues
<1>1. DOMAIN s = RemoteFields /\ s.total \in Nat /\ s.total >= 1 /\ s.total <= MaxRemotePages
  BY DEF Formed, Shape, RemoteBounds
<1>2. n \in [1 .. Len(n) -> RemoteValues] /\ Len(n) = s.total
  BY LenProperties DEF Formed, RemotePages
<1>3. ASSUME Remotes!InTx(s)
      PROVE  /\ s.begun \in Nat /\ s.begun >= 1 /\ s.begun <= s.total
             /\ DOMAIN b = 1 .. s.begun /\ \A p \in 1 .. s.begun : b[p] \in RemoteValues
  <2>1. Changing(s, b, alone)
    BY <1>3 DEF Formed
  <2>2. b \in [1 .. Len(b) -> RemoteValues] /\ Len(b) = s.begun
    BY <2>1, LenProperties DEF Changing, RemotePages
  <2>3. s.begun \in Nat /\ s.begun >= 1 /\ s.begun <= s.total
    BY <2>1, <1>1 DEF Changing
  <2>4. QED
    BY <2>2, <2>3
<1>4. QED
  BY <1>1, <1>2, <1>3

-----------------------------------------------------------------------------
(* What the calls of a writer do to its pages.                             *)

\* A page is loaded into the cache.
LEMMA WriterLoads ==
  ASSUME RemoteBounds, NEW s, NEW n, NEW b, NEW alone, NEW past, NEW lost, NEW obj,
         WriterInv(s, n, b, alone, past, lost, obj), NEW p \in 1 .. s.total, p \notin DOMAIN s.cache,
         NEW v \in RemoteValues, p \in lost \/ v = n[p],
         NEW c, IsSet(c, s.cache, p, v),
         NEW u, Is(u, s.total, c, s.frames, s.begun, s.undo, s.dirty, s.pushed)
  PROVE  WriterInv(u, n, b, alone, past, lost, obj)
<1>1. DOMAIN c = DOMAIN s.cache \cup {p} /\ c[p] = v /\ \A q \in DOMAIN s.cache : c[q] = s.cache[q]
  BY DEF IsSet
<1>2. /\ DOMAIN u = RemoteFields /\ u.total = s.total /\ u.cache = c /\ u.frames = s.frames
      /\ u.begun = s.begun /\ u.undo = s.undo /\ u.dirty = s.dirty /\ u.pushed = s.pushed
  BY DEF Is
<1>3. Formed(s, n, b, alone, past) /\ (Remotes!InTx(u) <=> Remotes!InTx(s))
  BY <1>2 DEF WriterInv, Remotes!InTx
<1>4. Shape(u)
  BY <1>1, <1>2, <1>3 DEF Formed, Shape
<1>5. Changing(s, b, alone) => Changing(u, b, alone)
  BY <1>1, <1>2 DEF Changing
<1>6. Formed(u, n, b, alone, past)
  BY <1>1, <1>2, <1>3, <1>4, <1>5 DEF Formed
<1>7. ASSUME NEW q \in 1 .. s.total, q \notin lost PROVE Has(u, n, b, alone, past, obj, q)
  <2>1. Has(s, n, b, alone, past, obj, q)
    BY <1>7 DEF WriterInv
  <2>2. q \in DOMAIN c => c[q] = n[q]
    BY <2>1, <1>1, <1>7 DEF Has
  <2>3. QED
    BY <2>1, <2>2, <1>2, <1>3 DEF Has, Beneath
<1>8. s.pushed # Absent => Gathered(u, n, lost)
  BY <1>2 DEF WriterInv, Gathered
<1>9. QED
  BY <1>2, <1>6, <1>7, <1>8 DEF WriterInv

\* Pages leave the cache: those that it alone had are lost.
Smaller(s, u, out) ==
  /\ Is(u, s.total, u.cache, s.frames, s.begun, s.undo, s.dirty, s.pushed)
  /\ DOMAIN u.cache = DOMAIN s.cache \ out
  /\ \A p \in DOMAIN u.cache : u.cache[p] = s.cache[p]
  /\ Remotes!InTx(s) => \A p \in DOMAIN s.undo : p \notin out

LEMMA WriterEvicts ==
  ASSUME RemoteBounds, NEW s, NEW n, NEW b, NEW alone, NEW past, NEW lost, NEW obj,
         WriterInv(s, n, b, alone, past, lost, obj), NEW out, NEW u, Smaller(s, u, out)
  PROVE  WriterInv(u, n, b, alone \ out, past, lost \cup (alone \cap out), obj)
<1> DEFINE left == alone \ out
           gone == lost \cup (alone \cap out)
<1>1. /\ DOMAIN u = RemoteFields /\ u.total = s.total /\ u.frames = s.frames
      /\ u.begun = s.begun /\ u.undo = s.undo /\ u.dirty = s.dirty /\ u.pushed = s.pushed
  BY DEF Smaller, Is
<1>2. DOMAIN u.cache = DOMAIN s.cache \ out /\ \A p \in DOMAIN u.cache : u.cache[p] = s.cache[p]
  BY DEF Smaller
<1>3. Formed(s, n, b, alone, past) /\ (Remotes!InTx(u) <=> Remotes!InTx(s))
  BY <1>1 DEF WriterInv, Remotes!InTx
<1>4. Shape(u)
  BY <1>1, <1>2, <1>3 DEF Formed, Shape
<1>5. ASSUME Remotes!InTx(s) PROVE Changing(u, b, left)
  <2>1. Changing(s, b, alone) /\ \A p \in DOMAIN s.undo : p \notin out
    BY <1>3, <1>5 DEF Formed, Smaller
  <2>2. DOMAIN u.undo \subseteq DOMAIN u.cache
    BY <2>1, <1>1, <1>2 DEF Changing
  <2>3. \A p \in 1 .. s.total : p > s.begun => p \in DOMAIN s.undo /\ p \in left
    BY <2>1 DEF Changing
  <2>4. QED
    BY <2>1, <2>2, <2>3, <1>1 DEF Changing
<1>6. Formed(u, n, b, left, past)
  <2>1. left \subseteq DOMAIN u.cache
    BY <1>2, <1>3 DEF Formed
  <2> HIDE DEF left
  <2>2. QED
    BY <2>1, <1>1, <1>2, <1>3, <1>4, <1>5 DEF Formed
<1>7. ASSUME NEW q \in 1 .. s.total, q \notin gone PROVE Has(u, n, b, left, past, obj, q)
  <2>1. Has(s, n, b, alone, past, obj, q) /\ (q \in left <=> q \in alone)
    BY <1>7 DEF WriterInv
  <2> HIDE DEF left
  <2>2. QED
    BY <2>1, <1>1, <1>2, <1>3 DEF Has, Beneath
<1>8. s.pushed # Absent => Gathered(u, n, gone)
  BY <1>1 DEF WriterInv, Gathered
<1>9. WriterInv(u, n, b, left, past, gone, obj)
  <2> HIDE DEF left, gone
  <2>1. QED
    BY <1>1, <1>6, <1>7, <1>8 DEF WriterInv
<1>10. QED
  BY <1>9

\* A page is written: outside a transaction, or past its undo log, unless it is dirty.
LEMMA WriterWrites ==
  ASSUME RemoteBounds, NEW s, NEW n, NEW b, NEW alone, NEW past, NEW lost, NEW obj,
         WriterInv(s, n, b, alone, past, lost, obj), NEW p \in 1 .. s.total, s.pushed = Absent,
         NEW v \in RemoteValues, NEW c, IsSet(c, s.cache, p, v),
         NEW u, Is(u, s.total, c, s.frames, s.begun, s.undo, s.dirty, s.pushed),
         NEW alone2, alone2 = IF p \in s.dirty THEN alone ELSE alone \cup {p},
         NEW past2, past2 = IF Remotes!InTx(s) /\ p \notin DOMAIN s.undo THEN past \cup {p} ELSE past
  PROVE  WriterInv(u, [n EXCEPT ![p] = v], b, alone2, past2, lost, obj)
<1> DEFINE m == [n EXCEPT ![p] = v]
<1>1. DOMAIN c = DOMAIN s.cache \cup {p} /\ c[p] = v
      /\ \A q \in DOMAIN s.cache : q # p => c[q] = s.cache[q]
  BY DEF IsSet
<1>2. /\ DOMAIN u = RemoteFields /\ u.total = s.total /\ u.cache = c /\ u.frames = s.frames
      /\ u.begun = s.begun /\ u.undo = s.undo /\ u.dirty = s.dirty /\ u.pushed = s.pushed
  BY DEF Is
<1>3. Formed(s, n, b, alone, past) /\ (Remotes!InTx(u) <=> Remotes!InTx(s))
  BY <1>2 DEF WriterInv, Remotes!InTx
<1>4. s.total \in Nat /\ DOMAIN n = 1 .. s.total /\ (Remotes!InTx(s) => s.begun \in Nat)
  BY <1>3, FormedIs
<1>5. m \in RemotePages /\ Len(m) = s.total
  BY <1>3, <1>4, ExceptSeq DEF Formed, RemotePages
<1>6. m[p] = v /\ \A q \in 1 .. s.total : q # p => m[q] = n[q]
  BY <1>4
<1> HIDE DEF m
<1>7. Shape(u)
  BY <1>1, <1>2, <1>3 DEF Formed, Shape
<1>8. alone \subseteq alone2 /\ alone2 \subseteq DOMAIN c /\ (past = {} /\ ~ Remotes!InTx(s) => past2 = {})
  BY <1>1, <1>3 DEF Formed
<1>9. Changing(s, b, alone) => Changing(u, b, alone2)
  BY <1>1, <1>2, <1>8 DEF Changing
<1>10. Formed(u, m, b, alone2, past2)
  BY <1>1, <1>2, <1>3, <1>5, <1>7, <1>8, <1>9 DEF Formed
<1>11. ASSUME NEW q \in 1 .. s.total, q \notin lost PROVE Has(u, m, b, alone2, past2, obj, q)
  <2>1. Has(s, n, b, alone, past, obj, q)
    BY <1>11 DEF WriterInv
  <2>2. CASE q # p
    <3>1. (q \in alone2 <=> q \in alone) /\ (q \in past2 <=> q \in past) /\ m[q] = n[q]
          /\ (q \in DOMAIN c => q \in DOMAIN s.cache /\ c[q] = s.cache[q])
      BY <2>2, <1>1, <1>6
    <3>2. QED
      BY <2>1, <3>1, <1>2, <1>3 DEF Has, Beneath
  <2>3. CASE q = p
    <3>1. p \in alone2 \/ p \in DOMAIN s.undo
      BY <1>3 DEF Formed, Changing
    <3>2. ASSUME Remotes!InTx(s), p <= s.begun, p \notin past2
          PROVE  p \in DOMAIN s.undo /\ s.undo[p] = b[p] /\ (p \notin alone2 => Beneath(s, obj, p, b[p]))
      <4>1. p \in DOMAIN s.undo /\ p \notin past
        BY <3>2
      <4>2. QED
        BY <4>1, <3>2, <2>1, <2>3, <1>8 DEF Has
    <3>3. QED
      BY <2>3, <3>1, <3>2, <1>1, <1>2, <1>3, <1>6 DEF Has, Beneath
  <2>4. QED
    BY <2>2, <2>3
<1>12. WriterInv(u, m, b, alone2, past2, lost, obj)
  BY <1>2, <1>10, <1>11 DEF WriterInv
<1>13. QED
  BY <1>12 DEF m

\* A page is modified, and in a transaction what it was is saved for a rollback.
LEMMA WriterModifies ==
  ASSUME RemoteBounds, NEW s, NEW n, NEW b, NEW alone, NEW past, NEW lost, NEW obj,
         WriterInv(s, n, b, alone, past, lost, obj), NEW p \in 1 .. s.total, s.pushed = Absent,
         NEW v \in RemoteValues, NEW x \in RemoteValues, p \in lost \/ x = n[p],
         NEW c, IsSet(c, s.cache, p, v),
         NEW undo, IF Remotes!InTx(s) /\ p \notin DOMAIN s.undo THEN IsSet(undo, s.undo, p, x)
                   ELSE undo = s.undo,
         NEW dirty, dirty = IF Remotes!InTx(s) THEN s.dirty \cup {p} ELSE s.dirty,
         NEW u, Is(u, s.total, c, s.frames, s.begun, undo, dirty, s.pushed),
         NEW alone2, alone2 = IF Remotes!InTx(s) THEN alone ELSE alone \cup {p}
  PROVE  WriterInv(u, [n EXCEPT ![p] = v], b, alone2, past, lost, obj)
<1> DEFINE m == [n EXCEPT ![p] = v]
<1>1. DOMAIN c = DOMAIN s.cache \cup {p} /\ c[p] = v
      /\ \A q \in DOMAIN s.cache : q # p => c[q] = s.cache[q]
  BY DEF IsSet
<1>2. /\ DOMAIN u = RemoteFields /\ u.total = s.total /\ u.cache = c /\ u.frames = s.frames
      /\ u.begun = s.begun /\ u.undo = undo /\ u.dirty = dirty /\ u.pushed = s.pushed
  BY DEF Is
<1>3. Formed(s, n, b, alone, past) /\ (Remotes!InTx(u) <=> Remotes!InTx(s))
  BY <1>2 DEF WriterInv, Remotes!InTx
<1>4. s.total \in Nat /\ DOMAIN n = 1 .. s.total /\ (Remotes!InTx(s) => s.begun \in Nat)
  BY <1>3, FormedIs
<1>5. m \in RemotePages /\ Len(m) = s.total
  BY <1>3, <1>4, ExceptSeq DEF Formed, RemotePages
<1>6. m[p] = v /\ \A q \in 1 .. s.total : q # p => m[q] = n[q]
  BY <1>4
<1> HIDE DEF m
<1>7. Shape(u)
  BY <1>1, <1>2, <1>3 DEF Formed, Shape
<1>8. alone2 \subseteq DOMAIN c
  BY <1>1, <1>3 DEF Formed
<1>9. ASSUME Remotes!InTx(s)
      PROVE  /\ Changing(s, b, alone) /\ alone2 = alone
             /\ DOMAIN undo = DOMAIN s.undo \cup {p} /\ (\A q \in DOMAIN s.undo : undo[q] = s.undo[q])
             /\ (p \notin DOMAIN s.undo => undo[p] = x /\ p <= s.begun)
  <2>1. Changing(s, b, alone) /\ alone2 = alone
    BY <1>3, <1>9 DEF Formed
  <2>2. p \notin DOMAIN s.undo => p <= s.begun
    BY <2>1, <1>4, <1>9 DEF Changing
  <2>3. CASE p \in DOMAIN s.undo
    BY <2>1, <2>3
  <2>4. CASE p \notin DOMAIN s.undo
    BY <2>1, <2>2, <2>4, <1>9 DEF IsSet
  <2>5. QED
    BY <2>3, <2>4
<1>10. ASSUME Remotes!InTx(s) PROVE Changing(u, b, alone2)
  <2>1. ASSUME NEW q \in DOMAIN undo
        PROVE  IF q <= s.begun THEN q \in dirty /\ undo[q] \in RemoteValues ELSE undo[q] = Absent
    <3>1. CASE q \in DOMAIN s.undo
      BY <3>1, <1>9, <1>10 DEF Changing
    <3>2. CASE q \notin DOMAIN s.undo
      BY <2>1, <3>2, <1>9, <1>10
    <3>3. QED
      BY <3>1, <3>2
  <2>2. dirty \subseteq DOMAIN undo /\ DOMAIN undo \subseteq DOMAIN c
    BY <1>1, <1>9, <1>10 DEF Changing
  <2>3. \A q \in 1 .. s.total : q > s.begun => q \in DOMAIN undo /\ q \in alone2
    BY <1>9, <1>10 DEF Changing
  <2>4. QED
    BY <2>1, <2>2, <2>3, <1>2, <1>9, <1>10 DEF Changing
<1>11. Formed(u, m, b, alone2, past)
  BY <1>1, <1>2, <1>3, <1>5, <1>7, <1>8, <1>10 DEF Formed
<1>12. ASSUME NEW q \in 1 .. s.total, q \notin lost PROVE Has(u, m, b, alone2, past, obj, q)
  <2>1. Has(s, n, b, alone, past, obj, q)
    BY <1>12 DEF WriterInv
  <2>2. CASE q # p
    <3>1. (q \in alone2 <=> q \in alone) /\ m[q] = n[q]
          /\ (q \in DOMAIN c => q \in DOMAIN s.cache /\ c[q] = s.cache[q])
      BY <2>2, <1>1, <1>6
    <3>2. (q \in DOMAIN undo <=> q \in DOMAIN s.undo) /\ (q \in DOMAIN s.undo => undo[q] = s.undo[q])
      BY <2>2, <1>3, <1>9
    <3>3. QED
      BY <2>1, <3>1, <3>2, <1>2, <1>3 DEF Has, Beneath
  <2>3. CASE q = p
    <3>1. p \in alone2 \/ p \in DOMAIN undo
      BY <1>3, <1>9
    <3>2. ASSUME Remotes!InTx(s), p <= s.begun, p \notin past
          PROVE  p \in DOMAIN undo /\ undo[p] = b[p] /\ (p \notin alone2 => Beneath(s, obj, p, b[p]))
      <4>1. CASE p \in DOMAIN s.undo
        BY <4>1, <3>2, <2>1, <2>3, <1>9 DEF Has
      <4>2. CASE p \notin DOMAIN s.undo
        <5>1. n[p] = b[p] /\ (p \notin alone => Beneath(s, obj, p, n[p]))
          BY <4>2, <3>2, <2>1, <2>3 DEF Has
        <5>2. undo[p] = n[p]
          BY <4>2, <3>2, <2>3, <1>9, <1>12
        <5>3. QED
          BY <5>1, <5>2, <3>2, <1>9
      <4>3. QED
        BY <4>1, <4>2
    <3>3. QED
      BY <2>3, <3>1, <3>2, <1>1, <1>2, <1>3, <1>6 DEF Has, Beneath
  <2>4. QED
    BY <2>2, <2>3
<1>13. WriterInv(u, m, b, alone2, past, lost, obj)
  BY <1>2, <1>11, <1>12 DEF WriterInv
<1>14. QED
  BY <1>13 DEF m

\* A page is added behind the others, and is dropped by a rollback.
LEMMA WriterAllocates ==
  ASSUME RemoteBounds, NEW s, NEW n, NEW b, NEW alone, NEW past, NEW lost, NEW obj,
         WriterInv(s, n, b, alone, past, lost, obj), s.pushed = Absent, s.total < MaxRemotePages,
         NEW id, id = s.total + 1,
         NEW undo, IF Remotes!InTx(s) /\ id \notin DOMAIN s.undo
                   THEN IsSet(undo, s.undo, id, Absent) ELSE undo = s.undo,
         NEW c, IsSet(c, s.cache, id, 0),
         NEW u, Is(u, id, c, s.frames, s.begun, undo, s.dirty, s.pushed)
  PROVE  WriterInv(u, Append(n, 0), b, alone \cup {id}, past, lost, obj)
<1> DEFINE m == Append(n, 0)
           alone2 == alone \cup {id}
<1>1. DOMAIN c = DOMAIN s.cache \cup {id} /\ c[id] = 0
      /\ \A q \in DOMAIN s.cache : q # id => c[q] = s.cache[q]
  BY DEF IsSet
<1>2. /\ DOMAIN u = RemoteFields /\ u.total = id /\ u.cache = c /\ u.frames = s.frames
      /\ u.begun = s.begun /\ u.undo = undo /\ u.dirty = s.dirty /\ u.pushed = s.pushed
  BY DEF Is
<1>3. Formed(s, n, b, alone, past) /\ (Remotes!InTx(u) <=> Remotes!InTx(s))
  BY <1>2 DEF WriterInv, Remotes!InTx
<1>4. /\ s.total \in Nat /\ s.total >= 1 /\ DOMAIN n = 1 .. s.total
      /\ (Remotes!InTx(s) => s.begun \in Nat /\ s.begun <= s.total)
  BY <1>3, FormedIs
<1>5. 0 \in RemoteValues
  BY DEF RemoteBounds, RemoteValues
<1>6. m \in RemotePages /\ Len(m) = id /\ m[id] = 0 /\ \A q \in 1 .. s.total : m[q] = n[q]
  BY <1>3, <1>4, <1>5, AppendProperties DEF RemotePages, Formed
<1>7. id \in 1 .. MaxRemotePages /\ 1 .. id = (1 .. s.total) \cup {id} /\ id \notin 1 .. s.total
  BY <1>4 DEF RemoteBounds
<1>8. DOMAIN s.cache \subseteq 1 .. s.total /\ DOMAIN s.frames \subseteq 1 .. s.total
      /\ alone \subseteq DOMAIN s.cache
  BY <1>3 DEF Formed, Shape
<1>9. alone2 \subseteq DOMAIN c /\ id \in alone2 /\ \A q \in 1 .. s.total : q \in alone2 <=> q \in alone
  BY <1>1, <1>7, <1>8
<1> HIDE DEF m, alone2
<1>10. Shape(u)
  BY <1>1, <1>2, <1>7, <1>8 DEF Shape
<1>11. \A q \in DOMAIN s.cache : c[q] = s.cache[q]
  BY <1>1, <1>7, <1>8
<1>12. ASSUME Remotes!InTx(s)
       PROVE  /\ Changing(s, b, alone)
              /\ DOMAIN undo = DOMAIN s.undo \cup {id} /\ undo[id] = Absent
              /\ \A q \in DOMAIN s.undo : undo[q] = s.undo[q]
  <2>1. Changing(s, b, alone)
    BY <1>3, <1>12 DEF Formed
  <2>2. id \notin DOMAIN s.undo
    BY <2>1, <1>7, <1>8 DEF Changing
  <2>3. QED
    BY <2>1, <2>2, <1>12 DEF IsSet
<1>13. ASSUME Remotes!InTx(s) PROVE Changing(u, b, alone2)
  <2>1. s.begun \in 1 .. id /\ id > s.begun
    <3>1. s.begun \in 1 .. s.total
      BY <1>12, <1>13 DEF Changing
    <3>2. QED
      BY <3>1, <1>4
  <2>2. ASSUME NEW q \in DOMAIN undo
        PROVE  IF q <= s.begun THEN q \in s.dirty /\ undo[q] \in RemoteValues ELSE undo[q] = Absent
    <3>1. CASE q = id
      <4>1. ~ (q <= s.begun)
        BY <3>1, <2>1, <1>4
      <4>2. QED
        BY <4>1, <3>1, <1>12, <1>13
    <3>2. CASE q \in DOMAIN s.undo
      BY <3>2, <1>12, <1>13 DEF Changing
    <3>3. QED
      BY <3>1, <3>2, <1>12, <1>13
  <2>3. s.dirty \subseteq DOMAIN undo /\ DOMAIN undo \subseteq DOMAIN c
    BY <1>1, <1>12, <1>13 DEF Changing
  <2>4. ASSUME NEW q \in 1 .. id, q > s.begun PROVE q \in DOMAIN undo /\ q \in alone2
    <3>1. CASE q = id
      BY <3>1, <1>9, <1>12, <1>13
    <3>2. CASE q \in 1 .. s.total
      BY <3>2, <2>4, <1>9, <1>12, <1>13 DEF Changing
    <3>3. QED
      BY <3>1, <3>2, <1>7
  <2>5. QED
    BY <2>1, <2>2, <2>3, <2>4, <1>2, <1>12, <1>13 DEF Changing
<1>14. Formed(u, m, b, alone2, past)
  <2>1. \A q \in DOMAIN c : c[q] \in RemoteValues
    BY <1>1, <1>3, <1>5, <1>11 DEF Formed
  <2>2. DOMAIN s.frames \subseteq 1 .. id
    BY <1>7, <1>8
  <2>3. QED
    BY <2>1, <2>2, <1>2, <1>3, <1>6, <1>9, <1>10, <1>13 DEF Formed
<1>15. ASSUME NEW q \in 1 .. id, q \notin lost PROVE Has(u, m, b, alone2, past, obj, q)
  <2>1. CASE q = id
    <3>1. Remotes!InTx(s) => ~ (q <= s.begun)
      BY <2>1, <1>4
    <3>2. QED
      BY <2>1, <3>1, <1>1, <1>2, <1>3, <1>6, <1>9 DEF Has
  <2>2. CASE q \in 1 .. s.total
    <3>1. Has(s, n, b, alone, past, obj, q) /\ m[q] = n[q] /\ (q \in alone2 <=> q \in alone) /\ q # id
      BY <2>2, <1>6, <1>7, <1>9, <1>15 DEF WriterInv
    <3>2. q \in DOMAIN c => q \in DOMAIN s.cache /\ c[q] = s.cache[q]
      BY <3>1, <1>1, <1>11
    <3>3. (q \in DOMAIN undo <=> q \in DOMAIN s.undo) /\ (q \in DOMAIN s.undo => undo[q] = s.undo[q])
      BY <3>1, <1>12
    <3>4. QED
      BY <3>1, <3>2, <3>3, <1>2, <1>3 DEF Has, Beneath
  <2>3. QED
    BY <2>1, <2>2, <1>7
<1>16. WriterInv(u, m, b, alone2, past, lost, obj)
  BY <1>2, <1>14, <1>15 DEF WriterInv
<1>17. QED
  BY <1>16 DEF m, alone2

LEMMA WriterBegins ==
  ASSUME RemoteBounds, NEW s, NEW n, NEW b, NEW alone, NEW past, NEW lost, NEW obj,
         WriterInv(s, n, b, alone, past, lost, obj), s.pushed = Absent, ~ Remotes!InTx(s),
         NEW u, Is(u, s.total, s.cache, s.frames, s.total, s.undo, s.dirty, s.pushed)
  PROVE  WriterInv(u, n, n, alone, past, lost, obj)
<1>1. /\ DOMAIN u = RemoteFields /\ u.total = s.total /\ u.cache = s.cache /\ u.frames = s.frames
      /\ u.begun = s.total /\ u.undo = s.undo /\ u.dirty = s.dirty /\ u.pushed = s.pushed
  BY DEF Is
<1>2. Formed(s, n, b, alone, past) /\ DOMAIN s.undo = {} /\ s.dirty = {}
  BY DEF WriterInv, Formed
<1>3. s.total \in Nat /\ s.total >= 1
  BY <1>2, FormedIs
<1>4. Remotes!InTx(u)
  BY <1>1, <1>3 DEF Remotes!InTx, RemoteBounds
<1>5. Shape(u)
  BY <1>1, <1>2 DEF Formed, Shape
<1>6. Changing(u, n, alone)
  BY <1>1, <1>2, <1>3 DEF Formed, Changing
<1>7. Formed(u, n, n, alone, past)
  BY <1>1, <1>2, <1>4, <1>5, <1>6 DEF Formed
<1>8. ASSUME NEW q \in 1 .. s.total, q \notin lost PROVE Has(u, n, n, alone, past, obj, q)
  <2>1. Has(s, n, b, alone, past, obj, q)
    BY <1>8 DEF WriterInv
  <2>2. QED
    BY <2>1, <1>1, <1>2 DEF Has, Beneath
<1>9. QED
  BY <1>1, <1>7, <1>8 DEF WriterInv

\* The changed pages become frames of the log.
Logged(s, dirty, u) ==
  /\ Is(u, s.total, s.cache, u.frames, Absent, u.undo, {}, s.pushed) /\ DOMAIN u.undo = {}
  /\ \A p : p \in dirty <=> p \in s.dirty \cup {1} /\ p <= s.total /\ p \in DOMAIN s.cache
  /\ DOMAIN u.frames = DOMAIN s.frames \cup dirty
  /\ \A p \in dirty : u.frames[p] = s.cache[p]
  /\ \A p \in DOMAIN s.frames \ dirty : u.frames[p] = s.frames[p]

LEMMA WriterCommits ==
  ASSUME RemoteBounds, NEW s, NEW n, NEW b, NEW alone, NEW past, NEW lost, NEW obj,
         WriterInv(s, n, b, alone, past, lost, obj), s.pushed = Absent, Remotes!InTx(s),
         NEW dirty, NEW u, Logged(s, dirty, u), NEW b2
  PROVE  WriterInv(u, n, b2, alone \ dirty, {}, lost, obj) /\ u.pushed = Absent
         /\ dirty \subseteq DOMAIN u.frames
<1> DEFINE alone2 == alone \ dirty
<1>1. /\ DOMAIN u = RemoteFields /\ u.total = s.total /\ u.cache = s.cache
      /\ u.begun = Absent /\ u.dirty = {} /\ u.pushed = s.pushed /\ DOMAIN u.undo = {}
  BY DEF Logged, Is
<1>2. /\ DOMAIN u.frames = DOMAIN s.frames \cup dirty
      /\ \A p \in dirty : u.frames[p] = s.cache[p]
      /\ \A p \in DOMAIN s.frames \ dirty : u.frames[p] = s.frames[p]
  BY DEF Logged
<1>3. Formed(s, n, b, alone, past) /\ ~ Remotes!InTx(u) /\ Changing(s, b, alone)
  BY <1>1 DEF WriterInv, Formed, Remotes!InTx
<1>4. s.total \in Nat /\ DOMAIN s.cache \subseteq 1 .. s.total
  BY <1>3, FormedIs DEF Formed, Shape
<1>5. dirty \subseteq DOMAIN s.cache /\ s.dirty \subseteq dirty
  <2>1. \A p \in s.dirty : p \in DOMAIN s.cache /\ p <= s.total
    BY <1>3, <1>4 DEF Changing
  <2>2. QED
    BY <2>1 DEF Logged
<1>6. Formed(u, n, b2, alone2, {})
  <2>1. Shape(u)
    BY <1>1, <1>3 DEF Formed, Shape
  <2>2. alone2 \subseteq DOMAIN s.cache /\ DOMAIN u.frames \subseteq 1 .. s.total
    BY <1>2, <1>3, <1>4, <1>5 DEF Formed
  <2>3. \A p \in DOMAIN u.frames : u.frames[p] \in RemoteValues
    BY <1>2, <1>3, <1>5 DEF Formed
  <2> HIDE DEF alone2
  <2>4. QED
    BY <2>1, <2>2, <2>3, <1>1, <1>3 DEF Formed
<1>7. ASSUME NEW q \in 1 .. s.total, q \notin lost PROVE Has(u, n, b2, alone2, {}, obj, q)
  <2>1. Has(s, n, b, alone, past, obj, q)
    BY <1>7 DEF WriterInv
  <2>2. ASSUME q \notin alone2 PROVE Beneath(u, obj, q, n[q])
    <3>1. CASE q \in dirty
      BY <3>1, <2>1, <1>2, <1>5 DEF Has, Beneath
    <3>2. CASE q \notin dirty
      <4>1. q \notin alone
        BY <2>2, <3>2
      <4>2. q \notin DOMAIN s.undo
        BY <4>1, <3>2, <1>3, <1>5 DEF Changing
      <4>3. QED
        BY <4>1, <4>2, <3>2, <2>1, <1>2 DEF Has, Beneath
    <3>3. QED
      BY <3>1, <3>2
  <2> HIDE DEF alone2
  <2>3. QED
    BY <2>1, <2>2, <1>1, <1>3 DEF Has
<1>8. WriterInv(u, n, b2, alone2, {}, lost, obj)
  <2> HIDE DEF alone2
  <2>1. QED
    BY <1>1, <1>6, <1>7 DEF WriterInv
<1>9. QED
  BY <1>1, <1>2, <1>8

\* A checkpoint brings to the cache the frames that are not there.
Moved(s, u) ==
  /\ Is(u, s.total, u.cache, u.frames, s.begun, s.undo, s.dirty, s.pushed)
  /\ DOMAIN u.frames = {} /\ DOMAIN u.cache = DOMAIN s.cache \cup DOMAIN s.frames
  /\ \A p \in DOMAIN u.cache :
       u.cache[p] = IF p \in DOMAIN s.cache THEN s.cache[p] ELSE s.frames[p]

LEMMA WriterCheckpoints ==
  ASSUME RemoteBounds, NEW s, NEW n, NEW b, NEW alone, NEW past, NEW lost, NEW obj,
         WriterInv(s, n, b, alone, past, lost, obj), s.pushed = Absent,
         NEW u, Moved(s, u)
  PROVE  WriterInv(u, n, b, alone \cup DOMAIN s.frames, past, lost, obj)
<1> DEFINE alone2 == alone \cup DOMAIN s.frames
<1>1. /\ DOMAIN u = RemoteFields /\ u.total = s.total /\ u.begun = s.begun /\ u.undo = s.undo
      /\ u.dirty = s.dirty /\ u.pushed = s.pushed
      /\ DOMAIN u.frames = {} /\ DOMAIN u.cache = DOMAIN s.cache \cup DOMAIN s.frames
      /\ \A p \in DOMAIN u.cache :
           u.cache[p] = IF p \in DOMAIN s.cache THEN s.cache[p] ELSE s.frames[p]
  BY DEF Moved, Is
<1>2. Formed(s, n, b, alone, past) /\ (Remotes!InTx(u) <=> Remotes!InTx(s))
  BY <1>1 DEF WriterInv, Remotes!InTx
<1>3. Shape(u)
  BY <1>1, <1>2 DEF Formed, Shape
<1>4. Changing(s, b, alone) => Changing(u, b, alone2)
  BY <1>1 DEF Changing
<1>5. Formed(u, n, b, alone2, past)
  <2>1. \A p \in DOMAIN u.cache : u.cache[p] \in RemoteValues
    BY <1>1, <1>2 DEF Formed
  <2>2. alone2 \subseteq DOMAIN u.cache
    BY <1>1, <1>2 DEF Formed
  <2> HIDE DEF alone2
  <2>3. QED
    BY <2>1, <2>2, <1>1, <1>2, <1>3, <1>4 DEF Formed
<1>6. ASSUME NEW q \in 1 .. s.total, q \notin lost PROVE Has(u, n, b, alone2, past, obj, q)
  <2>1. Has(s, n, b, alone, past, obj, q)
    BY <1>6 DEF WriterInv
  <2>2. q \in DOMAIN u.cache => u.cache[q] = n[q]
    <3>1. CASE q \in DOMAIN s.cache
      BY <3>1, <2>1, <1>1 DEF Has
    <3>2. CASE q \notin DOMAIN s.cache
      <4>1. q \notin alone /\ q \notin DOMAIN s.undo
        BY <3>2, <1>2 DEF Formed, Changing
      <4>2. QED
        BY <4>1, <3>2, <2>1, <1>1 DEF Has, Beneath
    <3>3. QED
      BY <3>1, <3>2
  <2>3. \A v : q \notin alone2 /\ Beneath(s, obj, q, v) => q \notin alone /\ Beneath(u, obj, q, v)
    BY <1>1 DEF Beneath
  <2>4. alone \subseteq alone2
    OBVIOUS
  <2> HIDE DEF alone2
  <2>5. q \notin alone2 /\ q \notin DOMAIN u.undo => Beneath(u, obj, q, n[q])
    BY <2>1, <2>3, <2>4, <1>1 DEF Has
  <2>6. Remotes!InTx(s) /\ q <= s.begun /\ q \notin past =>
          IF q \in DOMAIN s.undo
          THEN s.undo[q] = b[q] /\ (q \notin alone2 => Beneath(u, obj, q, b[q]))
          ELSE n[q] = b[q]
    BY <2>1, <2>3, <2>4 DEF Has
  <2>7. QED
    BY <2>2, <2>5, <2>6, <1>1, <1>2 DEF Has
<1>7. WriterInv(u, n, b, alone2, past, lost, obj)
  <2> HIDE DEF alone2
  <2>1. QED
    BY <1>1, <1>5, <1>6 DEF WriterInv
<1>8. QED
  BY <1>7

\* A rollback restores what the undo log holds, and drops the pages that were added.
Restored(s, restored, u) ==
  /\ Is(u, s.begun, u.cache, s.frames, Absent, u.undo, {}, s.pushed) /\ DOMAIN u.undo = {}
  /\ \A p : p \in restored <=> p \in DOMAIN s.undo /\ s.undo[p] # Absent
  /\ DOMAIN u.cache = (DOMAIN s.cache \ DOMAIN s.undo) \cup restored
  /\ \A p \in DOMAIN u.cache : u.cache[p] = IF p \in restored THEN s.undo[p] ELSE s.cache[p]

LEMMA WriterRollsBack ==
  ASSUME RemoteBounds, NEW s, NEW n, NEW b, NEW alone, NEW past, NEW lost, NEW obj,
         WriterInv(s, n, b, alone, past, lost, obj), s.pushed = Absent, Remotes!InTx(s),
         NEW restored, NEW u, Restored(s, restored, u), NEW b2
  PROVE  WriterInv(u, b, b2, alone \cap 1 .. s.begun, {}, lost \cup past, obj)
<1> DEFINE alone2 == alone \cap 1 .. s.begun
           lost2  == lost \cup past
<1>1. /\ DOMAIN u = RemoteFields /\ u.total = s.begun /\ u.frames = s.frames
      /\ u.begun = Absent /\ DOMAIN u.undo = {} /\ u.dirty = {} /\ u.pushed = s.pushed
  BY DEF Restored, Is
<1>2. /\ DOMAIN u.cache = (DOMAIN s.cache \ DOMAIN s.undo) \cup restored
      /\ \A p \in DOMAIN u.cache : u.cache[p] = IF p \in restored THEN s.undo[p] ELSE s.cache[p]
  BY DEF Restored
<1>3. Formed(s, n, b, alone, past) /\ ~ Remotes!InTx(u) /\ Changing(s, b, alone)
  BY <1>1 DEF WriterInv, Formed, Remotes!InTx
<1>4. /\ s.total \in Nat /\ s.total <= MaxRemotePages /\ DOMAIN s.cache \subseteq 1 .. s.total
      /\ s.begun \in Nat /\ s.begun >= 1 /\ s.begun <= s.total
  BY <1>3, FormedIs DEF Formed, Shape
<1>5. \A p \in RemoteValues : p # Absent
  BY DEF RemoteBounds, RemoteValues
<1>6. \A p \in DOMAIN s.undo : p \in 1 .. s.total /\ (p \in restored <=> p <= s.begun)
  BY <1>3, <1>4, <1>5 DEF Changing, Restored
<1>7. restored \subseteq DOMAIN s.undo
  BY DEF Restored
<1>8. DOMAIN u.cache \subseteq 1 .. s.begun
  <2> SUFFICES ASSUME NEW p \in DOMAIN u.cache PROVE p \in 1 .. s.begun
    OBVIOUS
  <2>1. p \in 1 .. s.total /\ (p \in DOMAIN s.undo => p <= s.begun)
    BY <1>2, <1>3, <1>4, <1>6, <1>7 DEF Changing
  <2>2. p \notin DOMAIN s.undo => ~ (p > s.begun)
    BY <2>1, <1>3 DEF Changing
  <2>3. QED
    BY <2>1, <2>2, <1>4
<1>9. \A p \in 1 .. s.begun : p \in DOMAIN u.cache <=> p \in DOMAIN s.cache
  BY <1>2, <1>3, <1>4, <1>6, <1>7 DEF Changing
<1>10. Formed(u, b, b2, alone2, {})
  <2>1. Shape(u)
    BY <1>1, <1>4, <1>8 DEF Shape, RemoteBounds
  <2>2. alone2 \subseteq DOMAIN u.cache
    BY <1>3, <1>9 DEF Formed
  <2>3. \A p \in DOMAIN u.cache : u.cache[p] \in RemoteValues
    <3> SUFFICES ASSUME NEW p \in DOMAIN u.cache PROVE u.cache[p] \in RemoteValues
      OBVIOUS
    <3>1. CASE p \in restored
      BY <3>1, <1>2, <1>3, <1>6, <1>7 DEF Changing
    <3>2. CASE p \notin restored
      BY <3>2, <1>2, <1>3 DEF Formed
    <3>3. QED
      BY <3>1, <3>2
  <2>4. b \in RemotePages /\ Len(b) = s.begun /\ DOMAIN s.frames \subseteq 1 .. s.begun
    BY <1>3 DEF Changing
  <2>5. \A p \in DOMAIN s.frames : s.frames[p] \in RemoteValues
    BY <1>3 DEF Formed
  <2> HIDE DEF alone2
  <2>6. QED
    BY <2>1, <2>2, <2>3, <2>4, <2>5, <1>1, <1>3 DEF Formed
<1>11. ASSUME NEW q \in 1 .. s.begun, q \notin lost2 PROVE Has(u, b, b2, alone2, {}, obj, q)
  <2>1. q \in 1 .. s.total /\ q <= s.begun /\ q \notin past
    BY <1>4, <1>11
  <2>2. Has(s, n, b, alone, past, obj, q)
    BY <2>1, <1>11 DEF WriterInv
  <2>3. \A v : Beneath(u, obj, q, v) <=> Beneath(s, obj, q, v)
    BY <1>1 DEF Beneath
  <2>4. q \in alone2 <=> q \in alone
    BY <1>11
  <2> HIDE DEF alone2
  <2>5. CASE q \in DOMAIN s.undo
    <3>1. s.undo[q] = b[q] /\ (q \notin alone => Beneath(s, obj, q, b[q]))
      BY <2>1, <2>2, <2>5, <1>3 DEF Has
    <3>2. q \in restored
      BY <2>1, <2>5, <1>6
    <3>3. QED
      BY <3>1, <3>2, <2>3, <2>4, <1>1, <1>2, <1>3 DEF Has
  <2>6. CASE q \notin DOMAIN s.undo
    <3>1. n[q] = b[q] /\ (q \notin alone => Beneath(s, obj, q, n[q]))
          /\ (q \in DOMAIN s.cache => s.cache[q] = n[q])
      BY <2>1, <2>2, <2>6 DEF Has
    <3>2. q \notin restored
      BY <2>6, <1>7
    <3>3. QED
      BY <3>1, <3>2, <2>3, <2>4, <1>1, <1>2, <1>3 DEF Has
  <2>7. QED
    BY <2>5, <2>6
<1>12. WriterInv(u, b, b2, alone2, {}, lost2, obj)
  <2> HIDE DEF alone2, lost2
  <2>1. QED
    BY <1>1, <1>10, <1>11 DEF WriterInv
<1>13. QED
  BY <1>12

\* A push gathers the pages one by one.
LEMMA WriterPushes ==
  ASSUME RemoteBounds, NEW s, NEW n, NEW b, NEW alone, NEW past, NEW lost, NEW obj,
         WriterInv(s, n, b, alone, past, lost, obj),
         NEW pushed, NEW u, Is(u, s.total, s.cache, s.frames, s.begun, s.undo, s.dirty, pushed),
         NEW v,
         \/ pushed = Absent
         \/ pushed = <<>>
         \/ /\ s.pushed # Absent /\ Len(s.pushed) + 1 <= s.total
            /\ v \in RemoteValues /\ pushed = Append(s.pushed, v)
            /\ Len(s.pushed) + 1 \in lost \/ v = n[Len(s.pushed) + 1]
  PROVE  WriterInv(u, n, b, alone, past, lost, obj)
<1>1. /\ DOMAIN u = RemoteFields /\ u.total = s.total /\ u.cache = s.cache /\ u.frames = s.frames
      /\ u.begun = s.begun /\ u.undo = s.undo /\ u.dirty = s.dirty /\ u.pushed = pushed
  BY DEF Is
<1>2. Formed(s, n, b, alone, past) /\ (Remotes!InTx(u) <=> Remotes!InTx(s))
  BY <1>1 DEF WriterInv, Remotes!InTx
<1>3. s.total \in Nat
  BY <1>2, FormedIs
<1>4. Shape(u) /\ (Changing(s, b, alone) => Changing(u, b, alone))
  BY <1>1, <1>2 DEF Formed, Shape, Changing
<1>5. Formed(u, n, b, alone, past)
  BY <1>1, <1>2, <1>4 DEF Formed
<1>6. ASSUME NEW q \in 1 .. s.total, q \notin lost PROVE Has(u, n, b, alone, past, obj, q)
  <2>1. Has(s, n, b, alone, past, obj, q)
    BY <1>6 DEF WriterInv
  <2>2. QED
    BY <2>1, <1>1, <1>2 DEF Has, Beneath
<1>7. ASSUME pushed # Absent PROVE Gathered(u, n, lost)
  <2>1. CASE pushed = <<>>
    BY <2>1, <1>1, <1>3, EmptySeq DEF Gathered, RemotePages
  <2>2. CASE /\ s.pushed # Absent /\ Len(s.pushed) + 1 <= s.total
             /\ v \in RemoteValues /\ pushed = Append(s.pushed, v)
             /\ Len(s.pushed) + 1 \in lost \/ v = n[Len(s.pushed) + 1]
    <3>1. Gathered(s, n, lost)
      BY <2>2 DEF WriterInv
    <3>2. PICK k \in Nat : k = Len(s.pushed)
      BY <3>1, LenProperties DEF Gathered, RemotePages
    <3>3. /\ pushed \in RemotePages /\ Len(pushed) = k + 1 /\ pushed[k + 1] = v
          /\ \A i \in 1 .. k : pushed[i] = s.pushed[i]
      BY <3>1, <3>2, <2>2, AppendProperties DEF Gathered, RemotePages
    <3>4. \A i \in 1 .. k + 1 : i = k + 1 \/ i \in 1 .. k
      BY <3>2
    <3>5. \A i \in 1 .. k + 1 : i \in lost \/ pushed[i] = n[i]
      BY <3>1, <3>2, <3>3, <3>4, <2>2 DEF Gathered
    <3>6. QED
      BY <3>2, <3>3, <3>5, <2>2, <1>1 DEF Gathered
  <2>3. QED
    BY <1>7, <2>1, <2>2
<1>8. QED
  BY <1>1, <1>5, <1>6, <1>7 DEF WriterInv

\* What a push leaves of the pages that the cache alone has.
AloneStored(a, s, alone) ==
  a = IF Remotes!InTx(s) THEN alone \cup (s.dirty \ DOMAIN s.frames)
      ELSE alone \cap DOMAIN s.frames

\* The object o is what the statements of the writer left, except what it has lost.
IsMeant(o, n, lost) ==
  /\ o \in RemotePages /\ Len(o) = Len(n) /\ Len(o) <= MaxRemotePages
  /\ \A p \in DOMAIN n : p \in lost \/ o[p] = n[p]

\* What the writer gathered becomes the object, below its log.
LEMMA WriterStores ==
  ASSUME RemoteBounds, NEW s, NEW n, NEW b, NEW alone, NEW past, NEW lost, NEW obj,
         WriterInv(s, n, b, alone, past, lost, obj), s.pushed # Absent, Len(s.pushed) = s.total,
         NEW u, Is(u, s.total, s.cache, s.frames, s.begun, s.undo, s.dirty, Absent),
         NEW alone2, AloneStored(alone2, s, alone)
  PROVE  WriterInv(u, n, b, alone2, past, lost, s.pushed) /\ IsMeant(s.pushed, n, lost)
<1> USE DEF AloneStored
<1>1. /\ DOMAIN u = RemoteFields /\ u.total = s.total /\ u.cache = s.cache /\ u.frames = s.frames
      /\ u.begun = s.begun /\ u.undo = s.undo /\ u.dirty = s.dirty /\ u.pushed = Absent
  BY DEF Is
<1>2. Formed(s, n, b, alone, past) /\ (Remotes!InTx(u) <=> Remotes!InTx(s)) /\ Gathered(s, n, lost)
  BY <1>1 DEF WriterInv, Remotes!InTx
<1>3. s.total \in Nat /\ s.total <= MaxRemotePages /\ DOMAIN n = 1 .. s.total /\ Len(n) = s.total
      /\ (Remotes!InTx(s) => s.begun \in Nat)
  BY <1>2, FormedIs DEF Formed
<1>4. /\ DOMAIN s.pushed = 1 .. s.total
      /\ \A p \in 1 .. s.total : p \in lost \/ s.pushed[p] = n[p]
  BY <1>2, LenProperties DEF Gathered, RemotePages
<1>5. alone2 \subseteq DOMAIN s.cache
  <2>1. CASE Remotes!InTx(s)
    BY <2>1, <1>2 DEF Formed, Changing
  <2>2. CASE ~ Remotes!InTx(s)
    BY <2>2, <1>2 DEF Formed
  <2>3. QED
    BY <2>1, <2>2
<1>6. Remotes!InTx(s) => Changing(u, b, alone2)
  BY <1>1, <1>2 DEF Formed, Changing
<1>7. Formed(u, n, b, alone2, past)
  <2>1. Shape(u)
    BY <1>1, <1>2 DEF Formed, Shape
  <2>2. QED
    BY <2>1, <1>1, <1>2, <1>5, <1>6 DEF Formed
<1>8. ASSUME NEW q \in 1 .. s.total, q \notin lost PROVE Has(u, n, b, alone2, past, s.pushed, q)
  <2>1. Has(s, n, b, alone, past, obj, q) /\ q \in DOMAIN s.pushed /\ s.pushed[q] = n[q]
    BY <1>4, <1>8 DEF WriterInv
  <2>2. ASSUME q \notin alone2, q \notin DOMAIN s.undo PROVE Beneath(u, s.pushed, q, n[q])
    <3>1. CASE q \in DOMAIN s.frames
      <4>1. q \notin alone
        BY <2>2, <3>1
      <4>2. QED
        BY <4>1, <3>1, <2>1, <2>2, <1>1 DEF Has, Beneath
    <3>2. CASE q \notin DOMAIN s.frames
      BY <3>2, <2>1, <1>1 DEF Beneath
    <3>3. QED
      BY <3>1, <3>2
  <2>3. ASSUME Remotes!InTx(s), q <= s.begun, q \notin past, q \in DOMAIN s.undo, q \notin alone2
        PROVE  Beneath(u, s.pushed, q, b[q])
    <3>1. q \notin alone /\ q \in s.dirty
      BY <2>3, <1>2 DEF Formed, Changing
    <3>2. q \in DOMAIN s.frames
      BY <3>1, <2>3
    <3>3. QED
      BY <3>1, <3>2, <2>1, <2>3, <1>1 DEF Has, Beneath
  <2>4. QED
    BY <2>1, <2>2, <2>3, <1>1, <1>2 DEF Has
<1>9. WriterInv(u, n, b, alone2, past, lost, s.pushed)
  BY <1>1, <1>7, <1>8 DEF WriterInv
<1>10. QED
  BY <1>2, <1>3, <1>4, <1>9 DEF Gathered, IsMeant

\* Another one replaces the object.
LEMMA OtherStores ==
  ASSUME RemoteBounds, NEW s, NEW n, NEW b, NEW alone, NEW past, NEW lost, NEW obj,
         WriterInv(s, n, b, alone, past, lost, obj), NEW other
  PROVE  WriterInv(s, n, b, alone, past,
                   lost \cup ((1 .. s.total) \ (alone \cup DOMAIN s.frames)), other)
<1> DEFINE lost2 == lost \cup ((1 .. s.total) \ (alone \cup DOMAIN s.frames))
<1>1. Formed(s, n, b, alone, past)
  BY DEF WriterInv
<1>2. ASSUME NEW q \in 1 .. s.total, q \notin lost2 PROVE Has(s, n, b, alone, past, other, q)
  <2>1. Has(s, n, b, alone, past, obj, q) /\ (q \in alone \/ q \in DOMAIN s.frames)
    BY <1>2 DEF WriterInv
  <2>2. QED
    BY <2>1 DEF Has, Beneath
<1>3. s.pushed # Absent => Gathered(s, n, lost2)
  BY DEF WriterInv, Gathered
<1>4. WriterInv(s, n, b, alone, past, lost2, other)
  <2> HIDE DEF lost2
  <2>1. QED
    BY <1>1, <1>2, <1>3 DEF WriterInv
<1>5. QED
  BY <1>4

-----------------------------------------------------------------------------
(* What reading does to the cache.                                         *)

\* The pages that an eviction takes from a cache are not those of the undo log.
LEMMA EvictionsAre ==
  ASSUME NEW c, NEW s, DOMAIN s = RemoteFields, NEW u \in Remotes!Evictions(c, s)
  PROVE  Smaller(s, u, DOMAIN s.cache \ DOMAIN u.cache)
<1> DEFINE free == {p \in DOMAIN s.cache :
                      p # 1 /\ ~ (Remotes!InTx(s) /\ p \in DOMAIN s.undo \cup s.dirty)}
<1>1. CASE u = s
  BY <1>1 DEF Smaller, Is
<1>2. ASSUME NEW out \in SUBSET free,
             u = [s EXCEPT !.cache = Remotes!Restrict(s.cache, DOMAIN s.cache \ out)]
      PROVE  Smaller(s, u, DOMAIN s.cache \ DOMAIN u.cache)
  <2> DEFINE d == Remotes!Restrict(s.cache, DOMAIN s.cache \ out)
  <2>1. DOMAIN d = DOMAIN s.cache \ out /\ \A p \in DOMAIN d : d[p] = s.cache[p]
    BY DEF Remotes!Restrict
  <2>2. out \subseteq DOMAIN s.cache
        /\ (Remotes!InTx(s) => \A p \in DOMAIN s.undo : p \notin out)
    OBVIOUS
  <2>3. u = [s EXCEPT !.cache = d]
    BY <1>2
  <2> HIDE DEF d, free
  <2>4. /\ DOMAIN u = RemoteFields /\ u.total = s.total /\ u.cache = d /\ u.frames = s.frames
        /\ u.begun = s.begun /\ u.undo = s.undo /\ u.dirty = s.dirty /\ u.pushed = s.pushed
    BY <2>3 DEF RemoteFields
  <2>5. DOMAIN s.cache \ DOMAIN u.cache = out
    BY <2>1, <2>2, <2>4
  <2>6. QED
    BY <2>1, <2>2, <2>4, <2>5 DEF Smaller, Is
<1>3. u = s \/ \E out \in SUBSET free :
                 u = [s EXCEPT !.cache = Remotes!Restrict(s.cache, DOMAIN s.cache \ out)]
  BY DEF Remotes!Evictions
<1>4. QED
  BY <1>1, <1>2, <1>3

\* A reader evicts nothing.
LEMMA ReaderEvicts ==
  ASSUME NEW c \in Reader, NEW s, NEW u \in Remotes!Evictions(c, s)
  PROVE  u = s
BY DEF Remotes!Evictions

\* Reading loads a page into the cache, at most, and lets others go.
LEMMA ReadsAre ==
  ASSUME NEW c, NEW s, DOMAIN s = RemoteFields, NEW p, NEW u \in Remotes!Reads(c, s, p)
  PROVE  \/ p \in DOMAIN s.cache /\ u = s
         \/ /\ p \notin DOMAIN s.cache
            /\ \E d : /\ IsSet(d, s.cache, p, Remotes!Content(s, p))
                      /\ \E t : /\ Is(t, s.total, d, s.frames, s.begun, s.undo, s.dirty, s.pushed)
                                /\ u \in Remotes!Evictions(c, t)
<1>1. CASE p \in DOMAIN s.cache
  BY <1>1 DEF Remotes!Reads
<1>2. CASE p \notin DOMAIN s.cache
  <2> DEFINE d == Remotes!Set(s.cache, p, Remotes!Content(s, p))
             t == [s EXCEPT !.cache = d]
  <2>1. IsSet(d, s.cache, p, Remotes!Content(s, p))
    BY DEF Remotes!Set, IsSet
  <2>2. u \in Remotes!Evictions(c, t)
    BY <1>2 DEF Remotes!Reads
  <2>3. Is(t, s.total, d, s.frames, s.begun, s.undo, s.dirty, s.pushed)
    <3> HIDE DEF d
    <3>1. QED
      BY DEF Is, RemoteFields
  <2> HIDE DEF d, t
  <2>4. QED
    BY <1>2, <2>1, <2>2, <2>3
<1>3. QED
  BY <1>1, <1>2

\* What a writer reads is of one of its pages, and the page itself unless it is lost.
LEMMA PageIs ==
  ASSUME RemoteBounds, NEW s, NEW n, NEW b, NEW alone, NEW past, NEW lost,
         Remotes!object \in RemotePages,
         WriterInv(s, n, b, alone, past, lost, Remotes!object), NEW p \in 1 .. s.total
  PROVE  /\ Remotes!Holds(s, p) => Remotes!Content(s, p) \in RemoteValues
         /\ p \in lost \/ (Remotes!Holds(s, p) /\ Remotes!Content(s, p) = n[p])
<1> DEFINE obj == Remotes!object
<1>1. Formed(s, n, b, alone, past)
  BY DEF WriterInv
<1>2. \A q \in DOMAIN obj : obj[q] \in RemoteValues
  <2>1. obj \in [1 .. Len(obj) -> RemoteValues]
    BY LenProperties DEF RemotePages
  <2> HIDE DEF obj
  <2>2. QED
    BY <2>1
<1>3. Remotes!Holds(s, p) => Remotes!Content(s, p) \in RemoteValues
  BY <1>1, <1>2 DEF Formed, Remotes!Holds, Remotes!Content
<1>4. ASSUME p \notin lost PROVE Remotes!Holds(s, p) /\ Remotes!Content(s, p) = n[p]
  <2>1. Has(s, n, b, alone, past, obj, p)
    BY <1>4 DEF WriterInv
  <2>2. p \notin DOMAIN s.cache => p \notin alone /\ p \notin DOMAIN s.undo
    BY <1>1 DEF Formed, Changing
  <2>3. QED
    BY <2>1, <2>2 DEF Has, Beneath, Remotes!Holds, Remotes!Content
<1>5. QED
  BY <1>3, <1>4

LEMMA WriterReads ==
  ASSUME RemoteBounds, NEW w, NEW s, NEW n, NEW b, NEW alone, NEW past, NEW lost,
         Remotes!object \in RemotePages,
         WriterInv(s, n, b, alone, past, lost, Remotes!object),
         NEW p \in 1 .. s.total, Remotes!Holds(s, p), NEW u \in Remotes!Reads(w, s, p),
         NEW out, out = DOMAIN s.cache \ DOMAIN u.cache
  PROVE  /\ WriterInv(u, n, b, alone \ out, past, lost \cup (alone \cap out), Remotes!object)
         /\ Is(u, s.total, u.cache, s.frames, s.begun, s.undo, s.dirty, s.pushed)
<1> DEFINE obj == Remotes!object
<1>1. Formed(s, n, b, alone, past) /\ DOMAIN s = RemoteFields /\ alone \subseteq DOMAIN s.cache
  BY DEF WriterInv, Formed, Shape
<1>2. WriterInv(s, n, b, alone, past, lost, obj)
  OBVIOUS
<1>3. CASE u = s
  <2>1. alone \ out = alone /\ lost \cup (alone \cap out) = lost
    BY <1>3
  <2>2. QED
    BY <2>1, <1>1, <1>3 DEF Is
<1>4. ASSUME p \notin DOMAIN s.cache,
             NEW d, IsSet(d, s.cache, p, Remotes!Content(s, p)),
             NEW t, Is(t, s.total, d, s.frames, s.begun, s.undo, s.dirty, s.pushed),
             u \in Remotes!Evictions(w, t)
      PROVE  /\ WriterInv(u, n, b, alone \ out, past, lost \cup (alone \cap out), obj)
             /\ Is(u, s.total, u.cache, s.frames, s.begun, s.undo, s.dirty, s.pushed)
  <2> DEFINE v   == Remotes!Content(s, p)
             gone == DOMAIN t.cache \ DOMAIN u.cache
  <2>1. v \in RemoteValues /\ (p \in lost \/ v = n[p])
    BY PageIs
  <2>2. WriterInv(t, n, b, alone, past, lost, obj)
    <3> HIDE DEF v, obj
    <3>1. IsSet(d, s.cache, p, v)
      BY <1>4 DEF v
    <3>2. QED
      BY <2>1, <3>1, <1>2, <1>4, WriterLoads
  <2>3. DOMAIN t = RemoteFields /\ t.cache = d /\ t.total = s.total /\ t.frames = s.frames
        /\ t.begun = s.begun /\ t.undo = s.undo /\ t.dirty = s.dirty /\ t.pushed = s.pushed
    BY <1>4 DEF Is
  <2>4. Smaller(t, u, gone)
    BY <2>3, <1>4, EvictionsAre
  <2>5. WriterInv(u, n, b, alone \ gone, past, lost \cup (alone \cap gone), obj)
    <3> HIDE DEF gone, obj
    <3>1. QED
      BY <2>2, <2>4, WriterEvicts
  <2>6. alone \ gone = alone \ out /\ alone \cap gone = alone \cap out
    <3>1. \A q \in alone : q \in DOMAIN t.cache /\ q \in DOMAIN s.cache
      BY <2>3, <1>1, <1>4 DEF IsSet
    <3>2. QED
      BY <3>1
  <2>7. QED
    <3> HIDE DEF gone
    <3>1. WriterInv(u, n, b, alone \ out, past, lost \cup (alone \cap out), obj)
      BY <2>5, <2>6
    <3>2. QED
      BY <3>1, <2>3, <2>4 DEF Smaller, Is
<1>5. QED
  <2>1. \/ p \in DOMAIN s.cache /\ u = s
        \/ /\ p \notin DOMAIN s.cache
           /\ \E d : /\ IsSet(d, s.cache, p, Remotes!Content(s, p))
                     /\ \E t : /\ Is(t, s.total, d, s.frames, s.begun, s.undo, s.dirty, s.pushed)
                               /\ u \in Remotes!Evictions(w, t)
    BY <1>1, ReadsAre
  <2>2. QED
    BY <2>1, <1>3, <1>4

-----------------------------------------------------------------------------
(* Every call keeps the invariant.                                         *)

LEMMA MeansNow ==
  ASSUME Meanings(meant), NEW w \in Writer, NEW n, Remotes!Meant(w, n)
  PROVE  /\ Meanings(meant') /\ meant'[w].now = n /\ meant'[w].before = meant[w].before
         /\ \A v \in Writer : v # w => meant'[v] = meant[v]
BY DEF Meanings, Remotes!Meant

LEMMA MeansBefore ==
  ASSUME Meanings(meant), NEW w \in Writer, NEW n, meant' = [meant EXCEPT ![w].before = n]
  PROVE  /\ Meanings(meant') /\ meant'[w].now = meant[w].now /\ meant'[w].before = n
         /\ \A v \in Writer : v # w => meant'[v] = meant[v]
BY DEF Meanings

LEMMA MeansAll ==
  ASSUME Meanings(meant), NEW w \in Writer, NEW n, NEW b,
         meant' = [meant EXCEPT ![w] = [now |-> n, before |-> b]]
  PROVE  /\ Meanings(meant') /\ meant'[w].now = n /\ meant'[w].before = b
         /\ \A v \in Writer : v # w => meant'[v] = meant[v]
BY DEF Meanings

LEMMA FaresTo ==
  ASSUME Fates(fate), NEW w \in Writer, NEW h, IsFate(h), Remotes!Fares(w, h)
  PROVE  /\ Fates(fate') /\ fate'[w] = h
         /\ \A v \in Writer : v # w => fate'[v] = fate[v]
<1>1. fate' = [fate EXCEPT ![w] = h]
  BY DEF Remotes!Fares
<1>2. fate = [v \in Writer |-> fate[v]] /\ \A v \in Writer : IsFate(fate[v])
  BY DEF Fates
<1>3. fate' = [v \in Writer |-> fate'[v]] /\ fate'[w] = h
      /\ \A v \in Writer : v # w => fate'[v] = fate[v]
  BY <1>1, <1>2
<1>4. \A v \in Writer : IsFate(fate'[v])
  BY <1>2, <1>3
<1>5. QED
  BY <1>3, <1>4 DEF Fates

\* A fate with other pages alone and past, and no more lost.
LEMMA FateChanges ==
  ASSUME NEW h, IsFate(h), NEW alone, NEW past, NEW g,
         g = [h EXCEPT !.alone = alone, !.past = past]
  PROVE  IsFate(g) /\ g.alone = alone /\ g.past = past /\ LostBy(g) = LostBy(h)
BY DEF IsFate, LostBy

LEMMA FateLetsGo ==
  ASSUME NEW h, IsFate(h), NEW out
  PROVE  /\ IsFate(Remotes!LetGo(h, out))
         /\ Remotes!LetGo(h, out).alone = h.alone \ out
         /\ Remotes!LetGo(h, out).past = h.past
         /\ LostBy(Remotes!LetGo(h, out)) = LostBy(h) \cup (h.alone \cap out)
<1> DEFINE g == Remotes!LetGo(h, out)
<1>1. g = [h EXCEPT !.alone = h.alone \ out, !.evicted = h.evicted \cup (h.alone \cap out)]
  BY DEF Remotes!LetGo, IsFate
<1>2. IsFate(g) /\ g.alone = h.alone \ out /\ g.past = h.past
      /\ g.evicted = h.evicted \cup (h.alone \cap out) /\ g.kept = h.kept /\ g.replaced = h.replaced
  BY <1>1 DEF IsFate
<1>3. QED
  BY <1>2 DEF LostBy

\* Most calls of a client leave the object as it is.
LEMMA ClientSteps ==
  ASSUME RemoteBounds, RemoteInv, NEW c \in Remotes!Client, NEW u, Remotes!Become(c, u),
         puts' = puts, written' \in RemoteValues, Meanings(meant'), Fates(fate'),
         \A v \in Writer : v # c => meant'[v] = meant[v] /\ fate'[v] = fate[v],
         c \in Writer /\ u # Absent => OfWriter(u, meant'[c], fate'[c], Remotes!object),
         c \in Reader /\ u # Absent => ReaderInv(u)
  PROVE  RemoteInv'
<1>1. pager' = [d \in Remotes!Client |-> IF d = c THEN u ELSE pager[d]]
  BY DEF RemoteInv, Remotes!Become
<1>2. pager' = [d \in Remotes!Client |-> pager'[d]]
  BY <1>1
<1>3. Writer \subseteq Remotes!Client /\ Reader \subseteq Remotes!Client
  BY DEF Remotes!Client
<1>4. Remotes!object' = Remotes!object
  BY DEF Remotes!object
<1>5. ASSUME NEW w \in Writer, pager'[w] # Absent
      PROVE  OfWriter(pager'[w], meant'[w], fate'[w], Remotes!object')
  <2>1. CASE w = c
    <3>1. pager'[w] = u /\ u # Absent
      BY <2>1, <1>1, <1>3, <1>5
    <3>2. OfWriter(u, meant'[c], fate'[c], Remotes!object)
      BY <2>1, <3>1
    <3>3. QED
      BY <2>1, <3>1, <3>2, <1>4
  <2>2. CASE w # c
    <3>1. pager'[w] = pager[w] /\ meant'[w] = meant[w] /\ fate'[w] = fate[w]
      BY <2>2, <1>1, <1>3
    <3>2. OfWriter(pager[w], meant[w], fate[w], Remotes!object)
      BY <3>1, <1>5 DEF RemoteInv
    <3>3. QED
      BY <3>1, <3>2, <1>4
  <2>3. QED
    BY <2>1, <2>2
<1>6. ASSUME NEW r \in Reader, pager'[r] # Absent PROVE ReaderInv(pager'[r])
  BY <1>1, <1>3, <1>6 DEF RemoteInv
<1>7. puts' \in Seq(RemotePages) /\ Len(puts') > 0 /\ Len(Remotes!object') <= MaxRemotePages
  BY <1>4 DEF RemoteInv
<1>8. QED
  BY <1>2, <1>5, <1>6, <1>7 DEF RemoteInv

\* A writer whose pages become n, those of its transaction b, and whose fate becomes h.
LEMMA WriterSteps ==
  ASSUME RemoteBounds, RemoteInv, NEW w \in Writer, NEW u, Remotes!Become(w, u),
         puts' = puts, written' \in RemoteValues,
         NEW n, NEW b, Meanings(meant'), meant'[w].now = n, meant'[w].before = b,
         \A v \in Writer : v # w => meant'[v] = meant[v],
         NEW h, IsFate(h), Remotes!Fares(w, h),
         NEW alone, alone = h.alone, NEW past, past = h.past, NEW lost, lost = LostBy(h),
         WriterInv(u, n, b, alone, past, lost, Remotes!object)
  PROVE  RemoteInv'
<1>1. w \in Remotes!Client /\ w \notin Reader
  BY DEF Remotes!Client, RemoteBounds
<1>2. Fates(fate') /\ fate'[w] = h /\ \A v \in Writer : v # w => fate'[v] = fate[v]
  BY FaresTo DEF RemoteInv
<1>3. OfWriter(u, meant'[w], fate'[w], Remotes!object)
  BY <1>2 DEF OfWriter
<1>4. QED
  BY <1>1, <1>2, <1>3, ClientSteps

LEMMA ObjectIs ==
  ASSUME RemoteInv
  PROVE  Remotes!object \in RemotePages
<1>1. puts \in [1 .. Len(puts) -> RemotePages] /\ Len(puts) \in Nat /\ Len(puts) > 0
  BY LenProperties DEF RemoteInv
<1>2. Len(puts) \in 1 .. Len(puts)
  BY <1>1
<1>3. QED
  BY <1>1, <1>2 DEF Remotes!object, Remotes!Last

LEMMA WriterIs ==
  ASSUME RemoteBounds, RemoteInv, NEW w \in Writer, pager[w] # Absent
  PROVE  /\ WriterInv(pager[w], meant[w].now, meant[w].before, fate[w].alone, fate[w].past,
                      LostBy(fate[w]), Remotes!object)
         /\ DOMAIN pager[w] = RemoteFields /\ pager[w].total \in Nat
         /\ Meanings(meant) /\ Fates(fate) /\ IsFate(fate[w]) /\ written \in RemoteValues
<1>1. OfWriter(pager[w], meant[w], fate[w], Remotes!object) /\ Meanings(meant) /\ Fates(fate)
      /\ written \in RemoteValues
  BY DEF RemoteInv
<1>2. WriterInv(pager[w], meant[w].now, meant[w].before, fate[w].alone, fate[w].past,
                LostBy(fate[w]), Remotes!object)
  BY <1>1 DEF OfWriter
<1>3. DOMAIN pager[w] = RemoteFields /\ pager[w].total \in Nat
  BY <1>2, FormedIs DEF WriterInv
<1>4. IsFate(fate[w])
  BY <1>1 DEF Fates
<1>5. QED
  BY <1>1, <1>2, <1>3, <1>4

\* A writer reads one of its pages.
LEMMA PageIsRead ==
  ASSUME RemoteBounds, RemoteInv, NEW w \in Writer, pager[w] # Absent,
         NEW p \in 1 .. pager[w].total, Remotes!Holds(pager[w], p),
         NEW s \in Remotes!Reads(w, pager[w], p),
         NEW h, h = Remotes!Evicted(fate[w], pager[w], s)
  PROVE  /\ IsFate(h)
         /\ WriterInv(s, meant[w].now, meant[w].before, h.alone, h.past, LostBy(h), Remotes!object)
         /\ Is(s, pager[w].total, s.cache, pager[w].frames, pager[w].begun, pager[w].undo,
               pager[w].dirty, pager[w].pushed)
         /\ Remotes!Content(pager[w], p) \in RemoteValues
         /\ p \in LostBy(h) \/ Remotes!Content(pager[w], p) = meant[w].now[p]
<1> DEFINE g == pager[w]
           n == meant[w].now
           b == meant[w].before
           f == fate[w]
           alone == f.alone
           past  == f.past
           lost  == LostBy(f)
           out   == DOMAIN g.cache \ DOMAIN s.cache
<1>1. WriterInv(g, n, b, alone, past, lost, Remotes!object) /\ IsFate(f)
      /\ Remotes!object \in RemotePages
  BY WriterIs, ObjectIs
<1>2. p \in 1 .. g.total /\ Remotes!Holds(g, p) /\ s \in Remotes!Reads(w, g, p)
  OBVIOUS
<1>3. h = Remotes!LetGo(f, out)
  BY DEF Remotes!Evicted
<1>4. IsFate(h) /\ h.alone = alone \ out /\ h.past = past /\ LostBy(h) = lost \cup (alone \cap out)
  <2> HIDE DEF f, out
  <2>1. QED
    BY <1>1, <1>3, FateLetsGo
<1>5. out = DOMAIN g.cache \ DOMAIN s.cache
  OBVIOUS
<1> HIDE DEF g, n, b, f, alone, past, lost, out
<1>6. /\ WriterInv(s, n, b, alone \ out, past, lost \cup (alone \cap out), Remotes!object)
      /\ Is(s, g.total, s.cache, g.frames, g.begun, g.undo, g.dirty, g.pushed)
  BY <1>1, <1>2, <1>5, WriterReads
<1>7. Remotes!Content(g, p) \in RemoteValues /\ (p \in lost \/ Remotes!Content(g, p) = n[p])
  BY <1>1, <1>2, PageIs
<1>8. p \in LostBy(h) \/ Remotes!Content(g, p) = n[p]
  BY <1>4, <1>7
<1>9. WriterInv(s, n, b, h.alone, h.past, LostBy(h), Remotes!object)
  BY <1>4, <1>6
<1>10. QED
  BY <1>4, <1>6, <1>7, <1>8, <1>9 DEF g, n, b

LEMMA InvKeptByRead ==
  ASSUME RemoteBounds, RemoteInv, NEW c \in Remotes!Client, NEW p \in 1 .. MaxRemotePages,
         Remotes!Read(c, p)
  PROVE  RemoteInv'
<1> DEFINE g == pager[c]
<1>1. PICK s \in Remotes!Reads(c, g, p) :
        /\ Remotes!Become(c, s)
        /\ c \in Writer => Remotes!Fares(c, Remotes!Evicted(fate[c], g, s))
        /\ c \notin Writer => UNCHANGED fate
  BY DEF Remotes!Read
<1>2. g # Absent /\ p <= g.total /\ Remotes!Holds(g, p) /\ puts' = puts /\ meant' = meant
      /\ written' = written
  BY DEF Remotes!Read, Remotes!Idle
<1>3. p \in Nat /\ p >= 1
  BY DEF RemoteBounds
<1>4. CASE c \in Writer
  <2> DEFINE n == meant[c].now
             b == meant[c].before
             h == Remotes!Evicted(fate[c], g, s)
  <2>1. Meanings(meant) /\ written \in RemoteValues /\ g.total \in Nat
    BY <1>2, <1>4, WriterIs
  <2>2. p \in 1 .. g.total
    BY <1>2, <1>3, <2>1
  <2>3. IsFate(h) /\ WriterInv(s, n, b, h.alone, h.past, LostBy(h), Remotes!object)
    BY <1>2, <1>4, <2>2, PageIsRead
  <2>4. Remotes!Fares(c, h) /\ Remotes!Become(c, s)
    BY <1>1, <1>4
  <2>5. Meanings(meant') /\ meant'[c].now = n /\ meant'[c].before = b /\ written' \in RemoteValues
        /\ \A v \in Writer : v # c => meant'[v] = meant[v]
    BY <1>2, <2>1
  <2> HIDE DEF g, n, b, h
  <2>6. QED
    BY <1>2, <1>4, <2>3, <2>4, <2>5, WriterSteps
<1>5. CASE c \in Reader
  <2>1. c \notin Writer /\ fate' = fate /\ Fates(fate') /\ Meanings(meant') /\ written' \in RemoteValues
    BY <1>1, <1>2, <1>5 DEF RemoteBounds, RemoteInv
  <2>2. ReaderInv(g)
    BY <1>2, <1>5 DEF RemoteInv
  <2>3. p \in 1 .. g.total /\ DOMAIN g = RemoteFields
    BY <1>2, <1>3, <2>2 DEF ReaderInv, Shape
  <2>4. ASSUME NEW d, IsSet(d, g.cache, p, Remotes!Content(g, p)),
               NEW t, Is(t, g.total, d, g.frames, g.begun, g.undo, g.dirty, g.pushed),
               s \in Remotes!Evictions(c, t)
        PROVE  ReaderInv(s)
    <3> HIDE DEF g
    <3>1. s = t
      BY <1>5, <2>4, ReaderEvicts
    <3>2. DOMAIN t = RemoteFields /\ t.total = g.total /\ t.cache = d /\ t.frames = g.frames
          /\ t.dirty = g.dirty /\ DOMAIN d = DOMAIN g.cache \cup {p}
      BY <2>4 DEF Is, IsSet
    <3>3. QED
      BY <3>1, <3>2, <2>2, <2>3 DEF ReaderInv, Shape
  <2>5. ReaderInv(s)
    <3> HIDE DEF g
    <3>1. \/ p \in DOMAIN g.cache /\ s = g
          \/ /\ p \notin DOMAIN g.cache
             /\ \E d : /\ IsSet(d, g.cache, p, Remotes!Content(g, p))
                       /\ \E t : /\ Is(t, g.total, d, g.frames, g.begun, g.undo, g.dirty, g.pushed)
                                 /\ s \in Remotes!Evictions(c, t)
      BY <2>3, ReadsAre
    <3>2. QED
      BY <3>1, <2>2, <2>4
  <2>6. \A v \in Writer : meant'[v] = meant[v] /\ fate'[v] = fate[v]
    BY <1>2, <2>1
  <2>7. QED
    BY <1>1, <1>2, <2>1, <2>5, <2>6, ClientSteps
<1>6. QED
  BY <1>4, <1>5 DEF Remotes!Client

LEMMA OpenedIs ==
  ASSUME RemoteBounds, NEW obj \in RemotePages, Len(obj) <= MaxRemotePages,
         NEW u, u = Remotes!Opened(obj),
         NEW n, n = IF obj = <<>> THEN << 0 >> ELSE obj,
         NEW alone, alone = IF obj = <<>> THEN {1} ELSE {}
  PROVE  /\ WriterInv(u, n, <<>>, alone, {}, {}, obj)
         /\ ReaderInv(u)
<1>1. /\ DOMAIN u = RemoteFields /\ u.total = (IF obj = <<>> THEN 1 ELSE Len(obj))
      /\ u.cache = (IF obj = <<>> THEN << 0 >> ELSE <<>>) /\ u.frames = <<>>
      /\ u.begun = Absent /\ u.undo = <<>> /\ u.dirty = {} /\ u.pushed = Absent
  BY DEF Remotes!Opened, RemoteFields
<1>2. DOMAIN u.frames = {} /\ DOMAIN u.undo = {} /\ ~ Remotes!InTx(u)
  BY <1>1 DEF Remotes!InTx
<1>3. obj # <<>> => Len(obj) \in 1 .. MaxRemotePages
  BY LenProperties, EmptySeq DEF RemotePages, RemoteBounds
<1>4. 0 \in RemoteValues
  BY DEF RemoteBounds, RemoteValues
<1>5. << 0 >> \in RemotePages /\ Len(<< 0 >>) = 1 /\ DOMAIN << 0 >> = {1} /\ << 0 >>[1] = 0
  BY <1>4 DEF RemotePages
<1>6. CASE obj = <<>>
  <2> DEFINE c == << 0 >>
  <2>1. u.cache = c /\ u.total = 1 /\ n = c /\ alone = {1}
    BY <1>1, <1>6
  <2>2. c \in RemotePages /\ Len(c) = 1 /\ DOMAIN c = {1} /\ c[1] = 0
    BY <1>5
  <2> HIDE DEF c
  <2>3. Shape(u)
    BY <2>1, <2>2, <1>1 DEF Shape, RemoteBounds
  <2>4. Formed(u, n, <<>>, alone, {})
    BY <2>1, <2>2, <2>3, <1>1, <1>2, <1>4 DEF Formed
  <2>5. \A q \in 1 .. u.total : Has(u, n, <<>>, alone, {}, obj, q)
    BY <2>1, <2>2, <1>2 DEF Has
  <2>6. QED
    BY <2>3, <2>4, <2>5, <1>1, <1>2 DEF WriterInv, ReaderInv
<1>7. CASE obj # <<>>
  <2>1. DOMAIN u.cache = {} /\ u.total = Len(obj) /\ n = obj /\ alone = {}
    BY <1>1, <1>7
  <2>2. DOMAIN obj = 1 .. u.total
    BY <2>1, LenProperties DEF RemotePages
  <2>3. Shape(u)
    BY <2>1, <1>1, <1>3, <1>7 DEF Shape
  <2>4. Formed(u, n, <<>>, alone, {})
    BY <2>1, <2>3, <1>1, <1>2 DEF Formed
  <2>5. \A q \in 1 .. u.total : Has(u, n, <<>>, alone, {}, obj, q)
    BY <2>1, <2>2, <1>2 DEF Has, Beneath
  <2>6. QED
    BY <2>3, <2>4, <2>5, <1>1, <1>2 DEF WriterInv, ReaderInv
<1>8. QED
  BY <1>6, <1>7

LEMMA UntouchedIs ==
  ASSUME NEW alone
  PROVE  /\ IsFate(Remotes!Untouched(alone)) /\ Remotes!Untouched(alone).alone = alone
         /\ Remotes!Untouched(alone).past = {} /\ LostBy(Remotes!Untouched(alone)) = {}
BY DEF Remotes!Untouched, IsFate, LostBy

LEMMA InvKeptByOpen ==
  ASSUME RemoteBounds, RemoteInv, NEW c \in Remotes!Client, Remotes!Open(c)
  PROVE  RemoteInv'
<1> DEFINE obj   == Remotes!object
           u     == Remotes!Opened(obj)
           n     == IF obj = <<>> THEN << 0 >> ELSE obj
           alone == IF obj = <<>> THEN {1} ELSE {}
           h     == Remotes!Untouched(alone)
           b     == <<>>
<1>1. Remotes!Become(c, u) /\ puts' = puts /\ written' = written
  BY DEF Remotes!Open
<1>2. obj \in RemotePages /\ Len(obj) <= MaxRemotePages /\ Meanings(meant) /\ Fates(fate)
      /\ written' \in RemoteValues
  BY <1>1, ObjectIs DEF RemoteInv
<1>3. /\ u = Remotes!Opened(obj) /\ n = (IF obj = <<>> THEN << 0 >> ELSE obj)
      /\ alone = (IF obj = <<>> THEN {1} ELSE {})
  OBVIOUS
<1>4. CASE c \in Writer
  <2>1. meant' = [meant EXCEPT ![c] = [now |-> n, before |-> b]] /\ Remotes!Fares(c, h)
    BY <1>4 DEF Remotes!Open
  <2> HIDE DEF obj, u, n, b
  <2>2. /\ Meanings(meant') /\ meant'[c].now = n /\ meant'[c].before = b
        /\ \A v \in Writer : v # c => meant'[v] = meant[v]
    BY <2>1, <1>2, <1>4, MeansAll
  <2> HIDE DEF alone
  <2>3. WriterInv(u, n, b, alone, {}, {}, obj)
    BY <1>2, <1>3, OpenedIs DEF b
  <2>4. IsFate(h) /\ alone = h.alone /\ {} = h.past /\ {} = LostBy(h)
    BY UntouchedIs
  <2> HIDE DEF h
  <2>5. WriterInv(u, n, b, alone, {}, {}, Remotes!object)
    BY <2>3 DEF obj
  <2>6. QED
    BY <1>1, <1>2, <1>4, <2>1, <2>2, <2>4, <2>5, WriterSteps
<1>5. CASE c \in Reader
  <2>1. c \notin Writer
    BY <1>5 DEF RemoteBounds
  <2>2. meant' = meant /\ fate' = fate
    BY <2>1 DEF Remotes!Open
  <2> HIDE DEF obj, u, n, alone
  <2>3. ReaderInv(u)
    BY <1>2, <1>3, OpenedIs
  <2>4. Meanings(meant') /\ Fates(fate')
        /\ \A v \in Writer : meant'[v] = meant[v] /\ fate'[v] = fate[v]
    BY <1>2, <2>2
  <2>5. QED
    BY <1>1, <1>2, <2>1, <2>3, <2>4, ClientSteps
<1>6. QED
  BY <1>4, <1>5 DEF Remotes!Client

\* The changes are numbered.
LEMMA ChangeNumber ==
  ASSUME RemoteBounds, RemoteInv, Remotes!Written
  PROVE  written' \in RemoteValues
BY DEF Remotes!Written, RemoteInv, RemoteBounds, RemoteValues

LEMMA InvKeptByWrite ==
  ASSUME RemoteBounds, RemoteInv, NEW w \in Writer, NEW p \in 1 .. MaxRemotePages,
         Remotes!Write(w, p)
  PROVE  RemoteInv'
<1> DEFINE s == pager[w]
           n == meant[w].now
           b == meant[w].before
           f == fate[w]
           alone == f.alone
           past  == f.past
           lost  == LostBy(f)
           v == written'
           c == Remotes!Set(s.cache, p, v)
           u == [s EXCEPT !.cache = c]
           m == [n EXCEPT ![p] = v]
           alone2 == IF p \in s.dirty THEN alone ELSE alone \cup {p}
           past2  == IF Remotes!InTx(s) /\ p \notin DOMAIN s.undo THEN past \cup {p} ELSE past
           h == [f EXCEPT !.alone = alone2, !.past = past2]
<1>1. s # Absent /\ s.pushed = Absent /\ p <= s.total /\ Remotes!Written
  BY DEF Remotes!Write, Remotes!Ready, Remotes!Idle
<1>2. puts' = puts /\ Remotes!Meant(w, m)
  BY DEF Remotes!Write
<1>3. Remotes!Become(w, u) /\ Remotes!Fares(w, h)
  BY DEF Remotes!Write
<1>4. /\ WriterInv(s, n, b, alone, past, lost, Remotes!object) /\ DOMAIN s = RemoteFields
      /\ s.total \in Nat /\ Meanings(meant) /\ IsFate(f)
  BY <1>1, WriterIs
<1>5. v \in RemoteValues
  BY <1>1, ChangeNumber
<1>6. p \in 1 .. s.total
  BY <1>1, <1>4 DEF RemoteBounds
<1>7. IsSet(c, s.cache, p, v)
  BY DEF Remotes!Set, IsSet
<1>8. Is(u, s.total, c, s.frames, s.begun, s.undo, s.dirty, s.pushed)
  <2> HIDE DEF s, c
  <2>1. QED
    BY <1>4 DEF Is, RemoteFields
<1>9. /\ Meanings(meant') /\ meant'[w].now = m /\ meant'[w].before = b
      /\ \A x \in Writer : x # w => meant'[x] = meant[x]
  <2> HIDE DEF m
  <2>1. QED
    BY <1>2, <1>4, MeansNow
<1>10. /\ alone2 = (IF p \in s.dirty THEN alone ELSE alone \cup {p})
       /\ past2 = (IF Remotes!InTx(s) /\ p \notin DOMAIN s.undo THEN past \cup {p} ELSE past)
       /\ h = [f EXCEPT !.alone = alone2, !.past = past2]
  OBVIOUS
<1> HIDE DEF s, n, b, f, alone, past, lost, v, c, u, alone2, past2, h
<1>11. WriterInv(u, m, b, alone2, past2, lost, Remotes!object)
  BY <1>1, <1>4, <1>5, <1>6, <1>7, <1>8, <1>10, WriterWrites
<1>12. IsFate(h) /\ alone2 = h.alone /\ past2 = h.past /\ lost = LostBy(h)
  BY <1>4, <1>10 DEF IsFate, LostBy, alone, past, lost
<1> HIDE DEF m
<1>13. written' \in RemoteValues
  BY <1>5 DEF v
<1>14. QED
  BY <1>2, <1>3, <1>9, <1>11, <1>12, <1>13, WriterSteps

LEMMA InvKeptByModify ==
  ASSUME RemoteBounds, RemoteInv, NEW w \in Writer, NEW p \in 1 .. MaxRemotePages,
         Remotes!Modify(w, p)
  PROVE  RemoteInv'
<1> DEFINE g == pager[w]
           n == meant[w].now
           b == meant[w].before
           v == written'
           m == [n EXCEPT ![p] = v]
           x == Remotes!Content(g, p)
           Undo(s)  == IF Remotes!InTx(s) /\ p \notin DOMAIN s.undo
                       THEN Remotes!Set(s.undo, p, x) ELSE s.undo
           Dirty(s) == IF Remotes!InTx(s) THEN s.dirty \cup {p} ELSE s.dirty
           Rid(s)  == Remotes!Evicted(fate[w], g, s)
<1>1. g # Absent /\ g.pushed = Absent /\ p <= g.total /\ Remotes!Written /\ Remotes!Holds(g, p)
  BY DEF Remotes!Modify, Remotes!Ready, Remotes!Idle
<1>2. puts' = puts /\ Remotes!Meant(w, m)
  BY DEF Remotes!Modify
<1>3. PICK s \in Remotes!Reads(w, g, p) :
        /\ Remotes!Become(w, [s EXCEPT !.cache = Remotes!Set(s.cache, p, v),
                                       !.undo = Undo(s), !.dirty = Dirty(s)])
        /\ Remotes!Fares(w, IF Remotes!InTx(s) THEN Rid(s)
                            ELSE [Rid(s) EXCEPT !.alone = Rid(s).alone \cup {p}])
  BY Zenon DEF Remotes!Modify
<1>4. g.total \in Nat /\ Meanings(meant)
  BY <1>1, WriterIs
<1>5. v \in RemoteValues
  BY <1>1, ChangeNumber
<1>6. p \in 1 .. g.total
  BY <1>1, <1>4 DEF RemoteBounds
<1> DEFINE f == Rid(s)
           alone == f.alone
           past  == f.past
           lost  == LostBy(f)
           c     == Remotes!Set(s.cache, p, v)
           undo  == Undo(s)
           dirty == Dirty(s)
           u     == [s EXCEPT !.cache = c, !.undo = undo, !.dirty = dirty]
           alone2 == IF Remotes!InTx(s) THEN alone ELSE alone \cup {p}
           h == IF Remotes!InTx(s) THEN f ELSE [f EXCEPT !.alone = alone \cup {p}]
<1>7. /\ IsFate(f) /\ WriterInv(s, n, b, alone, past, lost, Remotes!object)
      /\ Is(s, g.total, s.cache, g.frames, g.begun, g.undo, g.dirty, g.pushed)
      /\ x \in RemoteValues /\ (p \in lost \/ x = n[p])
  BY <1>1, <1>6, PageIsRead
<1>8. IsSet(c, s.cache, p, v)
  BY DEF Remotes!Set, IsSet
<1>9. IF Remotes!InTx(s) /\ p \notin DOMAIN s.undo THEN IsSet(undo, s.undo, p, x)
      ELSE undo = s.undo
  BY DEF Remotes!Set, IsSet
<1>10. dirty = (IF Remotes!InTx(s) THEN s.dirty \cup {p} ELSE s.dirty)
       /\ alone2 = (IF Remotes!InTx(s) THEN alone ELSE alone \cup {p})
       /\ h = (IF Remotes!InTx(s) THEN f ELSE [f EXCEPT !.alone = alone \cup {p}])
  OBVIOUS
<1>11. Remotes!Become(w, u) /\ Remotes!Fares(w, h)
  BY <1>3
<1>12. s.pushed = Absent /\ p \in 1 .. s.total /\ DOMAIN s = RemoteFields
  BY <1>1, <1>6, <1>7 DEF Is
<1>13. Is(u, s.total, c, s.frames, s.begun, undo, dirty, s.pushed)
  <2> HIDE DEF c, undo, dirty
  <2>1. QED
    BY <1>12 DEF Is, RemoteFields
<1>14. /\ Meanings(meant') /\ meant'[w].now = m /\ meant'[w].before = b
       /\ \A y \in Writer : y # w => meant'[y] = meant[y]
  <2> HIDE DEF m
  <2>1. QED
    BY <1>2, <1>4, MeansNow
<1> HIDE DEF g, n, b, v, x, f, alone, past, lost, c, undo, dirty, u, alone2, h
<1>15. WriterInv(u, m, b, alone2, past, lost, Remotes!object)
  BY <1>5, <1>7, <1>8, <1>9, <1>10, <1>12, <1>13, WriterModifies
<1>16. IsFate(h) /\ alone2 = h.alone /\ past = h.past /\ lost = LostBy(h)
  <2>1. CASE Remotes!InTx(s)
    BY <2>1, <1>7, <1>10 DEF alone, past, lost
  <2>2. CASE ~ Remotes!InTx(s)
    <3>1. h = [f EXCEPT !.alone = alone2] /\ IsFate(f)
      BY <2>2, <1>7, <1>10
    <3>2. QED
      BY <3>1 DEF IsFate, LostBy, past, lost
  <2>3. QED
    BY <2>1, <2>2
<1> HIDE DEF m
<1>17. written' \in RemoteValues
  BY <1>5 DEF v
<1>18. QED
  BY <1>2, <1>11, <1>14, <1>15, <1>16, <1>17, WriterSteps

LEMMA InvKeptByAllocate ==
  ASSUME RemoteBounds, RemoteInv, NEW w \in Writer, Remotes!Allocate(w)
  PROVE  RemoteInv'
<1> DEFINE s == pager[w]
           n == meant[w].now
           b == meant[w].before
           f == fate[w]
           alone == f.alone
           past  == f.past
           lost  == LostBy(f)
           id == s.total + 1
           c == Remotes!Set(s.cache, id, 0)
           undo == IF Remotes!InTx(s) /\ id \notin DOMAIN s.undo
                   THEN Remotes!Set(s.undo, id, Absent) ELSE s.undo
           u == [s EXCEPT !.total = id, !.cache = c, !.undo = undo]
           m == Append(n, 0)
           alone2 == alone \cup {id}
           h == [f EXCEPT !.alone = alone2]
<1>1. s # Absent /\ s.pushed = Absent /\ s.total < MaxRemotePages /\ Remotes!Written
  BY DEF Remotes!Allocate, Remotes!Ready, Remotes!Idle
<1>2. puts' = puts /\ Remotes!Meant(w, m)
  BY DEF Remotes!Allocate
<1>3. Remotes!Become(w, u) /\ Remotes!Fares(w, h)
  BY DEF Remotes!Allocate
<1>4. /\ WriterInv(s, n, b, alone, past, lost, Remotes!object) /\ DOMAIN s = RemoteFields
      /\ s.total \in Nat /\ Meanings(meant) /\ IsFate(f)
  BY <1>1, WriterIs
<1>5. written' \in RemoteValues
  BY <1>1, ChangeNumber
<1>6. IsSet(c, s.cache, id, 0)
  BY DEF Remotes!Set, IsSet
<1>7. IF Remotes!InTx(s) /\ id \notin DOMAIN s.undo THEN IsSet(undo, s.undo, id, Absent)
      ELSE undo = s.undo
  BY DEF Remotes!Set, IsSet
<1>8. Is(u, id, c, s.frames, s.begun, undo, s.dirty, s.pushed)
  <2> HIDE DEF s, c, undo, id
  <2>1. QED
    BY <1>4 DEF Is, RemoteFields
<1>9. /\ Meanings(meant') /\ meant'[w].now = m /\ meant'[w].before = b
      /\ \A x \in Writer : x # w => meant'[x] = meant[x]
  <2> HIDE DEF m
  <2>1. QED
    BY <1>2, <1>4, MeansNow
<1>10. id = s.total + 1 /\ alone2 = alone \cup {id} /\ h = [f EXCEPT !.alone = alone2]
  OBVIOUS
<1> HIDE DEF s, n, b, f, alone, past, lost, id, c, undo, u, h
<1>11. WriterInv(u, m, b, alone2, past, lost, Remotes!object)
  BY <1>1, <1>4, <1>6, <1>7, <1>8, <1>10, WriterAllocates
<1> HIDE DEF m, alone2
<1>12. IsFate(h) /\ alone2 = h.alone /\ past = h.past /\ lost = LostBy(h)
  BY <1>4, <1>10 DEF IsFate, LostBy, past, lost
<1>13. QED
  BY <1>2, <1>3, <1>5, <1>9, <1>11, <1>12, WriterSteps

LEMMA InvKeptByBegin ==
  ASSUME RemoteBounds, RemoteInv, NEW w \in Writer, Remotes!Begin(w)
  PROVE  RemoteInv'
<1> DEFINE s == pager[w]
           n == meant[w].now
           b == meant[w].before
           f == fate[w]
           alone == f.alone
           past  == f.past
           lost  == LostBy(f)
           u == [s EXCEPT !.begun = s.total]
<1>1. s # Absent /\ s.pushed = Absent /\ ~ Remotes!InTx(s)
  BY DEF Remotes!Begin, Remotes!Ready, Remotes!Idle
<1>2. puts' = puts /\ meant' = [meant EXCEPT ![w].before = n] /\ Remotes!Become(w, u)
      /\ fate' = fate /\ written' = written
  BY DEF Remotes!Begin
<1>3. /\ WriterInv(s, n, b, alone, past, lost, Remotes!object) /\ DOMAIN s = RemoteFields
      /\ Meanings(meant) /\ Fates(fate) /\ IsFate(f) /\ written' \in RemoteValues
  BY <1>1, <1>2, WriterIs
<1>4. Is(u, s.total, s.cache, s.frames, s.total, s.undo, s.dirty, s.pushed)
  <2> HIDE DEF s
  <2>1. QED
    BY <1>3 DEF Is, RemoteFields
<1>5. /\ Meanings(meant') /\ meant'[w].now = n /\ meant'[w].before = n
      /\ \A x \in Writer : x # w => meant'[x] = meant[x]
  BY <1>2, <1>3, MeansBefore
<1>6. Remotes!Fares(w, f)
  BY <1>2, <1>3 DEF Fates, Remotes!Fares
<1>7. alone = f.alone /\ past = f.past /\ lost = LostBy(f)
  OBVIOUS
<1> HIDE DEF s, n, b, f, alone, past, lost, u
<1>8. WriterInv(u, n, n, alone, past, lost, Remotes!object)
  BY <1>1, <1>3, <1>4, WriterBegins
<1>9. QED
  BY <1>2, <1>3, <1>5, <1>6, <1>7, <1>8, WriterSteps

\* A checkpoint moves the frames.
LEMMA CheckpointedIs ==
  ASSUME NEW s, DOMAIN s = RemoteFields, NEW u, u = Remotes!Checkpointed(s)
  PROVE  Moved(s, u)
<1> DEFINE c == [p \in DOMAIN s.cache \cup DOMAIN s.frames |->
                   IF p \in DOMAIN s.cache THEN s.cache[p] ELSE s.frames[p]]
<1>1. u = [s EXCEPT !.cache = c, !.frames = <<>>]
  BY DEF Remotes!Checkpointed
<1>2. /\ DOMAIN c = DOMAIN s.cache \cup DOMAIN s.frames
      /\ \A p \in DOMAIN c : c[p] = IF p \in DOMAIN s.cache THEN s.cache[p] ELSE s.frames[p]
  OBVIOUS
<1> HIDE DEF c
<1>3. /\ DOMAIN u = RemoteFields /\ u.total = s.total /\ u.cache = c /\ u.frames = <<>>
      /\ u.begun = s.begun /\ u.undo = s.undo /\ u.dirty = s.dirty /\ u.pushed = s.pushed
  BY <1>1 DEF RemoteFields
<1>4. DOMAIN u.frames = {}
  BY <1>3
<1>5. QED
  BY <1>2, <1>3, <1>4 DEF Moved, Is

LEMMA InvKeptByCheckpoint ==
  ASSUME RemoteBounds, RemoteInv, NEW w \in Writer, Remotes!Checkpoint(w)
  PROVE  RemoteInv'
<1> DEFINE s == pager[w]
           n == meant[w].now
           b == meant[w].before
           f == fate[w]
           alone == f.alone
           past  == f.past
           lost  == LostBy(f)
           u == Remotes!Checkpointed(s)
           alone2 == alone \cup DOMAIN s.frames
           h == [f EXCEPT !.alone = alone2]
<1>1. s # Absent /\ s.pushed = Absent
  BY DEF Remotes!Checkpoint, Remotes!Ready, Remotes!Idle
<1>2. puts' = puts /\ meant' = meant /\ Remotes!Become(w, u) /\ Remotes!Fares(w, h)
      /\ written' = written
  BY DEF Remotes!Checkpoint
<1>3. /\ WriterInv(s, n, b, alone, past, lost, Remotes!object) /\ DOMAIN s = RemoteFields
      /\ Meanings(meant) /\ IsFate(f) /\ written' \in RemoteValues
  BY <1>1, <1>2, WriterIs
<1>4. /\ Meanings(meant') /\ meant'[w].now = n /\ meant'[w].before = b
      /\ \A x \in Writer : x # w => meant'[x] = meant[x]
  BY <1>2, <1>3
<1>5. u = Remotes!Checkpointed(s) /\ alone2 = alone \cup DOMAIN s.frames
      /\ h = [f EXCEPT !.alone = alone2]
  OBVIOUS
<1> HIDE DEF s, n, b, f, alone, past, lost, u, h
<1>6. Moved(s, u)
  BY <1>3, <1>5, CheckpointedIs
<1>7. WriterInv(u, n, b, alone2, past, lost, Remotes!object)
  BY <1>1, <1>3, <1>6, WriterCheckpoints
<1> HIDE DEF alone2
<1>8. IsFate(h) /\ alone2 = h.alone /\ past = h.past /\ lost = LostBy(h)
  BY <1>3, <1>5 DEF IsFate, LostBy, past, lost
<1>9. QED
  BY <1>2, <1>3, <1>4, <1>7, <1>8, WriterSteps

LEMMA InvKeptByCommit ==
  ASSUME RemoteBounds, RemoteInv, NEW w \in Writer, Remotes!Commit(w)
  PROVE  RemoteInv'
<1> DEFINE s == pager[w]
           n == meant[w].now
           b == meant[w].before
           f == fate[w]
           alone == f.alone
           past  == f.past
           lost  == LostBy(f)
           empty == <<>>
           dirty == {p \in s.dirty \cup {1} : p <= s.total /\ p \in DOMAIN s.cache}
           frames == [p \in DOMAIN s.frames \cup dirty |->
                        IF p \in dirty THEN s.cache[p] ELSE s.frames[p]]
           t == [s EXCEPT !.frames = frames, !.begun = Absent, !.undo = <<>>, !.dirty = {}]
           Left(full) == IF full THEN Remotes!Checkpointed(t) ELSE t
           After(full) == [f EXCEPT !.past = {},
                             !.alone = IF full THEN @ \cup DOMAIN frames ELSE @ \ dirty]
<1>1. s # Absent /\ s.pushed = Absent /\ Remotes!InTx(s)
  BY DEF Remotes!Commit, Remotes!Ready, Remotes!Idle
<1>2. puts' = puts /\ meant' = [meant EXCEPT ![w].before = empty] /\ written' = written
  BY DEF Remotes!Commit
<1>3. PICK full \in BOOLEAN : \E u \in Remotes!Evictions(w, Left(full)) :
        Remotes!Become(w, u) /\ Remotes!Fares(w, Remotes!Evicted(After(full), Left(full), u))
  BY DEF Remotes!Commit
<1> DEFINE r == Left(full)
           g == After(full)
<1>4. PICK u \in Remotes!Evictions(w, r) :
        Remotes!Become(w, u) /\ Remotes!Fares(w, Remotes!Evicted(g, r, u))
  BY <1>3
<1>5. /\ WriterInv(s, n, b, alone, past, lost, Remotes!object) /\ DOMAIN s = RemoteFields
      /\ Meanings(meant) /\ IsFate(f) /\ written' \in RemoteValues
  BY <1>1, <1>2, WriterIs
<1>6. /\ Meanings(meant') /\ meant'[w].now = n /\ meant'[w].before = empty
      /\ \A x \in Writer : x # w => meant'[x] = meant[x]
  <2> HIDE DEF empty
  <2>1. QED
    BY <1>2, <1>5, MeansBefore
<1>7. Logged(s, dirty, t)
  <2>1. /\ DOMAIN frames = DOMAIN s.frames \cup dirty
        /\ \A p \in dirty : frames[p] = s.cache[p]
        /\ \A p \in DOMAIN s.frames \ dirty : frames[p] = s.frames[p]
        /\ \A p : p \in dirty <=> p \in s.dirty \cup {1} /\ p <= s.total /\ p \in DOMAIN s.cache
    OBVIOUS
  <2> HIDE DEF s, dirty, frames
  <2>2. /\ DOMAIN t = RemoteFields /\ t.total = s.total /\ t.cache = s.cache /\ t.frames = frames
        /\ t.begun = Absent /\ t.undo = <<>> /\ t.dirty = {} /\ t.pushed = s.pushed
    BY <1>5 DEF RemoteFields
  <2>3. DOMAIN t.undo = {}
    BY <2>2
  <2>4. QED
    BY <2>1, <2>2, <2>3 DEF Logged, Is
<1>8. DOMAIN t = RemoteFields /\ t.frames = frames
  <2> HIDE DEF s, dirty, frames
  <2>1. QED
    BY <1>5 DEF RemoteFields
<1>9. g = [f EXCEPT !.past = {},
             !.alone = IF full THEN alone \cup DOMAIN frames ELSE alone \ dirty]
      /\ r = (IF full THEN Remotes!Checkpointed(t) ELSE t)
  OBVIOUS
<1> HIDE DEF s, n, b, f, alone, past, lost, empty, dirty, frames, t, Left, After, r, g
<1>10. /\ WriterInv(t, n, empty, alone \ dirty, {}, lost, Remotes!object) /\ t.pushed = Absent
       /\ dirty \subseteq DOMAIN frames
  BY <1>1, <1>5, <1>7, <1>8, WriterCommits
<1> DEFINE alone2 == IF full THEN alone \cup DOMAIN frames ELSE alone \ dirty
<1>11. WriterInv(r, n, empty, alone2, {}, lost, Remotes!object)
  <2>1. CASE full
    <3> DEFINE left == alone \ dirty
    <3>1. WriterInv(t, n, empty, left, {}, lost, Remotes!object) /\ Moved(t, r)
      BY <2>1, <1>8, <1>9, <1>10, CheckpointedIs
    <3>2. alone2 = left \cup DOMAIN t.frames
      BY <2>1, <1>8, <1>10
    <3> HIDE DEF left, alone2
    <3>3. WriterInv(r, n, empty, left \cup DOMAIN t.frames, {}, lost, Remotes!object)
      BY <3>1, <1>10, WriterCheckpoints
    <3>4. QED
      BY <3>2, <3>3
  <2>2. CASE ~ full
    <3>1. r = t /\ alone2 = alone \ dirty
      BY <2>2, <1>9
    <3> HIDE DEF alone2
    <3>2. QED
      BY <3>1, <1>10
  <2>3. QED
    BY <2>1, <2>2
<1>12. g = [f EXCEPT !.past = {}, !.alone = alone2]
  BY <1>9
<1> HIDE DEF alone2
<1>13. IsFate(g) /\ g.alone = alone2 /\ g.past = {} /\ LostBy(g) = lost
  BY <1>5, <1>12 DEF IsFate, LostBy, lost
<1> DEFINE out == DOMAIN r.cache \ DOMAIN u.cache
           h == Remotes!Evicted(g, r, u)
<1>14. DOMAIN r = RemoteFields
  BY <1>11 DEF WriterInv, Formed, Shape
<1>15. Smaller(r, u, out)
  BY <1>4, <1>14, EvictionsAre
<1>16. h = Remotes!LetGo(g, out)
  BY DEF Remotes!Evicted
<1>17. Remotes!Become(w, u) /\ Remotes!Fares(w, h)
  BY <1>4
<1> HIDE DEF out, h
<1>18. WriterInv(u, n, empty, alone2 \ out, {}, lost \cup (alone2 \cap out), Remotes!object)
  BY <1>11, <1>15, WriterEvicts
<1>19. IsFate(h) /\ h.alone = alone2 \ out /\ h.past = {} /\ LostBy(h) = lost \cup (alone2 \cap out)
  BY <1>13, <1>16, FateLetsGo
<1>20. WriterInv(u, n, empty, h.alone, h.past, LostBy(h), Remotes!object)
  BY <1>18, <1>19
<1>21. QED
  BY <1>2, <1>5, <1>6, <1>17, <1>19, <1>20, WriterSteps

LEMMA InvKeptByRollback ==
  ASSUME RemoteBounds, RemoteInv, NEW w \in Writer, Remotes!Rollback(w)
  PROVE  RemoteInv'
<1> DEFINE s == pager[w]
           n == meant[w].now
           b == meant[w].before
           f == fate[w]
           alone == f.alone
           past  == f.past
           lost  == LostBy(f)
           empty == <<>>
           restored == {p \in DOMAIN s.undo : s.undo[p] # Absent}
           left == (DOMAIN s.cache \ DOMAIN s.undo) \cup restored
           c == [p \in left |-> IF p \in restored THEN s.undo[p] ELSE s.cache[p]]
           u == [s EXCEPT !.cache = c, !.total = s.begun, !.begun = Absent,
                          !.undo = <<>>, !.dirty = {}]
           alone2 == alone \cap 1 .. s.begun
           kept2  == f.kept \cup past
           h == [f EXCEPT !.alone = alone2, !.past = {}, !.kept = kept2]
<1>1. s # Absent /\ s.pushed = Absent /\ Remotes!InTx(s)
  BY DEF Remotes!Rollback, Remotes!Ready, Remotes!Idle
<1>2. puts' = puts /\ meant' = [meant EXCEPT ![w] = [now |-> b, before |-> empty]]
      /\ written' = written
  BY DEF Remotes!Rollback
<1>3. Remotes!Become(w, u) /\ Remotes!Fares(w, h)
  BY DEF Remotes!Rollback
<1>4. /\ WriterInv(s, n, b, alone, past, lost, Remotes!object) /\ DOMAIN s = RemoteFields
      /\ Meanings(meant) /\ IsFate(f) /\ written' \in RemoteValues
  BY <1>1, <1>2, WriterIs
<1>5. Restored(s, restored, u)
  <2>1. /\ \A p : p \in restored <=> p \in DOMAIN s.undo /\ s.undo[p] # Absent
        /\ DOMAIN c = (DOMAIN s.cache \ DOMAIN s.undo) \cup restored
        /\ \A p \in DOMAIN c : c[p] = IF p \in restored THEN s.undo[p] ELSE s.cache[p]
    OBVIOUS
  <2> HIDE DEF s, restored, c
  <2>2. /\ DOMAIN u = RemoteFields /\ u.total = s.begun /\ u.cache = c /\ u.frames = s.frames
        /\ u.begun = Absent /\ u.undo = <<>> /\ u.dirty = {} /\ u.pushed = s.pushed
    BY <1>4 DEF RemoteFields
  <2>3. DOMAIN u.undo = {}
    BY <2>2
  <2>4. QED
    BY <2>1, <2>2, <2>3 DEF Restored, Is
<1>6. /\ Meanings(meant') /\ meant'[w].now = b /\ meant'[w].before = empty
      /\ \A x \in Writer : x # w => meant'[x] = meant[x]
  <2> HIDE DEF b, empty
  <2>1. QED
    BY <1>2, <1>4, MeansAll
<1>7. alone2 = alone \cap 1 .. s.begun /\ kept2 = f.kept \cup past
      /\ h = [f EXCEPT !.alone = alone2, !.past = {}, !.kept = kept2]
  OBVIOUS
<1> HIDE DEF s, n, b, f, alone, past, lost, empty, restored, left, c, u, alone2, kept2, h
<1>8. WriterInv(u, b, empty, alone2, {}, lost \cup past, Remotes!object)
  BY <1>1, <1>4, <1>5, <1>7, WriterRollsBack
<1>9. IsFate(h) /\ h.alone = alone2 /\ h.past = {} /\ h.evicted = f.evicted /\ h.kept = kept2
      /\ h.replaced = f.replaced
  BY <1>4, <1>7 DEF IsFate
<1>10. LostBy(h) = lost \cup past
  BY <1>7, <1>9 DEF LostBy, lost
<1>11. WriterInv(u, b, empty, h.alone, h.past, LostBy(h), Remotes!object)
  BY <1>8, <1>9, <1>10
<1>12. QED
  BY <1>2, <1>3, <1>4, <1>6, <1>9, <1>11, WriterSteps

\* The steps of a push that leave the object as it is.
LEMMA InvKeptByPushing ==
  ASSUME RemoteBounds, RemoteInv, NEW w \in Writer,
         Remotes!PushStart(w) \/ Remotes!PushRead(w) \/ Remotes!PushFails(w)
  PROVE  RemoteInv'
<1> DEFINE g == pager[w]
           n == meant[w].now
           b == meant[w].before
           f == fate[w]
           obj   == Remotes!object
           Pushes(s, pushed) == [s EXCEPT !.pushed = pushed]
<1>1. g # Absent /\ puts' = puts /\ meant' = meant /\ written' = written
  BY DEF Remotes!PushStart, Remotes!PushRead, Remotes!PushFails, Remotes!Ready, Remotes!Idle
<1>2. /\ WriterInv(g, n, b, f.alone, f.past, LostBy(f), obj) /\ DOMAIN g = RemoteFields
      /\ g.total \in Nat /\ Meanings(meant) /\ Fates(fate) /\ IsFate(f)
  BY <1>1, WriterIs
<1>3. /\ written' \in RemoteValues /\ Meanings(meant')
      /\ meant'[w].now = n /\ meant'[w].before = b
      /\ \A v \in Writer : v # w => meant'[v] = meant[v]
  BY <1>1, <1>2 DEF RemoteInv
<1>4. ASSUME NEW s, DOMAIN s = RemoteFields, NEW pushed, Remotes!Become(w, Pushes(s, pushed)),
             NEW h, IsFate(h), Remotes!Fares(w, h),
             WriterInv(s, n, b, h.alone, h.past, LostBy(h), obj),
             NEW v,
             \/ pushed = Absent
             \/ pushed = <<>>
             \/ /\ s.pushed # Absent /\ Len(s.pushed) + 1 <= s.total
                /\ v \in RemoteValues /\ pushed = Append(s.pushed, v)
                /\ Len(s.pushed) + 1 \in LostBy(h) \/ v = n[Len(s.pushed) + 1]
      PROVE  RemoteInv'
  <2> DEFINE u == Pushes(s, pushed)
             alone == h.alone
             past  == h.past
             lost  == LostBy(h)
  <2>1. Is(u, s.total, s.cache, s.frames, s.begun, s.undo, s.dirty, pushed)
    BY <1>4 DEF Is, RemoteFields
  <2>2. Remotes!Become(w, u) /\ WriterInv(s, n, b, alone, past, lost, obj)
        /\ alone = h.alone /\ past = h.past /\ lost = LostBy(h)
    BY <1>4
  <2>3. \/ pushed = Absent
        \/ pushed = <<>>
        \/ /\ s.pushed # Absent /\ Len(s.pushed) + 1 <= s.total
           /\ v \in RemoteValues /\ pushed = Append(s.pushed, v)
           /\ Len(s.pushed) + 1 \in lost \/ v = n[Len(s.pushed) + 1]
    BY <1>4
  <2> HIDE DEF g, n, b, f, obj, u, alone, past, lost
  <2>4. WriterInv(u, n, b, alone, past, lost, obj)
    BY <2>1, <2>2, <2>3, WriterPushes
  <2>5. WriterInv(u, n, b, alone, past, lost, Remotes!object)
    BY <2>4 DEF obj
  <2>6. QED
    BY <2>2, <2>5, <1>1, <1>3, <1>4, WriterSteps
<1>5. fate' = fate => Remotes!Fares(w, f)
  BY <1>2 DEF Fates, Remotes!Fares
<1>6. CASE Remotes!PushStart(w)
  <2>1. Remotes!Become(w, Pushes(g, <<>>)) /\ fate' = fate
    BY <1>6 DEF Remotes!PushStart
  <2> HIDE DEF g, n, b, f, obj, Pushes
  <2>2. QED
    BY <2>1, <1>2, <1>4, <1>5
<1>7. CASE Remotes!PushFails(w)
  <2>1. Remotes!Become(w, Pushes(g, Absent)) /\ fate' = fate
    BY <1>7 DEF Remotes!PushFails
  <2> HIDE DEF g, n, b, f, obj, Pushes
  <2>2. QED
    BY <2>1, <1>2, <1>4, <1>5
<1>8. CASE Remotes!PushRead(w)
  <2> DEFINE p == Len(g.pushed) + 1
             v == Remotes!Content(g, p)
  <2>1. g.pushed # Absent /\ p <= g.total /\ Remotes!Holds(g, p)
    BY <1>8 DEF Remotes!PushRead
  <2>2. PICK s \in Remotes!Reads(w, g, p) :
          /\ Remotes!Become(w, [s EXCEPT !.pushed = Append(s.pushed, v)])
          /\ Remotes!Fares(w, Remotes!Evicted(f, g, s))
    BY <1>8, Zenon DEF Remotes!PushRead
  <2> DEFINE h == Remotes!Evicted(f, g, s)
  <2>3. p \in 1 .. g.total
    <3>1. Gathered(g, n, LostBy(f))
      BY <2>1, <1>2 DEF WriterInv
    <3>2. Len(g.pushed) \in Nat
      BY <3>1, LenProperties DEF Gathered, RemotePages
    <3>3. QED
      BY <3>2, <2>1, <1>2
  <2>4. /\ IsFate(h) /\ WriterInv(s, n, b, h.alone, h.past, LostBy(h), obj)
        /\ Is(s, g.total, s.cache, g.frames, g.begun, g.undo, g.dirty, g.pushed)
        /\ v \in RemoteValues /\ (p \in LostBy(h) \/ v = n[p])
    BY <1>1, <2>1, <2>3, PageIsRead
  <2>5. s.pushed = g.pushed /\ s.total = g.total /\ DOMAIN s = RemoteFields
    BY <2>4 DEF Is
  <2>6. /\ Remotes!Become(w, Pushes(s, Append(s.pushed, v))) /\ Remotes!Fares(w, h)
        /\ p = Len(s.pushed) + 1 /\ s.pushed # Absent /\ Len(s.pushed) + 1 <= s.total
        /\ (Len(s.pushed) + 1 \in LostBy(h) \/ v = n[Len(s.pushed) + 1])
    BY <2>1, <2>2, <2>4, <2>5
  <2> HIDE DEF g, n, b, f, obj, Pushes, p, v, h
  <2>7. QED
    BY <2>4, <2>5, <2>6, <1>4
<1>9. QED
  BY <1>6, <1>7, <1>8

\* What a push makes of the fates.
LEMMA StoredOwn ==
  ASSUME NEW w \in Writer, IsFate(fate[w]), NEW h, h = Remotes!Stored(w, w),
         NEW s, s = pager[w],
         NEW alone, AloneStored(alone, s, fate[w].alone)
  PROVE  IsFate(h) /\ h.alone = alone /\ h.past = fate[w].past /\ LostBy(h) = LostBy(fate[w])
<1> DEFINE f == fate[w]
<1>1. h = [f EXCEPT !.alone = alone]
  BY Zenon DEF Remotes!Stored, AloneStored
<1>2. IsFate(f)
  OBVIOUS
<1> HIDE DEF f
<1>3. IsFate(h) /\ h.alone = alone /\ h.past = f.past /\ LostBy(h) = LostBy(f)
  BY <1>1, <1>2 DEF IsFate, LostBy
<1>4. QED
  BY <1>3 DEF f

LEMMA StoredOther ==
  ASSUME NEW w \in Writer, NEW v \in Writer, v # w, pager[v] # Absent,
         IsFate(fate[v]), NEW h, h = Remotes!Stored(w, v),
         NEW more, more = (1 .. pager[v].total) \ (fate[v].alone \cup DOMAIN pager[v].frames)
  PROVE  IsFate(h) /\ h.alone = fate[v].alone /\ h.past = fate[v].past
         /\ LostBy(h) = LostBy(fate[v]) \cup more
<1> DEFINE f == fate[v]
           replaced == f.replaced \cup more
<1>1. h = [f EXCEPT !.replaced = replaced]
  BY DEF Remotes!Stored
<1>2. IsFate(f) /\ replaced = f.replaced \cup more
  OBVIOUS
<1> HIDE DEF f, replaced
<1>3. IsFate(h) /\ h.alone = f.alone /\ h.past = f.past /\ h.evicted = f.evicted
      /\ h.kept = f.kept /\ h.replaced = replaced
  BY <1>1, <1>2 DEF IsFate
<1>4. LostBy(h) = LostBy(f) \cup more
  BY <1>2, <1>3 DEF LostBy
<1>5. QED
  BY <1>3, <1>4 DEF f

\* The put stores what the statements of the writer left, except what it has lost.
LEMMA PutStores ==
  ASSUME RemoteBounds, RemoteInv, NEW w \in Writer, Remotes!PushPut(w)
  PROVE  /\ RemoteInv'
         /\ pager[w] # Absent /\ pager[w].pushed # Absent /\ pager'[w].pushed = Absent
         /\ Len(Remotes!object') = Len(meant[w].now)
         /\ \A p \in DOMAIN meant[w].now :
              p \in Remotes!Lost(w) \/ Remotes!object'[p] = meant[w].now[p]
<1> DEFINE s == pager[w]
           n == meant[w].now
           b == meant[w].before
           f == fate[w]
           alone == f.alone
           past  == f.past
           lost  == LostBy(f)
           obj   == Remotes!object
           u == [s EXCEPT !.pushed = Absent]
           h == Remotes!Stored(w, w)
           alone2 == IF Remotes!InTx(s) THEN alone \cup (s.dirty \ DOMAIN s.frames)
                     ELSE alone \cap DOMAIN s.frames
           o == s.pushed
<1>1. s # Absent /\ s.pushed # Absent /\ Len(s.pushed) = s.total
  BY DEF Remotes!PushPut
<1>2. meant' = meant /\ written' = written /\ puts' = Append(puts, o) /\ Remotes!Become(w, u)
  BY DEF Remotes!PushPut
<1>3. fate' = [v \in Writer |-> Remotes!Stored(w, v)]
  BY DEF Remotes!PushPut
<1>4. /\ WriterInv(s, n, b, alone, past, lost, obj) /\ DOMAIN s = RemoteFields
      /\ Meanings(meant) /\ Fates(fate) /\ IsFate(f) /\ written \in RemoteValues
  BY <1>1, WriterIs
<1>5. Is(u, s.total, s.cache, s.frames, s.begun, s.undo, s.dirty, Absent)
  <2> HIDE DEF s
  <2>1. QED
    BY <1>4 DEF Is, RemoteFields
<1>6. /\ WriterInv(u, n, b, alone2, past, lost, o)
      /\ o \in RemotePages /\ Len(o) = Len(n) /\ Len(o) <= MaxRemotePages
      /\ \A p \in DOMAIN n : p \in lost \/ o[p] = n[p]
  <2>1. AloneStored(alone2, s, alone)
    BY DEF AloneStored
  <2> HIDE DEF s, n, b, f, alone, past, lost, obj, u, alone2
  <2>2. WriterInv(u, n, b, alone2, past, lost, s.pushed) /\ IsMeant(s.pushed, n, lost)
    BY <1>1, <1>4, <1>5, <2>1, WriterStores
  <2>3. QED
    BY <2>2 DEF IsMeant
<1>7. puts \in Seq(RemotePages)
  BY DEF RemoteInv
<1>8. puts' \in Seq(RemotePages) /\ Len(puts') > 0 /\ Remotes!object' = o
  <2>1. o \in RemotePages /\ puts' = Append(puts, o)
    BY <1>2, <1>6
  <2> HIDE DEF o
  <2>2. Append(puts, o) \in Seq(RemotePages) /\ Len(Append(puts, o)) = Len(puts) + 1
        /\ Append(puts, o)[Len(puts) + 1] = o /\ Len(puts) \in Nat
    BY <1>7, <2>1, AppendProperties, LenProperties
  <2>3. puts' \in Seq(RemotePages) /\ Len(puts') > 0 /\ puts'[Len(puts')] = o
    BY <2>1, <2>2
  <2>4. QED
    BY <2>3 DEF Remotes!object, Remotes!Last
<1>9. pager' = [d \in Remotes!Client |-> IF d = w THEN u ELSE pager[d]]
  BY <1>2 DEF RemoteInv, Remotes!Become
<1>10. Writer \subseteq Remotes!Client /\ Reader \subseteq Remotes!Client /\ w \notin Reader
  BY DEF Remotes!Client, RemoteBounds
<1>11. IsFate(h) /\ h.alone = alone2 /\ h.past = past /\ LostBy(h) = lost
  <2>1. h = Remotes!Stored(w, w) /\ s = pager[w]
        /\ AloneStored(alone2, s, fate[w].alone)
    BY DEF AloneStored
  <2> HIDE DEF h, s, alone2
  <2>2. QED
    BY <1>4, <2>1, StoredOwn
<1>12. ASSUME NEW v \in Writer, v # w
       PROVE  /\ IsFate(fate'[v])
              /\ pager[v] # Absent => OfWriter(pager[v], meant[v], fate'[v], o)
  <2> DEFINE g == pager[v]
             more == (1 .. g.total) \ (fate[v].alone \cup DOMAIN g.frames)
             k == Remotes!Stored(w, v)
  <2>1. fate'[v] = k /\ IsFate(fate[v])
    BY <1>3, <1>4 DEF Fates
  <2>2. CASE g = Absent
    <3>1. k = fate[v]
      BY <2>2, <1>12 DEF Remotes!Stored
    <3>2. QED
      BY <3>1, <2>1, <2>2
  <2>3. CASE g # Absent
    <3>1. k = Remotes!Stored(w, v) /\ more = (1 .. g.total) \ (fate[v].alone \cup DOMAIN g.frames)
      OBVIOUS
    <3>2. WriterInv(g, meant[v].now, meant[v].before, fate[v].alone, fate[v].past,
                    LostBy(fate[v]), obj)
      BY <2>3, WriterIs
    <3> DEFINE m == meant[v].now
               c == meant[v].before
               a == fate[v].alone
               p == fate[v].past
               l == LostBy(fate[v])
    <3>3. WriterInv(g, m, c, a, p, l, obj) /\ more = (1 .. g.total) \ (a \cup DOMAIN g.frames)
      BY <3>1, <3>2
    <3> HIDE DEF k, more, o, obj
    <3>4. IsFate(k) /\ k.alone = a /\ k.past = p /\ LostBy(k) = l \cup more
      BY <1>12, <2>1, <2>3, <3>1, StoredOther
    <3> HIDE DEF g, m, c, a, p, l
    <3>5. WriterInv(g, m, c, a, p, l \cup ((1 .. g.total) \ (a \cup DOMAIN g.frames)), o)
      BY <3>3, OtherStores
    <3>6. WriterInv(g, m, c, k.alone, k.past, LostBy(k), o)
      BY <3>3, <3>4, <3>5
    <3>7. OfWriter(g, meant[v], k, o)
      BY <3>6 DEF OfWriter, m, c
    <3>8. QED
      BY <2>1, <3>4, <3>7 DEF g
  <2>4. QED
    BY <2>2, <2>3
<1>13. fate'[w] = h /\ Fates(fate')
  <2>1. fate'[w] = h /\ fate' = [v \in Writer |-> fate'[v]]
    BY <1>3
  <2>2. \A v \in Writer : IsFate(fate'[v])
    BY <2>1, <1>11, <1>12
  <2>3. QED
    BY <2>1, <2>2 DEF Fates
<1>14. OfWriter(u, meant'[w], fate'[w], o)
  <2> HIDE DEF u, o, h, alone2
  <2>1. WriterInv(u, n, b, h.alone, h.past, LostBy(h), o)
    BY <1>6, <1>11
  <2>2. meant'[w] = meant[w]
    BY <1>2
  <2>3. QED
    BY <2>1, <2>2, <1>13 DEF OfWriter
<1>15. ASSUME NEW v \in Writer, pager'[v] # Absent
       PROVE  OfWriter(pager'[v], meant'[v], fate'[v], Remotes!object')
  <2> HIDE DEF u, o
  <2>1. CASE v = w
    BY <2>1, <1>8, <1>9, <1>10, <1>14
  <2>2. CASE v # w
    BY <2>2, <1>2, <1>8, <1>9, <1>10, <1>12, <1>15
  <2>3. QED
    BY <2>1, <2>2
<1>16. \A r \in Reader : pager'[r] # Absent => ReaderInv(pager'[r])
  BY <1>9, <1>10 DEF RemoteInv
<1>17. pager' = [d \in Remotes!Client |-> pager'[d]] /\ pager'[w] = u
  BY <1>9, <1>10
<1>18. RemoteInv'
  <2> HIDE DEF u, o
  <2>1. Len(Remotes!object') <= MaxRemotePages /\ Meanings(meant') /\ written' \in RemoteValues
    BY <1>2, <1>4, <1>6, <1>8
  <2>2. QED
    BY <2>1, <1>8, <1>13, <1>15, <1>16, <1>17 DEF RemoteInv
<1>19. lost = Remotes!Lost(w)
  BY DEF Remotes!Lost, LostBy
<1>20. pager'[w].pushed = Absent
  BY <1>5, <1>17 DEF Is
<1>21. QED
  <2> HIDE DEF u, o, lost
  <2>1. Len(Remotes!object') = Len(n) /\ \A p \in DOMAIN n : p \in lost \/ Remotes!object'[p] = n[p]
    BY <1>6, <1>8
  <2>2. QED
    BY <2>1, <1>1, <1>18, <1>19, <1>20

LEMMA InvKeptByClose ==
  ASSUME RemoteBounds, RemoteInv, NEW c \in Remotes!Client, Remotes!Close(c)
  PROVE  RemoteInv'
<1> DEFINE empty == <<>>
           h == Remotes!Untouched({})
<1>1. Remotes!Become(c, Absent) /\ puts' = puts /\ written' = written
  BY DEF Remotes!Close, Remotes!Become
<1>2. Meanings(meant) /\ Fates(fate) /\ written' \in RemoteValues
  BY <1>1 DEF RemoteInv
<1>3. CASE c \in Writer
  <2>1. meant' = [meant EXCEPT ![c] = [now |-> empty, before |-> empty]] /\ Remotes!Fares(c, h)
    BY <1>3 DEF Remotes!Close, Remotes!NoPages
  <2>2. IsFate(h)
    BY UntouchedIs
  <2> HIDE DEF empty, h
  <2>3. Meanings(meant') /\ \A v \in Writer : v # c => meant'[v] = meant[v]
    BY <2>1, <1>2, <1>3, MeansAll
  <2>4. Fates(fate') /\ \A v \in Writer : v # c => fate'[v] = fate[v]
    BY <2>1, <2>2, <1>2, <1>3, FaresTo
  <2>5. QED
    BY <1>1, <1>2, <2>3, <2>4, ClientSteps
<1>4. CASE c \notin Writer
  <2>1. meant' = meant /\ fate' = fate
    BY <1>4 DEF Remotes!Close
  <2>2. Meanings(meant') /\ Fates(fate')
        /\ \A v \in Writer : meant'[v] = meant[v] /\ fate'[v] = fate[v]
    BY <2>1, <1>2
  <2>3. QED
    BY <1>1, <1>2, <1>4, <2>2, ClientSteps
<1>5. QED
  BY <1>3, <1>4

LEMMA RemoteInit ==
  ASSUME RemoteBounds, Remotes!Init
  PROVE  RemoteInv
<1>1. puts = << <<>> >> \/ puts = << <<0, 0>> >>
  BY DEF Remotes!Init
<1>2. <<>> \in RemotePages /\ <<0, 0>> \in RemotePages
  <2>1. 0 \in RemoteValues
    BY DEF RemoteBounds, RemoteValues
  <2>2. QED
    BY <2>1 DEF RemotePages
<1>3. /\ puts \in Seq(RemotePages) /\ Len(puts) = 1
      /\ (puts[1] = <<>> \/ puts[1] = <<0, 0>>)
  <2>1. CASE puts = << <<>> >>
    <3> DEFINE o == <<>>
    <3>1. o \in RemotePages /\ puts = <<o>>
      BY <2>1, <1>2
    <3> HIDE DEF o
    <3>2. puts \in Seq(RemotePages) /\ Len(puts) = 1 /\ puts[1] = o
      BY <3>1
    <3>3. QED
      BY <3>2 DEF o
  <2>2. CASE puts = << <<0, 0>> >>
    <3> DEFINE o == <<0, 0>>
    <3>1. o \in RemotePages /\ puts = <<o>>
      BY <2>2, <1>2
    <3> HIDE DEF o
    <3>2. puts \in Seq(RemotePages) /\ Len(puts) = 1 /\ puts[1] = o
      BY <3>1
    <3>3. QED
      BY <3>2 DEF o
  <2>3. QED
    BY <1>1, <2>1, <2>2
<1>4. Len(Remotes!object) <= MaxRemotePages
  <2>1. Remotes!object = puts[1]
    <3>1. Remotes!object = puts[Len(puts)]
      BY DEF Remotes!object, Remotes!Last
    <3>2. Len(puts) = 1
      BY <1>3
    <3>3. QED
      BY <3>1, <3>2
  <2>2. Remotes!object = <<>> \/ Remotes!object = <<0, 0>>
    BY <2>1, <1>3
  <2>3. Len(<<>>) = 0 /\ Len(<<0, 0>>) = 2 /\ MaxRemotePages \in Nat /\ MaxRemotePages >= 2
    BY DEF RemoteBounds
  <2>4. CASE Remotes!object = <<>>
    BY <2>3, <2>4
  <2>5. CASE Remotes!object = <<0, 0>>
    BY <2>3, <2>5
  <2>6. QED
    BY <2>2, <2>4, <2>5
<1>5. pager = [c \in Remotes!Client |-> Absent] /\ written = 0
      /\ meant = [w \in Writer |-> [now |-> <<>>, before |-> <<>>]]
      /\ fate = [w \in Writer |-> Remotes!Untouched({})]
  BY DEF Remotes!Init, Remotes!NoPages
<1>6. pager = [c \in Remotes!Client |-> pager[c]] /\ \A c \in Remotes!Client : pager[c] = Absent
  BY <1>5
<1>7. Meanings(meant)
  BY <1>5 DEF Meanings
<1>8. Fates(fate)
  <2> DEFINE h == Remotes!Untouched({})
  <2>1. IsFate(h) /\ fate = [w \in Writer |-> h]
    BY <1>5, UntouchedIs
  <2> HIDE DEF h
  <2>2. QED
    BY <2>1 DEF Fates
<1>9. Writer \subseteq Remotes!Client /\ Reader \subseteq Remotes!Client
  BY DEF Remotes!Client
<1>10. written \in RemoteValues
  BY <1>5 DEF RemoteBounds, RemoteValues
<1>11. QED
  BY <1>3, <1>4, <1>6, <1>7, <1>8, <1>9, <1>10 DEF RemoteInv

\* The calls of the clients, and what they do to the object.
LEMMA RemoteNext ==
  ASSUME RemoteBounds, RemoteInv, Remotes!Next
  PROVE  RemoteInv' /\ Remotes!PutIsOwn
<1>1. CASE \E c \in Remotes!Client :
             Remotes!Open(c) \/ Remotes!Close(c)
             \/ \E p \in 1 .. MaxRemotePages : Remotes!Read(c, p)
  <2>1. RemoteInv'
    BY <1>1, InvKeptByOpen, InvKeptByClose, InvKeptByRead
  <2>2. puts' = puts
    BY <1>1 DEF Remotes!Open, Remotes!Close, Remotes!Read
  <2>3. QED
    BY <2>1, <2>2 DEF Remotes!PutIsOwn
<1>2. CASE \E w \in Writer :
             \/ Remotes!Allocate(w) \/ Remotes!Begin(w) \/ Remotes!Checkpoint(w)
             \/ Remotes!Commit(w) \/ Remotes!Rollback(w)
             \/ \E p \in 1 .. MaxRemotePages : Remotes!Write(w, p) \/ Remotes!Modify(w, p)
  <2>1. RemoteInv'
    BY <1>2, InvKeptByAllocate, InvKeptByBegin, InvKeptByCheckpoint, InvKeptByCommit,
       InvKeptByRollback, InvKeptByWrite, InvKeptByModify
  <2>2. puts' = puts
    <3>1. CASE \E w \in Writer :
                 Remotes!Allocate(w) \/ Remotes!Begin(w) \/ Remotes!Checkpoint(w)
      BY <3>1 DEF Remotes!Allocate, Remotes!Begin, Remotes!Checkpoint
    <3>2. ASSUME NEW w \in Writer, Remotes!Commit(w) PROVE puts' = puts
      BY Zenon, <3>2 DEF Remotes!Commit
    <3>3. ASSUME NEW w \in Writer, Remotes!Rollback(w) PROVE puts' = puts
      BY Zenon, <3>3 DEF Remotes!Rollback
    <3>4. ASSUME NEW w \in Writer, NEW p \in 1 .. MaxRemotePages, Remotes!Write(w, p)
          PROVE  puts' = puts
      BY Zenon, <3>4 DEF Remotes!Write
    <3>5. ASSUME NEW w \in Writer, NEW p \in 1 .. MaxRemotePages, Remotes!Modify(w, p)
          PROVE  puts' = puts
      BY Zenon, <3>5 DEF Remotes!Modify
    <3>6. QED
      BY <1>2, <3>1, <3>2, <3>3, <3>4, <3>5
  <2>3. QED
    BY <2>1, <2>2 DEF Remotes!PutIsOwn
<1>3. CASE \E w \in Writer :
             Remotes!PushStart(w) \/ Remotes!PushRead(w) \/ Remotes!PushFails(w)
  <2>1. RemoteInv'
    BY <1>3, InvKeptByPushing
  <2>2. puts' = puts
    BY <1>3 DEF Remotes!PushStart, Remotes!PushRead, Remotes!PushFails
  <2>3. QED
    BY <2>1, <2>2 DEF Remotes!PutIsOwn
<1>4. CASE \E w \in Writer : Remotes!PushPut(w)
  <2>1. PICK w \in Writer : Remotes!PushPut(w)
    BY <1>4
  <2>2. Remotes!object' = Remotes!Last(puts')
    BY DEF Remotes!object
  <2>3. /\ RemoteInv'
        /\ pager[w] # Absent /\ pager[w].pushed # Absent /\ pager'[w].pushed = Absent
        /\ Len(Remotes!Last(puts')) = Len(meant[w].now)
        /\ \A p \in DOMAIN meant[w].now :
             p \in Remotes!Lost(w) \/ Remotes!Last(puts')[p] = meant[w].now[p]
    BY <2>1, <2>2, PutStores
  <2>4. QED
    BY <2>3 DEF Remotes!PutIsOwn
<1>5. QED
  BY <1>1, <1>2, <1>3, <1>4 DEF Remotes!Next

-----------------------------------------------------------------------------
(* The theorems about remote databases.                                    *)

LEMMA RemoteSteps ==
  ASSUME RemoteBounds, part = "remotes" => RemoteInv,
         [PartsNext]_<<part, feedVars, replicaVars, vars, deviceVars, remoteVars>>
  PROVE  (part' = "remotes" => RemoteInv') /\ Remotes!PutIsOwn
<1>1. part' = part
  BY DEF PartsNext
<1>2. CASE UNCHANGED remoteVars
  <2>1. puts' = puts
    BY <1>2 DEF remoteVars
  <2>2. RemoteInv => RemoteInv'
    BY <1>2 DEF remoteVars, RemoteInv, Remotes!object
  <2>3. QED
    BY <1>1, <2>1, <2>2 DEF Remotes!PutIsOwn
<1>3. CASE part = "remotes" /\ Remotes!Next
  BY <1>3, RemoteNext
<1>4. QED
  BY <1>2, <1>3 DEF PartsNext

LEMMA RemoteSees ==
  ASSUME RemoteBounds, part = "remotes" => RemoteInv
  PROVE  SeesOwnWrites
<1> SUFFICES ASSUME RemoteInv PROVE Remotes!SeesOwnWrites
  BY DEF SeesOwnWrites
<1>1. ASSUME NEW c \in Remotes!Client, pager[c] # Absent
      PROVE  /\ pager[c].total \in 1 .. MaxRemotePages
             /\ DOMAIN pager[c].cache \cup DOMAIN pager[c].frames \cup pager[c].dirty
                  \subseteq 1 .. MaxRemotePages
  <2> DEFINE s == pager[c]
  <2>1. Shape(s) /\ DOMAIN s.frames \subseteq 1 .. s.total /\ s.dirty \subseteq 1 .. s.total
    <3>1. CASE c \in Writer
      <4>1. Formed(s, meant[c].now, meant[c].before, fate[c].alone, fate[c].past)
        BY <1>1, <3>1, WriterIs DEF WriterInv
      <4> HIDE DEF s
      <4>2. Shape(s) /\ DOMAIN s.frames \subseteq 1 .. s.total
        BY <4>1 DEF Formed
      <4>3. s.dirty \subseteq DOMAIN s.cache
        BY <4>1 DEF Formed, Changing
      <4>4. QED
        BY <4>2, <4>3 DEF Shape
    <3>2. CASE c \in Reader
      BY <1>1, <3>2 DEF RemoteInv, ReaderInv
    <3>3. QED
      BY <3>1, <3>2 DEF Remotes!Client
  <2>2. s.total \in 1 .. MaxRemotePages /\ 1 .. s.total \subseteq 1 .. MaxRemotePages
    BY <2>1 DEF Shape, RemoteBounds
  <2>3. QED
    BY <2>1, <2>2 DEF Shape
<1>2. Remotes!TypeOK
  BY <1>1 DEF Remotes!TypeOK, RemoteInv, RemotePages, RemoteValues
<1>3. ASSUME NEW w \in Writer, pager[w] # Absent
      PROVE  /\ pager[w].total = Len(meant[w].now)
             /\ \A p \in 1 .. pager[w].total :
                  p \in Remotes!Lost(w) \/ Remotes!SeesPage(w, p)
  <2> DEFINE s == pager[w]
             n == meant[w].now
             b == meant[w].before
             alone == fate[w].alone
             past  == fate[w].past
             lost  == LostBy(fate[w])
  <2>1. WriterInv(s, n, b, alone, past, lost, Remotes!object) /\ Remotes!object \in RemotePages
    BY <1>3, WriterIs, ObjectIs
  <2>2. lost = Remotes!Lost(w)
    BY DEF Remotes!Lost, LostBy
  <2> HIDE DEF s, n, b, alone, past, lost
  <2>3. ASSUME NEW p \in 1 .. s.total
        PROVE  p \in lost \/ (Remotes!Holds(s, p) /\ Remotes!Content(s, p) = n[p])
    BY <2>1, PageIs
  <2>4. s.total = Len(n)
    BY <2>1 DEF WriterInv, Formed
  <2>5. QED
    BY <2>2, <2>3, <2>4 DEF s, n, Remotes!SeesPage
<1>4. QED
  BY <1>2, <1>3 DEF Remotes!SeesOwnWrites

\* The invariant of the remote databases, and what a step does to the object.
LEMMA RemotesRun ==
  ASSUME RemoteBounds
  PROVE  Parts => [](part = "remotes" => RemoteInv) /\ Remotes!PushStoresOwn
<1> DEFINE Inv == part = "remotes" => RemoteInv
<1>1. PartsInit => Inv
  BY RemoteInit DEF PartsInit
<1>2. Inv /\ [PartsNext]_<<part, feedVars, replicaVars, vars, deviceVars, remoteVars>>
        => Inv' /\ Remotes!PutIsOwn
  BY RemoteSteps
<1>3. QED
  BY <1>1, <1>2, PTL DEF Parts, Remotes!PushStoresOwn

\* A writer of a remote database reads, page by page, what its statements left, and nothing
\* that it has rolled back, whatever was fetched, evicted, checkpointed or pushed, by itself
\* and by others (read_page, write_page, checkpoint, rollback_transaction and push_remote of
\* src/pager/mod.rs): except the pages that an eviction, a rollback of what was written past
\* the undo log, or another writer's push may have taken from it.
THEOREM SeesCorrect ==
  ASSUME RemoteBounds
  PROVE  Parts => []SeesOwnWrites
<1>1. (part = "remotes" => RemoteInv) => SeesOwnWrites
  BY RemoteSees
<1>2. QED
  BY <1>1, RemotesRun, PTL

\* What a push stores is, page by page, what the statements of the writer left, but for the
\* pages that it has lost (push_remote); and a follower never goes back to an older state.
THEOREM CopiesCorrect ==
  ASSUME OneSource, RemoteBounds
  PROVE  Parts => CopiesMoveForward
<1>1. Parts => Replicas!NeverGoesBack
  BY ReplicasRun, NeverBackCorrect, PTL
<1>2. Parts => Remotes!PushStoresOwn
  BY RemotesRun, PTL
<1>3. QED
  BY <1>1, <1>2, PTL DEF CopiesMoveForward

-----------------------------------------------------------------------------
(* The lock file.                                                          *)

\* The bounds are numbers.
Bounded == MaxSnapshot \in Nat /\ MaxCommits \in Nat

\* The processes that made a lock file, and have neither removed one since nor died.
Locking  == {"created", "lockedForBackup"}
Locked   == {"opening", "using", "copying", "copied", "installed"}
Phase    == {"idle", "stale", "removed"} \cup Locking \cup Locked
Owner(p) == pc[p] \in Locking \cup Locked

Copy == [snapshot : 0 .. MaxSnapshot, whole : BOOLEAN, over : BOOLEAN]

Typed ==
  /\ pc \in [Process -> Phase]
  /\ lock \in [file : {"none", "empty", "numbered"}, by : Process \cup {Gone}]
  /\ base \in 0 .. MaxSnapshot /\ under \subseteq 0 .. MaxSnapshot /\ base \in under
  /\ log \in [commits : 0 .. MaxCommits, of : 0 .. MaxSnapshot]
  /\ staged \in [Process -> Copy] /\ last \in 0 .. MaxSnapshot
  /\ raced \in BOOLEAN /\ robbed \subseteq Process

\* The file at the path was made by an owner, unless that is gone; and by each owner, unless
\* it was robbed of it.
Owning ==
  /\ \A p \in robbed : Owner(p)
  /\ \A p \in Process : lock.by = p => Owner(p) /\ p \notin robbed
  /\ \A p \in Process : Owner(p) /\ p \notin robbed => lock.by = p

\* Without a race, who is about to remove a stale lock is alone, and the lock is still the
\* stale one: so nobody is robbed.
Racing ==
  /\ robbed # {} => raced
  /\ ~ raced => /\ \A p, q \in Process : pc[p] = "stale" /\ pc[q] = "stale" => p = q
                /\ \A p \in Process : pc[p] = "stale" => Stale

\* What a backup has ready, and that the log is empty while it replaces the base file.
Replacing ==
  \A p \in Process :
    /\ staged[p] # NoCopy <=> pc[p] \in BackingUp
    /\ pc[p] \in {"copied", "installed"} => staged[p].whole
    /\ ~ raced /\ pc[p] \in {"copying", "copied", "installed"} => log.commits = 0

\* The commits in the log belong to whatever a power loss may leave as the base file.
Belongs == ~ raced /\ log.commits > 0 => \A b \in under : log.of = b

LockInv == Typed /\ Owning /\ Racing /\ Replacing /\ Belongs

USE DEF Phase, Locking, Locked

\* What stands for a process that has ended is none of them.
LEMMA GoneIsNoProcess ==
  Gone \notin Process
BY LockAssumption DEF LockAssumption

\* The invariant holds at first.
LEMMA InitInv ==
  ASSUME Bounded, Init PROVE LockInv
<1>1. /\ Gone \notin Process /\ lock = NoLock /\ robbed = {} /\ raced = FALSE
      /\ \A p \in Process : pc[p] = "idle" /\ staged[p] = NoCopy
  BY GoneIsNoProcess DEF Init
<1>2. pc \in [Process -> Phase] /\ staged \in [Process -> Copy]
  <2>1. NoCopy \in Copy
    BY DEF Copy, NoCopy, None, Bounded
  <2>2. QED
    BY <2>1 DEF Init
<1>3. Typed
  <2>1. lock \in [file : {"none", "empty", "numbered"}, by : Process \cup {Gone}]
    BY <1>1 DEF NoLock
  <2>2. /\ log \in [commits : 0 .. MaxCommits, of : 0 .. MaxSnapshot]
        /\ base = 0 /\ under = {0} /\ last = 0 /\ 0 \in 0 .. MaxSnapshot
    BY DEF Init, NoLog, None, Bounded
  <2>3. QED
    BY <1>1, <1>2, <2>1, <2>2 DEF Typed
<1>4. Owning
  BY <1>1 DEF Owning, Owner, NoLock
<1>5. Racing /\ Replacing
  BY <1>1 DEF Racing, Replacing, BackingUp
<1>6. Belongs
  BY DEF Init, Belongs, NoLog, None
<1>7. QED
  BY <1>3, <1>4, <1>5, <1>6 DEF LockInv

\* Without a race, one process at most has a lock.
LEMMA OwnerIsAlone ==
  ASSUME LockInv, ~ raced
  PROVE  /\ robbed = {} /\ \A p, q \in Process : Owner(p) /\ Owner(q) => p = q
         /\ \A p \in Process : Owner(p) => lock.by = p
BY DEF LockInv, Racing, Owning

-----------------------------------------------------------------------------
(* What the steps do to the lock.                                          *)

\* A step of an owner that leaves the lock and stays one.
LEMMA OwnerStays ==
  ASSUME LockInv, NEW p \in Process, NEW x \in Locking \cup Locked, Owner(p),
         pc' = [pc EXCEPT ![p] = x], UNCHANGED <<lock, raced, robbed>>
  PROVE  Owning' /\ Racing'
<1>1. /\ pc'[p] = x /\ pc[p] # "stale" /\ x # "stale"
      /\ \A q \in Process : q # p => pc'[q] = pc[q]
  BY DEF LockInv, Typed, Owner
<1>2. \A q \in Process : Owner(q)' <=> Owner(q)
  BY <1>1 DEF Owner
<1>3. \A q \in Process : pc'[q] = "stale" <=> pc[q] = "stale"
  BY <1>1
<1>4. QED
  BY <1>2, <1>3 DEF LockInv, Typed, Owning, Racing, Stale

\* An owner removes the file at the path.
LEMMA OwnerLeaves ==
  ASSUME LockInv, NEW p \in Process, Owner(p), Unlock(p)
  PROVE  Owning' /\ Racing'
<1>1. /\ pc'[p] = "idle" /\ pc[p] # "stale" /\ raced' = raced
      /\ \A q \in Process : q # p => pc'[q] = pc[q]
      /\ lock' = NoLock /\ robbed' = (robbed \cup ({lock.by} \ {Gone})) \ {p}
  BY DEF Unlock, Removes, Goes, LockInv, Typed, Owner
<1>2. lock'.by = Gone /\ Gone \notin Process
  BY <1>1, GoneIsNoProcess DEF NoLock
<1>3. ~ Owner(p)' /\ \A q \in Process : q # p => (Owner(q)' <=> Owner(q))
  BY <1>1 DEF Owner
<1>4. lock.by \in Process \cup {Gone} /\ robbed \subseteq Process
  BY DEF LockInv, Typed
<1>5. Owning'
  <2>1. \A q \in robbed' : Owner(q)'
    BY <1>1, <1>3, <1>4 DEF LockInv, Owning
  <2>2. \A q \in Process : lock'.by # q
    BY <1>2
  <2>3. ASSUME NEW q \in Process, Owner(q)' PROVE q \in robbed'
    BY <1>1, <1>2, <1>3, <2>3 DEF LockInv, Owning
  <2>4. QED
    BY <2>1, <2>2, <2>3 DEF Owning
<1>6. Racing'
  <2>1. ASSUME ~ raced PROVE robbed' = {} /\ \A q \in Process : pc'[q] # "stale"
    <3>1. robbed = {} /\ lock.by = p
      BY <2>1, OwnerIsAlone
    <3>2. ~ Stale
      BY <1>2, <3>1 DEF Stale
    <3>3. QED
      BY <1>1, <2>1, <3>1, <3>2 DEF LockInv, Racing
  <2>2. QED
    BY <1>1, <2>1 DEF Racing
<1>7. QED
  BY <1>5, <1>6

\* A lock file is made where there is none.
LEMMA OwnerComes ==
  ASSUME LockInv, NEW p \in Process, NEW x \in Locking, pc[p] \in {"idle", "removed"},
         lock = NoLock, lock' = Made(p), pc' = [pc EXCEPT ![p] = x], UNCHANGED <<raced, robbed>>
  PROVE  Owning' /\ Racing'
<1>1. /\ pc'[p] = x /\ x # "stale" /\ ~ Owner(p) /\ Owner(p)'
      /\ \A q \in Process : q # p => pc'[q] = pc[q] /\ (Owner(q)' <=> Owner(q))
  BY DEF LockInv, Typed, Owner
<1>2. lock.by = Gone /\ lock'.by = p /\ ~ Stale /\ Gone \notin Process
  BY GoneIsNoProcess DEF NoLock, Made, Stale
<1>3. p \notin robbed /\ \A q \in Process : Owner(q) => q \in robbed
  BY <1>1, <1>2 DEF LockInv, Owning
<1>4. Owning'
  BY <1>1, <1>2, <1>3 DEF LockInv, Typed, Owning
<1>5. Racing'
  BY <1>1, <1>2 DEF LockInv, Racing
<1>6. QED
  BY <1>4, <1>5

\* The number is written to the file that the owner has made.
LEMMA NumberWritten ==
  ASSUME LockInv, NEW p \in Process, WritesNumber(p), NEW x \in Locked, pc[p] \in Locking,
         pc' = [pc EXCEPT ![p] = x], UNCHANGED <<raced, robbed>>
  PROVE  Owning' /\ Racing' /\ lock' \in [file : {"none", "empty", "numbered"}, by : Process \cup {Gone}]
<1>1. /\ pc'[p] = x /\ x # "stale" /\ Owner(p) /\ Owner(p)' /\ pc[p] # "stale"
      /\ \A q \in Process : q # p => pc'[q] = pc[q] /\ (Owner(q)' <=> Owner(q))
  BY DEF LockInv, Typed, Owner
<1>2. /\ lock' \in [file : {"none", "empty", "numbered"}, by : Process \cup {Gone}]
      /\ lock'.by = lock.by
      /\ lock' = lock \/ lock.by = p
  BY DEF WritesNumber, Made, LockInv, Typed
<1>3. Stale => Stale'
  BY <1>2, GoneIsNoProcess DEF Stale
<1>4. Owning'
  BY <1>1, <1>2 DEF LockInv, Typed, Owning
<1>5. Racing'
  BY <1>1, <1>3 DEF LockInv, Racing
<1>6. QED
  BY <1>2, <1>4, <1>5

\* Steps of those who are not owners, and of those who end.
LEMMA ReclaimSteps ==
  ASSUME LockInv, NEW p \in Process, FindStale(p) \/ RemoveStale(p)
  PROVE  Owning' /\ Racing'
<1>1. /\ ~ Owner(p) /\ ~ Owner(p)' /\ pc' = [pc EXCEPT ![p] = pc'[p]]
      /\ \A q \in Process : q # p => pc'[q] = pc[q] /\ (Owner(q)' <=> Owner(q))
  BY DEF FindStale, RemoveStale, At, Goes, LockInv, Typed, Owner
<1>2. CASE FindStale(p)
  <2>1. /\ pc'[p] = "stale" /\ pc[p] = "idle" /\ Stale /\ UNCHANGED <<lock, robbed>>
        /\ raced' = (raced \/ \E q \in Process : pc[q] = "stale")
    BY <1>2 DEF FindStale, At, Goes, LockInv, Typed
  <2>2. Owning'
    BY <1>1, <2>1 DEF LockInv, Typed, Owning
  <2>3. Racing'
    BY <1>1, <2>1 DEF LockInv, Racing, Stale
  <2>4. QED
    BY <2>2, <2>3
<1>3. CASE RemoveStale(p)
  <2>1. /\ pc'[p] = "removed" /\ pc[p] = "stale" /\ raced' = raced /\ lock' = NoLock
        /\ robbed' = (robbed \cup ({lock.by} \ {Gone})) \ {p}
    BY <1>3 DEF RemoveStale, Removes, At, Goes, LockInv, Typed
  <2>2. lock'.by = Gone /\ Gone \notin Process /\ lock.by \in Process \cup {Gone}
    BY <2>1, GoneIsNoProcess DEF NoLock, LockInv, Typed
  <2>3. p \notin robbed /\ lock.by # p
    BY <1>1 DEF LockInv, Owning
  <2>4. Owning'
    <3>1. \A q \in robbed' : Owner(q)'
      BY <1>1, <2>1, <2>2 DEF LockInv, Typed, Owning
    <3>2. \A q \in Process : lock'.by # q
      BY <2>2
    <3>3. ASSUME NEW q \in Process, Owner(q)' PROVE q \in robbed'
      BY <1>1, <2>1, <2>2, <2>3, <3>3 DEF LockInv, Owning
    <3>4. QED
      BY <3>1, <3>2, <3>3 DEF Owning
  <2>5. Racing'
    <3>1. ASSUME ~ raced PROVE robbed' = {} /\ \A q \in Process : pc'[q] # "stale"
      <4>1. robbed = {} /\ lock.by = Gone
        BY <2>1, <3>1 DEF LockInv, Racing, Stale
      <4>2. QED
        BY <1>1, <2>1, <3>1, <4>1 DEF LockInv, Racing
    <3>2. QED
      BY <2>1, <3>1 DEF Racing
  <2>6. QED
    BY <2>4, <2>5
<1>4. QED
  BY <1>2, <1>3

-----------------------------------------------------------------------------
(* The steps of a process.                                                 *)

\* The files stay, and so does what is staged.
LEMMA FilesStay ==
  ASSUME Bounded, LockInv, NEW p \in Process, NEW x \in Phase, pc' = [pc EXCEPT ![p] = x],
         x \notin BackingUp, pc[p] \notin BackingUp, UNCHANGED fileVars,
         raced' = raced \/ raced' = TRUE, robbed' \subseteq Process,
         lock' \in [file : {"none", "empty", "numbered"}, by : Process \cup {Gone}],
         Owning' /\ Racing'
  PROVE  LockInv'
<1>1. Typed'
  BY DEF LockInv, Typed, fileVars
<1>2. pc'[p] = x /\ \A q \in Process : q # p => pc'[q] = pc[q]
  BY DEF LockInv, Typed
<1>3. NoCopy' = NoCopy /\ staged' = staged /\ log' = log /\ under' = under
  BY DEF NoCopy, fileVars
<1>4. Replacing'
  BY <1>2, <1>3 DEF LockInv, Typed, Replacing, BackingUp
<1>5. Belongs'
  BY <1>3 DEF LockInv, Typed, Belongs
<1>6. QED
  BY <1>1, <1>4, <1>5 DEF LockInv

\* The steps that take, hand on and remove the lock.
LEMMA LockSteps ==
  ASSUME Bounded, LockInv, NEW p \in Process,
         \/ CreateLock(p) \/ WritePid(p) \/ FindStale(p) \/ RemoveStale(p) \/ CreateAgain(p)
         \/ OpenFails(p)
  PROVE  LockInv'
<1> DEFINE Lock == [file : {"none", "empty", "numbered"}, by : Process \cup {Gone}]
<1>0. NoLock \in Lock /\ Made(p) \in Lock /\ lock \in Lock /\ robbed \subseteq Process /\ pc[p] \in Phase
  BY DEF NoLock, Made, LockInv, Typed
<1>1. CASE CreateLock(p)
  <2>1. /\ pc[p] = "idle" /\ lock = NoLock /\ lock' = Made(p) /\ pc' = [pc EXCEPT ![p] = "created"]
        /\ UNCHANGED fileVars /\ UNCHANGED <<raced, robbed>>
    BY <1>1 DEF CreateLock, At, Goes
  <2>2. Owning' /\ Racing'
    BY <2>1, OwnerComes
  <2>3. QED
    BY <1>0, <2>1, <2>2, FilesStay DEF BackingUp
<1>2. CASE WritePid(p)
  <2>1. /\ pc[p] = "created" /\ WritesNumber(p) /\ pc' = [pc EXCEPT ![p] = "opening"]
        /\ UNCHANGED fileVars /\ UNCHANGED <<raced, robbed>>
    BY <1>2 DEF WritePid, At, Goes
  <2>2. Owning' /\ Racing' /\ lock' \in Lock
    BY <2>1, NumberWritten
  <2>3. QED
    BY <1>0, <2>1, <2>2, FilesStay DEF BackingUp
<1>3. CASE FindStale(p)
  <2>1. /\ pc[p] = "idle" /\ pc' = [pc EXCEPT ![p] = "stale"] /\ UNCHANGED <<lock, robbed>>
        /\ UNCHANGED fileVars /\ (raced' = raced \/ raced' = TRUE)
    BY <1>3 DEF FindStale, At, Goes, LockInv, Typed
  <2>2. Owning' /\ Racing'
    BY <1>3, ReclaimSteps
  <2>3. QED
    BY <1>0, <2>1, <2>2, FilesStay DEF BackingUp
<1>4. CASE RemoveStale(p)
  <2>1. /\ pc[p] = "stale" /\ pc' = [pc EXCEPT ![p] = "removed"] /\ lock' = NoLock
        /\ UNCHANGED fileVars /\ raced' = raced /\ robbed' \subseteq Process
    BY <1>0, <1>4 DEF RemoveStale, Removes, At, Goes
  <2>2. Owning' /\ Racing'
    BY <1>4, ReclaimSteps
  <2>3. QED
    BY <1>0, <2>1, <2>2, FilesStay DEF BackingUp
<1>5. CASE CreateAgain(p)
  <2>1. /\ pc[p] = "removed" /\ UNCHANGED fileVars /\ UNCHANGED <<raced, robbed>>
    BY <1>5 DEF CreateAgain, At
  <2>2. CASE lock = NoLock /\ lock' = Made(p) /\ Goes(p, "created")
    <3>1. Owning' /\ Racing'
      BY <2>1, <2>2, OwnerComes DEF Goes
    <3>2. QED
      BY <1>0, <2>1, <2>2, <3>1, FilesStay DEF BackingUp, Goes
  <2>3. CASE lock' = lock /\ Goes(p, "idle")
    <3>1. /\ pc'[p] = "idle" /\ ~ Owner(p) /\ ~ Owner(p)'
          /\ \A q \in Process : q # p => pc'[q] = pc[q] /\ (Owner(q)' <=> Owner(q))
      BY <2>1, <2>3 DEF Goes, Owner, LockInv, Typed
    <3>2. Owning'
      BY <2>1, <2>3, <3>1 DEF LockInv, Typed, Owning
    <3>3. Racing'
      BY <2>1, <2>3, <3>1 DEF LockInv, Racing, Stale
    <3>4. QED
      BY <1>0, <2>1, <2>3, <3>2, <3>3, FilesStay DEF BackingUp, Goes
  <2>4. QED
    BY <1>5, <2>2, <2>3 DEF CreateAgain
<1>6. CASE OpenFails(p)
  <2>1. /\ pc[p] = "opening" /\ Unlock(p) /\ pc' = [pc EXCEPT ![p] = "idle"] /\ lock' = NoLock
        /\ UNCHANGED fileVars /\ raced' = raced /\ robbed' \subseteq Process
    BY <1>0, <1>6 DEF OpenFails, Unlock, Removes, At, Goes
  <2>2. Owning' /\ Racing'
    BY <2>1, OwnerLeaves DEF Owner
  <2>3. QED
    BY <1>0, <2>1, <2>2, FilesStay DEF BackingUp
<1>7. QED
  BY <1>1, <1>2, <1>3, <1>4, <1>5, <1>6

\* Opening a database, committing to it, and closing it.
LEMMA UseSteps ==
  ASSUME Bounded, LockInv, NEW p \in Process, Open(p) \/ Commit(p) \/ Close(p)
  PROVE  LockInv'
<1>1. CASE Open(p)
  <2>1. /\ pc[p] = "opening" /\ pc' = [pc EXCEPT ![p] = "using"]
        /\ UNCHANGED <<lock, staged, raced, robbed>>
        /\ \/ UNCHANGED <<base, under, last>> /\ log' = NoLog
           \/ /\ log.commits = 0 /\ last < MaxSnapshot /\ base' = last + 1 /\ under' = {base'}
              /\ last' = last + 1 /\ log' = log
    BY <1>1 DEF Open, At, Goes
  <2>2. Owning' /\ Racing'
    BY <2>1, OwnerStays DEF Owner
  <2>3. Typed'
    <3>1. pc' \in [Process -> Phase]
      BY <2>1 DEF LockInv, Typed
    <3>2. /\ log' \in [commits : 0 .. MaxCommits, of : 0 .. MaxSnapshot]
          /\ base' \in 0 .. MaxSnapshot /\ last' \in 0 .. MaxSnapshot
          /\ under' \subseteq 0 .. MaxSnapshot /\ base' \in under'
      <4>1. CASE UNCHANGED <<base, under, last>> /\ log' = NoLog
        BY <4>1 DEF LockInv, Typed, NoLog, None, Bounded
      <4>2. CASE last < MaxSnapshot /\ base' = last + 1 /\ under' = {base'} /\ last' = last + 1
                 /\ log' = log
        BY <4>2 DEF LockInv, Typed, Bounded
      <4>3. QED
        BY <2>1, <4>1, <4>2
    <3>3. QED
      BY <2>1, <3>1, <3>2 DEF LockInv, Typed, Copy
  <2>4. log'.commits = 0
    BY <2>1 DEF NoLog
  <2>5. Replacing'
    BY <2>1, <2>4 DEF LockInv, Typed, Replacing, BackingUp, NoCopy
  <2>6. QED
    BY <2>2, <2>3, <2>4, <2>5 DEF LockInv, Belongs
<1>2. CASE Commit(p)
  <2>1. /\ pc[p] = "using" /\ UNCHANGED <<pc, lock, base, staged, last, raced, robbed>>
        /\ log' = [commits |-> log.commits + 1, of |-> base] /\ under' = {base}
        /\ log.commits < MaxCommits
    BY <1>2 DEF Commit, At
  <2>2. Typed'
    BY <2>1 DEF LockInv, Typed, Bounded
  <2>3. Owning' /\ Racing'
    BY <2>1 DEF LockInv, Owning, Racing, Stale, Owner
  <2>4. ASSUME ~ raced, NEW q \in Process PROVE pc[q] \notin {"copying", "copied", "installed"}
    BY <2>1, <2>4, OwnerIsAlone DEF Owner
  <2>5. Replacing'
    BY <2>1, <2>4 DEF LockInv, Replacing, BackingUp, NoCopy
  <2>6. QED
    BY <2>1, <2>2, <2>3, <2>5 DEF LockInv, Belongs
<1>3. CASE Close(p)
  <2>1. /\ pc[p] = "using" /\ Unlock(p) /\ UNCHANGED <<base, under, staged, last>>
        /\ log' \in {log, NoLog} /\ pc' = [pc EXCEPT ![p] = "idle"] /\ lock' = NoLock
        /\ raced' = raced /\ robbed' \subseteq Process
    BY <1>3 DEF Close, Unlock, Removes, At, Goes, LockInv, Typed
  <2>2. Owning' /\ Racing'
    BY <2>1, OwnerLeaves DEF Owner
  <2>3. Typed'
    BY <2>1 DEF LockInv, Typed, NoLock, NoLog, None, Bounded
  <2>4. log' = log \/ log'.commits = 0
    BY <2>1 DEF NoLog
  <2>5. Replacing'
    BY <2>1, <2>4 DEF LockInv, Typed, Replacing, BackingUp, NoCopy
  <2>6. Belongs'
    BY <2>1, <2>4 DEF LockInv, Belongs
  <2>7. QED
    BY <2>2, <2>3, <2>5, <2>6 DEF LockInv
<1>4. QED
  BY <1>1, <1>2, <1>3

\* What the steps of a backup do to the copy.
LEMMA CopyStaged ==
  ASSUME Bounded, LockInv, NEW p \in Process, NEW x \in Phase, NEW c \in Copy,
         pc' = [pc EXCEPT ![p] = x], staged' = [staged EXCEPT ![p] = c],
         raced' = raced, log' = log \/ log' = NoLog,
         c # NoCopy <=> x \in BackingUp, x \in {"copied", "installed"} => c.whole,
         x \in {"copying", "copied", "installed"} /\ ~ raced => log'.commits = 0
  PROVE  Replacing' /\ pc' \in [Process -> Phase] /\ staged' \in [Process -> Copy]
<1>1. /\ pc' \in [Process -> Phase] /\ staged' \in [Process -> Copy]
      /\ pc'[p] = x /\ staged'[p] = c
      /\ \A q \in Process : q # p => pc'[q] = pc[q] /\ staged'[q] = staged[q]
  BY DEF LockInv, Typed
<1>2. NoCopy' = NoCopy /\ (log' = log \/ log'.commits = 0)
  BY DEF NoCopy, NoLog
<1>3. QED
  BY <1>1, <1>2 DEF LockInv, Replacing, BackingUp

\* A backup: the lock, the check, the copy, the renaming and the end.
LEMMA BackupSteps ==
  ASSUME Bounded, LockInv, NEW p \in Process,
         \/ BackupLock(p) \/ BackupCheck(p) \/ BackupCopy(p) \/ Install(p) \/ BackupDone(p)
         \/ BackupFails(p)
  PROVE  LockInv'
<1>0. NoCopy \in Copy /\ staged[p] \in Copy
  BY DEF NoCopy, None, Copy, Bounded, LockInv, Typed
<1>1. CASE BackupLock(p)
  <2>1. PICK over \in BOOLEAN :
          staged' = [staged EXCEPT ![p] = [snapshot |-> last + 1, whole |-> FALSE, over |-> over]]
    BY <1>1 DEF BackupLock
  <2> DEFINE c == [snapshot |-> last + 1, whole |-> FALSE, over |-> over]
  <2>2. /\ pc[p] = "idle" /\ lock = NoLock /\ last < MaxSnapshot /\ last' = last + 1
        /\ lock' = Made(p) /\ pc' = [pc EXCEPT ![p] = "lockedForBackup"]
        /\ UNCHANGED <<base, under, log, raced, robbed>>
    BY <1>1 DEF BackupLock, At, Goes
  <2>3. c \in Copy /\ c # NoCopy
    BY <2>2 DEF Copy, NoCopy, None, LockInv, Typed, Bounded
  <2> HIDE DEF c
  <2>4. Owning' /\ Racing'
    BY <2>2, OwnerComes
  <2>5. Replacing' /\ pc' \in [Process -> Phase] /\ staged' \in [Process -> Copy]
    BY <2>1, <2>2, <2>3, CopyStaged DEF BackingUp, c
  <2>6. Typed'
    BY <2>2, <2>5 DEF LockInv, Typed, Made, Bounded
  <2>7. QED
    BY <2>2, <2>4, <2>5, <2>6 DEF LockInv, Belongs
<1>2. CASE BackupCheck(p)
  <2>1. /\ pc[p] = "lockedForBackup" /\ log.commits = 0 /\ WritesNumber(p) /\ log' = NoLog
        /\ pc' = [pc EXCEPT ![p] = "copying"]
        /\ UNCHANGED <<base, under, staged, last, raced, robbed>>
    BY <1>2 DEF BackupCheck, At, Goes
  <2>2. Owning' /\ Racing' /\ lock' \in [file : {"none", "empty", "numbered"}, by : Process \cup {Gone}]
    BY <2>1, NumberWritten
  <2>3. log'.commits = 0 /\ log' \in [commits : 0 .. MaxCommits, of : 0 .. MaxSnapshot]
    BY <2>1 DEF NoLog, None, Bounded
  <2>4. Typed'
    BY <2>1, <2>2, <2>3 DEF LockInv, Typed
  <2>5. Replacing'
    BY <2>1, <2>3 DEF LockInv, Typed, Replacing, BackingUp, NoCopy
  <2>6. QED
    BY <2>2, <2>3, <2>4, <2>5 DEF LockInv, Belongs
<1>3. CASE BackupCopy(p)
  <2> DEFINE c == [staged[p] EXCEPT !.whole = TRUE]
  <2>1. /\ pc[p] = "copying" /\ pc' = [pc EXCEPT ![p] = "copied"]
        /\ staged' = [staged EXCEPT ![p] = c]
        /\ UNCHANGED <<lock, base, under, log, last, raced, robbed>>
    BY <1>3 DEF BackupCopy, At, Goes
  <2>2. c \in Copy /\ c.whole /\ c # NoCopy
    BY <1>0 DEF Copy, NoCopy
  <2> HIDE DEF c
  <2>3. Owning' /\ Racing'
    BY <2>1, OwnerStays DEF Owner
  <2>4. ~ raced => log'.commits = 0
    BY <2>1 DEF LockInv, Replacing
  <2>5. Replacing' /\ pc' \in [Process -> Phase] /\ staged' \in [Process -> Copy]
    BY <2>1, <2>2, <2>4, CopyStaged DEF BackingUp
  <2>6. Typed' /\ Belongs'
    BY <2>1, <2>5 DEF LockInv, Typed, Belongs
  <2>7. QED
    BY <2>3, <2>5, <2>6 DEF LockInv
<1>4. CASE Install(p)
  <2>1. /\ pc[p] = "copied" /\ staged[p].whole /\ pc' = [pc EXCEPT ![p] = "installed"]
        /\ base' = staged[p].snapshot /\ under' = under \cup {base'}
        /\ UNCHANGED <<lock, log, staged, last, raced, robbed>>
    BY <1>4 DEF Install, At, Goes, LockInv, Replacing
  <2>2. staged[p].snapshot \in 0 .. MaxSnapshot
    BY <1>0 DEF Copy
  <2>3. Owning' /\ Racing'
    BY <2>1, OwnerStays DEF Owner
  <2>4. Typed'
    BY <2>1, <2>2 DEF LockInv, Typed
  <2>5. ~ raced => log.commits = 0
    BY <2>1 DEF LockInv, Replacing
  <2>6. Replacing'
    BY <2>1, <2>5 DEF LockInv, Typed, Replacing, BackingUp, NoCopy
  <2>7. Belongs'
    BY <2>1, <2>5 DEF Belongs
  <2>8. QED
    BY <2>3, <2>4, <2>6, <2>7 DEF LockInv
<1>5. CASE BackupDone(p) \/ BackupFails(p)
  <2>1. /\ pc[p] \in BackingUp /\ Unlock(p) /\ staged' = [staged EXCEPT ![p] = NoCopy]
        /\ UNCHANGED <<base, log, last>> /\ (under' = {base} \/ under' = under)
        /\ pc' = [pc EXCEPT ![p] = "idle"] /\ lock' = NoLock /\ raced' = raced
        /\ robbed' \subseteq Process
    BY <1>5 DEF BackupDone, BackupFails, BackingUp, Unlock, Removes, At, Goes, LockInv, Typed
  <2>2. Owning' /\ Racing'
    BY <2>1, OwnerLeaves DEF Owner, BackingUp
  <2>3. Replacing' /\ pc' \in [Process -> Phase] /\ staged' \in [Process -> Copy]
    BY <1>0, <2>1, CopyStaged DEF BackingUp
  <2>4. Typed'
    BY <2>1, <2>3 DEF LockInv, Typed, NoLock
  <2>5. Belongs'
    <3>1. under' \subseteq under
      BY <2>1 DEF LockInv, Typed
    <3>2. QED
      BY <2>1, <3>1 DEF LockInv, Belongs
  <2>6. QED
    BY <2>2, <2>3, <2>4, <2>5 DEF LockInv
<1>6. QED
  BY <1>1, <1>2, <1>3, <1>4, <1>5

\* A process that ends leaves its lock behind.
LEMMA EndSteps ==
  ASSUME Bounded, LockInv, PowerLoss \/ \E p \in Process : Die(p)
  PROVE  LockInv'
<1>1. ASSUME NEW p \in Process, Die(p) PROVE LockInv'
  <2>1. /\ pc' = [pc EXCEPT ![p] = "idle"] /\ staged' = [staged EXCEPT ![p] = NoCopy]
        /\ lock' = IF lock.by = p THEN [lock EXCEPT !.by = Gone] ELSE lock
        /\ robbed' = robbed \ {p} /\ UNCHANGED <<base, under, log, last, raced>>
    BY <1>1 DEF Die, MakersEnd, Goes
  <2>2. /\ pc'[p] = "idle" /\ ~ Owner(p)'
        /\ \A q \in Process : q # p => pc'[q] = pc[q] /\ (Owner(q)' <=> Owner(q))
    BY <2>1 DEF LockInv, Typed, Owner
  <2>3. /\ lock' \in [file : {"none", "empty", "numbered"}, by : Process \cup {Gone}]
        /\ lock'.file = lock.file /\ lock'.by = IF lock.by = p THEN Gone ELSE lock.by
    BY <2>1 DEF LockInv, Typed
  <2>4. Replacing' /\ pc' \in [Process -> Phase] /\ staged' \in [Process -> Copy]
    <3>1. NoCopy \in Copy
      BY DEF NoCopy, None, Copy, Bounded
    <3>2. QED
      BY <2>1, <3>1, CopyStaged DEF BackingUp
  <2>5. Typed'
    BY <2>1, <2>3, <2>4 DEF LockInv, Typed
  <2>6. Owning'
    BY <2>1, <2>2, <2>3, GoneIsNoProcess DEF LockInv, Typed, Owning
  <2>7. Racing'
    <3>1. Stale => Stale'
      BY <2>3 DEF Stale
    <3>2. QED
      BY <2>1, <2>2, <3>1 DEF LockInv, Racing
  <2>8. Belongs'
    BY <2>1 DEF LockInv, Belongs
  <2>9. QED
    BY <2>4, <2>5, <2>6, <2>7, <2>8 DEF LockInv
<1>2. CASE PowerLoss
  <2>1. /\ pc' = [p \in Process |-> "idle"] /\ staged' = [p \in Process |-> NoCopy]
        /\ base' \in under /\ under' = {base'} /\ UNCHANGED <<log, last, raced>>
        /\ lock' = IF lock.by \in Process THEN [lock EXCEPT !.by = Gone] ELSE lock
        /\ robbed' = {}
    BY <1>2 DEF PowerLoss, MakersEnd
  <2>2. /\ lock' \in [file : {"none", "empty", "numbered"}, by : Process \cup {Gone}]
        /\ lock'.by = Gone
    BY <2>1 DEF LockInv, Typed
  <2>3. Typed'
    <3>1. NoCopy \in Copy
      BY DEF NoCopy, None, Copy, Bounded
    <3>2. staged' \in [Process -> Copy]
      BY <2>1, <3>1
    <3>3. pc' \in [Process -> Phase]
      BY <2>1
    <3>4. QED
      BY <2>1, <2>2, <3>2, <3>3 DEF LockInv, Typed
  <2>4. Owning' /\ Racing'
    BY <2>1, <2>2, GoneIsNoProcess DEF Owning, Racing, Owner, Stale
  <2>5. Replacing' /\ Belongs'
    BY <2>1 DEF LockInv, Replacing, Belongs, BackingUp, NoCopy
  <2>6. QED
    BY <2>3, <2>4, <2>5 DEF LockInv
<1>3. QED
  BY <1>1, <1>2

-----------------------------------------------------------------------------
(* The theorems about the lock file.                                       *)

\* The inductive invariant holds in every reachable state.
THEOREM LockInvCorrect ==
  ASSUME Bounded PROVE Spec => []LockInv
<1>1. Init => LockInv
  BY InitInv
<1>2. LockInv /\ [Next]_vars => LockInv'
  <2>1. ASSUME LockInv, Next PROVE LockInv'
    BY <2>1, LockSteps, UseSteps, BackupSteps, EndSteps DEF Next
  <2>2. ASSUME LockInv, UNCHANGED vars PROVE LockInv'
    BY <2>2 DEF vars, fileVars, LockInv, Typed, Owning, Racing, Replacing, Belongs, Owner, Stale,
                NoCopy
  <2>3. QED
    BY <2>1, <2>2
<1>3. QED
  BY <1>1, <1>2, PTL DEF Spec

\* Every reachable state is well typed, and a copy is there exactly as long as the
\* backup that makes it (the types of open_with_cipher and backup_to_options).
THEOREM TypeCorrect ==
  ASSUME Bounded PROVE Spec => []TypeOK
<1>1. LockInv => TypeOK
  BY DEF LockInv, Typed, Replacing, TypeOK, Copy, Torn, Opening, BackingUp, Bounded
<1>2. QED
  BY <1>1, LockInvCorrect, PTL

\* However processes open, close, back up, reclaim stale locks, die and lose power: two use or
\* replace the database at the same time only when one of them lost its lock to another; and
\* none does before two were about to remove a stale lock at the same time (open_with_cipher).
THEOREM HolderCorrect ==
  ASSUME Bounded PROVE Spec => []OneHolder
<1>1. LockInv => OneHolder
  <2> SUFFICES ASSUME LockInv PROVE OneHolder
    OBVIOUS
  <2>1. ASSUME NEW p \in Holders, NEW q \in Holders, p # q, p \notin robbed, q \notin robbed
        PROVE  FALSE
    <3>1. p \in Process /\ q \in Process /\ Owner(p) /\ Owner(q)
      BY DEF Holders, BackingUp, Owner
    <3>2. lock.by = p /\ lock.by = q
      BY <2>1, <3>1 DEF LockInv, Owning
    <3>3. QED
      BY <2>1, <3>2
  <2>2. QED
    BY <2>1 DEF OneHolder, LockInv, Racing
<1>2. QED
  BY <1>1, LockInvCorrect, PTL

\* Whatever a power loss leaves of the base file is a whole snapshot, and the commits in
\* the log were made on top of it, unless two processes were about to remove a stale lock at
\* the same time: a backup never slips another one under them.
THEOREM LogCorrect ==
  ASSUME Bounded PROVE Spec => []LogBelongs
<1>1. LockInv /\ TypeOK => LogBelongs
  BY DEF LockInv, Typed, Belongs, LogBelongs, Torn, Bounded
<1>2. QED
  BY <1>1, LockInvCorrect, TypeCorrect, PTL

=============================================================================

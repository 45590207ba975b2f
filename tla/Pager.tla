-------------------------------- MODULE Pager --------------------------------
(***************************************************************************)
(* The pager of TapirusDB (src/pager/mod.rs): page cache with LRU          *)
(* eviction, transaction and named savepoints with their undo pages, and   *)
(* the freelist.  Every operation runs under the pager's write lock and is *)
(* one step.                                                               *)
(*                                                                         *)
(* What lies below is taken from Wal: a commit is durable as a whole or    *)
(* not at all, and one that reports an I/O error is decided by the next    *)
(* open unless the log is truncated first.  durable is what a read that    *)
(* misses the cache finds, in the log or in the base file.  An in-memory   *)
(* database has a log without a file, and no base file.         *)
(*                                                                         *)
(* A page holds either data (named after the write that put it there) or a *)
(* freelist trunk.  The header in the first bytes of page 1 is kept apart: *)
(* header is Pager.header, with which the code overwrites those bytes      *)
(* whenever it writes page 1.                                              *)
(*                                                                         *)
(* transaction_savepoint and named_savepoints are one stack, levels: the   *)
(* code opens a transaction before the first named savepoint and drops     *)
(* both together.                                                          *)
(***************************************************************************)
EXTENDS Naturals, Sequences, FiniteSets, SequencesExt

CONSTANTS
  Page,          \* page numbers, 1 .. the largest that a run may allocate
  Options,       \* the databases that may be opened: in memory or not, their
                 \* total_pages, all in use, the cache_capacity, and, as a bound,
                 \* the levels of the transaction and its nested savepoints
  SlotsPerTrunk, \* page numbers that a freelist trunk page holds
  MaxWork,       \* bound: pages written, allocated or freed
  Name,          \* savepoint names
  None           \* no page, no name

ASSUME PageAssumption ==
  /\ Page \subseteq Nat \ {0} /\ 1 \in Page /\ IsFiniteSet(Page)
ASSUME BoundAssumption ==
  SlotsPerTrunk \in Nat /\ MaxWork \in Nat
ASSUME OptionsAssumption ==
  /\ Options \subseteq [inMemory : BOOLEAN, pages : Page, capacity : Nat \ {0}, levels : Nat]
  /\ \A o \in Options : 1 .. o.pages \subseteq Page /\ (o.inMemory => o.pages = 1)

VARIABLES
  options,       \* those with which the database was opened
  cache,         \* in_memory_pages: a function on the pages in memory
  lru,           \* the LRU list, least recently used page first
  header,        \* Pager.header
  levels,        \* the transaction and its named savepoints, oldest first
  durable,       \* the contents in the log and the base file
  durableHeader, \* the header in the latest durable page 1
  ioFailed,      \* Wal.io_failed
  doubt,         \* what a write that failed may have made durable, or None
  work,          \* pages written, allocated or freed so far
  owner          \* history: who has each page, for the callers of the pager

memVars == <<cache, lru, header, levels>>
durableVars == <<durable, durableHeader>>
vars == <<options, memVars, durableVars, ioFailed, doubt, work, owner>>

Header  == [total : Nat, trunk : Nat, free : Nat]
Content == [data : 0 .. MaxWork, next : Page \cup {0}, slots : Seq(Page)]
\* A page is in the freelist, allocated but not written since, or holds data.
Owner   == {"free", "new", "live"}

\* What the log and the base file may hold, and what a write that failed may leave.
Pages == UNION {[P -> Content] : P \in SUBSET Page}
Doubt == [durable : Pages, header : Header, owner : [Page -> Owner]]

ASSUME NoneAssumption == None \notin Name \cup Content \cup Doubt

Holding(x)  == [data |-> x, next |-> 0, slots |-> <<>>]
Trunk(n, s) == [data |-> 0, next |-> n, slots |-> s]
Empty       == Holding(0)

With(f, p, v) == [q \in DOMAIN f \cup {p} |-> IF q = p THEN v ELSE f[q]]
Without(f, S) == [q \in DOMAIN f \ S |-> f[q]]
Live(o)       == {p \in Page : o[p] = "live"}

\* The members of S in s, in their order.
Only(s, S) ==
  LET kept == {i \in DOMAIN s : s[i] \in S}
  IN  [k \in 1 .. Cardinality(kept) |->
         s[CHOOSE i \in kept : Cardinality({j \in kept : j <= i}) = k]]

-----------------------------------------------------------------------------
(* The cache.  The operators map a record of the variables in memory to    *)
(* the one that the code leaves.                                           *)

Now == [cache |-> cache, lru |-> lru, header |-> header, levels |-> levels]

Become(s) ==
  /\ cache' = s.cache
  /\ lru' = s.lru
  /\ header' = s.header
  /\ levels' = s.levels
  /\ UNCHANGED options

InTx(s) == s.levels # <<>>

\* touch_lru
Touch(s, p) == [s EXCEPT !.lru = Append(Only(@, Page \ {p}), p)]

Insert(s, p, v) == [s EXCEPT !.cache = With(@, p, v)]

\* The pages whose only current content may be the one in memory.
Protected(s) ==
  IF InTx(s) THEN DOMAIN s.levels[1].undo \cup s.levels[1].dirty ELSE {}

\* evict_if_needed: from the head of the list, while there are too many pages.
Victims(s) ==
  LET order  == Only(s.lru, Page \ ({1} \cup Protected(s)))
      excess == Cardinality(DOMAIN s.cache) - options.capacity
  IN  {order[i] : i \in {j \in 1 .. Len(order) : j <= excess}}

Evict(s) ==
  [s EXCEPT !.cache = Without(@, Victims(s)),
            !.lru = Only(@, Page \ Victims(s))]

\* Can read_page find the page?
Readable(s, p) == p \in DOMAIN s.cache \cup DOMAIN durable

Stable(p)    == IF p \in DOMAIN durable THEN durable[p] ELSE None
Lookup(s, p) == IF p \in DOMAIN s.cache THEN s.cache[p] ELSE Stable(p)

\* read_page
Fetch(s, p) ==
  IF p \in DOMAIN s.cache THEN Touch(s, p)
                          ELSE Evict(Touch(Insert(s, p, durable[p]), p))

-----------------------------------------------------------------------------
(* Undo pages and writes.                                                  *)

NewLevel(name, s) ==
  [name |-> name, header |-> s.header, undo |-> <<>>, dirty |-> {}, owner |-> owner]

\* Fault: a page that the transaction has noted is not noted for the savepoint.
NoteUndoOnce(s, p, before) ==
  IF p \in DOMAIN s.levels[1].undo THEN s
  ELSE [s EXCEPT !.levels = [i \in DOMAIN s.levels |->
          IF i \in {1, Len(s.levels)}
            THEN [s.levels[i] EXCEPT !.undo = With(@, p, before)] ELSE s.levels[i]]]

\* The transaction and the innermost savepoint keep the first content noted.
NoteUndo(s, p, before) ==
  [s EXCEPT !.levels = [i \in DOMAIN s.levels |->
     IF i \in {1, Len(s.levels)} /\ p \notin DOMAIN s.levels[i].undo
       THEN [s.levels[i] EXCEPT !.undo = With(@, p, before)]
       ELSE s.levels[i]]]

MarkDirty(s, S) ==
  [s EXCEPT !.levels = [i \in DOMAIN s.levels |->
     IF i \in {1, Len(s.levels)}
       THEN [s.levels[i] EXCEPT !.dirty = @ \cup S] ELSE s.levels[i]]]

\* Does a write of p inside the transaction have to read the page first?
MustRead(s, p) ==
  /\ p \notin DOMAIN s.levels[1].undo
  /\ p \notin DOMAIN s.cache
  /\ p <= s.levels[1].header.total

\* Fault: the content in the cache is not noted.
PutInTxUnnoted(s, p, v) ==
  MarkDirty(Insert(NoteUndo(s, p, IF MustRead(s, p) THEN durable[p] ELSE None), p, v), {p})

\* write_page inside a transaction.
PutInTx(s, p, v) ==
  LET before == IF p \in DOMAIN s.cache THEN s.cache[p]
                ELSE IF MustRead(s, p) THEN durable[p] ELSE None
      loaded == IF MustRead(s, p) THEN Fetch(s, p) ELSE s
  IN  MarkDirty(Insert(NoteUndo(loaded, p, before), p, v), {p})

\* write_page outside a transaction, up to the log.
PutAlone(s, p, v) == Evict(Touch(Insert(s, p, v), p))

Put(s, p, v) == IF InTx(s) THEN PutInTx(s, p, v) ELSE PutAlone(s, p, v)

\* What is durable once page p has been written with content v under header h.
Stored(d, h, p, v) ==
  [durable |-> With(d.durable, p, v), header |-> IF p = 1 THEN h ELSE d.header]

OnDisk == [durable |-> durable, header |-> durableHeader]

Persist(d) == durable' = d.durable /\ durableHeader' = d.header

\* A log without a file gives up its frames when it is checkpointed; the pages
\* that are not in memory are copied there.
Absorb(s, d) ==
  [s EXCEPT !.cache = [p \in DOMAIN @ \cup DOMAIN d.durable |->
                         IF p \in DOMAIN @ THEN @[p] ELSE d.durable[p]]]

\* The frames that make d are in the log, which is checkpointed once it has grown
\* enough.  With a file, a checkpoint moves contents but changes none.
Settle(s, d) ==
  \/ Become(s) /\ Persist(d)
  \/ /\ options.inMemory
     /\ Become(Absorb(s, d))
     /\ Persist([d EXCEPT !.durable = <<>>])

\* A write outside a transaction succeeds, or its last frame fails: then the
\* next open may find what is stored (d) or that frame as well (found).
AutoOk(s, d, o) ==
  /\ ~ ioFailed
  /\ Settle(s, d)
  /\ owner' = o
  /\ UNCHANGED <<ioFailed, doubt>>

AutoFails(s, d, found, o) ==
  /\ ~ options.inMemory
  /\ Become(s)
  /\ Persist(d)
  /\ ioFailed' = TRUE
  /\ doubt' = IF ioFailed THEN doubt
              ELSE [durable |-> found.durable, header |-> found.header, owner |-> o]
  /\ UNCHANGED owner

InTxStep(s, o) ==
  /\ Become(s)
  /\ owner' = o
  /\ UNCHANGED <<durableVars, ioFailed, doubt>>

Worked == work < MaxWork /\ work' = work + 1

\* A page that is not in memory cannot be read after an I/O failure.
CanRead(p) == p \in DOMAIN cache \/ (~ ioFailed /\ p \in DOMAIN durable)

-----------------------------------------------------------------------------
(* Operations on pages.                                                    *)

\* read_page, and with_page, which puts the page back if the eviction that its
\* own loading caused has taken it.
Read(p) ==
  /\ ~ ioFailed /\ owner[p] = "live" /\ Readable(Now, p)
  /\ \E pin \in BOOLEAN :
       /\ pin => p \notin DOMAIN cache
       /\ Become(IF pin THEN Insert(Fetch(Now, p), p, durable[p]) ELSE Fetch(Now, p))
  /\ UNCHANGED <<durableVars, ioFailed, doubt, work, owner>>

\* write_page and modify_page.
Write(p) ==
  /\ Worked
  /\ owner[p] # "free"
  /\ LET v == Holding(work + 1)
         o == [owner EXCEPT ![p] = "live"]
         d == Stored(OnDisk, header, p, v)
     IN \/ /\ InTx(Now)
           /\ MustRead(Now, p) => CanRead(p)
           /\ InTxStep(PutInTx(Now, p, v), o)
        \/ /\ ~ InTx(Now)
           /\ \/ AutoOk(PutAlone(Now, p, v), d, o)
              \/ AutoFails(PutAlone(Now, p, v), OnDisk, d, o)

\* The end of allocate_page: the page is zeroed in memory, and page 1 is written
\* for its header.  before is the content to restore on rollback.
Allocated(s, id, before) ==
  IF InTx(s)
    THEN MarkDirty(Evict(Touch(Insert(NoteUndo(s, id, before), id, Empty), id)), {1, id})
    ELSE Evict(Touch(Insert(s, id, Empty), id))

\* d is what is durable by then.
Allocate(s, d, id, before) ==
  LET r == Allocated(s, id, before)
      o == [owner EXCEPT ![id] = "new"]
      e == Stored(d, r.header, 1, Lookup(r, 1))
  IN \/ InTx(s) /\ InTxStep(r, o)
     \/ ~ InTx(s) /\ AutoOk(r, e, o)
     \/ ~ InTx(s) /\ AutoFails(r, d, e, o)

FreeTrunk == header.free > 0 /\ header.trunk > 0

\* allocate_page with an empty freelist.
AllocateNew ==
  /\ Worked
  /\ ~ FreeTrunk
  /\ header.total + 1 \in Page
  /\ LET id == header.total + 1
     IN  Allocate([Now EXCEPT !.header.total = id], OnDisk, id, None)

\* allocate_page that takes the last slot of the trunk.
AllocateSlot ==
  /\ Worked
  /\ FreeTrunk /\ CanRead(header.trunk) /\ ~ ioFailed
  /\ LET t  == header.trunk
         s0 == Fetch(Now, t)
         tr == Lookup(Now, t)
         v  == Trunk(tr.next, Front(tr.slots))
         s1 == Put(s0, t, v)
         d  == IF InTx(Now) THEN OnDisk ELSE Stored(OnDisk, header, t, v)
         id == Last(tr.slots)
         s2 == Fetch([s1 EXCEPT !.header.free = @ - 1], id)
     IN  /\ tr.slots # <<>>
         /\ id \in DOMAIN s1.cache \cup DOMAIN durable
         /\ \/ Allocate(s2, d, id, Lookup(s1, id))
            \/ ~ InTx(Now) /\ AutoFails(s1, OnDisk, d, owner)

\* allocate_page that takes the trunk itself, when it has no slot left.
AllocateTrunk ==
  /\ Worked
  /\ FreeTrunk /\ CanRead(header.trunk) /\ ~ ioFailed
  /\ LET t  == header.trunk
         s0 == Fetch(Now, t)
         tr == Lookup(Now, t)
         s1 == [s0 EXCEPT !.header.trunk = tr.next, !.header.free = @ - 1]
     IN  /\ tr.slots = <<>>
         /\ Allocate(Fetch(s1, t), OnDisk, t, tr)

\* free_page: into a slot of the trunk, or as a new trunk.  Outside a
\* transaction the header that counts the page is not written.
Free(p) ==
  /\ Worked
  /\ p # 1 /\ owner[p] = "live"
  /\ header.trunk # 0 => ~ ioFailed
  /\ LET t    == header.trunk
         tr   == Lookup(Now, t)
         slot == t # 0 /\ Len(tr.slots) < SlotsPerTrunk
         s0   == IF t # 0 THEN Fetch(Now, t) ELSE Now
         q    == IF slot THEN t ELSE p
         v    == IF slot THEN Trunk(tr.next, Append(tr.slots, p)) ELSE Trunk(t, <<>>)
         s1   == Put(s0, q, v)
         s2   == [s1 EXCEPT !.header.free = IF t = 0 THEN 1 ELSE @ + 1,
                            !.header.trunk = q]
         o    == [owner EXCEPT ![p] = "free"]
         d    == Stored(OnDisk, header, q, v)
     IN  /\ t # 0 => CanRead(t)
         /\ InTx(Now) => (MustRead(s0, q) => CanRead(q))
         /\ \/ InTx(Now) /\ InTxStep(s2, o)
            \/ ~ InTx(Now) /\ AutoOk(s2, d, o)
            \/ ~ InTx(Now) /\ AutoFails(s1, OnDisk, d, o)

-----------------------------------------------------------------------------
(* Transactions and savepoints.                                            *)

\* begin_transaction
Begin ==
  /\ ~ InTx(Now) /\ ~ ioFailed
  /\ levels' = <<NewLevel(None, Now)>>
  /\ UNCHANGED <<options, cache, lru, header, durableVars, ioFailed, doubt, work, owner>>

\* create_savepoint, which begins a transaction when there is none.
CreateSavepoint(name) ==
  /\ InTx(Now) \/ ~ ioFailed
  /\ levels' = (IF InTx(Now) THEN levels ELSE <<NewLevel(None, Now)>>)
                 \o <<NewLevel(name, Now)>>
  /\ Len(levels') <= options.levels
  /\ UNCHANGED <<options, cache, lru, header, durableVars, ioFailed, doubt, work, owner>>

\* The pages that a commit writes.
ToWrite(s) == {p \in s.levels[1].dirty \cup {1} : p <= s.header.total /\ p \in DOMAIN s.cache}

Committed(s) ==
  [durable |-> [p \in DOMAIN durable \cup ToWrite(s) |->
                  IF p \in ToWrite(s) THEN s.cache[p] ELSE durable[p]],
   header |-> s.header]

\* commit_transaction
Commit ==
  /\ InTx(Now) /\ ~ ioFailed
  /\ LET d == Committed(Now)
         s == [Now EXCEPT !.levels = <<>>]
     IN \/ Become(Evict(s)) /\ Persist(d)
        \/ options.inMemory /\ Become(Evict(Absorb(s, d))) /\ Persist([d EXCEPT !.durable = <<>>])
  /\ UNCHANGED <<ioFailed, doubt, work, owner>>

\* A commit that fails leaves the transaction open.  It truncates the log; when
\* that fails as well, the next open may find the transaction committed.
CommitFails ==
  /\ InTx(Now) /\ ~ options.inMemory
  /\ Become([Now EXCEPT !.levels[1].dirty = @ \cup {1}])
  /\ ioFailed' \in BOOLEAN
  /\ doubt' = IF ~ ioFailed' THEN None
              ELSE IF ioFailed THEN doubt
              ELSE [durable |-> Committed(Now).durable, header |-> header, owner |-> owner]
  /\ UNCHANGED <<durableVars, work, owner>>

\* wal.rollback_to clears an earlier failure, or fails again.  A log that has not
\* failed holds nothing of the open transaction.
LogTruncated ==
  \/ ioFailed' = FALSE /\ doubt' = None
  \/ ioFailed /\ UNCHANGED <<ioFailed, doubt>>

\* What undoing levels k .. n restores: the oldest content noted for each page.
Undone(s, k, n) ==
  LET pages == UNION {DOMAIN s.levels[j].undo : j \in k .. n}
  IN  [p \in pages |->
         LET j == CHOOSE j \in k .. n :
                    /\ p \in DOMAIN s.levels[j].undo
                    /\ \A i \in k .. j - 1 : p \notin DOMAIN s.levels[i].undo
         IN  s.levels[j].undo[p]]

\* The pages noted in u are put back, the most recently used last; order is that
\* in which the hash map yields them.
Restored(s, u, order) ==
  LET gone == {p \in DOMAIN u : u[p] = None}
  IN  [s EXCEPT
        !.cache = [p \in (DOMAIN @ \cup DOMAIN u) \ gone |-> IF p \in DOMAIN u THEN u[p] ELSE @[p]],
        !.lru = Only(@, Page \ DOMAIN u) \o order]

Orders(u) == SetToSeqs({p \in DOMAIN u : u[p] # None})

\* Fault: the header is not restored.
RollbackHeaderKept ==
  /\ InTx(Now)
  /\ \E order \in Orders(levels[1].undo) :
       Become([Restored(Now, levels[1].undo, order) EXCEPT !.levels = <<>>])
  /\ LogTruncated
  /\ owner' = levels[1].owner
  /\ UNCHANGED <<durableVars, work>>

\* rollback_transaction.  The transaction ends even when the log cannot be
\* truncated.
Rollback ==
  /\ InTx(Now)
  /\ LET u == levels[1].undo
     IN  \E order \in Orders(u) :
           Become([Restored(Now, u, order) EXCEPT !.header = levels[1].header, !.levels = <<>>])
  /\ LogTruncated
  /\ owner' = levels[1].owner
  /\ UNCHANGED <<durableVars, work>>

\* The innermost savepoint of that name.
Named(name, k) ==
  /\ k \in 2 .. Len(levels) /\ levels[k].name = name
  /\ \A j \in k + 1 .. Len(levels) : levels[j].name # name

\* rollback_to_savepoint undoes the savepoints from the innermost to level k, and
\* opens level k again.
RollbackTo(name) ==
  \E k \in DOMAIN levels :
    /\ Named(name, k)
    /\ LET u  == Undone(Now, k, Len(levels))
           at == [levels[k] EXCEPT !.undo = <<>>, !.dirty = {}]
       IN  \E order \in Orders(u) :
             Become([Restored(Now, u, order) EXCEPT
                      !.header = levels[k].header,
                      !.levels = Append(SubSeq(levels, 1, k - 1), at)])
    /\ ioFailed' = FALSE /\ doubt' = None
    /\ owner' = levels[k].owner
    /\ UNCHANGED <<durableVars, work>>

\* It fails, after an earlier I/O failure, with the innermost savepoint undone.
RollbackToFails(name) ==
  /\ ioFailed
  /\ \E k \in DOMAIN levels : Named(name, k)
  /\ LET n == Len(levels)
         u == levels[n].undo
     IN  /\ \E order \in Orders(u) :
              Become([Restored(Now, u, order) EXCEPT
                       !.header = levels[n].header, !.levels = Front(levels)])
         /\ owner' = levels[n].owner
  /\ UNCHANGED <<durableVars, ioFailed, doubt, work>>

\* release_savepoint: the undo pages of level k and those inside it go to the
\* savepoint around it, if there is one; the transaction has them already.
Release(name) ==
  \E k \in DOMAIN levels :
    /\ Named(name, k)
    /\ LET outer == SubSeq(levels, 1, k - 1)
           u     == Undone(Now, k - 1, Len(levels))
           d     == UNION {levels[j].dirty : j \in k - 1 .. Len(levels)}
       IN  levels' = IF k = 2 THEN outer
                     ELSE [outer EXCEPT ![k - 1].undo = u, ![k - 1].dirty = d]
    /\ UNCHANGED <<options, cache, lru, header, durableVars, ioFailed, doubt, work, owner>>

\* Pager::checkpoint on an in-memory database.
Checkpoint ==
  /\ options.inMemory
  /\ Become(Absorb(Now, OnDisk))
  /\ Persist([OnDisk EXCEPT !.durable = <<>>])
  /\ UNCHANGED <<ioFailed, doubt, work, owner>>

\* A crash, and the next open, which loads page 1 for the catalog.
Crash ==
  /\ ~ options.inMemory
  /\ LET here == [durable |-> durable, header |-> durableHeader,
                  owner |-> IF InTx(Now) THEN levels[1].owner ELSE owner]
     IN  \E d \in {here, doubt} \ {None} :
           /\ Persist([durable |-> d.durable, header |-> d.header])
           /\ Become([cache |-> [p \in {1} |-> d.durable[1]], lru |-> <<1>>,
                      header |-> d.header, levels |-> <<>>])
           /\ owner' = d.owner
  /\ ioFailed' = FALSE
  /\ doubt' = None
  /\ UNCHANGED work

-----------------------------------------------------------------------------
Init ==
  /\ options \in Options
  /\ cache = [p \in {1} |-> Empty] /\ lru = <<1>>
  /\ header = [total |-> options.pages, trunk |-> 0, free |-> 0]
  /\ levels = <<>>
  /\ durable = IF options.inMemory THEN <<>> ELSE [p \in 1 .. options.pages |-> Empty]
  /\ durableHeader = header
  /\ ioFailed = FALSE /\ doubt = None /\ work = 0
  /\ owner = [p \in Page |-> IF p <= options.pages THEN "live" ELSE "free"]

Next ==
  \/ \E p \in Page : Read(p) \/ Write(p) \/ Free(p)
  \/ AllocateNew \/ AllocateSlot \/ AllocateTrunk
  \/ Begin \/ Commit \/ CommitFails \/ Rollback
  \/ \E name \in Name :
       CreateSavepoint(name) \/ RollbackTo(name) \/ RollbackToFails(name) \/ Release(name)
  \/ Checkpoint \/ Crash

Spec == Init /\ [][Next]_vars

-----------------------------------------------------------------------------
(* Properties.                                                             *)

TypeOK ==
  /\ options \in Options
  /\ DOMAIN cache \subseteq Page /\ \A p \in DOMAIN cache : cache[p] \in Content
  /\ lru \in Seq(DOMAIN cache) /\ \A i, j \in DOMAIN lru : i # j => lru[i] # lru[j]
  /\ header \in Header /\ durableHeader \in Header
  /\ \A i \in DOMAIN levels :
       /\ levels[i].header \in Header /\ levels[i].dirty \subseteq Page
       /\ DOMAIN levels[i].undo \subseteq Page
       /\ \A p \in DOMAIN levels[i].undo : levels[i].undo[p] \in Content \cup {None}
  /\ DOMAIN durable \subseteq Page /\ \A p \in DOMAIN durable : durable[p] \in Content
  /\ ioFailed \in BOOLEAN /\ work \in 0 .. MaxWork /\ owner \in [Page -> Owner]

\* The content that page p had when level k was opened.
Before(k, p) ==
  LET u == Undone(Now, k, Len(levels))
  IN  IF p \in DOMAIN u THEN (IF u[p] = None THEN Stable(p) ELSE u[p]) ELSE Lookup(Now, p)

\* No live page is lost.
LivePagesReadable == \A p \in Live(owner) : Readable(Now, p)

\* The i-th trunk of the freelist, 0 past its end.
TrunkAt[i \in 1 .. Cardinality(Page)] ==
  IF i = 1 THEN header.trunk
  ELSE IF TrunkAt[i - 1] = 0 \/ ~ Readable(Now, TrunkAt[i - 1]) THEN 0
  ELSE Lookup(Now, TrunkAt[i - 1]).next

\* The places in the freelist: slot 0 of a trunk is the trunk itself.
Slots(i)   == Lookup(Now, TrunkAt[i]).slots
Trunks     == {i \in DOMAIN TrunkAt : TrunkAt[i] # 0 /\ Readable(Now, TrunkAt[i])}
Offers     == UNION {{i} \X (0 .. Len(Slots(i))) : i \in Trunks}
Offered(x) == IF x[2] = 0 THEN TrunkAt[x[1]] ELSE Slots(x[1])[x[2]]

\* A page is offered by the freelist at most once, and never while somebody has
\* it, and nobody has a page past the end: allocate_page cannot hand out a page
\* twice, whatever was rolled back.
NoDoubleAllocation ==
  /\ TypeOK
  /\ ~ ioFailed =>
       /\ \A i \in DOMAIN TrunkAt : TrunkAt[i] = 0 \/ i \in Trunks
       /\ \A x, y \in Offers : Offered(x) = Offered(y) => x = y
       /\ \A x \in Offers : owner[Offered(x)] = "free" /\ Offered(x) <= header.total
       /\ \A p \in Page : owner[p] # "free" => p <= header.total

\* The live pages as they are read, as a crash leaves them, as each open level restores
\* them, and as the next open may find them in place of what is stored.
PagesSeen   == [p \in Live(owner) |-> Lookup(Now, p)]
PagesStored == [p \in Live(IF InTx(Now) THEN levels[1].owner ELSE owner) |->
                  IF ~ options.inMemory THEN Stable(p)
                  ELSE IF InTx(Now) THEN Before(1, p) ELSE Lookup(Now, p)]
PagesSaved  == [k \in DOMAIN levels |-> [p \in Live(levels[k].owner) |-> Before(k, p)]]
PagesDoubted ==
  IF doubt = None THEN {} ELSE {[p \in Live(doubt.owner) |-> doubt.durable[p]]}

Abstract == INSTANCE PageStore WITH
  view <- PagesSeen, stored <- PagesStored, saved <- PagesSaved, doubt <- PagesDoubted

\* The pager implements the store with nested savepoints.
ImplementsPageStore == Abstract!Spec

=============================================================================

---------------------------- MODULE RemoteStore ----------------------------
(***************************************************************************)
(* A database in a remote object store (Pager::open_remote,                *)
(* open_remote_writable and push_remote of src/pager/mod.rs).  A client    *)
(* fetches the pages of the object one by one, when it needs them, and     *)
(* keeps them in a cache.  A writer changes pages in its cache and in a    *)
(* log that is in memory too, until push_remote replaces the whole object. *)
(*                                                                         *)
(* Calls of one client exclude each other.  Calls of two do not, and       *)
(* neither do the fetches of a push and the push of somebody else.  The    *)
(* content of a page is the number of its last change; page 1 carries the  *)
(* header, with the number of pages, and is part of every object.          *)
(***************************************************************************)
EXTENDS Naturals, Sequences, SequencesExt, FiniteSets, Functions

CONSTANTS
  Writer, Reader, \* the clients, which open_remote_writable and open_remote serve
  Capacity,  \* pages that the cache of a writer keeps (the code allows 4 or more)
  MaxPages, MaxWrites, MaxPuts, \* bounds of the object, its changes and its pushes
  MaxShared, \* bound of the changes while several writers have the object open
  None

VARIABLES
  puts,    \* every object that was stored, the current one last
  pager,   \* of each client that has opened the object
  meant,   \* history: the pages as the statements of each writer have left them, now
           \* and when the transaction began that it is in
  fate,    \* history: what may become, and has become, of the pages of each writer
  written  \* the changes made so far

vars == <<puts, pager, meant, fate, written>>
Client == Writer \cup Reader
object == Last(puts)

-----------------------------------------------------------------------------
(* The pager of a client.                                                  *)

\* open_remote, open_remote_writable: only the header is fetched; an empty object becomes
\* a database of one page, which is in the cache.
Opened(obj) ==
  [total  |-> IF obj = <<>> THEN 1 ELSE Len(obj),
   cache  |-> IF obj = <<>> THEN <<0>> ELSE <<>>,
   frames |-> <<>>,                \* the log: the last frame of each page
   begun  |-> None,                \* total_pages at BEGIN
   undo   |-> <<>>, dirty |-> {},  \* and the undo log of the transaction
   pushed |-> None]                \* the pages that a push has gathered

InTx(s)  == s.begun # None
Idle(c)  == pager[c] # None /\ pager[c].pushed = None
Ready(c) == Idle(c) /\ 1 \in DOMAIN pager[c].cache \* the catalog was loaded, from page 1
Set(f, p, v) == [q \in DOMAIN f \cup {p} |-> IF q = p THEN v ELSE f[q]]

\* Fault: the log is looked at before the cache.
ContentOfLog(s, p) ==
  IF p \in DOMAIN s.frames THEN s.frames[p]
  ELSE IF p \in DOMAIN s.cache THEN s.cache[p] ELSE object[p]

\* What read_page finds: the cache, the log, or the object as it is now.
Holds(s, p) == p \in DOMAIN s.cache \cup DOMAIN s.frames \cup DOMAIN object
Content(s, p) ==
  IF p \in DOMAIN s.cache THEN s.cache[p]
  ELSE IF p \in DOMAIN s.frames THEN s.frames[p] ELSE object[p]

\* evict_if_needed.  Any page may be the least recently used one.  A reader has no log,
\* and evicts nothing.
Evictions(c, s) ==
  LET free   == {p \in DOMAIN s.cache :
                   p # 1 /\ ~ (InTx(s) /\ p \in DOMAIN s.undo \cup s.dirty)}
      excess == Cardinality(DOMAIN s.cache) - Capacity
  IN  IF c \in Reader \/ Cardinality(DOMAIN s.cache) <= Capacity THEN {s}
      ELSE {[s EXCEPT !.cache = Restrict(s.cache, DOMAIN s.cache \ out)] :
              out \in {o \in SUBSET free :
                         Cardinality(o) = IF excess < Cardinality(free) THEN excess
                                          ELSE Cardinality(free)}}

\* The pagers that reading page p may leave.
Reads(c, s, p) ==
  IF p \in DOMAIN s.cache THEN {s}
  ELSE Evictions(c, [s EXCEPT !.cache = Set(@, p, Content(s, p))])

NoPages == [now |-> <<>>, before |-> <<>>]
Become(c, s) == pager' = [pager EXCEPT ![c] = s]
Meant(w, pages) == meant' = [meant EXCEPT ![w].now = pages]
Users   == {w \in Writer : pager[w] # None}
Written ==
  /\ written < MaxWrites /\ (Cardinality(Users) > 1 => written < MaxShared)
  /\ written' = written + 1

-----------------------------------------------------------------------------
(* What becomes of the pages of a writer.                                  *)

\* Pages whose last change may be in the cache alone, not in the log nor in the object; those
\* written past the undo log of the transaction; those evicted while the cache alone had
\* them; those written past the undo log of a transaction that was rolled back; and those
\* for which the writer depended on an object that another one has replaced.
Untouched(alone) ==
  [alone |-> alone, past |-> {}, evicted |-> {}, kept |-> {}, replaced |-> {}]

\* The writer no longer has what its statements left.
Lost(w) == fate[w].evicted \cup fate[w].kept \cup fate[w].replaced

\* The pages out leave the cache.
LetGo(h, out) == [h EXCEPT !.alone = @ \ out, !.evicted = @ \cup (h.alone \cap out)]

\* Between the pagers s and u of a writer only reading and evicting happened.
Evicted(h, s, u) == LetGo(h, DOMAIN s.cache \ DOMAIN u.cache)

Fares(w, h) == fate' = [fate EXCEPT ![w] = h]

-----------------------------------------------------------------------------
(* Calls.                                                                  *)

Open(c) ==
  /\ pager[c] = None
  /\ IF c \in Reader THEN object # <<>> ELSE Users = {} \/ written <= MaxShared
  /\ Become(c, Opened(object))
  /\ IF c \in Writer
     THEN LET pages == IF object = <<>> THEN <<0>> ELSE object
          IN  /\ meant' = [meant EXCEPT ![c] = [now |-> pages, before |-> <<>>]]
              /\ Fares(c, Untouched(IF object = <<>> THEN {1} ELSE {}))
     ELSE UNCHANGED <<meant, fate>>
  /\ UNCHANGED <<puts, written>>

Read(c, p) ==
  /\ Idle(c) /\ p <= pager[c].total /\ Holds(pager[c], p)
  /\ Ready(c) \/ p = 1
  /\ \E s \in Reads(c, pager[c], p) :
       /\ Become(c, s)
       /\ IF c \in Writer THEN Fares(c, Evicted(fate[c], pager[c], s)) ELSE UNCHANGED fate
  /\ UNCHANGED <<puts, meant, written>>

\* write_page: the writer of a remote object puts the page in the cache and returns,
\* ahead of everything that a rollback or a commit would need.
Write(w, p) ==
  /\ Ready(w) /\ Written
  /\ p <= pager[w].total
  /\ LET s == pager[w]
     IN  /\ Become(w, [s EXCEPT !.cache = Set(@, p, written')])
         /\ Fares(w, [fate[w] EXCEPT
                        !.alone = IF p \in s.dirty THEN @ ELSE @ \cup {p},
                        !.past = IF InTx(s) /\ p \notin DOMAIN s.undo THEN @ \cup {p} ELSE @])
  /\ Meant(w, [meant[w].now EXCEPT ![p] = written'])
  /\ UNCHANGED puts

\* modify_page: inside a transaction it saves the page for a rollback and marks it dirty;
\* outside it ends with write_page.
Modify(w, p) ==
  /\ Ready(w) /\ Written
  /\ p <= pager[w].total /\ Holds(pager[w], p)
  /\ \E s \in Reads(w, pager[w], p) :
       LET undo  == IF InTx(s) /\ p \notin DOMAIN s.undo
                    THEN Set(s.undo, p, Content(pager[w], p)) ELSE s.undo
           dirty == IF InTx(s) THEN s.dirty \cup {p} ELSE s.dirty
           h     == Evicted(fate[w], pager[w], s)
       IN  /\ Become(w, [s EXCEPT !.cache = Set(@, p, written'), !.undo = undo, !.dirty = dirty])
           /\ Fares(w, IF InTx(s) THEN h ELSE [h EXCEPT !.alone = @ \cup {p}])
  /\ Meant(w, [meant[w].now EXCEPT ![p] = written'])
  /\ UNCHANGED puts

\* allocate_page with an empty freelist: an empty page, which is not dirty.
Allocate(w) ==
  /\ Ready(w) /\ Written
  /\ pager[w].total < MaxPages
  /\ LET s    == pager[w]
         id   == s.total + 1
         undo == IF InTx(s) /\ id \notin DOMAIN s.undo THEN Set(s.undo, id, None) ELSE s.undo
     IN  /\ Become(w, [s EXCEPT !.total = id, !.cache = Set(@, id, 0), !.undo = undo])
         /\ Meant(w, Append(meant[w].now, 0))
         /\ Fares(w, [fate[w] EXCEPT !.alone = @ \cup {id}])
  /\ UNCHANGED puts

Begin(w) ==
  /\ Ready(w) /\ ~ InTx(pager[w])
  /\ Become(w, [pager[w] EXCEPT !.begun = pager[w].total])
  /\ meant' = [meant EXCEPT ![w].before = meant[w].now]
  /\ UNCHANGED <<puts, fate, written>>

\* checkpoint without a file moves to the cache the frames of the pages that are not there,
\* and forgets them all.
Checkpointed(s) ==
  [s EXCEPT !.cache = [p \in DOMAIN s.cache \cup DOMAIN s.frames |->
                         IF p \in DOMAIN s.cache THEN s.cache[p] ELSE s.frames[p]],
            !.frames = <<>>]

\* checkpoint and VACUUM, in or outside a transaction.
Checkpoint(w) ==
  /\ Ready(w)
  /\ Become(w, Checkpointed(pager[w]))
  /\ Fares(w, [fate[w] EXCEPT !.alone = @ \cup DOMAIN pager[w].frames])
  /\ UNCHANGED <<puts, meant, written>>

\* commit_transaction: the dirty pages, and page 1, become frames.  When there are then as many
\* frames as the threshold says, unless it is turned off, the log is checkpointed.
Commit(w) ==
  /\ Ready(w) /\ InTx(pager[w])
  /\ \E full \in BOOLEAN :
       LET s     == pager[w]
           dirty == {p \in s.dirty \cup {1} : p <= s.total /\ p \in DOMAIN s.cache}
           frames == [p \in DOMAIN s.frames \cup dirty |->
                        IF p \in dirty THEN s.cache[p] ELSE s.frames[p]]
           t == [s EXCEPT !.frames = frames, !.begun = None, !.undo = <<>>, !.dirty = {}]
           left == IF full THEN Checkpointed(t) ELSE t
           h == [fate[w] EXCEPT !.past = {},
                   !.alone = IF full THEN @ \cup DOMAIN frames ELSE @ \ dirty]
       IN  \E u \in Evictions(w, left) : Become(w, u) /\ Fares(w, Evicted(h, left, u))
  /\ meant' = [meant EXCEPT ![w].before = <<>>]
  /\ UNCHANGED <<puts, written>>

\* rollback_transaction: what the undo log holds comes back.
Rollback(w) ==
  /\ Ready(w) /\ InTx(pager[w])
  /\ LET s == pager[w]
         restored == {p \in DOMAIN s.undo : s.undo[p] # None}
         kept == (DOMAIN s.cache \ DOMAIN s.undo) \cup restored
     IN  Become(w, [s EXCEPT !.cache = [p \in kept |-> IF p \in restored THEN s.undo[p]
                                                       ELSE s.cache[p]],
                             !.total = s.begun,
                             !.begun = None, !.undo = <<>>, !.dirty = {}])
  /\ meant' = [meant EXCEPT ![w] = [now |-> @.before, before |-> <<>>]]
  /\ Fares(w, [fate[w] EXCEPT !.alone = @ \cap 1 .. pager[w].begun, !.past = {},
                              !.kept = @ \cup fate[w].past])
  /\ UNCHANGED <<puts, written>>

\* push_remote reads every page, and so may fetch some of them, ...
PushStart(w) ==
  /\ Ready(w) /\ Len(puts) <= MaxPuts
  /\ Become(w, [pager[w] EXCEPT !.pushed = <<>>])
  /\ UNCHANGED <<puts, meant, fate, written>>

PushRead(w) ==
  /\ pager[w] # None /\ pager[w].pushed # None
  /\ LET p == Len(pager[w].pushed) + 1
     IN  /\ p <= pager[w].total /\ Holds(pager[w], p)
         /\ \E s \in Reads(w, pager[w], p) :
              /\ Become(w, [s EXCEPT !.pushed = Append(@, Content(pager[w], p))])
              /\ Fares(w, Evicted(fate[w], pager[w], s))
  /\ UNCHANGED <<puts, meant, written>>

\* What a push of w makes of the pages of v: its own are in the object, but the log may hide
\* them there, or the transaction be rolled back; those that another one has neither in its
\* log nor, changed, in its cache may have been replaced.
Stored(w, v) ==
  LET s == pager[v]  h == fate[v]
  IN  IF v = w
      THEN [h EXCEPT !.alone = IF InTx(s) THEN @ \cup (s.dirty \ DOMAIN s.frames)
                               ELSE @ \cap DOMAIN s.frames]
      ELSE IF s = None THEN h
      ELSE [h EXCEPT !.replaced = @ \cup ((1 .. s.total) \ (h.alone \cup DOMAIN s.frames))]

\* ... and replaces the object.  The pages that it gathered stay as they are elsewhere.
PushPut(w) ==
  /\ pager[w] # None /\ pager[w].pushed # None
  /\ Len(pager[w].pushed) = pager[w].total
  /\ puts' = Append(puts, pager[w].pushed)
  /\ Become(w, [pager[w] EXCEPT !.pushed = None])
  /\ fate' = [v \in Writer |-> Stored(w, v)]
  /\ UNCHANGED <<meant, written>>

\* A fetch, or the put, fails: the call ends and nothing is stored.
PushFails(w) ==
  /\ pager[w] # None /\ pager[w].pushed # None
  /\ Become(w, [pager[w] EXCEPT !.pushed = None])
  /\ UNCHANGED <<puts, meant, fate, written>>

\* The connection is dropped, with everything that was not pushed.
Close(c) ==
  /\ Idle(c) /\ pager' = [pager EXCEPT ![c] = None]
  /\ IF c \in Writer
     THEN meant' = [meant EXCEPT ![c] = NoPages] /\ Fares(c, Untouched({}))
     ELSE UNCHANGED <<meant, fate>>
  /\ UNCHANGED <<puts, written>>

Init ==
  /\ puts \in {<< <<>> >>, << <<0, 0>> >>}
  /\ pager = [c \in Client |-> None]
  /\ meant = [w \in Writer |-> NoPages]
  /\ fate = [w \in Writer |-> Untouched({})]
  /\ written = 0

Next ==
  \/ \E c \in Client : Open(c) \/ Close(c) \/ \E p \in 1 .. MaxPages : Read(c, p)
  \/ \E w \in Writer :
       \/ Allocate(w) \/ Begin(w) \/ Checkpoint(w) \/ Commit(w) \/ Rollback(w)
       \/ \E p \in 1 .. MaxPages : Write(w, p) \/ Modify(w, p)
       \/ PushStart(w) \/ PushRead(w) \/ PushPut(w) \/ PushFails(w)

Spec == Init /\ [][Next]_vars

-----------------------------------------------------------------------------
(* Properties.                                                             *)

TypeOK ==
  /\ written \in 0 .. MaxWrites
  /\ puts \in Seq(Seq(0 .. MaxWrites))
  /\ \A c \in Client : pager[c] # None =>
       /\ pager[c].total \in 1 .. MaxPages
       /\ DOMAIN pager[c].cache \cup DOMAIN pager[c].frames \cup pager[c].dirty \subseteq 1 .. MaxPages

\* The writer reads page p as its statements left it.
SeesPage(w, p) == Holds(pager[w], p) /\ Content(pager[w], p) = meant[w].now[p]

\* A writer reads, page by page, what its statements wrote, and nothing that it has rolled
\* back, whether or not it was checkpointed or pushed: except pages that the cache let go
\* while it alone had their last change, pages written past the undo log in a transaction
\* that was rolled back, and pages that depended on an object which another writer replaced.
SeesOwnWrites ==
  /\ TypeOK
  /\ \A w \in Writer : pager[w] # None =>
       /\ pager[w].total = Len(meant[w].now)
       /\ \A p \in 1 .. pager[w].total : p \in Lost(w) \/ SeesPage(w, p)

\* Without each of these exceptions.
SeesAllBut(w, lost) ==
  pager[w] # None => \A p \in 1 .. pager[w].total : p \in lost \/ SeesPage(w, p)
EvictionLosesNothing == \A w \in Writer : SeesAllBut(w, fate[w].kept \cup fate[w].replaced)
RollbackUndoesAll    == \A w \in Writer : SeesAllBut(w, fate[w].evicted \cup fate[w].replaced)
PushesKeepApart      == \A w \in Writer : SeesAllBut(w, fate[w].evicted \cup fate[w].kept)

\* What a push stores is, page by page, what the statements of the writer left, those of an
\* open transaction among them: except the pages that the writer has lost.
PutIsOwn ==
  puts' # puts => \E w \in Writer :
    /\ pager[w] # None /\ pager[w].pushed # None /\ pager'[w].pushed = None
    /\ Len(Last(puts')) = Len(meant[w].now)
    /\ \A p \in DOMAIN meant[w].now : p \in Lost(w) \/ Last(puts')[p] = meant[w].now[p]
PushStoresOwn == [][PutIsOwn]_puts

\* What a push stores is a committed state.
PutIsCommitted ==
  puts' # puts => \E w \in Writer : pager[w] # None /\ ~ InTx(pager[w]) /\ Last(puts') = pager[w].pushed
PushIsCommitted == [][PutIsCommitted]_puts

\* The pages that a reader has fetched come from one object.  Nothing keeps a push from
\* coming between two fetches, so that this holds only until there is one.
OneObject ==
  \A r \in Reader : pager[r] # None =>
    \E i \in DOMAIN puts : IsRestriction(pager[r].cache, puts[i])
=============================================================================

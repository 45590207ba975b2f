# TapirusDB: formal models

TLA+ models of TapirusDB, the TLC runs that check them on small instances, and
proofs, checked by TLAPS, of what holds for every instance. All paths are
relative to the repository's root (`src/src/...` is the main crate,
`src/crates/...` its companions, as `PROJECT.json` spells them; this text drops
the first `src/`). Line numbers refer to one commit.

Contents: 1 the system, 2 plan, 3 modules, 4 runs, bounds and fairness,
5 where code and documents disagree, 6 variations, 7 observations, 8 proofs,
9 not modelled.

## 1. The system

TapirusDB is an embedded database in one Rust crate, with a smaller companion
for devices (`crates/tapirus-micro`) and bindings (`crates/tapirus-ffi`,
`crates/tapirus-wasm`). A process opens one file. From the bottom:

| Component | Source | State it keeps | Operations |
|---|---|---|---|
| Write-ahead log | `src/pager/wal.rs` | log file, frames in memory, latest frame per page, `io_failed` | append, commit frame, sync, `rollback_to`, `checkpoint`, `recover` |
| Pager | `src/pager/mod.rs` | header, page cache and LRU list, undo pages, named savepoints, freelist | read, write, allocate, free, begin, commit, rollback, savepoint, release, checkpoint, open |
| Compression | `src/pager/compression.rs` | none; a flag in the header | compress, decompress, frame |
| Replication | `src/pager/replication.rs` | sequence numbers in header and stream | export, verify, apply a snapshot |
| Remote pager | `src/pager/remote.rs`, `mod.rs` | pages fetched from an object store, block cache | open, fetch, push |
| Backup, lock file | `src/pager/mod.rs` | staged copy; lock file beside the database | copy, sync, rename; exclude a second process |
| B+Tree | `src/btree/` | pages: interior, leaves, overflow chains | insert, search, delete, scan |
| SQL front end | `src/sql/{lexer,parser,planner,codec}.rs` | none that outlives a call | tokens, statements, rows as bytes |
| SQL executor, catalog | `src/sql/{executor,catalog}.rs` | catalog, graph, memories, vector indexes as caches over tables; the last time given | statements, `atomic_statement`, transactions, AS OF |
| Graph engine | `src/graph/` | nodes, edges, adjacency lists | changes, paths, patterns, chains, retrieval |
| Memory engine | `src/memory/` | documents, inverted index, lists of scopes | store, upsert, forget, prune, recall |
| Vector indexes | `src/vector/` | graphs of vectors, pages and a cache | insert, remove, search, rebuild, persist |
| Connection | `src/lib.rs` | locks around pager and executor, queue of pending changes, event bus | execute, prepare, begin, commit, rollback, checkpoint, close |
| Change feed | `src/lib.rs`, `src/realtime/mod.rs` | pending changes with their savepoint depth, subscribers | queue, publish, filter, discard |
| Sessions | `src/session.rs` | owner of the transaction, closed flags, condition variable | execute, transaction closure, close, drop |
| Micro store, IoT import | `crates/tapirus-micro`, `src/iot.rs` | two banks of flash per slot, capsules, imported heads | put, delete, recover, export, import |
| C interface | `crates/tapirus-ffi` | statements with their rows, last error | prepare, step, column, reset, finalize |
| Document store, inference, command line, encryption | `src/document`, `src/tap`, `src/bin`, `src/crypto` | | not modelled (section 9) |

### How they interact

* `SessionDatabase` puts one `Connection` behind one mutex; a session's call
  takes the mutex, waits on a condition variable while another session owns the
  transaction, and then calls `Connection::execute`.
* `Connection` holds the locks of pager and executor for the whole of a
  statement, but queues and publishes its change after they were given up, and
  a prepared statement reads the catalog before it takes them.
* A statement outside a transaction is bracketed by the executor in a
  transaction of its own; inside one by a savepoint. When it fails, everything
  the executor caches is built anew from the pages.
* The pager collects dirty pages. A commit writes them to the log as frames,
  the last marked as the commit frame, and synchronizes it. If that fails, the
  log is cut back to the savepoint's frame count.
* A checkpoint copies the newest frame of each page to the base file,
  synchronizes it and empties the log; it is taken after a commit that fills
  the log, by `checkpoint`, by `close` and by recovery.
* Graph, memories and vector indexes live in memory, are changed together with
  their tables, and are loaded from them when a database is opened or a
  statement or transaction is undone.
* A device's capsules reach a database through an import that is one
  transaction of a session; a follower applies a snapshot in one transaction of
  its pager, past the executor.

### What is hard, and what makes each part correct

| Part | Hazards | Correct when |
|---|---|---|
| Log | crashes and power losses between any two steps, failure of any I/O call and of the call that undoes it | acknowledged transactions survive, others survive whole or not at all, the database opens again |
| Pager | undo at three levels over a cache that evicts and a log that is checkpointed; the freelist lives in pages that are rolled back | a caller sees what a store with whole snapshots would show; no page is handed out twice |
| Sessions | waiting, timeouts, closing, dropping, failing rollbacks | isolation, an owner for every transaction, no lost wakeup, an answer for every call |
| Change feed | several savepoints; changes queued outside the locks | the committed changes, once, in order |
| Executor | failing statements and rollbacks under caches and counters | caches are what the pages say; an index holds exactly its rows; a table is found as it was |
| B+Tree | splits that propagate, pages rebuilt and freed | an ordered map; every page free or owned once |
| Engines | tombstones, links to what is gone, stale postings, searches that mark what they saw | a search finds what is there |
| Text and bytes | edges of widths, overflowing lengths, quoting | what was written is read |
| Devices, followers, remote databases | loss, repetition, reordering, torn flash, two processes | nothing acknowledged is lost, nothing goes back, whole states only |

`PROJECT.json` lists the hazards one by one, each with its source line and the
properties that cover it.

## 2. Plan

Written, in the order of importance: `Wal`, `Pager`, `Session`, `Changes`;
`BTree`, `Tables`, `Replication`, `MicroStore`, `IotImport`, `LockFile`,
`GraphStore`, `MemoryStore`; `Hnsw`, `VectorIndex`, `Select`, `RemoteStore`,
`TimeTravel`; `GraphSearch`, `PagedHnsw`, `Prepared`, `Lexer`, `Conditions`,
`Codec`, `Compression`, `Recall`, `CApi`.

Left, in this order: window functions and EXPLAIN over `Select`; the inverted
vector index (`src/vector/ivf.rs`); the grammar of the other statements;
`Pager` over `Wal` in one module (today each states the part of the other that
it needs: `Pager` takes a commit as atomic, which is what `ImplementsStore`
shows of `Wal`). Proved so far: `Wal`, `Session`, `Pager`, `Changes`, `Tables`,
`Replication`, `MicroStore`, `IotImport`, `RemoteStore` and `LockFile` (section
8). Theorems left, in this order: that the memory engine follows its table
(`MemoryStore`); and the composition of `Pager` and `Wal`.

## 3. The modules

A definition commented with "Fault:" is no part of a specification. It is a
mutated form of a definition that follows it, kept to show that a property
depends on what the mutation takes away.

| Module | Models | Abstract specification, or meaning it is compared with |
|---|---|---|
| `Wal` | log, commit, checkpoint, recovery, crashes | `DurableStore`: atomic, durable transactions |
| `Pager` | cache, transactions, savepoints, freelist | `PageStore`: a store with whole snapshots |
| `Session` | sessions over one connection | `SessionStore`: isolated transactions |
| `Changes` | pending changes and their publication | histories of what was committed |
| `BTree` | a tree of pages | `OrderedMap` |
| `Tables` | rows, indexes, schema, catalog | the stack of contents of a transaction |
| `GraphStore`, `GraphSearch` | the graph and its tables; what is asked of it | its edges |
| `TimeTravel` | versions of rows and AS OF | the rows at each time |
| `MemoryStore`, `Recall` | memories and their table; what is recalled | the table; the memories |
| `Hnsw`, `VectorIndex`, `PagedHnsw` | graphs of vectors; their life over a table; in pages | nearest vectors; rows |
| `Select`, `MCSelect` | the paths of a SELECT; tables and queries | `Means`, one meaning for all of them |
| `Lexer`, `Conditions`, `Prepared` | tokens and texts of views; WHERE; INSERT with parameters, and its event | the tokens; three-valued logic; the statement |
| `Codec`, `Compression` | rows and pages as bytes | the rows, the pages |
| `Replication` | snapshots between databases | committed states |
| `RemoteStore` | databases in an object store | what the statements of each writer left |
| `LockFile` | processes, lock file, backup | one holder, one base for a log |
| `MicroStore`, `IotImport` | a device, its capsules and their import | acknowledged values |
| `CApi` | cursors of the C interface | the rows when a statement was prepared |

`MCWal`, `MCPager`, `MCBTree`, `MCSelect` hold instances; the runs of sessions,
changes and tables use the modules themselves. `MCExecutor`, `MCEngines`,
`MCServices` and `MCAlgorithms` each check several modules that share no state
in one run: a variable `part` chooses the module that takes the steps, the
others rest in an initial state, so that states add up instead of multiplying.
Theorems are in `WalProofs`, `SessionProofs`, `ChangesProofs`, `TablesProofs`,
`ServicesProofs` (about the parts of `MCServices`), and for the pager in `PagerLemmas` (levels,
lookups and the freelist; the invariant, and the operations on the cache) and
`PagerProofs` (transactions, crashes, the theorems). `OrderLemmas` holds what
they share.

What follows says how state and actions correspond to the code where names
alone do not.

**Wal.** The content of a page is the number of the transaction that wrote it.
`phase` is the call in progress: the pager's lock makes calls exclusive and
only a crash comes between their steps. Commit is `Commit`, `WriteFrame` per
frame, `WriteCommitFrame`, `WriteFrameFails`, `UndoCommit`; a checkpoint is
`CheckpointPage` per page, `CheckpointSync`, `ResetLog`, or their failures;
opening is `OpenWal`, `RecoverFrame`, `RecoverSync`. `log` is what the process
wrote, `flushed` how much left the `BufWriter`, `kept` the set of files a power
loss may leave. Frames survive as a prefix (the scan stops at the first bad
checksum). That a write after a truncation does not survive without it is an
assumption about the file system. A base page written at a power loss may be
`Torn`. Frame contents, checksums and failing reads are left out.

**Pager.** One action per public operation; `storage` stands for log and base
file together. `options` says how the database was opened: with a file or in
memory, and with which cache. A commit is atomic, may fail and be undone, or
fail and leave `ioFailed`. A checkpoint with a file changes no contents and is
`Wal`'s subject; in memory it moves frames to the cache and forgets them.

**Changes.** A statement takes two steps, as in the code: it executes under the
locks, then queues and publishes its change without them. `RollbackFails` and
`RollbackToFails` are calls that return an error when the pager has rolled back
already: the changes stay pending. Two histories say what the feed cannot know:
`moved`, what a RELEASE moved to an outer savepoint, and `stranded`, what a call
that then failed has undone.

**Session.** `Access(t)` is one turn under the mutex: refuse, go to sleep, or
serve and notify. `Session::transaction` is a chain of such calls, which
`Follow` links; a closure may return, fail or panic. A rollback that fails has
happened nevertheless.

**BTree.** Sizes are units of a leaf cell; replaced cells keep their space
until a page is rebuilt. Recursion over pages follows the code's
`insert_into_subtree_cow`.

**Tables.** One action per statement, each of which succeeds, fails and is
undone, or meets an open transaction; `mem` is the catalog in memory, `disk`
the pages. A failed statement, ROLLBACK and reopening all load the catalog
anew, which is where `next_row_id` falls back (section 5).

**GraphStore.** `Connection`'s functions change memory first and then make one
write after the other; INSERT NODE/EDGE run inside `atomic_statement`. `apart`
notes that storage failed between the two.

**TimeTravel.** Every row that a statement changes draws a time; versions are
closed and recorded in `__sys_time_travel`. Histories are kept beside the
state and are what AS OF is compared with.

**MemoryStore, Recall.** `MemoryStore` is storing and forgetting under failing
statements, rollbacks and changed limits; `Recall` is the inverted index, the
lists of scopes, and the three searches, with scores as small numbers in the
order of the code's.

**Hnsw, PagedHnsw.** A vector is a position on a line; ties go to the lesser
id (in the code to the order of the heap). `Hnsw` has the layers, the shrinking
of links, tombstones and rebuilding; `PagedHnsw` the cache and its list of use,
the link-less upper layers, and the tables it is written to.

**VectorIndex.** An index is its dimensions and a vector per row; a snapshot
holds the rows it was made of, for which the code has a checksum.

**GraphSearch, Select, Conditions, Lexer, Codec, Compression.** Pure
algorithms. The state is their input, which grows by one element per step, so
that TLC enumerates all inputs up to a bound; each is compared with a
definition that does not share its method.

**Prepared, CApi.** Statements as a caller sees them: prepared in one call,
executed in another, with other calls between the two.

**Replication.** A commit is atomic and durable. The network keeps every snapshot
for ever, so that it may arrive late, twice and out of order. `view` holds the
caches above the pager: the catalog, which every load replaces, and the graph,
which ROLLBACK and opening load from nothing and `reload_from_pager`, after a
snapshot, over the one that is there (`Reloaded`). A load may fail at any record
(`Unloaded`). The history `left` of each view are the records that the pages lost
behind the caches; `Shows` says that the graph has nothing else too much.

**RemoteStore.** Fetches and pushes of two clients interleave page by page.
`Write` is `write_page`, which the catalog and the B+tree use and which goes past
the undo log and the log; `Modify` is `modify_page`, which does not; a
transaction may do both with one page. Any cached page may be the least recently
used one, so that what `evict_if_needed` drops is any set of the right size.
The history `meant` has the pages as the statements of a writer have left them;
`fate` has what may become of each page (`alone`: the cache alone has its last
change; `past`: an open transaction wrote it past the undo log) and what did:
`evicted` while it was alone, `kept` by the rollback of what was past the undo
log, `replaced` in the object by another writer when this one had it nowhere
else. `Lost` unites the last three, and `SeesOwnWrites` speaks of all other
pages.

**LockFile.** One step per call of the file system, so that a process may stop
between the creation of the lock and the writing of its number, and two may be
past the look at a stale lock before either removes it (`FindStale`,
`RemoveStale`): the second then removes what the first has made. `robbed` has
those whose lock file another process removed, `raced` that two were about to
remove a stale one at the same time. A process knows the file at the path by
what is in it; the file's maker is in `lock.by`.

**MicroStore.** One step per flash operation; a power loss may come after each,
and may leave an erase or a program half done.

## 4. The runs

Deadlock is off where a system may simply stop: every thread idle and every
bound used up. TLC's coverage counts the steps of a composed module as one
action; the actions inside were seen to fire in separate instances.

| Run | Shows | Instance |
|---|---|---|
| `wal_crashes` | With process crashes or power losses and failing I/O at every step: file and memory agree, acknowledged commits survive, the store is atomic, the database opens, the tail is clean | 2 pages, 3 transactions, checkpoint at 4 frames |
| `pager` | Nested savepoints, evictions, failed commits and crashes show what whole snapshots would; no page is handed out twice | 2 pages and 3 levels, or 3 and 2, on a file with a cache of 1; in memory with a cache of 3; 2 names |
| `session_sharing` | An owner for each transaction, no lost wakeup, an answer for every call, whichever I/O fails | 3 threads, 2 sessions, clones |
| `session_closures` | Success means all, an error nothing; isolation, as refinement of `SessionStore` | 2 threads, 2 sessions, 2 writes |
| `executor` | Catalog, indexes, graph and history in memory are what the pages say, after statements that succeed, fail or are rolled back | 2 tables, 1 index, 2 columns, 2 rows, 4 statements; 3 nodes, 2 edges, 6 steps; 2 tables, 3 times, 3 statements |
| `engines` | The memory engine holds what its table holds; vector searches find the nearest; indexes follow rows; graph searches follow edges; all paths of SELECT return its meaning | 3 memories, 4 steps; 4 vectors, 5 steps; 2 tables, 2 rows, 6 statements; 3 nodes, 3 edges, 2 hops; all tables of up to 2 rows |
| `algorithms` | A tree is a map; what is written is read; statements mean what they say; indexes of pages and words are exact | 6 keys, 7 writes, 3 levels; texts of 5 characters; rows of 2 columns; pages of 15 bytes; 4 characters of LIKE, 7 words of a condition; 5 tokens; 3 calls; 3 vectors; 3 memories |
| `services` | The feed publishes committed changes in order, and of others only those whose rollback failed; snapshots are whole and never go back, but for what the graph keeps; holders of a database that meet have robbed each other of a stale lock; devices keep what they acknowledged; remote writers see and push their own changes, but for the pages they lost | 4 changes; 2 nodes, 2 commits, 1 failed load; 3 processes, 4 snapshots, 2 commits; 3 writes; 2 writers, 3 pages, a cache of 2, 3 changes, 1 push |
| `wal_checkpoint_in_tx`, `changes_uncommitted`, `btree_inside`, `tables_reloaded` | expected violations, section 5 | |

### Why the bounds are enough

* *Wal.* Two pages are the fewest for a commit with a frame that is not its
  commit frame; three transactions give one committed, one failed and one that
  follows both. A threshold of 4 frames makes automatic checkpoints happen.
* *Pager.* The cache bound is scaled down so that a few pages overflow it; one
  slot per trunk makes each second freed page a trunk; three levels are the
  transaction and two savepoints. Every record of `FileOrMemory` carries its
  own bound on levels.
* *Session.* Three threads: an owner, a waiter, and one that closes, drops or
  overtakes. `MaxSessions` also stands for the end of the session numbers,
  whose exhaustion the code checks.
* *BTree.* With two cells in a leaf and two separators in an interior page, six
  keys split leaves, interior pages and the root, which has three levels then.
* *Tables, VectorIndex, TimeTravel.* Two names and two rows: one that changes
  and one it must not disturb; enough statements for change, failure, rollback
  and a further change.
* *Hnsw.* `efSearch` and `m0` are as large as the set of vectors needs:
  otherwise the code does not find everything (section 6).
* *GraphSearch.* Three edges over three nodes have loops, parallel edges,
  cycles and two ways of different cost.
* *Widths.* `Codec` has bytes of 2 bits and varints of 3 bytes, `Compression`
  fields of 1 bit: each length crosses one and two bytes of overflow within a
  few elements. A number of `Codec` lies on each side of each width. Its
  reals have 7 bits and its integers 16, so that the integers of 64 bits reach
  as far beyond what a real holds exactly as in the code.
* *Texts.* Five characters hold a quoted string with a doubled or escaped
  quote, a comment, a signed number with a point, and each operator with a
  neighbour.
* *Devices.* Three writes: both banks are written and one is written again.
* *Feed.* Four changes and two savepoints: one before, in and after a savepoint
  that is undone or released inside another one, and a commit that follows.
* *Followers.* Two commits over two pages make snapshots of different length and
  number, one of which is late; the damaged one is any of them. One load may
  fail (`MaxUnloaded`), on either node.
* *Lock.* Three processes: the dead one's lock, and two that find it.
* *Remote.* The code's smallest cache has 4 pages (`max(4)`); one of 2 with three
  pages, page 1 being kept always, evicts as often with less to write. One
  writer makes up to three changes, or two writers one (`MaxShared`): with two
  the states grow by the square, and what they do to each other needs one change
  and one push. `Reader` is empty: a reader only fetches, so that nothing a writer
  sees depends on it, and what it sees itself is the variation `OneObject`. Checked
  alone, `RemoteStore` also held with two changes of two writers, and with five
  of one.

### Fairness

Only `Session` promises liveness: weak fairness of `Access(t)` (a thread that
waits for the mutex gets it, since every turn under it is finite) and of
`Elapse(t)` (time passes). Nothing obliges an owner to finish its transaction:
calls return because waiting is bounded by the busy timeout. The other parts
promise safety; their progress is that of the application.

## 5. Where code and documents disagree

Each of these runs has TLC show a behaviour of the code that contradicts a text
of the repository; lines and quotations are in `PROJECT.json`.

| Run | What happens |
|---|---|
| `wal_checkpoint_in_tx` | `checkpoint` inside a transaction empties the log. The savepoint still counts the old frames; undoing a failed commit then cuts nothing, too much or too little, and an acknowledged commit can be lost. |
| `changes_uncommitted` | A change queued after another thread's transaction ended is published though rolled back, or before it is committed. |
| `btree_inside` | When a leaf that is not the last child is split, its upper half is not linked and its rows are lost. |
| `tables_reloaded` | After a failed statement, a rollback or a reopening the counter of generated keys is that of the last schema change, and an INSERT without a key replaces a row. |

The passing runs exclude exactly these cases: `CheckpointDuringTx = FALSE`, one
thread for the feed, `Workload` without `"new"`, and `FreshUnlessReloaded`.

## 6. Variations

Each row changes a configuration in one place, or checks one more definition,
and makes TLC find a counterexample. They show what the passing runs exclude,
and that the exclusion is needed. An entry without a change names a definition
to check as INVARIANT (or PROPERTY where it says so).

| cfg | Change | Violated | Shows |
|---|---|---|---|
| `wal_crashes` | module `Wal` with SPECIFICATION `Spec`: both kinds of crash in one behaviour | `AckedIsDurable` | recovery copies frames that were never synchronized (`wal.rs:632`); a power loss before it ends may leave a page that neither file can restore |
| `pager` | `Options <- SmallMemory`, `MaxWork = 4`, `Name = {a}` | `LivePagesReadable` | a database without a file loses pages evicted after a checkpoint |
| `session_sharing` | `Thread = {t, u}` | `OwnerHasTransaction` | a session whose closing rollback fails stays the owner of a transaction that is gone |
| `session_closures` | `Faults = {"read"}` | `ImplementsSessionStore` | a rollback that fails while it reads the catalog leaves rolled-back documents in the memory engine |
| `services` | | `NothingLost` | RELEASE keeps the depth of queued changes, so that a later ROLLBACK TO drops committed ones |
| `services` | | `NeverUndone` | a rollback that fails after the pager's leaves its changes pending, and the next commit publishes them (`lib.rs:1316`) |
| `services` | | `HolderIsAlone` | two processes find one stale lock, and the second removes the lock that the first has made since (`pager/mod.rs:389`) |
| `services` | | `GraphIsReplaced` | after a snapshot was applied, the graph still has the records that it lacks (`executor.rs:280`) |
| `services` | | `EvictionLosesNothing` | the cache of a remote writer lets go of a page that neither the log nor the object has as it was changed last (`pager/mod.rs:1195`, `:960`) |
| `services` | | `RollbackUndoesAll` | what `write_page` put past the undo log outlives the rollback |
| `services` | | `PushesKeepApart` | a page that a writer has not fetched yet is another's by then |
| `services` | PROPERTY | `PushIsCommitted` | a push stores the pages of an open transaction |
| `services` | `Writer = {w}`, `Reader = {r}` | `OneObject` | the fetches of a reader mix two objects |
| `executor` | | `NeighboursAlwaysOnce` | a failed statement loads the graph over itself |
| `executor` | `Keys = {"text"}` | `IndexIsExact` | a key that is text gets a generated number before it is coerced: the row lies under another number than its key |
| `executor` | PROPERTY | `VersionsAreKept` | version numbers are given again after a reload and overwrite versions |
| `engines` | | `LinksAreSaved` | a prune changes links in memory only (`lib.rs:1046`) |
| `engines` | `m0 = 2` | `AllReachable` | the last of m0 + 2 equal vectors has no link to it |
| `engines` | `efSearch = 1` | `FindsNearest` | the furthest distance is stale (`hnsw.rs:447`) |
| `engines` | `Kinds = {"null"}` or `{"rename"}`, or `Vectors <- TwoDimensions` | `IndexFollowsRows` | UPDATE to NULL, RENAME, and DROP and CREATE with other dimensions |
| `engines` | `Asked <- Unread` | `AnswersAreRight` | a JOIN with WHERE on a column that is not projected returns nothing |
| `engines` | | `PatternsFindAll` | a pattern of several hops misses nodes |
| `engines` | | `TraversalsFilter` | the WHERE of GRAPH TRAVERSE prunes the walk, so that `depth >= 2` lists only the start |
| `algorithms` | `Workload = {"replace"}` | `ImplementsMap` | a key replaced in a full leaf is split with old and new cell |
| `algorithms` | | `EveryViewReadsBack` | whole floats and backslashes in the text of a view |
| `algorithms` | | `EveryPageReadsBack` | a raw page that begins like a frame |
| `algorithms` | | `SkippingIsSafe` | a row that ends early panics in a skipped column |
| `algorithms` | | `NumbersAreKept` | an integer above 2^53 in a REAL column is rounded (`catalog.rs:62`); the real 2^63 in an INTEGER column becomes 2^63 - 1 (`:38`) |
| `algorithms` | `Dimensions = {16}` | `LongVectors` | the count of dimensions wraps |
| `algorithms` | | `LikeAlwaysMatches` | a `%` in the text is matched by the pattern's `%` only as itself |
| `algorithms` | | `MixedAreRight` | texts and numbers, and integers and floats, compare as equal or not by the operator |
| `algorithms` | | `EveryEventNamesItsRow` | an event names another row when the key is not named |
| `algorithms` | `Thread = {t, u}` | `StatementsAreUnderstood` | two threads foretell the same row number |
| `algorithms` | | `ErrorsPass`, `ColumnsAreKnown` | `sqlite3_errcode` after a success; columns of a query without rows |
| `algorithms` | | `AlwaysFindsAll`, `CacheIsBounded` | vectors in pages after a removal; a cache that grows |
| `algorithms` | `Readers = {r}`, `MaxPagedSteps = 6` | `IndexesAreExact` | a clone caches a page that was replaced meanwhile |
| `algorithms` | | `AddedHaveTags`, `RrfIsLive` | what recall adds over links ignores tags; `recall_rrf` ignores expiry and filters |

## 7. Observations

What else was met while the code was read for the models, by component. Not
every one has a run; each can be followed at the line that is named or in the
module.

* **Log, pager.** `write_page` outside a transaction reports the error of the
  maintenance after a durable write (`pager/mod.rs:1310`); `commit_transaction`
  does not. `with_page` puts a page that its own loading evicted back into the
  cache without a place in the LRU list (`:1098`), so that it is never evicted
  again. `free_page` outside a transaction writes the trunk but not the header
  (`:1448`): a crash loses the page. A closure of `modify_page` that fails
  outside a transaction has changed the cached page (`:1118`).
* **Connection, sessions.** `PreparedStatement::execute` looks a savepoint up,
  and foretells row numbers, before it takes the locks (`lib.rs:1704-1717`).
  Several threads publish their events in no order (`:1347`). A rollback that
  fails after the pager's leaves the pending changes for the next commit
  (`:1316`, and `:1900` for the statements): `stranded` of `Changes`. A clone of a session may commit inside another's transaction
  closure (`session.rs:196`). Callbacks run under the read lock of the table of
  subscribers (`realtime/mod.rs:134`): one that subscribes waits for itself.
* **B+Tree.** Splits halve by count, not by size; a cell that then does not fit
  is dropped without an error. Rows of up to 1024 bytes are kept inline, which
  exceeds a page of 512: `left_cells.last().unwrap()` then panics.
* **Columns.** `coerce_value` promises an error for a value that "cannot be
  safely stored" (`catalog.rs:32`), but rounds an integer above 2^53 to a real
  (`:62`), and lets 2^63 through, which the cast makes 2^63 - 1 (`:38`).
  `CoercionKeepsNumbers` says exactly what is kept: the nearest real, and every
  integer but that one.
* **Tables.** A key that is text, real or NULL gets a generated number before
  it is coerced; DO UPDATE and UPDATE to NULL do likewise; the key -1 wraps the
  counter. Renaming or dropping a table or column under an index orphans it;
  dropping an index leaks its pages.
* **Time travel.** REPLACE and DO UPDATE close and record at two times, between
  which the row is in no version; each row of a statement has its own time.
  After a reopening times may go back. Changes while versioning is off, and
  DROP TABLE, leave versions open.
* **Graph.** A failed INSERT NODE leaves a ghost in memory; a node added again
  revives dangling edges; direction `Both` counts a loop twice in memory and
  once on disk. `triangle_count` is right for symmetric graphs only, and
  `edge_count` of the compressed graph counts edges to missing nodes. CREATE of
  Cypher numbers a node by the count of nodes, so that after a removal it
  overwrites one. `GraphChain::max_hops` is never applied, and a node that
  several walks reach takes several of the best places.
* **Vectors.** VACUUM's `index.vacuum()` does nothing and its persisting
  ignores errors. Removing a hub may make vectors unreachable. In pages, upper
  layers are never linked, removing the entry point makes everything
  unreachable, a node refused by full neighbours is never found, and removed
  nodes come back when the index is loaded.
* **Memories.** Limits lowered inside a transaction do not admit what its
  rollback brings back; the engine then lacks memories and the next store
  overwrites one. `graph_expansion_hops` above 1 has no further effect.
* **SELECT.** WHERE on right columns or a qualified right id; WHERE before
  right and full joins; LIMIT 0; DISTINCT with OFFSET; aggregates ignore LIMIT
  and OFFSET; COUNT by key or index returns NULL per row; HAVING on an
  aggregate that is not selected matches nothing; views ignore joins and
  groups; common table expressions ignore GROUP BY, HAVING and outer joins.
  `MCSelect` leaves these forms out by name.
* **Statements.** `?1` is positional in a compiled INSERT and an error
  elsewhere; an INSERT that names a column twice stores the last value and
  foretells from the first. NOT (...) and NOT BETWEEN do not parse.
* **C interface.** Statements run when they are prepared; `sqlite3_reset` does
  not run them again; one text per statement is kept.
* **Replication.** The first snapshot has the number of one taken before any
  commit (`lib.rs:501`), which `NewerIsAccepted` excepts. Followers that export
  in turn would violate `NeverGoesBack`. `apply_replication_chunk` loads the graph
  over the follower's, so that what a snapshot lacks stays visible until the
  next ROLLBACK or opening; and when a load fails, the snapshot is applied while
  the caches still show, in part or wholly, what was before.
* **Devices.** After a write of doubtful outcome the next put erases the last
  safe bank before it synchronizes; an exported capsule can then vanish and its
  number be used again.
* **Lock file.** A crash between the creation of the lock and the writing of its
  number leaves an empty file that nobody reclaims. The model does not give the
  number of a dead process to a living one; the system does, and its lock is
  then not reclaimed. A process whose lock was removed removes that of another
  when it ends (`pager/mod.rs:1972`).
* **Remote.** A push inside a transaction stores uncommitted pages; two writers
  overwrite each other; a reader that is opened read-only never evicts. A
  checkpoint, or VACUUM, drops the frames of committed pages, which the cache
  alone has then; and it keeps a page that is cached as it is there
  (`wal.rs:580`), so that nothing older comes back. An eviction drops pages
  outside a transaction whether or not they are anywhere else.

## 8. Proofs

Nothing is assumed of a constant but what the modules' `ASSUME`s and the
hypotheses named below say. Each hypothesis excludes a case in which the
property is false, and which a run of section 5 or 6 shows.

### Write-ahead log (`WalProofs`)

For every finite set of pages, every number of transactions and every
checkpoint threshold:

| Theorem | States | Assumes |
|---|---|---|
| `TypeCorrect` | `TypeOK` | |
| `FileCorrect` | `FileMatchesMemory` | no checkpoint in a transaction |
| `TailCorrect` | `NoUncommittedTail` | the same |
| `AckedCorrect` | `AckedIsDurable` | the same; `OneKind` |
| `OpenableCorrect` | `AlwaysOpenable` | the same; `OneKind` |
| `StoreCorrect` | `ImplementsStore`: the log implements `DurableStore` | the same; `OneKind` |

`CheckpointDuringTx = FALSE` excludes the run `wal_checkpoint_in_tx`. `OneKind`
says that processes die, or the power fails, but not both in one execution: when
both do, recovery may copy frames that were never synchronized (section 6).

*The argument.* None of the properties is inductive. A rollback, or the undoing
of a failed commit, cuts the file to a length; whether file and memory agree
afterwards depends on whether both had that length when the savepoint was taken
and still have. `IInv` adds to `TypeOK`:

* `MemoryMatchesFile`: `FileMatchesMemory`, extended to recovery;
* `SavepointIntact`: while a transaction is open, its first `start` frames are
  in memory and in the file, and the last of them is a commit frame;
* `PhaseOwner`: checkpoints and recovery run without a transaction and on a
  healthy log, and only a transaction's commit is undone;
* `TailCommitted`: outside a transaction a healthy log ends in a commit frame;
* `PhaseData`: a commit in progress has pages to write, a checkpoint copies
  pages of which there are frames.

Durability is about all that a crash may leave. `Candidates` are the log files
a crash may leave, and `DInv` adds to `IInv` what each of them means together
with the base file:

* `Outcomes`: every candidate, put over the base file, restores the contents
  without the open transaction or those with all of it (`Decides`); a page that
  none of its frames restores is whole in the base file and, where the power may
  fail, synchronized (`Restores`, `Settled`);
* `Agreed`: while no failure is pending all candidates hold the frames that
  memory holds, so that no outcome is open;
* `SavepointKept`: every candidate holds the frames of the savepoint;
* `AckedShown`: the contents shown hold everything that was acknowledged;
* `Books`: how far a commit, a checkpoint or a recovery has come, so that a
  base page is overwritten only with a frame that every candidate holds, and the
  log is emptied only after the base file was synchronized.

There is one lemma per action. For the refinement, a step of the log maps to
`Start`, `Commit`, `Rollback` or `Crash` of `DurableStore`, or to nothing: a
commit counts when the frames are synchronized, or when a crash decides for it.

### Sessions (`SessionProofs`)

For every set of threads, every number of sessions and writes:

| Theorem | States | Assumes |
|---|---|---|
| `TypeCorrect` | `TypeOK` | |
| `OwnerCorrect` | `TransactionHasOwner` | |
| `WakeupCorrect` | `NoLostWakeup` | |
| `ClosuresCorrect` | `AllOrNothing` | no clones; `"read"` not in `Faults` |
| `Isolation` | `ImplementsSessionStore` | `"read"` not in `Faults` |

A rollback that fails while it reads the catalog is excluded because section 6
shows `Isolation` false with it. A clone of a session may commit in the middle
of another's transaction closure (section 7), which then cannot take it back.

*The argument.* `TransactionHasOwner` says nothing of a session that owns while
no transaction is open, nor of the threads; yet the next `begin` may come from
there. `IInv` adds to `TypeOK`:

* `CallsHaveSessions`: a thread in a call or closure holds a handle;
* `OwnerLives`: an owner is not closed and has a handle, whether or not a
  transaction is open;
* `TransactionOwned`: an open transaction has an owner, which made its writes;
  without one there are none.

`NoLostWakeup` is inductive over it: each operation that frees the transaction
or closes the database wakes all. `ClosuresCorrect` adds `CInv`: each session has
one thread, writes are numbered in order, a closed database has no transaction,
and `Closure(t)`, which says for each place in the chain of calls of a closure
where its writes are: nowhere yet, in the transaction, committed, or gone. The
refinement adds `StaleHidden`: writes that a failed rollback left in the memory
engine are out of reach; each operation maps to the one of `SessionStore` of
that name, or to `Nothing` when it fails.

### Pager (`PagerLemmas`, `PagerProofs`)

For every finite set of pages, every set of savepoint names, every depth of
nesting and every capacity of the cache:

| Theorem | States | Assumes |
|---|---|---|
| `InvCorrect` | `IInv`, below | `Roomy` |
| `LiveCorrect` | `LivePagesReadable` | `Roomy` |
| `AllocationCorrect` | `NoDoubleAllocation` | `Roomy` |
| `PageStoreCorrect` | `ImplementsPageStore`: the pager refines `PageStore` | `Roomy` |

`Roomy` is about databases without a file: their cache has room for every page.
It cannot be left out: the variation `SmallMemory` of section 6 loses pages.
Nothing is assumed of databases with a file, whose cache may hold a single page.

*The argument.* What a caller sees is composed of the cache and what lies below
it; a rollback replaces both by what the undo pages of a level say. So an
invariant must speak of every state that may be gone back to, and `IInv` does:

* `Types`, `Flags`: types, and an LRU list that names each cached page at most
  once;
* `Steady`: undoing an open level restores what a caller saw when it was opened
  (`w[k]` of `IAt`), for all pages that existed then: a page changed since has an
  undo page in some level (`Notes`), levels grow outwards (`Grows`), and what no
  level notes is still below (`Within`, `Synced`);
* `Sound`, of the present contents, of what each level restores, and of what the
  next open may find: a page in use is readable (`Owned`), and the freelist is a
  path through trunk pages that meets each free page once, none of which is in
  use (`FreeList`);
* `OnBase`, `InDoubt`: the same of the durable contents, and of those of a commit
  whose outcome is not known.

A step changes the present contents and perhaps the levels; one lemma per
operation shows that it keeps what each level restores. `NoDoubleAllocation`
follows because the trunks that the property's walk meets are the path of
`FreeList`, backwards.

*The refinement.* `PageStore` keeps whole contents: what is read, what is
stored, and what each level saved when it was opened. The pager keeps none of
them, it composes each from caches, undo pages and what lies below. `w` says
what they are, so the invariant is the refinement mapping's other half: under
`IAt(w)` the mapped variables are what was seen (`Reading`), and the store's
stack of saved contents is `w` (`SavedAs`). The lemmas about a step are stated
of one `w`, before and after: opening a level puts what is seen at the end of it,
releasing one takes its entry out, and every other operation leaves it alone. So
ROLLBACK shows what `w[1]` says, ROLLBACK TO what its savepoint's entry says, a
commit stores what is seen, and a crash leaves what is stored or, when a write
failed, what that write would have stored. `StepMaps` puts it together from one
lemma for each operation (`WorkMaps`, `CommitMaps`, `RollbackToMaps`, ...);
reads and checkpoints, which evict and move pages, change nothing that the store
has.

### Replication (`ServicesProofs`)

For every set of databases and every number of pages, commits and damaged
snapshots:

| Theorem | States | Assumes |
|---|---|---|
| `WholeCorrect` | `Replication!SnapshotsAreWhole` | `Room` |
| `SourceInvCorrect` | `CopyInv`, `VersionInv`, below | `OneSource` |
| `SnapshotsCorrect` | `SnapshotsAreSound`, in `MCServices` | `OneSource` |
| `NeverBackCorrect` | `Replication!NeverGoesBack` | `OneSource` |

`Room` says that the bounds are numbers and leave room for a page. `OneSource` adds that applications write to one database, that snapshots are
taken of it, and that others apply them: numbers of two sources are not
comparable. Neither limits the network or the restarts.

*The argument.* `CopyInv` follows a state from where it was committed to where it
is shown: every database holds a state of `history`; an intact snapshot, however
old, is one of them as a whole (`Shipped`); damage is always noticed
(`DamagedIsInvalid`); and a transaction that applies a snapshot has, of the pages
that it no longer waits for, those of the snapshot (`Applying`), so that its
commit yields that state and nothing else. Of the caches it says `Shows`: a commit
of an application edits them as it edits the pages, a load replaces the catalog
and adds to the graph, and what the pages lost by it is in `left`. That a load
may fail half-way is no hypothesis but part of the model. `VersionInv` relates numbers to
states: the content of a page is the number of the commit that wrote it, the
source's greatest one is its count, and a snapshot carries the number of its
frames (`NumberOf`). What an open transaction has written is one above the
count, so that two states with one number cannot come about.

### Devices (`ServicesProofs`)

For every set of values, every number of writes and every loss of power:

| Theorem | States | Assumes |
|---|---|---|
| `DevicesInvCorrect` | `SlotInv`, `ImportInv`, below | bounds are numbers |
| `DevicesCorrect` | `DevicesKeepValues`, in `MCServices` | the same |
| `DocumentCorrect` | `DocumentMatchesHead` | the same |

*The argument.* `DevicesKeepValues` is far from inductive: it speaks of what is
read, and a loss of power makes something else be read. `SlotInv` says instead
that, unless a write had a doubtful outcome, one of the banks is `Lasting`: a loss
of power cannot change it, its record is at least as new as what was
acknowledged and as every capsule, and it is committed, or nothing was written
yet and it is bank 1, which the first write leaves alone. The other bank is what
the write in progress uses (`Using`): every content that a loss of power may leave
of it is `Harmless`, that is uncommitted, older, or unreadable with a write that was
torn. Erasing, programming and synchronizing the record keep this; a commit unit
is programmed only when the record under it is synchronized, so that the bank
then holds the new record with its unit or without; and when that is
synchronized, or a loss of power leaves it, the banks change roles
(`NewIsLasting`). That a write chooses the right bank is `LastingIsRead`.
`ImportInv` says of an import in progress what it has read and written so far.

### Remote databases (`ServicesProofs`)

For every set of writers and of readers, every capacity of the cache, and every
number of pages, changes and pushes:

| Theorem | States | Assumes |
|---|---|---|
| `SeesCorrect` | `SeesOwnWrites`, in `MCServices` | `RemoteBounds` |
| `CopiesCorrect` | `CopiesMoveForward`, in `MCServices` | `OneSource`, `RemoteBounds` |

`RemoteBounds` says that the bounds are numbers, that two pages fit, and that no
client is both a writer and a reader. It limits nothing that the code does:
writers evict, write past the undo log, roll back, checkpoint, and push inside
transactions and between each other's fetches. What that costs is in the
properties, page by page (`Lost`), and the variations of section 6 show that each
of the three causes does cost pages.

*The argument.* The invariant is `RemoteInv` (`RemotesRun`). A page of a writer may
be in its cache, its log, its undo log and the object at once. `Has` says of each page that is not lost which of the four
agree: in the cache it is as the statements left it, and so it is `Beneath` the
cache, in the log or else in the object, unless the cache alone may have it
(`alone`) or the transaction has changed it; and in a transaction the undo log,
or what lies beneath where the undo log is silent, leads back to the page at
BEGIN, unless it was written past the undo log (`past`). `Formed` keeps the books
straight: what is alone is cached, what is dirty is in the undo log, pages that a
transaction has added are in both. One lemma per operation, stated of one
writer's pager and histories, shows that `WriterInv` is kept: an eviction turns
what is alone into `evicted`, a rollback what is past into `kept`, a push makes
what it gathered (`Gathered`, page by page what was meant) lie beneath, and another
writer's push takes the object from under every page that is neither alone nor
in the log, which become `replaced`. What a commit that checkpoints moves to the
cache was beneath and is what the statements left, so that it is only alone.

### Lock file (`ServicesProofs`)

For every set of processes and every number of snapshots, commits and crashes:

| Theorem | States | Assumes |
|---|---|---|
| `LockInvCorrect`, `TypeCorrect` | `LockInv`, `TypeOK` | `Bounded` |
| `HolderCorrect` | `OneHolder` | `Bounded` |
| `LogCorrect` | `LogBelongs` | `Bounded` |

`Bounded` says that the bounds are numbers. Any number of processes may reclaim
a stale lock at any time.

*The argument.* `LockInv` relates where a process is to the lock file. `Owning`: the
file at the path was made by a process that is past its creation and not
`robbed`, or by one that is gone, and every such process made it; so two holders
that are not robbed are one. `Racing`: who is robbed was so after a race, since
before one the only process that is about to remove a lock finds it as stale as it
was. `Replacing`: a backup has a whole copy before it installs it, over a log that
is empty unless there was a race; `Belongs`: the base files a power loss may leave
are whole, and the log's.

### Change feed (`ChangesProofs`)

For every number of changes and every depth of savepoints:

| Theorem | States | Assumes |
|---|---|---|
| `InvCorrect` | `IInv`, below | `OneThread` |
| `CommittedCorrect` | `OnlyCommitted` | `OneThread` |
| `KeptCorrect` | `KeptUnlessReleased` | `OneThread` |

`OneThread` says that one thread uses the connection. It cannot be left out:
with two threads the run `changes_uncommitted` publishes what was rolled back.

A rollback that fails is part of the model. Its changes are `stranded`:
`CommittedCorrect` says that subscribers hear of nothing else that was not
committed, and `KeptCorrect` that neither the order nor the completeness of what
was committed suffers from it.

*The argument.* Changes are numbered as they are made, and every list of them
(open, committed, pending, ready, published) ascends, which is why none is
published twice or out of order (`Ordered`, `Ahead`). A pending change is one of
the open transaction, of the same savepoint or one that surrounds it
(`Covered`): RELEASE moves the change outwards and leaves the pending entry
where it was, so depths of pending entries are upper bounds, and what
ROLLBACK TO keeps among them was not undone, or is stranded (`Accounted`). Conversely a change of the open
transaction that was never moved is pending with its own depth (`Queued`), and a
committed one is published or on its way (`Underway`). Between a statement and
what follows its unlock, `Queueing`, `Discarding` and `Finishing` say that what
the statement captured is still so.

### Tables (`TablesProofs`)

For every set of tables, indexes, columns and values, every number of rows of a
statement and every depth of savepoints:

| Theorem | States | Assumes |
|---|---|---|
| `Soundness`, `TypeCorrect` | `IInv`, `TypeOK` | |
| `CatalogCorrect` | `CatalogCurrent` | |
| `FreshCorrect` | `FreshUnlessReloaded` | |
| `IndexCorrect` | `IndexIsExact` | `WholeKeys` |

`WholeKeys` says that the keys of statements are integers or left to the counter.
A key that is text is given a generated number before it is coerced, so that its
row is not found under it (sections 6 and 7).

*The argument.* `IndexIsExact` speaks of the present rows, but a rollback brings
earlier ones back and then loads the catalog from them; and a statement may fail
at any of its rows, when those before it are already changed. `IInv` therefore
says `Sound` of the pages and of every contents in `saved`: rows have at most
the columns of their table (`Whole`), and an index that is not an orphan has its
table and its column and, unless a row of the table was replaced under its
postings, holds exactly the postings of its rows (`Exact`). `Follows` says that
the catalog agrees with the schema records, `AllFresh` that a counter is above
every key until the catalog is loaded again.

Between two rows of an INSERT, UPDATE or DELETE `Stage` holds: all of that for
the half-done pages, whether or not the statement will go on. One lemma per way
in which a row is changed shows that its postings are exchanged with it
(`Exchanged`); that `Stage` holds after each row is by least counterexample over
the rows (`Climb` and `StepsExist` of `OrderLemmas`), since the loops are recursive
functions. The schema statements change all rows of a table at once: DROP COLUMN
shortens them, and only the indexes that it does not orphan are kept exact
(`OrphansOf`).

### What is left to TLC

`MemoryFollows` and `HistoryIsExact` of the graph and the versions beside
`Tables`, and everything about the other modules. Out of the prover's reach are liveness
(`EveryCallReturns` of `Session`), what needs ENABLED, and what a recursive
definition computes for every input: the provers cannot instantiate an induction
principle with a predicate. Where an induction was needed, it is by least
counterexample (`LeastElement` of `OrderLemmas`).
That a tree, a search or a parser computes the right thing is therefore compared
with its definition over bounded inputs, and modules with RECURSIVE operators
(`BTree`, `Lexer`, `Conditions`, `Hnsw` and others) hold no theorem.

## 9. Not modelled

| Part | Source | Why |
|---|---|---|
| Document store | `src/document/` | keeps JSON as text in one table by statements that `Tables` and `Session` model; its own work is matching fields of JSON |
| Tap inference | `src/tap/` | arithmetic on floats: layers, attention, sampling |
| Encryption | `src/crypto/` | ciphers and key derivation; where the pager calls them is part of reading and writing a page |
| Command line | `src/bin/tapirus.rs` | prints what `Connection` returns; its backup and restore are those of the pager |
| WebAssembly binding | `crates/tapirus-wasm` | conversions around the calls that `Session` and `Tables` model |
| Embedded flash | `src/embedded/flash.rs` | `MicroDatabase` persists a count and nothing else; `MicroStore` models the store that devices use |
| Window and scalar functions, vectorized aggregates | `src/sql/{executor,functions,vectorized}.rs` | float and text arithmetic of one call each; `Select` models the plain query, joins, grouping and order |
| Subqueries, views of views, EXPLAIN, choice of plans | `src/sql/{executor,planner}.rs` | they build on the modelled query; wording of plans |
| IVF, quantization, distances | `src/vector/{ivf,quantization,simd}.rs` | arithmetic of floats; clustering by means |
| Page rank, communities, Cypher CREATE | `src/graph/` | iterations over floats; CREATE is two calls of `GraphStore` |
| Object store transport | `src/pager/remote.rs` | HTTP ranges and retries are pure I/O; `RemoteStore` takes a fetch as one read of one object |
| Tables of subscribers | `src/realtime/mod.rs` | a callback that subscribes from within deadlocks (`:134`), which the code's shape shows without a model |
| Grammar of other statements | `src/sql/parser.rs` | one function per statement without state; `Lexer` and `Conditions` model tokens and expressions |

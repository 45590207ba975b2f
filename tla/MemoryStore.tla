---------------------------- MODULE MemoryStore ----------------------------
(***************************************************************************)
(* The memories of an agent: the table __sys_memory and the engine         *)
(* (src/memory/) that holds all of it, with what it derives from it, in    *)
(* memory.  Every mutation goes through Connection::mutate_memory          *)
(* (src/lib.rs): it changes the engine and the table inside                *)
(* atomic_statement, and builds the engine anew when the statement fails.  *)
(*                                                                         *)
(* The table has the semantics of PageStore, so a transaction is a stack   *)
(* of the tables to go back to.  The limits of the engine belong to the    *)
(* open connection: they can change inside a transaction and are not       *)
(* rolled back with it.  What a reading changes (the count of accesses) is *)
(* not kept by the code and left out.                                      *)
(***************************************************************************)
EXTENDS Naturals, Sequences, FiniteSets, FiniteSetsExt, Functions, SequencesExt

CONSTANTS
  Key,           \* external_id with its namespace and session
  Space,         \* vector spaces: [model, dimension]
  Documents,     \* what is stored: [key, space]
  None,          \* no key, no vector, no revision expected
  Limits,        \* the limits that are configured: [documents, spaces]
  MaxId,         \* bound: identifiers of memories
  MaxBatch,      \* bound: documents of one statement
  MaxSteps,      \* bound: operations that change something
  MaxSavepoints  \* bound: savepoints of a transaction

ASSUME MemoryAssumption ==
  /\ None \notin Key /\ None \notin Space
  /\ Documents \subseteq [key : Key \cup {None}, space : Space \cup {None}]
  /\ Limits \subseteq [documents : Nat \ {0}, spaces : Nat \ {0}]
  /\ {MaxId, MaxBatch, MaxSteps, MaxSavepoints} \subseteq Nat

VARIABLES
  table,     \* __sys_memory
  engine,    \* Connection.memory
  config,    \* MemoryRuntime.config
  saved,     \* the tables that the open transaction and its savepoints go back to
  unread,    \* history: the last rebuild of the engine failed
  pruned,    \* history: a prune took links away from memories that it kept
  clobbered, \* history: a new memory took the place of another, engine complete
  steps      \* operations so far

vars == <<table, engine, config, saved, unread, pruned, clobbered, steps>>

Id == 1 .. MaxId

NoFunction == <<>>
With(f, x, y)  == [z \in DOMAIN f \cup {x} |-> IF z = x THEN y ELSE f[z]]
Without(f, S)  == Restrict(f, DOMAIN f \ S)

-----------------------------------------------------------------------------
(* The engine and what it derives.                                         *)

Empty == [entries |-> NoFunction, next |-> 1, external |-> NoFunction,
          spaces |-> NoFunction, dirty |-> {}, located |-> NoFunction]

\* MemoryRuntime::changed, first half: what the old record contributed goes.
Forgotten(g, id) ==
  IF id \notin DOMAIN g.entries THEN g
  ELSE LET old == g.entries[id]
       IN  [g EXCEPT
              !.external = Without(@, {old.key}),
              !.spaces   = IF old.space = None THEN @
                           ELSE IF @[old.space] = 1 THEN Without(@, {old.space})
                           ELSE [@ EXCEPT ![old.space] = @ - 1],
              !.dirty    = @ \cup {id}]

\* MemoryRuntime::changed, second half, and the record itself.
Recorded(g, id, e) ==
  [g EXCEPT
     !.entries  = With(@, id, e),
     !.external = IF e.key = None THEN @ ELSE With(@, e.key, id),
     !.spaces   = IF e.space = None THEN @
                  ELSE With(@, e.space, IF e.space \in DOMAIN @ THEN @[e.space] + 1 ELSE 1),
     !.dirty    = @ \cup {id}]

\* validate_entry: a model has one dimension, a key one memory, and the limits hold.
\* A space counts although its only memory is the one that is replaced.
Admits(g, c, id, e) ==
  /\ e.space # None =>
       /\ \A s \in DOMAIN g.spaces : s.model = e.space.model => s = e.space
       /\ e.space \in DOMAIN g.spaces \/ Cardinality(DOMAIN g.spaces) < c.spaces
  /\ e.key \in DOMAIN g.external => g.external[e.key] = id
  /\ Cardinality(DOMAIN g.entries \cup {id}) <= c.documents

\* Fault: the identifier of a memory that is loaded stays the next one.
RestoredNextKept(g, id, e) ==
  [Recorded(Forgotten(g, id), id, e) EXCEPT !.next = IF id > @ THEN id ELSE @]

\* restore_entry, which stores new memories too.
Restored(g, id, e) ==
  [Recorded(Forgotten(g, id), id, e) EXCEPT !.next = IF id >= @ THEN id + 1 ELSE @]

\* load_memory_from_disk stops at the first record that is not admitted.
LoadInto(c, docs) ==
  FoldLeft(LAMBDA s, id :
             IF s.ok /\ Admits(s.engine, c, id, docs[id])
             THEN [s EXCEPT !.engine = Restored(@, id, docs[id])]
             ELSE [s EXCEPT !.ok = FALSE],
           [ok |-> TRUE, engine |-> Empty],
           SetToSortSeq(DOMAIN docs, <))

-----------------------------------------------------------------------------
(* Mutations of the engine and the table.                                  *)

\* prune_decayed_ids_at: what is linked to what goes loses its links in the engine only.
RemovedOnly(g, docs, ids) ==
  LET gone   == ids \cap DOMAIN g.entries
      h      == FoldSet(LAMBDA id, k : Forgotten(k, id), g, gone)
      kept   == DOMAIN g.entries \ gone
      linked == {id \in kept : g.entries[id].links \cap gone # {}}
  IN  [engine |-> [h EXCEPT !.entries =
                     [id \in kept |-> [g.entries[id] EXCEPT !.links = @ \ gone]]],
       table  |-> Without(docs, gone),
       linked |-> linked]

\* remove_ids and the statements that call it: the links to what goes are taken out of
\* what stays, and that is written.
Removed(g, docs, ids) ==
  LET r == RemovedOnly(g, docs, ids)
  IN  [r EXCEPT !.table = [id \in DOMAIN @ |->
                             IF id \in r.linked THEN r.engine.entries[id] ELSE @[id]]]

\* write_document and persist_memory_entry; expected is None, 0 for a memory that must
\* not exist, or its revision.
Written(s, c, upsert, d, expected) ==
  LET exists == d.key \in DOMAIN s.engine.external
      id     == IF exists THEN s.engine.external[d.key] ELSE s.engine.next
      old    == IF exists THEN s.engine.entries[id] ELSE [rev |-> 0, links |-> {}]
      e      == [key |-> d.key, space |-> d.space, rev |-> old.rev + 1, links |-> old.links]
  IN  IF /\ s.ok /\ id \in Id
         /\ IF upsert THEN d.key # None ELSE ~ exists
         /\ expected \in {None, old.rev}
         /\ Admits(s.engine, c, id, e)
      THEN [s EXCEPT !.engine = Restored(@, id, e), !.table = With(@, id, e),
                     !.fresh = @ /\ (exists \/ id \notin DOMAIN s.table)]
      ELSE [s EXCEPT !.ok = FALSE]

-----------------------------------------------------------------------------
(* Operations                                                              *)

Step == steps < MaxSteps /\ steps' = steps + 1

\* The engine is rebuilt from docs, which are the table from now on; when a memory is
\* not admitted, there is another engine instead.
Rebuild(docs, otherwise) ==
  LET s == LoadInto(config, docs)
  IN  /\ table' = docs
      /\ engine' = IF s.ok THEN s.engine ELSE otherwise
      /\ unread' = ~ s.ok

\* mutate_memory: what it did, or nothing and a rebuilt engine.
Done(s) ==
  /\ engine' = s.engine /\ table' = s.table
  /\ UNCHANGED unread

\* write_memory_batch: store_memory, upsert_memory and their batches.
WriteBatch ==
  /\ Step
  /\ \E docs \in BoundedSeq(Documents, MaxBatch), upsert \in BOOLEAN, expected \in {None, 0, 1} :
       LET s == FoldLeft(LAMBDA t, d : Written(t, config, upsert, d, expected),
                         [ok |-> TRUE, fresh |-> TRUE, engine |-> engine, table |-> table], docs)
       IN  /\ docs # <<>>
           /\ IF s.ok THEN Done(s) /\ clobbered' = (clobbered \/ ~ (s.fresh \/ unread))
                      ELSE Rebuild(table, s.engine) /\ UNCHANGED clobbered
  /\ UNCHANGED <<config, saved, pruned>>

\* memory_forget, delete_memories and purge_expired_memories_at.
Delete ==
  /\ Step
  /\ \E ids \in SUBSET DOMAIN engine.entries \ {{}} : Done(Removed(engine, table, ids))
  /\ UNCHANGED <<config, saved, pruned, clobbered>>

\* memory_prune_at_checked: what stays is not written.
Prune ==
  /\ Step
  /\ \E ids \in SUBSET DOMAIN engine.entries \ {{}} :
       LET r == RemovedOnly(engine, table, ids)
       IN  Done(r) /\ pruned' = (pruned \/ r.linked # {})
  /\ UNCHANGED <<config, saved, clobbered>>

Linked(e, other) == [e EXCEPT !.links = @ \cup {other}]

Link ==
  /\ Step
  /\ \E a, b \in DOMAIN engine.entries :
       LET g == [engine EXCEPT !.entries[a] = Linked(@, b)]
           h == [g EXCEPT !.entries[b] = Linked(@, a)]
       IN  Done([engine |-> h, table |-> With(With(table, a, h.entries[a]), b, h.entries[b])])
  /\ UNCHANGED <<config, saved, pruned, clobbered>>

\* configure: limits that the engine does not respect are refused.
Configure ==
  /\ Step
  /\ \E c \in Limits :
       /\ c # config
       /\ Cardinality(DOMAIN engine.spaces) <= c.spaces
       /\ \A id \in DOMAIN engine.entries : Admits(engine, c, id, engine.entries[id])
       /\ config' = c
  /\ engine' = [engine EXCEPT !.located = NoFunction, !.dirty = DOMAIN engine.entries \cup @]
  /\ UNCHANGED <<table, saved, unread, pruned, clobbered>>

\* prepare_indexes: what is dirty leaves its index and enters the one of its space.
Prepared(g) ==
  LET in == {id \in g.dirty \cap DOMAIN g.entries : g.entries[id].space # None}
  IN  [g EXCEPT !.located = [id \in (DOMAIN @ \ g.dirty) \cup in |->
                               IF id \in in THEN g.entries[id].space ELSE @[id]],
                !.dirty = {}]

\* prepare_memory_indexes and every search.
Prepare ==
  /\ engine' = Prepared(engine)
  /\ UNCHANGED <<table, config, saved, unread, pruned, clobbered, steps>>

Begin  == saved = <<>> /\ saved' = <<table>>
            /\ UNCHANGED <<table, engine, config, unread, pruned, clobbered, steps>>
Commit == saved # <<>> /\ saved' = <<>>
            /\ UNCHANGED <<table, engine, config, unread, pruned, clobbered, steps>>

\* Connection::rollback, which loads into the engine that it has emptied, and ROLLBACK
\* as a statement, which keeps the old one until the new one is complete.
Rollback ==
  /\ saved # <<>> /\ saved' = <<>>
  /\ \E otherwise \in {LoadInto(config, saved[1]).engine, engine} : Rebuild(saved[1], otherwise)
  /\ UNCHANGED <<config, pruned, clobbered, steps>>

Savepoint ==
  /\ Len(saved) \in 1 .. MaxSavepoints
  /\ saved' = Append(saved, table)
  /\ UNCHANGED <<table, engine, config, unread, pruned, clobbered, steps>>
RollbackTo(k) ==
  /\ k \in 2 .. Len(saved)
  /\ saved' = SubSeq(saved, 1, k)
  /\ Rebuild(saved[k], engine)
  /\ UNCHANGED <<config, pruned, clobbered, steps>>

\* The database is closed and opened, with limits that admit what it holds: with others
\* it does not open.
Reopen ==
  /\ Step
  /\ saved' = <<>>
  /\ LET docs == IF saved = <<>> THEN table ELSE saved[1]
     IN  \E c \in Limits :
           /\ LoadInto(c, docs).ok
           /\ config' = c /\ table' = docs /\ engine' = LoadInto(c, docs).engine
  /\ unread' = FALSE
  /\ UNCHANGED <<pruned, clobbered>>

Init ==
  /\ table = NoFunction /\ engine = Empty /\ config \in Limits
  /\ saved = <<>>
  /\ unread = FALSE /\ pruned = FALSE /\ clobbered = FALSE
  /\ steps = 0

Next ==
  \/ WriteBatch \/ Delete \/ Prune \/ Link \/ Configure \/ Prepare
  \/ Begin \/ Commit \/ Rollback \/ Savepoint
  \/ \E k \in 2 .. MaxSavepoints + 1 : RollbackTo(k)
  \/ Reopen

Spec == Init /\ [][Next]_vars

-----------------------------------------------------------------------------
(* Properties                                                              *)

Entry == [key : Key \cup {None}, space : Space \cup {None}, rev : Nat \ {0}, links : SUBSET Id]
IsTable(docs) == DOMAIN docs \subseteq Id /\ Range(docs) \subseteq Entry

\* The table and the engine have their types, and the engine keeps to its limits.
TypeOK ==
  /\ IsTable(table) /\ \A k \in DOMAIN saved : IsTable(saved[k])
  /\ IsTable(engine.entries) /\ engine.next \in 1 .. MaxId + 1
  /\ config \in Limits /\ Cardinality(DOMAIN engine.entries) <= config.documents

\* What the engine derives is what its memories say: a key leads to its memory and no
\* other, a space counts its memories, and each vector is in the index of its space or
\* waits to be put there.
DerivedIsExact ==
  LET entries == engine.entries
  IN  /\ engine.external = [key \in {entries[id].key : id \in DOMAIN entries} \ {None} |->
                              CHOOSE id \in DOMAIN entries : entries[id].key = key]
      /\ \A a, b \in DOMAIN entries : entries[a].key = entries[b].key => a = b \/ entries[a].key = None
      /\ engine.spaces = [s \in {entries[id].space : id \in DOMAIN entries} \ {None} |->
                            Cardinality({id \in DOMAIN entries : entries[id].space = s})]
      /\ \A id \in Id \ engine.dirty :
           (id \in DOMAIN engine.located) <=> (id \in DOMAIN entries /\ entries[id].space # None)
      /\ \A id \in DOMAIN engine.located \ engine.dirty : engine.located[id] = entries[id].space

\* The engine holds the memories of the table, through failing batches, savepoints,
\* rollbacks and reopening, unless a rebuild has failed; and their links, unless a prune
\* has taken some away; and what it derives is always what its memories say.
EngineFollows ==
  /\ TypeOK /\ DerivedIsExact
  /\ \/ unread
     \/ /\ DOMAIN engine.entries = DOMAIN table
        /\ \A id \in DOMAIN table :
             /\ engine.entries[id] = [table[id] EXCEPT !.links = engine.entries[id].links]
             /\ pruned \/ engine.entries[id].links = table[id].links

\* A memory that is stored never takes the place of another one in the table, unless the
\* engine could not be rebuilt and does not know of it.
NothingClobbered == ~ clobbered

\* What links of the engine say is what the table says, pruned or not.
LinksAreSaved ==
  unread \/ \A id \in DOMAIN table : id \in DOMAIN engine.entries =>
              engine.entries[id].links = table[id].links
=============================================================================

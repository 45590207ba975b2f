---------------------------- MODULE VectorIndex ----------------------------
(***************************************************************************)
(* The vector indexes that the SQL executor (src/sql/executor.rs) keeps in *)
(* memory over tables with a vector column, and the snapshots of them that *)
(* it stores in __sys_vector_snapshots: persist_vector_indexes_to_disk,    *)
(* load_vector_indexes_from_disk and what each statement does to an index. *)
(*                                                                         *)
(* An index is what Hnsw makes of it while it finds everything: its        *)
(* dimensions and a vector for each of its row numbers.  The pages have    *)
(* the semantics of PageStore, so a transaction is a stack of the contents *)
(* to go back to.  A row is its vector; a snapshot holds the rows that it  *)
(* was made of, for which the code has a checksum.                         *)
(***************************************************************************)
EXTENDS Naturals, Sequences, SequencesExt, FiniteSets, Functions

CONSTANTS
  Name,     \* names of tables
  Row,      \* row numbers
  Vector,   \* vectors, records with their number of dimensions
  Null,     \* no vector
  Kinds,    \* statements that are used, of those that an index does not follow:
            \* "null" (an UPDATE of a vector to NULL), "rename"
  MaxStatements, MaxSavepoints \* bounds

VARIABLES
  disk,    \* the pages: tables and snapshots
  indexes, \* SQLExecutor.vector_indexes
  saved,   \* the contents that the transaction and its savepoints go back to
  count    \* statements so far

vars == <<disk, indexes, saved, count>>

Dimension == {v.dims : v \in Vector}
With(f, x, y) == [z \in DOMAIN f \cup {x} |-> IF z = x THEN y ELSE f[z]]
Without(f, x) == Restrict(f, DOMAIN f \ {x})

NewIndex(dims) == [dims |-> dims, vectors |-> <<>>]

\* The vectors of a table, of which an index is built that no snapshot gives.
VectorsOf(rows) == Restrict(rows, {r \in DOMAIN rows : rows[r] # Null})
Built(table) == [dims |-> table.dims, vectors |-> VectorsOf(table.rows)]

\* Fault: a snapshot counts whatever rows it was made of.
LoadUnchecked(d) ==
  [n \in DOMAIN d.tables |->
     IF n \in DOMAIN d.snapshots THEN d.snapshots[n].index ELSE Built(d.tables[n])]

\* load_vector_indexes_from_disk: a snapshot counts while its table has the same rows.
Load(d) ==
  [n \in DOMAIN d.tables |->
     IF n \in DOMAIN d.snapshots /\ d.snapshots[n].rows = d.tables[n].rows
     THEN d.snapshots[n].index ELSE Built(d.tables[n])]

Snapshot(d, n) == [index |-> indexes[n], rows |-> d.tables[n].rows]
Persisted(d, names) ==
  [d EXCEPT !.snapshots = [n \in DOMAIN @ \cup names |->
                             IF n \in names THEN Snapshot(d, n) ELSE @[n]]]

\* persist_vector_indexes_to_disk stops at an index whose table is not there.
Persistable == DOMAIN indexes \subseteq DOMAIN disk.tables

-----------------------------------------------------------------------------
(* Statements.                                                             *)

Statement == count < MaxStatements /\ count' = count + 1

\* atomic_statement: what the operation makes of the pages and the indexes, or, when it
\* or its commit fails, the pages as they were, with the indexes loaded again.
Succeeds(d, ix) == disk' = d /\ indexes' = ix /\ UNCHANGED saved
Fails == indexes' = Load(disk) /\ UNCHANGED <<disk, saved>>
Atomic(ok, d, ix) == Statement /\ ((ok /\ Succeeds(d, ix)) \/ Fails)

WithRows(n, rows) == [disk EXCEPT !.tables[n].rows = rows]

\* insert_vector into the index of n, which is made when there is none.
IndexOf(n, v) == IF n \in DOMAIN indexes THEN indexes[n] ELSE NewIndex(v.dims)
Accepts(n, v) == v # Null => IndexOf(n, v).dims = v.dims
Indexed(n, gone, r, v) ==
  LET left(ix) == [ix EXCEPT !.vectors = Restrict(@, DOMAIN @ \ gone)]
  IN  IF v # Null THEN With(indexes, n, [left(IndexOf(n, v)) EXCEPT !.vectors = With(@, r, v)])
      ELSE IF n \in DOMAIN indexes THEN [indexes EXCEPT ![n] = left(@)] ELSE indexes

CreateTable(n, dims) ==
  /\ n \notin DOMAIN disk.tables
  /\ Atomic(TRUE, [disk EXCEPT !.tables = With(@, n, [dims |-> dims, rows |-> <<>>])],
            With(indexes, n, NewIndex(dims)))

\* INSERT, with the conflict clauses that put the new vector in the place of a row.
Insert(n, r, v, replaces) ==
  /\ n \in DOMAIN disk.tables
  /\ v # Null => v.dims = disk.tables[n].dims
  /\ LET rows == disk.tables[n].rows
     IN  Atomic((r \in DOMAIN rows => replaces) /\ Accepts(n, v),
                WithRows(n, With(rows, r, v)), Indexed(n, {r}, r, v))

\* UPDATE of a vector, of the key, or of both.  The index lets the row go when it gets
\* another vector or another number.
Update(n, r, s, v) ==
  /\ n \in DOMAIN disk.tables /\ r \in DOMAIN disk.tables[n].rows
  /\ v # Null => v.dims = disk.tables[n].dims
  /\ v = Null => "null" \in Kinds \/ s # r \/ disk.tables[n].rows[r] = Null
  /\ LET rows == disk.tables[n].rows
     IN  Atomic((s # r => s \notin DOMAIN rows) /\ Accepts(n, v),
                WithRows(n, With(Without(rows, r), s, v)),
                Indexed(n, IF v # Null \/ s # r THEN {r} ELSE {}, s, v))

Delete(n, r) ==
  /\ n \in DOMAIN disk.tables /\ r \in DOMAIN disk.tables[n].rows
  /\ Atomic(TRUE, WithRows(n, Without(disk.tables[n].rows, r)), Indexed(n, {r}, r, Null))

DropTable(n) ==
  /\ n \in DOMAIN disk.tables
  /\ Atomic(TRUE, [disk EXCEPT !.tables = Without(@, n)], Without(indexes, n))

\* ALTER TABLE RENAME TO, which leaves the index where it is.
RenameTable(n, o) ==
  /\ "rename" \in Kinds
  /\ n \in DOMAIN disk.tables /\ o \notin DOMAIN disk.tables
  /\ Atomic(TRUE, [disk EXCEPT !.tables = With(Without(@, n), o, @[n])], indexes)

Begin ==
  /\ saved = <<>>
  /\ Statement
  /\ saved' = <<disk>>
  /\ UNCHANGED <<disk, indexes>>

Savepoint ==
  /\ saved # <<>> /\ Len(saved) <= MaxSavepoints
  /\ Statement
  /\ saved' = Append(saved, disk)
  /\ UNCHANGED <<disk, indexes>>

\* COMMIT stores the snapshots first.  When it fails the transaction stays, with some of them.
Commit ==
  /\ saved # <<>>
  /\ Statement
  /\ UNCHANGED indexes
  /\ \/ Persistable /\ disk' = Persisted(disk, DOMAIN indexes) /\ saved' = <<>>
     \/ /\ \E names \in SUBSET (DOMAIN indexes \cap DOMAIN disk.tables) :
             disk' = Persisted(disk, names)
        /\ UNCHANGED saved

\* ROLLBACK, and ROLLBACK TO the k-th savepoint, which stays.
RollbackTo(k) ==
  /\ k \in DOMAIN saved
  /\ Statement
  /\ disk' = saved[k]
  /\ indexes' = Load(disk')
  /\ saved' = IF k = 1 THEN <<>> ELSE SubSeq(saved, 1, k)

Release(k) ==
  /\ k \in DOMAIN saved \ {1}
  /\ Statement
  /\ saved' = SubSeq(saved, 1, k - 1)
  /\ UNCHANGED <<disk, indexes>>

\* VACUUM and persist_vector_snapshots store snapshots outside atomic_statement: all of
\* them, or those that came before a failure.
Persist ==
  /\ Statement
  /\ \E names \in SUBSET (DOMAIN indexes \cap DOMAIN disk.tables) :
       disk' = Persisted(disk, names)
  /\ UNCHANGED <<indexes, saved>>

\* The connection ends, and with it the transaction; the database is opened again.
Reopen ==
  /\ Statement
  /\ disk' = IF saved = <<>> THEN disk ELSE saved[1]
  /\ indexes' = Load(disk')
  /\ saved' = <<>>

Init ==
  /\ disk = [tables |-> <<>>, snapshots |-> <<>>]
  /\ indexes = <<>> /\ saved = <<>> /\ count = 0

Next ==
  \/ \E n \in Name :
       \/ \E dims \in Dimension : CreateTable(n, dims)
       \/ \E r \in Row, v \in Vector \cup {Null} :
            \/ \E replaces \in BOOLEAN : Insert(n, r, v, replaces)
            \/ \E s \in Row : Update(n, r, s, v)
       \/ \E r \in Row : Delete(n, r)
       \/ DropTable(n) \/ \E o \in Name \ {n} : RenameTable(n, o)
  \/ Begin \/ Savepoint \/ Commit \/ Persist \/ Reopen
  \/ \E k \in 1 .. MaxSavepoints + 1 : RollbackTo(k) \/ Release(k)

Spec == Init /\ [][Next]_vars

-----------------------------------------------------------------------------
(* SELECT ... NEAR.  Vectors that are equal are nearer than others.         *)

\* The sets of k rows of which none is further away than one that is left out.
Nearest(vectors, q, k) ==
  LET far(r) == IF vectors[r] = q THEN 0 ELSE 1
      all    == DOMAIN vectors
  IN  {S \in SUBSET all :
         /\ Cardinality(S) = IF k < Cardinality(all) THEN k ELSE Cardinality(all)
         /\ \A r \in S, o \in all \ S : far(r) <= far(o)}

\* The condition is decided on the rows; then an index is searched among those, and what
\* it finds is looked up in the table.  Without an index every row is looked at.
VectorSearch(n, q, k, where) ==
  LET rows    == disk.tables[n].rows
      allowed == where \cap DOMAIN rows
      Among(vectors) == Restrict(vectors, DOMAIN vectors \cap allowed)
  IN  IF n \in DOMAIN indexes
      THEN {S \cap DOMAIN rows : S \in Nearest(Among(indexes[n].vectors), q, k)}
      ELSE Nearest(Among(VectorsOf(rows)), q, k)

-----------------------------------------------------------------------------
(* Properties.                                                             *)

\* A search finds the nearest rows of those that the condition admits.
SearchesFindRows ==
  \A n \in DOMAIN disk.tables, where \in SUBSET Row, k \in {1, 2} :
    \A q \in {v \in Vector : v.dims = disk.tables[n].dims} :
      LET rows == Restrict(disk.tables[n].rows, DOMAIN disk.tables[n].rows \cap where)
      IN  VectorSearch(n, q, k, where) = Nearest(VectorsOf(rows), q, k)

\* A vector search sees the vectors of the rows as they are, and every index has a table:
\* one that has none makes every COMMIT fail.  A snapshot that the executor would take for
\* the index of a table, now or after a rollback, is that index.
IndexFollowsRows ==
  /\ count \in 0 .. MaxStatements
  /\ Persistable /\ SearchesFindRows
  /\ \A n \in DOMAIN indexes : indexes[n] = Built(disk.tables[n])
  /\ \A d \in {disk} \cup Range(saved) : \A n \in DOMAIN d.snapshots \cap DOMAIN d.tables :
       d.snapshots[n].rows = d.tables[n].rows => d.snapshots[n].index = Built(d.tables[n])
=============================================================================

------------------------------- MODULE Tables -------------------------------
(***************************************************************************)
(* Tables, their rows and their secondary indexes: what the SQL executor   *)
(* (src/sql/executor.rs) does to them in one statement, and the catalog    *)
(* (src/sql/catalog.rs) that it keeps in memory over the schema records of *)
(* page 1.                                                                 *)
(*                                                                         *)
(* A connection executes one statement at a time; the pages under it have  *)
(* the semantics of PageStore, so a transaction is a stack of the contents *)
(* to go back to.  Every table has an integer primary key, and a row is    *)
(* its value of that column with the values of the others, in the order of *)
(* the columns; a row that is older than a column ends before it.          *)
(***************************************************************************)
EXTENDS Naturals, Sequences, FiniteSets, Functions, SequencesExt

CONSTANTS
  Name,          \* names of tables
  Index,         \* names of indexes
  Column,        \* names of columns, the primary key excluded
  Value,         \* values of those columns
  Null,
  MaxId,         \* bound: row numbers
  Keys,          \* how statements give the primary key: integer, null, text
  MaxRows,       \* bound: rows that one INSERT gives
  MaxStatements, \* bound: statements that change something
  MaxSavepoints  \* bound: savepoints of a transaction

ASSUME TablesAssumption ==
  /\ Null \notin Value
  /\ MaxId \in Nat /\ MaxStatements \in Nat /\ MaxSavepoints \in Nat

VARIABLES
  disk,  \* the pages: tables with their rows, indexes with their postings
  mem,   \* SQLExecutor.catalog
  saved, \* the contents that the open transaction and its savepoints go back to
  count  \* statements so far

vars == <<disk, mem, saved, count>>

Id    == 1 .. MaxId
Field == Value \cup {Null}

NoFunction == <<>>
With(f, x, y) == [z \in DOMAIN f \cup {x} |-> IF z = x THEN y ELSE f[z]]
Without(f, x) == Restrict(f, DOMAIN f \ {x})

Position(columns, c) == CHOOSE k \in 1 .. Len(columns) : columns[k] = c

\* decode_row and get_field_or_json_path: a column that the row does not reach is Null,
\* and so is, for an index, one that the table does not have.
Get(columns, row, c) ==
  IF c \notin ToSet(columns) \/ Position(columns, c) > Len(row.values) THEN Null
  ELSE row.values[Position(columns, c)]

Padded(columns, row) == [k \in 1 .. Len(columns) |-> Get(columns, row, columns[k])]

-----------------------------------------------------------------------------
(* The catalog.                                                            *)

\* Catalog::load: the counter is the one of the schema record, which is written
\* when the table is created or altered, and not by INSERT.
Load(d) ==
  [tables  |-> [n \in DOMAIN d.tables |->
                  [columns |-> d.tables[n].columns, next |-> d.tables[n].next,
                   reloaded |-> TRUE]],
   indexes |-> [i \in DOMAIN d.indexes |->
                  [table |-> d.indexes[i].table, column |-> d.indexes[i].column]]]

IndexesOf(m, n) == {i \in DOMAIN m.indexes : m.indexes[i].table = n}

-----------------------------------------------------------------------------
(* Rows and postings.  A store is the pages with the catalog over them, and *)
(* whether the statement may go on.                                         *)

Store(d, m) == [ok |-> TRUE, disk |-> d, mem |-> m]
Fail(s)     == [s EXCEPT !.ok = FALSE]

\* IndexBucket: the row under its value, when it has one.
Posting(m, n, i, id, row) ==
  LET v == Get(m.tables[n].columns, row, m.indexes[i].column)
  IN  IF v = Null THEN {} ELSE {<<v, id>>}

\* The indexes of table n take some rows out and others in.
Reindexed(m, indexes, n, out, in) ==
  [i \in DOMAIN indexes |->
     IF i \notin IndexesOf(m, n) THEN indexes[i]
     ELSE [indexes[i] EXCEPT !.post =
             (@ \ UNION {Posting(m, n, i, o[1], o[2]) : o \in out})
               \cup UNION {Posting(m, n, i, o[1], o[2]) : o \in in}]]

Reindex(s, n, out, in) == [s EXCEPT !.disk.indexes = Reindexed(s.mem, @, n, out, in)]

RowsOf(s, n) == s.disk.tables[n].rows

RemoveRow(s, n, id) ==
  Reindex([s EXCEPT !.disk.tables[n].rows = Without(@, id)],
          n, {<<id, RowsOf(s, n)[id]>>}, {})

\* What is stored under the number before is replaced, and its postings are not.
PutRow(s, n, id, row) ==
  Reindex([s EXCEPT !.disk.tables[n].rows = With(@, id, row)], n, {}, {<<id, row>>})

-----------------------------------------------------------------------------
(* INSERT                                                                  *)

\* Fault: the number that was generated is not put into the row.
PickedUnset(next, key) ==
  IF key.given = "integer"
  THEN [id |-> key.n, key |-> key.n, mayExist |-> TRUE,
        next |-> IF key.n >= next THEN key.n + 1 ELSE next]
  ELSE [id |-> next, key |-> IF key.given = "null" THEN 0 ELSE key.n,
        mayExist |-> FALSE, next |-> next + 1]

\* The number of the row: its integer key, or the counter's; other keys are
\* converted after the number was chosen.
Picked(next, key) ==
  IF key.given = "integer"
  THEN [id |-> key.n, key |-> key.n, mayExist |-> TRUE,
        next |-> IF key.n >= next THEN key.n + 1 ELSE next]
  ELSE [id |-> next, key |-> IF key.given = "null" THEN next ELSE key.n,
        mayExist |-> FALSE, next |-> next + 1]

\* DO UPDATE: the row that exists, with one column set.
Revised(m, n, row, set) ==
  LET columns == m.tables[n].columns
  IN  [row EXCEPT !.values =
         [k \in 1 .. Len(columns) |->
            IF columns[k] = set[1] THEN set[2] ELSE Get(columns, row, columns[k])]]

\* execute_insert, for one row given as its key and values.  A generated number is not
\* looked up (replaced, a history field, says that a row had it).
InsertRow(s, n, given, conflict) ==
  LET p     == Picked(s.mem.tables[n].next, given.key)
      s1    == [s EXCEPT !.mem.tables[n].next = p.next]
      taken == p.mayExist /\ p.id \in DOMAIN RowsOf(s, n)
      s2    == [s1 EXCEPT !.disk.tables[n].replaced = @ \/ p.id \in DOMAIN RowsOf(s, n)]
      row   == [key |-> p.key, values |-> given.values]
  IN  CASE ~ s.ok \/ p.id \notin Id -> Fail(s)
        [] s.ok /\ p.id \in Id /\ ~ taken -> PutRow(s2, n, p.id, row)
        [] s.ok /\ taken /\ conflict.action = "abort"   -> Fail(s)
        [] s.ok /\ taken /\ conflict.action = "ignore"  -> s1
        [] s.ok /\ taken /\ conflict.action = "replace" ->
             PutRow(RemoveRow(s1, n, p.id), n, p.id, row)
        [] s.ok /\ taken /\ conflict.action = "update" ->
             PutRow(RemoveRow(s1, n, p.id), n, p.id,
                    Revised(s.mem, n, RowsOf(s, n)[p.id], conflict.set))

\* The rows in the order in which they are given.
Inserted(n, rows, conflict) ==
  LET after[k \in 0 .. Len(rows)] ==
        IF k = 0 THEN Store(disk, mem) ELSE InsertRow(after[k - 1], n, rows[k], conflict)
  IN  after[Len(rows)]

-----------------------------------------------------------------------------
(* UPDATE and DELETE                                                       *)

\* The row numbers that a condition (a column and a value, or none) selects.
Matching(n, where) ==
  {id \in DOMAIN disk.tables[n].rows :
     where # <<>> =>
       where[2] = Get(mem.tables[n].columns, disk.tables[n].rows[id], where[1])}

\* Fault: the row that has the new number is not looked for.
UpdateRowBlindly(s, n, id, set, toId) ==
  LET new == IF toId = 0 THEN id ELSE toId
      old == disk.tables[n].rows[id]
      row == [Revised(s.mem, n, old, set) EXCEPT !.key = IF toId = 0 THEN @ ELSE toId]
      s1  == RemoveRow(s, n, id)
      s2  == PutRow(s1, n, new, row)
  IN  IF ~ s.ok \/ id \notin DOMAIN RowsOf(s, n) THEN Fail(s)
      ELSE [s2 EXCEPT !.mem.tables[n].next = IF new >= @ THEN new + 1 ELSE @]

\* Fault: the counter does not learn of the new number.
UpdateRowUncounted(s, n, id, set, toId) ==
  LET new == IF toId = 0 THEN id ELSE toId
      old == disk.tables[n].rows[id]
      row == [Revised(s.mem, n, old, set) EXCEPT !.key = IF toId = 0 THEN @ ELSE toId]
  IN  IF ~ s.ok \/ (new # id /\ new \in DOMAIN RowsOf(s, n)) THEN Fail(s)
      ELSE PutRow(RemoveRow(s, n, id), n, new, row)

\* One row of an UPDATE that sets a column and perhaps the key, to toId: the row is the one
\* that the scan found.
UpdateRow(s, n, id, set, toId) ==
  LET new == IF toId = 0 THEN id ELSE toId
      old == disk.tables[n].rows[id]
      row == [Revised(s.mem, n, old, set) EXCEPT !.key = IF toId = 0 THEN @ ELSE toId]
      s1  == PutRow(RemoveRow(s, n, id), n, new, row)
  IN  IF ~ s.ok \/ (new # id /\ new \in DOMAIN RowsOf(s, n)) THEN Fail(s)
      ELSE [s1 EXCEPT !.mem.tables[n].next = IF new >= @ THEN new + 1 ELSE @]

\* The rows that were selected, in the order of the scan, that of their numbers.
Updated(n, set, toId, where) ==
  LET after[id \in 0 .. MaxId] ==
        IF id = 0 THEN Store(disk, mem)
        ELSE IF id \in Matching(n, where) THEN UpdateRow(after[id - 1], n, id, set, toId)
        ELSE after[id - 1]
  IN  after[MaxId]

Deleted(n, where) ==
  LET after[id \in 0 .. MaxId] ==
        IF id = 0 THEN Store(disk, mem)
        ELSE IF id \in Matching(n, where) THEN RemoveRow(after[id - 1], n, id)
        ELSE after[id - 1]
  IN  after[MaxId]

-----------------------------------------------------------------------------
(* Statements: atomic_statement around each of them.                       *)

Counted == count < MaxStatements /\ count' = count + 1

\* A statement that fails, for its own reason or for one of the pager's, leaves the
\* pages as they were; the catalog is loaded again.
Finish(s) ==
  /\ IF s.ok THEN disk' = s.disk /\ mem' = s.mem
             ELSE disk' = disk /\ mem' = Load(disk)
  /\ UNCHANGED saved

Becomes(d, m) == Counted /\ disk' = d /\ mem' = m /\ UNCHANGED saved

Fails == Counted /\ Finish(Fail(Store(disk, mem)))

Rows(n)  == [key : {[given |-> g, n |-> k] : g \in Keys, k \in Id},
             values : [1 .. Len(mem.tables[n].columns) -> Field]]
Sets(n)  == ToSet(mem.tables[n].columns) \X Field
Where(n) == {<<>>} \cup (ToSet(mem.tables[n].columns) \X Value)
Conflicts(n) ==
  {[action |-> a, set |-> <<>>] : a \in {"abort", "ignore", "replace"}}
    \cup {[action |-> "update", set |-> x] : x \in Sets(n)}

Insert(n) ==
  /\ Counted
  /\ \E rows \in UNION {[1 .. k -> Rows(n)] : k \in 1 .. MaxRows}, conflict \in Conflicts(n) :
       Finish(Inserted(n, rows, conflict))

Update(n) ==
  /\ Counted
  /\ \E set \in Sets(n), toId \in 0 .. MaxId, where \in Where(n) :
       Finish(Updated(n, set, toId, where))

Delete(n) ==
  /\ Counted
  /\ \E where \in Where(n) : Finish(Deleted(n, where))

-----------------------------------------------------------------------------
(* Statements on the schema.  Each of them writes the schema record of what *)
(* it changes, the counter of a table included.                             *)

CreateTable(n) ==
  /\ n \notin DOMAIN mem.tables
  /\ \E c \in Column :
       Becomes([disk EXCEPT !.tables = With(@, n, [columns |-> <<c>>, next |-> 1, rows |-> NoFunction,
                                                 replaced |-> FALSE])],
               [mem EXCEPT !.tables = With(@, n, [columns |-> <<c>>, next |-> 1, reloaded |-> FALSE])])

\* The indexes that are known under the name of the table go with it.
DropTable(n) ==
  Becomes([tables  |-> Without(disk.tables, n),
           indexes |-> Restrict(disk.indexes, DOMAIN disk.indexes \ IndexesOf(mem, n))],
          [tables  |-> Without(mem.tables, n),
           indexes |-> Restrict(mem.indexes, DOMAIN mem.indexes \ IndexesOf(mem, n))])

\* The definition of table n becomes t, in memory and in the schema record.
Alter(n, columns) ==
  Becomes([disk EXCEPT !.tables[n] = [@ EXCEPT !.columns = columns, !.next = mem.tables[n].next]],
          [mem EXCEPT !.tables[n].columns = columns])

AddColumn(n) ==
  \E c \in Column \ ToSet(mem.tables[n].columns) :
    Alter(n, Append(mem.tables[n].columns, c))

\* History: the index no longer follows what it was made for.
Orphaned(d, n, c) ==
  [d EXCEPT !.indexes = [i \in DOMAIN @ |->
     IF @[i].table = n /\ (c = "all" \/ @[i].column = c) THEN [@[i] EXCEPT !.orphan = TRUE] ELSE @[i]]]

\* drop_column rewrites every row without the value.
DropColumn(n) ==
  \E c \in ToSet(mem.tables[n].columns) :
    LET columns == mem.tables[n].columns
        k       == Position(columns, c)
        rows    == disk.tables[n].rows
        shorter == [id \in DOMAIN rows |->
                      [rows[id] EXCEPT !.values = RemoveAt(Padded(columns, rows[id]), k)]]
    IN  Becomes([Orphaned(disk, n, c) EXCEPT !.tables[n] =
                   [@ EXCEPT !.columns = RemoveAt(columns, k), !.next = mem.tables[n].next,
                             !.rows = shorter]],
                [mem EXCEPT !.tables[n].columns = RemoveAt(columns, k)])

RenameColumn(n) ==
  \E c \in ToSet(mem.tables[n].columns), d \in Column \ ToSet(mem.tables[n].columns) :
    LET columns == [mem.tables[n].columns EXCEPT ![Position(mem.tables[n].columns, c)] = d]
    IN  Becomes([Orphaned(disk, n, c) EXCEPT !.tables[n] = [@ EXCEPT !.columns = columns,
                                                                     !.next = mem.tables[n].next]],
                [mem EXCEPT !.tables[n].columns = columns])

\* The indexes of the table keep its old name.
RenameTable(n) ==
  \E o \in Name \ DOMAIN mem.tables :
    Becomes([Orphaned(disk, n, "all") EXCEPT !.tables =
               With(Without(@, n), o, [@[n] EXCEPT !.next = mem.tables[n].next])],
            [mem EXCEPT !.tables = With(Without(@, n), o, @[n])])

CreateIndex(n) ==
  \E i \in Index \ DOMAIN mem.indexes, c \in ToSet(mem.tables[n].columns) :
    LET m == [mem EXCEPT !.indexes = With(@, i, [table |-> n, column |-> c])]
    IN  Becomes([disk EXCEPT !.indexes =
                   With(@, i, [table |-> n, column |-> c, orphan |-> FALSE,
                               post |-> UNION {Posting(m, n, i, id, disk.tables[n].rows[id]) :
                                                 id \in DOMAIN disk.tables[n].rows}])],
                m)

DropIndex ==
  \E i \in DOMAIN mem.indexes :
    Becomes([disk EXCEPT !.indexes = Without(@, i)], [mem EXCEPT !.indexes = Without(@, i)])

-----------------------------------------------------------------------------
(* Transactions, and the end of the process.                               *)

Begin   == saved = <<>> /\ saved' = <<disk>> /\ UNCHANGED <<disk, mem, count>>
Commit  == saved # <<>> /\ saved' = <<>> /\ UNCHANGED <<disk, mem, count>>

Savepoint ==
  /\ saved # <<>> /\ Len(saved) <= MaxSavepoints
  /\ saved' = Append(saved, disk)
  /\ UNCHANGED <<disk, mem, count>>

Release ==
  /\ Len(saved) > 1
  /\ saved' = Front(saved)
  /\ UNCHANGED <<disk, mem, count>>

\* Fault: the catalog is not loaded again.
RollbackToCatalogKept ==
  /\ Len(saved) > 1 /\ disk' = Last(saved)
  /\ UNCHANGED <<mem, saved, count>>

RollbackTo ==
  /\ Len(saved) > 1
  /\ disk' = Last(saved) /\ mem' = Load(disk')
  /\ UNCHANGED <<saved, count>>

Rollback ==
  /\ saved # <<>>
  /\ disk' = Head(saved) /\ mem' = Load(disk') /\ saved' = <<>>
  /\ UNCHANGED count

\* The process ends, in or out of a transaction, and the database is opened again.
Reopen ==
  /\ disk' = IF saved = <<>> THEN disk ELSE Head(saved)
  /\ mem' = Load(disk') /\ saved' = <<>>
  /\ Counted

-----------------------------------------------------------------------------
(* The specification.                                                      *)

Init ==
  /\ disk = [tables |-> NoFunction, indexes |-> NoFunction]
  /\ mem = Load(disk) /\ saved = <<>> /\ count = 0

Next ==
  \/ \E n \in Name : CreateTable(n)
  \/ \E n \in DOMAIN mem.tables :
       \/ Insert(n) \/ Update(n) \/ Delete(n)
       \/ DropTable(n) \/ AddColumn(n) \/ DropColumn(n) \/ RenameColumn(n) \/ RenameTable(n)
       \/ CreateIndex(n)
  \/ DropIndex \/ Fails
  \/ Begin \/ Commit \/ Rollback \/ Savepoint \/ Release \/ RollbackTo \/ Reopen

Spec == Init /\ [][Next]_vars

-----------------------------------------------------------------------------
(* Properties.                                                             *)

\* The types; a row has no more values than its table has columns.
TypeOK ==
  /\ \A n \in DOMAIN disk.tables :
       LET t == disk.tables[n]
       IN  /\ n \in Name /\ t.columns \in Seq(Column) /\ IsInjective(t.columns)
           /\ t.next \in Nat \ {0}
           /\ DOMAIN t.rows \subseteq Id
           /\ \A id \in DOMAIN t.rows : /\ t.rows[id].values \in Seq(Field)
                                        /\ Len(t.rows[id].values) <= Len(t.columns)
  /\ \A i \in DOMAIN disk.indexes : i \in Index /\ disk.indexes[i].post \subseteq Value \X Id
  /\ Len(saved) <= MaxSavepoints + 1 /\ count \in 0 .. MaxStatements

\* The catalog in memory says of tables, columns and indexes what the schema records
\* say, whatever failed or was rolled back.
CatalogCurrent ==
  /\ TypeOK
  /\ DOMAIN mem.tables = DOMAIN disk.tables
  /\ \A n \in DOMAIN mem.tables : mem.tables[n].columns = disk.tables[n].columns
  /\ mem.indexes = Load(disk).indexes

\* A search by key finds the row that a scan finds under it, and a SELECT finds the same
\* rows through an index as by scanning the table, unless the table or the column was
\* renamed or dropped under the index, or a row was replaced by one with a generated key.
IndexIsExact ==
  /\ \A n \in DOMAIN disk.tables : \A id \in DOMAIN disk.tables[n].rows :
       disk.tables[n].rows[id].key = id
  /\ \A i \in DOMAIN disk.indexes :
       LET x == disk.indexes[i]
       IN  ~ x.orphan /\ ~ disk.tables[x.table].replaced =>
             \A v \in Value :
               {id \in Id : <<v, id>> \in x.post} =
               {id \in DOMAIN disk.tables[x.table].rows :
                  Get(mem.tables[x.table].columns, disk.tables[x.table].rows[id], x.column) = v}

\* A key that is generated is a new one, so no row is replaced by an INSERT that does
\* not name it, unless the catalog was loaded again since the table was created.
FreshUnlessReloaded ==
  \A n \in DOMAIN mem.tables : \A id \in DOMAIN disk.tables[n].rows :
    mem.tables[n].reloaded \/ id < mem.tables[n].next

\* The same without the exception.
GeneratedKeysAreFresh ==
  \A n \in DOMAIN mem.tables : \A id \in DOMAIN disk.tables[n].rows : id < mem.tables[n].next

=============================================================================

----------------------------- MODULE TimeTravel -----------------------------
(***************************************************************************)
(* The history of versioned tables (src/sql/executor.rs): every row that a *)
(* statement writes is kept in __sys_time_travel with the time from which  *)
(* it holds, the version before it is closed at that time, and             *)
(* SELECT ... AS OF TIMESTAMP t reads the versions that hold at t.         *)
(*                                                                         *)
(* Times are seconds of the clock, or the time after the last one given    *)
(* when the clock has not passed it: every row that a statement changes    *)
(* has a time of its own.                                                  *)
(***************************************************************************)
EXTENDS Naturals, Sequences, FiniteSets, FiniteSetsExt, Functions, SequencesExt

CONSTANTS
  Name,          \* names of tables
  Versioned,     \* those created WITH (SYSTEM_VERSIONING = TRUE)
  Value,         \* what a row holds besides its number
  MaxId,         \* bound: row numbers
  MaxTime,       \* bound: times that are given
  MaxChanges     \* bound: statements

TimeTravelAssumption ==
  /\ Versioned \subseteq Name
  /\ MaxId \in Nat /\ MaxTime \in Nat /\ MaxChanges \in Nat

VARIABLES
  disk,   \* the pages: the rows, and the versions of __sys_time_travel
  mem,    \* the executor: the next version's number, the last time given, the pragma
  saved,  \* the contents that the open transaction goes back to, if any
  now,    \* the clock, in seconds
  changes \* statements so far

vars == <<disk, mem, saved, now, changes>>

Id    == 1 .. MaxId
Times == 0 .. MaxTime
Key   == Name \X Id
Forever == MaxTime + 1 \* u64::MAX

(* Four parts of disk are histories, and are not stored: past, the rows at   *)
(* every time; latest, the time of the last change; between, the times at    *)
(* which a row is being replaced; and lost, the tables whose history the     *)
(* code loses or misplaces, in four ways that are named where they occur.    *)
(* So is mem.reopened.                                                       *)
NoRows == <<>>

Init ==
  /\ disk = [rows |-> NoRows, versions |-> <<>>, past |-> [n \in Name |-> [t \in Times |-> {}]],
             latest |-> 0, between |-> {}, lost |-> {}]
  /\ mem = [next |-> 1, last |-> 0, on |-> FALSE, reopened |-> FALSE]
  /\ saved = <<>> /\ now \in {1} /\ changes = 0

-----------------------------------------------------------------------------
(* Times and versions.  A store is the pages with what the executor keeps   *)
(* over them, while a statement runs.                                       *)

Store == [disk |-> disk, mem |-> mem]

With(f, x, y) == [z \in DOMAIN f \cup {x} |-> IF z = x THEN y ELSE f[z]]
Without(f, xs) == Restrict(f, DOMAIN f \ xs)

\* next_temporal_timestamp; the time is then mem.last.
NextTime(s) ==
  [s EXCEPT !.mem.last = IF now <= @ THEN @ + 1 ELSE now]

IsTemporal(s, n) == n \in Versioned \/ s.mem.on

\* record_temporal_version: the number comes from the catalog in memory, whose
\* counter begins again at 1 when the catalog is loaded: a version that has the
\* number is replaced (first way to lose a history).
Record(s, key, value) ==
  LET v == s.mem.next
  IN  [s EXCEPT !.mem.next = @ + 1,
                !.disk.versions =
                   With(@, v, [key |-> key, value |-> value,
                               from |-> s.mem.last, to |-> Forever]),
                !.disk.lost =
                   IF v \in DOMAIN s.disk.versions
                   THEN @ \cup {s.disk.versions[v].key[1]} ELSE @]

OpenOf(s, key) ==
  {v \in DOMAIN s.disk.versions :
     s.disk.versions[v].key = key /\ s.disk.versions[v].to = Forever}

\* close_temporal_version: the first open version of the row, in the order of numbers.
Close(s, key) ==
  IF OpenOf(s, key) = {} THEN s
  ELSE [s EXCEPT !.disk.versions[Min(OpenOf(s, key))].to = s.mem.last]

Held(rows, n) == {<<key, rows[key]>> : key \in {k \in DOMAIN rows : k[1] = n}}

\* The rows change, at the time last given if the change is recorded; a time that is
\* not after the last one (the clock was behind it when the file was opened: second
\* way) and a change that is not recorded (third way) lose the table's history.
Changed(s, n, rows) ==
  LET t == s.mem.last
  IN  [s EXCEPT !.disk.rows = rows,
                !.disk.past[n] = [u \in Times |-> IF u >= t THEN Held(rows, n) ELSE @[u]],
                !.disk.latest = IF IsTemporal(s, n) THEN t ELSE @,
                !.disk.lost = IF (s.mem.reopened /\ t <= s.disk.latest) \/ ~ IsTemporal(s, n)
                              THEN @ \cup {n} ELSE @]

-----------------------------------------------------------------------------
(* What statements do to one row.                                           *)

\* execute_insert, for a row whose number is new.
InsertNew(s, key, value) ==
  LET s1 == IF IsTemporal(s, key[1]) THEN Record(NextTime(s), key, value) ELSE s
  IN  Changed(s1, key[1], With(s.disk.rows, key, value))

\* INSERT OR REPLACE and DO UPDATE: the old version is closed at one time and the new
\* one recorded at the next, and between the two the row is in no version.  REPLACE
\* closes the version whether the table is versioned or not.
InsertOver(s, key, value, replace) ==
  LET temporal == IsTemporal(s, key[1])
      s1 == IF temporal \/ replace THEN Close(NextTime(s), key) ELSE s
      s2 == IF temporal
            THEN Record(NextTime([s1 EXCEPT !.disk.between = @ \cup {s1.mem.last}]), key, value)
            ELSE s1
  IN  Changed(s2, key[1], With(s.disk.rows, key, value))

\* execute_update: from one number to another, or the same.
UpdateRow(s, key, new, value) ==
  LET s1 == IF IsTemporal(s, key[1])
            THEN Record(Close(NextTime(s), key), new, value) ELSE s
  IN  Changed(s1, key[1], With(Without(s.disk.rows, {key}), new, value))

\* Fault: the version of the row is left open.
DeleteRowOpen(s, key) ==
  Changed(NextTime(s), key[1], Without(s.disk.rows, {key}))

\* execute_delete.
DeleteRow(s, key) ==
  LET s1 == IF IsTemporal(s, key[1]) THEN Close(NextTime(s), key) ELSE s
  IN  Changed(s1, key[1], Without(s.disk.rows, {key}))

-----------------------------------------------------------------------------
(* Statements.                                                              *)

Becomes(s) == disk' = s.disk /\ mem' = s.mem

RowsOf(n) == {key \in DOMAIN disk.rows : key[1] = n}
InOrder(keys) == SetToSortSeq(keys, LAMBDA a, b : a[2] < b[2])

\* The catalog is loaded again: its counter is the schema record's.
Reloaded(m) == [m EXCEPT !.next = 1]

\* A statement that fails before it changed a row: the catalog is loaded all the same.
FailStatement == disk' = disk /\ mem' = Reloaded(mem)

Insert(key, value, conflict) ==
  IF key \notin DOMAIN disk.rows THEN Becomes(InsertNew(Store, key, value))
  ELSE CASE conflict = "abort"   -> FailStatement
         [] conflict = "replace" -> Becomes(InsertOver(Store, key, value, TRUE))
         [] conflict = "update"  -> Becomes(InsertOver(Store, key, value, FALSE))

UpdateAll(n, value) ==
  /\ RowsOf(n) # {}
  /\ Becomes(FoldLeft(LAMBDA s, key : UpdateRow(s, key, key, value),
                      Store, InOrder(RowsOf(n))))

UpdateKey(key, new) ==
  /\ key \in DOMAIN disk.rows /\ key[1] = new[1] /\ key # new
  /\ IF new \in DOMAIN disk.rows THEN FailStatement
     ELSE Becomes(UpdateRow(Store, key, new, disk.rows[key]))

Delete(keys) ==
  /\ keys # {} /\ keys \subseteq DOMAIN disk.rows
  /\ Becomes(FoldLeft(DeleteRow, Store, InOrder(keys)))

\* Statement::DropTable, and a table created under the name: the rows are gone and
\* their versions stay open (fourth way).
Recreate(n) ==
  /\ RowsOf(n) # {}
  /\ mem' = mem
  /\ LET rows == Without(disk.rows, RowsOf(n))
     IN  disk' = [disk EXCEPT !.rows = rows, !.lost = @ \cup {n}]

Pragma(on) == mem' = [mem EXCEPT !.on = on] /\ on # mem.on /\ disk' = disk

Statement ==
  /\ changes < MaxChanges
  /\ changes' = changes + 1
  /\ \/ \E key \in Key, value \in Value, conflict \in {"abort", "replace", "update"} :
          Insert(key, value, conflict)
     \/ \E n \in Name, value \in Value : UpdateAll(n, value)
     \/ \E key \in Key, new \in Key : UpdateKey(key, new)
     \/ \E n \in Name, keys \in SUBSET Key : keys \subseteq RowsOf(n) /\ Delete(keys)
     \/ \E n \in Name : Recreate(n)
     \/ \E on \in BOOLEAN : Pragma(on)
  /\ mem'.last <= MaxTime
  /\ UNCHANGED <<saved, now>>

-----------------------------------------------------------------------------
(* Transactions, the clock, and opening the file again.                     *)

Begin  == saved = <<>> /\ saved' = <<disk>> /\ UNCHANGED <<disk, mem, now, changes>>

Commit == saved # <<>> /\ saved' = <<>> /\ UNCHANGED <<disk, mem, now, changes>>

\* The times that were given stay given.
Rollback ==
  /\ saved # <<>>
  /\ disk' = Head(saved) /\ mem' = Reloaded(mem) /\ saved' = <<>>
  /\ UNCHANGED <<now, changes>>

\* The connection is lost and the file opened again: SQLExecutor::new.
Reopen ==
  /\ disk' = IF saved # <<>> THEN Head(saved) ELSE disk
  /\ mem' = [next |-> 1, last |-> 0, on |-> FALSE, reopened |-> TRUE] /\ saved' = <<>>
  /\ UNCHANGED <<now, changes>>

Tick == now < MaxTime /\ now' = now + 1 /\ UNCHANGED <<disk, mem, saved, changes>>

Next == Statement \/ Begin \/ Commit \/ Rollback \/ Reopen \/ Tick

-----------------------------------------------------------------------------
(* SELECT ... AS OF TIMESTAMP t: the rows of a table, of the versions that   *)
(* hold at t.                                                               *)

AsOf(n, t) ==
  {<<disk.versions[v].key, disk.versions[v].value>> :
     v \in {w \in DOMAIN disk.versions :
              /\ disk.versions[w].key[1] = n
              /\ disk.versions[w].from <= t /\ disk.versions[w].to > t}}

(***************************************************************************)
(* SELECT ... AS OF TIMESTAMP t finds the rows that the table had at t, as *)
(* the statements before and after t left them, rolled back ones aside: no *)
(* row is missing, doubled, or from another time.  Excepted are the times  *)
(* between the closing and the recording of a row that is replaced, and    *)
(* the tables whose history the code is known to lose.                     *)
(***************************************************************************)
HistoryIsExact ==
  \A n \in Name \ disk.lost : \A t \in Times \ disk.between : AsOf(n, t) = disk.past[n][t]

\* What the history is for, and the code does not keep after a rollback, a failed
\* statement or a restart: a version that was recorded keeps its row and its value.
VersionsAreKept ==
  [][\A v \in DOMAIN disk.versions \cap DOMAIN disk'.versions :
       /\ disk'.versions[v].key = disk.versions[v].key
       /\ disk'.versions[v].value = disk.versions[v].value
       /\ disk'.versions[v].from = disk.versions[v].from]_vars
=============================================================================

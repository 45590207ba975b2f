-------------------------------- MODULE CApi --------------------------------
(***************************************************************************)
(* The C interface in the form of SQLite's (crates/tapirus-ffi): handles   *)
(* of connections and statements, and the cursors of statements over their *)
(* rows.  A statement is executed when it is prepared, and its cursor goes *)
(* over the rows that it had then.                                         *)
(*                                                                         *)
(* The database is one table of values; a call gives its result in         *)
(* returned.  Panics, which are turned into errors, are not modelled.      *)
(***************************************************************************)
EXTENDS Integers, Sequences

CONSTANTS
  Handle,    \* of statements
  Null,      \* the handle NULL, and the value
  Written,   \* values that are inserted: [kind, value]
  Word32,    \* numbers that an i32 tells apart (2^32)
  MaxCalls   \* bound: calls that prepare

CApiAssumption ==
  /\ Null \notin Handle /\ MaxCalls \in Nat /\ Word32 \in Nat /\ Word32 % 2 = 0 /\ Word32 > 0

VARIABLES
  rows,      \* the table
  db,        \* sqlite3: last_error, last_changes
  stmt,      \* the open statements: sqlite3_stmt
  returned,  \* what the last call returned
  found,     \* history: by statement, the rows of the table when it was prepared
  seen,      \* history: by statement, the rows that it stepped to since it began
  calls

apiVars == <<rows, db, stmt, returned, found, seen, calls>>

NoFunction == <<>>
Extended(f, x, y) == [z \in DOMAIN f \cup {x} |-> IF z = x THEN y ELSE f[z]]
Cut(f, x) == [z \in DOMAIN f \ {x} |-> f[z]]

OK == 0
ERROR == 1
ROW == 100
DONE == 101
NOMEM == 7

\* sqlite3_open.
Init == /\ rows = <<>> /\ db = [error |-> FALSE, changes |-> 0] /\ stmt = NoFunction
        /\ returned = OK /\ found = NoFunction /\ seen = NoFunction /\ calls = 0

-----------------------------------------------------------------------------
(* sqlite3_prepare_v2, for a query, a write and a text that is refused.     *)

Statement(rs) == [rows |-> rs, columns |-> IF rs = <<>> THEN 0 ELSE 1, at |-> 0, text |-> Null]

\* A prepared statement; what it is a handle of is new.
Given(h, rs) ==
  /\ h \notin DOMAIN stmt
  /\ stmt' = Extended(stmt, h, Statement(rs))
  /\ found' = Extended(found, h, rs) /\ seen' = Extended(seen, h, <<>>)
  /\ returned' = OK

PrepareQuery(h) == Given(h, rows) /\ UNCHANGED <<rows, db>>

\* Inserts of some values, or the removal of all rows.
PrepareWrite(h, vs) ==
  /\ Given(h, <<>>)
  /\ rows' = (IF vs = <<>> THEN <<>> ELSE rows \o vs)
  /\ db' = [db EXCEPT !.changes = IF vs = <<>> THEN Len(rows) ELSE Len(vs)]

PrepareFails ==
  /\ db' = [db EXCEPT !.error = TRUE]
  /\ returned' = ERROR
  /\ UNCHANGED <<rows, stmt, found, seen>>

-----------------------------------------------------------------------------
(* Cursors.                                                                 *)

\* Fault: the cursor goes over the rows that the table has now.
StepOverTable(h) ==
  LET s == stmt[h]
  IN  IF s.at < Len(rows)
      THEN /\ stmt' = [stmt EXCEPT ![h].at = @ + 1, ![h].rows = rows]
           /\ seen' = [seen EXCEPT ![h] = Append(@, rows[s.at + 1])] /\ returned' = ROW
      ELSE returned' = DONE /\ UNCHANGED <<stmt, seen>>

\* sqlite3_step.
Step(h) ==
  LET s == stmt[h]
  IN  IF s.at < Len(s.rows)
      THEN /\ stmt' = [stmt EXCEPT ![h].at = @ + 1]
           /\ seen' = [seen EXCEPT ![h] = Append(@, s.rows[s.at + 1])]
           /\ returned' = ROW
      ELSE returned' = DONE /\ UNCHANGED <<stmt, seen>>

\* sqlite3_reset: the rows stay, and nothing is executed again.
Reset(h) == /\ stmt' = [stmt EXCEPT ![h].at = 0]
            /\ seen' = [seen EXCEPT ![h] = <<>>]
            /\ returned' = OK

Finalize(h) == /\ stmt' = Cut(stmt, h) /\ found' = Cut(found, h) /\ seen' = Cut(seen, h)
               /\ returned' = OK

-----------------------------------------------------------------------------
(* The columns of the row that a cursor is at.                              *)

HasRow(h) == stmt[h].at \in DOMAIN stmt[h].rows
Current(h) == IF HasRow(h) THEN stmt[h].rows[stmt[h].at] ELSE [kind |-> Null]

\* sqlite3_column_type, with the numbers of sqlite3.h.
ColumnType(h) == CASE Current(h).kind = "integer" -> 1
                   [] Current(h).kind = "real"    -> 2
                   [] Current(h).kind \in {"text", "vector"} -> 3
                   [] Current(h).kind = "blob"    -> 4
                   [] OTHER                       -> 5

ToI32(n) == ((n + Word32 \div 2) % Word32) - Word32 \div 2

\* sqlite3_column_int64 and _double (reals count in halves), sqlite3_column_int.
ColumnInt64(h) == CASE Current(h).kind = "integer" -> Current(h).value
                    [] Current(h).kind = "real" ->
                         IF Current(h).value < 0 THEN -((-Current(h).value) \div 2) ELSE Current(h).value \div 2
                    [] OTHER -> 0
ColumnDouble(h) == CASE Current(h).kind = "integer" -> 2 * Current(h).value
                     [] Current(h).kind = "real"    -> Current(h).value
                     [] OTHER                       -> 0
ColumnInt(h) == ToI32(ColumnInt64(h))

\* sqlite3_column_text, and _bytes, which takes the length of the text: the statement keeps
\* one text, which the next takes the place of.
ColumnText(h) ==
  /\ returned' = IF HasRow(h) THEN Current(h) ELSE Null
  /\ stmt' = IF HasRow(h) THEN [stmt EXCEPT ![h].text = [row |-> stmt[h].at]] ELSE stmt

Next ==
  \/ /\ calls < MaxCalls /\ calls' = calls + 1
     /\ \/ PrepareFails
        \/ \E h \in Handle : \/ PrepareQuery(h)
                             \/ \E vs \in {<<>>, <<CHOOSE v \in Written : TRUE>>}
                                            \cup {<<v, w>> : v, w \in Written} : PrepareWrite(h, vs)
  \/ \E h \in DOMAIN stmt :
       /\ \/ Step(h) /\ UNCHANGED found
          \/ Reset(h) /\ UNCHANGED found
          \/ Finalize(h)
          \/ ColumnText(h) /\ UNCHANGED <<found, seen>>
       /\ UNCHANGED <<rows, db, calls>>

\* sqlite3_errcode, sqlite3_changes.
ErrCode == IF db.error THEN ERROR ELSE OK
Changes == db.changes

-----------------------------------------------------------------------------
(* Properties.                                                              *)

(***************************************************************************)
(* A cursor goes once over the rows that the table had when its statement  *)
(* was prepared, in their order, whatever other statements of the          *)
(* connection write between its steps; and a column is read from the row   *)
(* that was stepped to last, of which a number that an i32 holds is the    *)
(* same by every reading.                                                  *)
(***************************************************************************)
CursorsKeepTheirRows ==
  \A h \in DOMAIN stmt :
    /\ stmt[h].at <= Len(found[h])
    /\ seen[h] = SubSeq(found[h], 1, stmt[h].at)
    /\ HasRow(h) => Current(h) = seen[h][Len(seen[h])]
    /\ Current(h).kind = "integer" /\ -Word32 <= 2 * Current(h).value /\ 2 * Current(h).value < Word32
         => ColumnInt(h) = ColumnInt64(h) /\ 2 * ColumnInt(h) = ColumnDouble(h)

\* What was prepared last is what was not refused: the code of an error stays.
ErrorsPass == returned = OK => ErrCode = OK

\* A query that finds no rows has columns as well.
ColumnsAreKnown == \A h \in DOMAIN stmt : stmt[h].columns = 1
=============================================================================

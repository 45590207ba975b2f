------------------------------ MODULE Prepared ------------------------------
(***************************************************************************)
(* An INSERT on its ways through a connection (src/lib.rs): as text, which *)
(* is parsed; prepared with a plan that is compiled from its tokens; or    *)
(* prepared without one, its parameters bound to the tokens and the tokens *)
(* parsed (src/sql/parser.rs) at each execution.  The event that it leaves *)
(* for subscribers names the row by a number that is foretold from the     *)
(* statement and the counter of the table.                                 *)
(*                                                                         *)
(* The table has two columns, an integer key and another, which a statement*)
(* names "k" and "n".  Tokens are words; the token of a value stands for   *)
(* the value.                                                              *)
(***************************************************************************)
EXTENDS Integers, Sequences, SequencesExt, FiniteSets, Functions, TLC

CONSTANTS
  Thread,
  KeyAt,        \* the position of the key among the columns, 1 or 2
  MaxTokens,    \* bound: tokens that are written behind a beginning
  MaxInserts    \* bound: statements that are executed

PreparedAssumption ==
  KeyAt \in {1, 2} /\ MaxTokens \in Nat /\ MaxInserts \in Nat

VARIABLES
  tokens,   \* a statement, behind INSERT INTO t
  table,    \* [next, rows]: next_row_id, and the numbers of the rows
  waiting,  \* per thread, the statement that it foretold and has not yet executed
  events,   \* the number that each event names, and that of the row
  count     \* inserts, or tokens written, so far

vars == <<tokens, table, waiting, events, count>>

NoColumns == <<>>
Idle == [columns |-> NoColumns, values |-> <<>>, foretold |-> 0]

Init ==
  /\ tokens \in {<<>>, <<"(", "n">>, <<"values", "(">>, <<"(", "k", ")", "values", "(">>,
                 <<"(", "n", ",", "k", ")", "values", "(">>}
  /\ table = [next |-> 1, rows |-> {}]
  /\ waiting = [t \in Thread |-> Idle] /\ events = {} /\ count = 0

-----------------------------------------------------------------------------
(* Reading tokens.                                                          *)

Column  == {"k", "n"}
Number  == "1" :> 1 @@ "2" :> 2
Literal == DOMAIN Number \cup {"null"}

Token(ts, k) == IF k \in DOMAIN ts THEN ts[k] ELSE "end"
Refused == [ok |-> FALSE, columns |-> NoColumns, values |-> <<>>]

\* Items from position k on, with commas between them, up to a closing parenthesis or
\* the end; without strict a comma may be missing.  at is the position behind.
RECURSIVE List(_, _, _, _, _)
List(ts, k, items, strict, read) ==
  LET follows == Token(ts, k + 1)
  IN  IF k > Len(ts) THEN [ok |-> TRUE, at |-> k, items |-> read]
      ELSE IF ts[k] \notin items \/ (strict /\ follows \notin {",", ")"})
      THEN [ok |-> FALSE, at |-> k, items |-> <<>>]
      ELSE IF follows = ")" THEN [ok |-> TRUE, at |-> k + 2, items |-> Append(read, ts[k])]
      ELSE List(ts, IF follows = "," THEN k + 2 ELSE k + 1, items, strict, Append(read, ts[k]))

Columns(ts, names, strict) ==
  IF Token(ts, 1) = "(" THEN List(ts, 2, names, strict, <<>>)
  ELSE [ok |-> TRUE, at |-> 1, items |-> NoColumns]

Opened(ts, k) == Token(ts, k) = "values" /\ Token(ts, k + 1) = "("

\* try_compile_insert_plan; a number that follows a question mark is passed over.
Compile(ts) ==
  LET numbered == {k \in DOMAIN ts : k > 1 /\ ts[k] \in DOMAIN Number /\ ts[k - 1] = "?"}
      kept     == SelectSeq([k \in DOMAIN ts |-> IF k \in numbered THEN "passed" ELSE ts[k]],
                            LAMBDA w : w # "passed")
      columns  == Columns(kept, Column, TRUE)
      values   == List(kept, columns.at + 2, {"?"}, TRUE, <<>>)
      end      == values.at + IF Token(kept, values.at) = ";" THEN 1 ELSE 0
      ok       == columns.ok /\ Opened(kept, columns.at) /\ values.ok /\ end > Len(kept)
  IN  [ok |-> ok, columns |-> columns.items, params |-> Len(values.items)]

\* bind_parameters: a value stands for each question mark, in their order.
Marks(ts) == Len(SelectSeq(ts, LAMBDA w : w = "?"))
Bind(ts, params) ==
  [k \in DOMAIN ts |-> IF ts[k] = "?" THEN params[Marks(SubSeq(ts, 1, k))] ELSE ts[k]]

\* parse_insert, for one row with no clause behind it, and the semicolons of parse_tokens.
Parse(ts) ==
  LET columns == Columns(ts, Column \cup {"values"}, FALSE)
      values  == List(ts, columns.at + 2, Literal, TRUE, <<>>)
  IN  IF columns.ok /\ Opened(ts, columns.at) /\ values.ok
         /\ \A k \in values.at .. Len(ts) : ts[k] = ";"
      THEN [ok |-> TRUE, columns |-> columns.items, values |-> values.items]
      ELSE Refused

\* PreparedStatement::execute: what is executed.
WithoutPlan(ts, params) == IF Marks(ts) = Len(params) THEN Parse(Bind(ts, params)) ELSE Refused
WithPlan(plan, params) ==
  IF Len(params) = plan.params
  THEN [ok |-> TRUE, columns |-> plan.columns, values |-> params] ELSE Refused

-----------------------------------------------------------------------------
(* Executing.                                                               *)

PlaceOf(columns, c) == CHOOSE k \in DOMAIN columns : columns[k] = c
KeyOf(columns, values) ==
  IF columns = NoColumns THEN values[KeyAt]
  ELSE IF "k" \in ToSet(columns) THEN values[PlaceOf(columns, "k")] ELSE "null"

\* Fault: the first column is taken for the key.
ForetoldFromFirst(columns, values) ==
  IF values[1] \in DOMAIN Number THEN Number[values[1]] ELSE table.next

\* predicted_insert_row_id_for_values: where the key is not named, the value at its
\* position among the columns of the table is taken for it.
Foretold(columns, values) ==
  LET k == IF "k" \in ToSet(columns) THEN PlaceOf(columns, "k") ELSE KeyAt
  IN  IF k \in DOMAIN values /\ values[k] \in DOMAIN Number THEN Number[values[k]] ELSE table.next

Statement ==
  [columns : {NoColumns, <<"k", "n">>, <<"n", "k">>}, values : Literal \X Literal]
    \cup [columns : {<<"k">>, <<"n">>}, values : {<<v>> : v \in Literal}]

\* execute_insert, in atomic_statement; a number that was generated is not looked up, and
\* a statement that fails loads the catalog and its counter again.
Insert(s, foretold) ==
  LET key == KeyOf(s.columns, s.values)
      id  == IF key = "null" THEN table.next ELSE Number[key]
  IN  IF key # "null" /\ id \in table.rows
      THEN table' = [table EXCEPT !.next = 1] /\ events' = events
      ELSE /\ table' = [next |-> IF id >= table.next THEN id + 1 ELSE table.next,
                        rows |-> table.rows \cup {id}]
           /\ events' = events \cup {[statement |-> s, named |-> foretold, row |-> id]}

\* Connection::execute, and the plan of a prepared statement: under the locks.
Execute(t, s) ==
  /\ waiting[t] = Idle /\ count < MaxInserts /\ count' = count + 1
  /\ Insert(s, Foretold(s.columns, s.values))
  /\ UNCHANGED <<tokens, waiting>>

\* Without a plan, the number is foretold before the locks are taken.
Foretell(t, s) ==
  /\ waiting[t] = Idle /\ count < MaxInserts /\ count' = count + 1
  /\ waiting' = [waiting EXCEPT ![t] = [columns |-> s.columns, values |-> s.values,
                                        foretold |-> Foretold(s.columns, s.values)]]
  /\ UNCHANGED <<tokens, table, events>>

ExecuteBound(t) ==
  /\ waiting[t] # Idle
  /\ LET w == waiting[t]
     IN  Insert([columns |-> w.columns, values |-> w.values], w.foretold)
  /\ waiting' = [waiting EXCEPT ![t] = Idle]
  /\ UNCHANGED <<tokens, count>>

\* A statement is written, one token after the other, behind a beginning.
Write ==
  /\ count < MaxTokens /\ (tokens = <<>> => count = 0) /\ count' = count + 1
  /\ \E w \in {"values", "(", ")", ",", "?", "1", ";", "n"} : tokens' = Append(tokens, w)
  /\ UNCHANGED <<table, waiting, events>>

Next ==
  \/ Write
  \/ tokens = <<>> /\ \E t \in Thread, s \in Statement : Execute(t, s) \/ Foretell(t, s)
  \/ \E t \in Thread : ExecuteBound(t)

-----------------------------------------------------------------------------
(* Properties.                                                              *)

\* ?1, which the parser refuses.
HasNumbered(ts) == \E k \in DOMAIN ts : k > 1 /\ ts[k] \in DOMAIN Number /\ ts[k - 1] = "?"

(***************************************************************************)
(* A plan does what the statement does that it was compiled from: with the *)
(* same parameters it is refused or it inserts the same values in the same *)
(* columns; a parameter with a number, which only plans admit, excepted.   *)
(***************************************************************************)
PlanIsStatement ==
  Compile(tokens).ok /\ ~ HasNumbered(tokens) =>
    \A n \in 0 .. 3 : \A params \in [1 .. n -> {"1", "null"}] :
      WithPlan(Compile(tokens), params) = WithoutPlan(tokens, params)

\* Statements that do not name the key, whose number is foretold from another column.
Misleads(s) ==
  /\ s.columns # NoColumns /\ "k" \notin ToSet(s.columns)
  /\ KeyAt \in DOMAIN s.values /\ s.values[KeyAt] # "null"

(***************************************************************************)
(* The event of an INSERT names the row that was inserted.                 *)
(***************************************************************************)
EventsNameRows == \A e \in events : e.named = e.row \/ Misleads(e.statement)

\* What a subscriber relies on.
EveryEventNamesItsRow == \A e \in events : e.named = e.row
=============================================================================

------------------------------- MODULE Select -------------------------------
(***************************************************************************)
(* SELECT (query_inner and query_on_ephemeral_rows of src/sql/executor.rs):*)
(* a query is answered along one of several paths, a search for the key,   *)
(* an index, one pass that counts, a scan that stops early, a join that    *)
(* seeks or hashes, a view or a common table expression.  Each of them is  *)
(* a shortcut for one meaning, which Means states without any of them.     *)
(*                                                                         *)
(* Table "l" has the key id, the column k with an index, and v; table "r"  *)
(* has the key id, and ref.  A row is a pair of columns and values.  A     *)
(* column carries its qualifier, or none.  WHERE and HAVING are            *)
(* conjunctions; the aggregates are COUNT of rows and of values.           *)
(***************************************************************************)
EXTENDS Integers, Sequences, SequencesExt, FiniteSets, FiniteSetsExt, Functions

CONSTANTS
  LeftRows, RightRows, \* the contents of the tables: records by key
  Queries,             \* the queries that are asked
  None

VARIABLES
  tables,  \* the rows of "l" and of "r", by key
  query, answer \* the last query, and the rows that it returned

vars == <<tables, query, answer>>

Null    == 0
Missing == -1

Column(of, name) == [of |-> of, name |-> name]
Bare(name)       == Column("", name)
ColumnsOf        == [l |-> <<"id", "k", "v">>, r |-> <<"id", "ref">>]
Has(t, name)     == name \in ToSet(ColumnsOf[t])
Counts(c)        == c.of = "count" \* COUNT(name), of rows when the name is *

-----------------------------------------------------------------------------
(* Rows.                                                                   *)

Row(cols, vals) == [cols |-> cols, vals |-> vals]

\* col_name_matches: of two names of which only one is qualified, the last parts decide.
NameMatches(stored, target) ==
  \/ stored = target
  \/ /\ stored.name = target.name /\ (stored.of = "") # (target.of = "")
     /\ ~ Counts(target)

\* Row::get_value
Get(row, c) ==
  LET hits == {i \in DOMAIN row.cols : NameMatches(row.cols[i], c)}
  IN  IF hits = {} THEN Missing ELSE row.vals[Min(hits)]
GetOrNull(row, c) == IF Get(row, c) = Missing THEN Null ELSE Get(row, c)

\* matches_condition and InList: NULL satisfies IS NULL alone.
Satisfies(a, cond) ==
  CASE cond.op = "is null" -> a = Null
    [] cond.op = "="       -> a # Null /\ a = cond.value
    [] cond.op = ">"       -> a > cond.value /\ a # Null
    [] cond.op = "in"      -> a # Null /\ a \in cond.value
    [] cond.op = "not in"  -> a # Null /\ a \notin cond.value /\ Null \notin cond.value

\* row_matches_resolved
Matches(row, where) ==
  \A i \in DOMAIN where :
    Get(row, where[i].column) # Missing /\ Satisfies(Get(row, where[i].column), where[i])

Project(row, cols) == Row(cols, [i \in DOMAIN cols |-> GetOrNull(row, cols[i])])

\* The rows of a table in the order of its keys, of which some columns are decoded.
Scan(t, needed) ==
  LET rows == tables[t]
      keys == SetToSortSeq(DOMAIN rows, <)
      cols == ColumnsOf[t]
  IN  [n \in DOMAIN keys |->
         Row([i \in DOMAIN cols |-> Bare(cols[i])],
             [i \in DOMAIN cols |-> IF cols[i] \notin needed THEN Null
                                    ELSE IF cols[i] = "id" THEN keys[n]
                                    ELSE rows[keys[n]][cols[i]]])]
FullScan(t) == Scan(t, ToSet(ColumnsOf[t]))
Filtered(rows, where) == SelectSeq(rows, LAMBDA row : Matches(row, where))

-----------------------------------------------------------------------------
(* The end of every path: aggregates, order, and a window.                 *)

Aggregates(q) == \E i \in DOMAIN q.columns : Counts(q.columns[i])

\* compute_aggregate
Counted(c, rows) ==
  IF c.name = "*" THEN Len(rows)
  ELSE Cardinality({i \in DOMAIN rows : Get(rows[i], Bare(c.name)) \notin {Null, Missing}})
Aggregated(q, rows) ==
  <<Row(q.columns, [i \in DOMAIN q.columns |->
                      IF Counts(q.columns[i]) THEN Counted(q.columns[i], rows) ELSE Null])>>

\* A stable sort.
Ordered(q, rows) ==
  LET key(i)       == GetOrNull(rows[i], q.order.column)
      before(i, j) == \/ IF q.order.ascending THEN key(i) < key(j) ELSE key(i) > key(j)
                      \/ key(i) = key(j) /\ i < j
      places       == SetToSortSeq(DOMAIN rows, before)
  IN  IF q.order = None THEN rows ELSE [n \in DOMAIN rows |-> rows[places[n]]]

\* The loop that returns rows: it looks at the limit when it has one, and a repetition is
\* one of a row that was returned, not of one that was skipped.
Window(q, rows) ==
  FoldLeft(LAMBDA s, row :
             IF s.full \/ (q.distinct /\ row \in ToSet(s.out)) THEN s
             ELSE IF s.skipped < q.offset THEN [s EXCEPT !.skipped = @ + 1]
             ELSE [s EXCEPT !.out = Append(@, row),
                            !.full = q.limit # None /\ Len(s.out) + 1 >= q.limit],
           [out |-> <<>>, skipped |-> 0, full |-> FALSE], rows).out

Output(q, rows) ==
  [n \in DOMAIN rows |->
     IF q.columns = <<>> THEN rows[n] ELSE Project(rows[n], q.columns)]

\* GROUP BY, with the groups in the order of their first rows, and HAVING.
Grouped(q, rows) ==
  LET keys == FoldLeft(LAMBDA s, row : IF GetOrNull(row, q.group) \in ToSet(s) THEN s
                                       ELSE Append(s, GetOrNull(row, q.group)), <<>>, rows)
      cols == IF q.columns = <<>> THEN <<q.group>> ELSE q.columns
      Group(key) ==
        LET members == SelectSeq(rows, LAMBDA row : GetOrNull(row, q.group) = key)
        IN  Row(cols, [i \in DOMAIN cols |->
                         IF Counts(cols[i]) THEN Counted(cols[i], members)
                         ELSE GetOrNull(members[1], cols[i])])
  IN  Filtered([n \in DOMAIN keys |-> Group(keys[n])], q.having)

Finished(q, rows) ==
  IF q.group = None /\ Aggregates(q) THEN Aggregated(q, rows)
  ELSE LET found == Ordered(q, IF q.group = None THEN rows ELSE Grouped(q, rows))
       IN  Window(q, Output(q, found))

-----------------------------------------------------------------------------
(* Paths over one table.                                                   *)

Plain(q)    == q.join = None /\ q.order = None /\ q.group = None
Equality(q) == Len(q.where) = 1 /\ q.where[1].op = "="
IsOn(q, name) == q.where[1].column = Bare(name)

\* The point lookup.
ByKey(q) ==
  IF q.offset > 0 \/ q.limit = 0 THEN <<>> ELSE Output(q, Filtered(FullScan("l"), q.where))

\* The index scan: the postings of a value are the numbers of its rows.
ByIndex(q) == Window(q, Output(q, Filtered(FullScan("l"), q.where)))

\* Fault: the rows that OFFSET skips are not counted.
ScannedWithoutOffset(q) ==
  LET rows == Filtered(FullScan("l"), q.where)
  IN  IF Plain(q) /\ ~ q.distinct /\ ~ Aggregates(q) /\ q.limit # None
      THEN SubSeq(rows, 1, Min({q.limit, Len(rows)})) ELSE rows

\* The scan ends early when nothing but a number of rows is wanted.
Scanned(q) ==
  LET rows   == Filtered(FullScan("l"), q.where)
      needed == Max({q.offset + q.limit, 1})
  IN  IF Plain(q) /\ ~ q.distinct /\ ~ Aggregates(q) /\ q.limit # None
      THEN SubSeq(rows, 1, Min({needed, Len(rows)})) ELSE rows

-----------------------------------------------------------------------------
(* Joins.                                                                  *)

\* The table that a column of the result comes from, if that can be told beforehand.
Origin(c) ==
  IF c.of # "" THEN IF c.of \in {"l", "r"} /\ Has(c.of, c.name) THEN c.of ELSE None
  ELSE CASE Has("l", c.name) /\ ~ Has("r", c.name) -> "l"
         [] Has("r", c.name) /\ ~ Has("l", c.name) -> "r"
         [] OTHER -> None

\* Direct join projection, for which only the columns of the result and of the join
\* condition are decoded.
Direct(q) ==
  /\ q.order = None /\ q.group = None /\ ~ q.distinct /\ ~ Aggregates(q) /\ q.columns # <<>>
  /\ \A i \in DOMAIN q.columns : Origin(q.columns[i]) # None
Needed(q, t, key) ==
  IF ~ Direct(q) THEN ToSet(ColumnsOf[t])
  ELSE {key} \cup {c.name : c \in {d \in ToSet(q.columns) : Origin(d) = t}}

LeftOf(q)  == Filtered(Scan("l", Needed(q, "l", q.join.left)), q.where)
RightOf(q) == Scan("r", Needed(q, "r", q.join.right))

Merged(l, r) ==
  Row([i \in 1 .. 5 |-> IF i <= 3 THEN Column("l", ColumnsOf["l"][i])
                        ELSE Column("r", ColumnsOf["r"][i - 3])],
      l.vals \o r.vals)
NoLeft  == Row(<<>>, <<Null, Null, Null>>)
NoRight == Row(<<>>, <<Null, Null>>)

\* The hash join.  WHERE has filtered the left rows before.
HashJoin(q) ==
  LET lefts == LeftOf(q)
      rights == RightOf(q)
      Pairs(l, r) == LET a == Get(l, Bare(q.join.left)) IN a # Null /\ a = Get(r, Bare(q.join.right))
      Of(l) == LET hits == SelectSeq(rights, LAMBDA r : Pairs(l, r))
               IN  IF hits = <<>> /\ q.join.type \in {"left", "full"} THEN <<Merged(l, NoRight)>>
                   ELSE [n \in DOMAIN hits |-> Merged(l, hits[n])]
      lonely == SelectSeq(rights, LAMBDA r : \A i \in DOMAIN lefts : ~ Pairs(lefts[i], r))
  IN  FlattenSeq([i \in DOMAIN lefts |-> Of(lefts[i])])
        \o (IF q.join.type \in {"right", "full"}
            THEN [n \in DOMAIN lonely |-> Merged(NoLeft, lonely[n])] ELSE <<>>)

\* The seek join: an inner join without WHERE whose left or right column is the key.  The
\* other table drives it.
Seeks(q) ==
  /\ Direct(q) /\ q.where = <<>> /\ q.join.type = "inner"
  /\ q.join.left = "id" \/ q.join.right = "id"
SeekJoin(q) ==
  LET drive == IF q.join.left = "id" THEN RightOf(q) ELSE LeftOf(q)
      sought == IF q.join.left = "id" THEN LeftOf(q) ELSE RightOf(q)
      key(row) == Get(row, Bare(IF q.join.left = "id" THEN q.join.right ELSE q.join.left))
      Found(row) == SelectSeq(sought, LAMBDA s : key(row) # Null /\ s.vals[1] = key(row))
      Pair(row, s) == IF q.join.left = "id" THEN Merged(s, row) ELSE Merged(row, s)
      pairs == FlattenSeq([i \in DOMAIN drive |->
                 [n \in DOMAIN Found(drive[i]) |-> Pair(drive[i], Found(drive[i])[n])]])
  IN  Window(q, Output(q, pairs))

-----------------------------------------------------------------------------
(* Views and common table expressions, of which both are SELECT * FROM l.  *)

\* A view: what follows is filtered, ordered, projected and cut.
OfView(q) == Window(q, Output(q, Ordered(q, Filtered(FullScan("l"), q.where))))

\* query_on_ephemeral_rows, with the joins that it knows.
OfExpression(q) ==
  LET lefts  == FullScan("l")
      rights == FullScan("r")
      Both(l, vals) ==
        Row(l.cols \o <<Column("r", "id"), Column("r", "ref"), Bare("ref")>>,
            l.vals \o <<vals[1], vals[2], vals[2]>>)
      Pairs(l, r) == LET a == Get(l, Bare(q.join.left)) IN a # Null /\ a = Get(r, Bare(q.join.right))
      Of(l) == LET hits == SelectSeq(rights, LAMBDA r : Pairs(l, r))
               IN  IF hits # <<>> THEN [n \in DOMAIN hits |-> Both(l, hits[n].vals)]
                   ELSE IF q.join.type # "left" THEN <<>>
                   ELSE IF rights = <<>> THEN <<l>> ELSE <<Both(l, <<Null, Null>>)>>
      rows  == IF q.join = None THEN lefts ELSE FlattenSeq([i \in DOMAIN lefts |-> Of(lefts[i])])
      found == Ordered(q, Filtered(rows, q.where))
      out   == Output(q, found)
      once  == IF q.distinct THEN Window([q EXCEPT !.offset = 0, !.limit = None], out) ELSE out
      last  == IF q.limit = None THEN Len(once) ELSE Min({q.offset + q.limit, Len(once)})
  IN  IF Aggregates(q) THEN Aggregated(q, found) ELSE SubSeq(once, q.offset + 1, last)

-----------------------------------------------------------------------------
(* Calls.                                                                  *)

\* Whether an equality is searched for in an index depends on the statistics of ANALYZE.
MayUseIndex(q) == Plain(q) /\ Equality(q) /\ IsOn(q, "k")

Answer(q, indexed) ==
  CASE q.from = "view"       -> OfView(q)
    [] q.from = "expression" -> OfExpression(q)
    [] OTHER ->
       IF Plain(q) /\ Equality(q) /\ IsOn(q, "id") THEN ByKey(q)
       ELSE IF indexed THEN ByIndex(q)
       ELSE IF q.join = None THEN Finished(q, Scanned(q))
       ELSE IF Seeks(q) THEN SeekJoin(q)
       ELSE Finished(q, HashJoin(q))

Ask(q) ==
  /\ query = None
  /\ query' = q
  /\ \E indexed \in BOOLEAN :
       (indexed => MayUseIndex(q)) /\ answer' = Answer(q, indexed)
  /\ UNCHANGED tables

Init ==
  /\ tables \in [l : LeftRows, r : RightRows]
  /\ query = None /\ answer = <<>>

Next == \E q \in Queries : Ask(q)

Spec == Init /\ [][Next]_vars

-----------------------------------------------------------------------------
(* What a query means.                                                     *)

\* The value of a column in a pair of rows, of which one may be missing.
Of(p, c) ==
  LET t  == IF c.of # "" THEN c.of ELSE IF Has("l", c.name) THEN "l" ELSE "r"
      id == IF t = "l" THEN p[1] ELSE p[2]
  IN  CASE id = Null      -> Null
        [] c.name = "id"  -> id
        [] OTHER          -> tables[t][id][c.name]

Joined(q) ==
  LET ls == DOMAIN tables.l
      rs == DOMAIN tables.r
      match(i, j) == LET a == Of(<<i, j>>, Column("l", q.join.left))
                     IN  a # Null /\ a = Of(<<i, j>>, Column("r", q.join.right))
  IN  IF q.join = None THEN ls \X {Null}
      ELSE {p \in ls \X rs : match(p[1], p[2])}
        \cup (IF q.join.type \in {"left", "full"}
              THEN {i \in ls : \A j \in rs : ~ match(i, j)} \X {Null} ELSE {})
        \cup (IF q.join.type \in {"right", "full"}
              THEN {Null} \X {j \in rs : \A i \in ls : ~ match(i, j)} ELSE {})

\* A row of the result stands for a set of pairs: one of them, or a group.
ValueOf(S, c) ==
  IF ~ Counts(c) THEN Of(CHOOSE p \in S : TRUE, c)
  ELSE IF c.name = "*" THEN Cardinality(S)
  ELSE Cardinality({p \in S : Of(p, Bare(c.name)) # Null})
Holds(S, where) == \A i \in DOMAIN where : Satisfies(ValueOf(S, where[i].column), where[i])

ResultOf(q) ==
  LET kept == {p \in Joined(q) : Holds({p}, q.where)}
      key(p) == Of(p, q.group)
      groups == CASE q.group # None -> {{o \in kept : key(o) = key(p)} : p \in kept}
                  [] q.group = None /\ Aggregates(q) -> {kept}
                  [] OTHER          -> {{p} : p \in kept}
  IN  {S \in groups : Holds(S, q.having)}

ColumnsOfResult(q) ==
  LET named(t) == [i \in DOMAIN ColumnsOf[t] |-> Column(t, ColumnsOf[t][i])]
  IN  IF q.columns # <<>> THEN q.columns
      ELSE IF q.group # None THEN <<q.group>>
      ELSE IF q.join = None THEN named("l") ELSE named("l") \o named("r")

\* Rows out are the right number of those that q means, each as often as it may be, in order.
Means(q, out) ==
  LET cols    == ColumnsOfResult(q)
      line(S) == [i \in DOMAIN cols |-> ValueOf(S, cols[i])]
      result  == ResultOf(q)
      chosen(S) == CHOOSE T \in result : line(T) = line(S)
      items   == IF q.distinct THEN {chosen(S) : S \in result} ELSE result
      rest    == Max({Cardinality(items) - q.offset, 0})
      ats     == {i \in DOMAIN cols : NameMatches(cols[i], q.order.column)}
      before(a, b) == IF q.order.ascending THEN a < b ELSE a > b
      place(n, at) ==
                  LET key == out[n].vals[at]
                  IN  /\ Cardinality({S \in items : before(line(S)[at], key)}) < q.offset + n
                      /\ Cardinality({S \in items : ~ before(key, line(S)[at])}) >= q.offset + n
  IN  /\ Len(out) = IF q.limit = None THEN rest ELSE Min({q.limit, rest})
      /\ \A n \in DOMAIN out :
           Cardinality({m \in DOMAIN out : out[m].vals = out[n].vals})
             <= Cardinality({S \in items : line(S) = out[n].vals})
      /\ q.order # None /\ ~ Aggregates(q) =>
           \A n \in DOMAIN out, at \in ats : place(n, at)

-----------------------------------------------------------------------------
(* Properties.                                                             *)

\* Every path returns what the query means.
AnswersAreRight == query # None => Means(query, answer)
=============================================================================

------------------------------ MODULE MCSelect ------------------------------
(* Model-checking instances of Select: every content of two rows in each    *)
(* table, and queries of every form.  Right holds those that the code means *)
(* to answer and does; each of the forms that it leaves out has a name.     *)
EXTENDS Select

Some(S, T) == UNION {[K -> T] : K \in SUBSET S}
Left  == Some({1, 2}, [k : {0, 1}, v : {0, 1}])
Right == Some({1, 2}, [ref : {0, 1, 2}])

Cond(c, op, value) == [column |-> c, op |-> op, value |-> value]
Count(name)        == Column("count", name)
By(c)              == {[column |-> c, ascending |-> up] : up \in BOOLEAN}
Join(left, right)  == [type : {"inner", "left", "right", "full"}, left : {left}, right : {right}]
Cut(q, w)          == [q EXCEPT !.limit = w[1], !.offset = w[2]]

Query == [from |-> "table", distinct |-> FALSE, columns |-> <<>>, join |-> None,
          where |-> <<>>, group |-> None, having |-> <<>>, order |-> None,
          limit |-> None, offset |-> 0]

IsK == <<Cond(Bare("k"), "=", 1)>>
Wheres ==
  {<<Cond(Bare("id"), "=", 1)>>, IsK, <<Cond(Bare("v"), "is null", 0)>>,
   <<Cond(Bare("v"), ">", 0), Cond(Bare("k"), "=", 1)>>, <<Cond(Bare("v"), "in", {0, 1})>>,
   <<Cond(Bare("v"), "not in", {0, 1})>>, <<Cond(Bare("v"), "not in", {1})>>}
Lists   == {<<>>, <<Bare("v")>>, <<Bare("k"), Bare("v")>>, <<Count("*"), Count("v")>>}
Windows == {<<None, 0>>, <<1, 0>>, <<1, 1>>, <<0, 0>>}

\* Over "l", by the table, a view or a common table expression.
Filters == {[Query EXCEPT !.from = f, !.columns = c, !.where = e] :
              f \in {"table", "view", "expression"}, c \in Lists, e \in Wheres}
Cuts    == {Cut([Query EXCEPT !.from = f, !.distinct = d, !.columns = c, !.order = o, !.where = e], w) :
              f \in {"table", "view", "expression"}, d \in BOOLEAN, c \in Lists,
              o \in {None} \cup By(Bare("v")), e \in {<<>>, IsK}, w \in Windows}
Groups  == {[Query EXCEPT !.columns = c, !.group = Bare("v"), !.having = h, !.order = o, !.where = e] :
              c \in {<<>>, <<Bare("v"), Count("*")>>, <<Bare("v"), Count("*"), Count("k")>>},
              h \in {<<>>, <<Cond(Count("*"), ">", 1)>>}, o \in {None} \cup By(Bare("v")),
              e \in {<<>>, IsK}}

\* Over both tables.
On         == Join("id", "ref") \cup Join("k", "id") \cup Join("v", "ref")
JoinLists  == {<<>>, <<Column("l", "id"), Bare("ref")>>, <<Bare("v"), Column("r", "id")>>,
               <<Count("*"), Count("ref")>>}
JoinWheres == {<<>>, IsK, <<Cond(Column("l", "v"), "is null", 0)>>,
               <<Cond(Column("r", "ref"), "=", 1)>>}
Joins == {[Query EXCEPT !.from = f, !.columns = c, !.join = j, !.where = e] :
            f \in {"table", "expression"}, c \in JoinLists, j \in On, e \in JoinWheres}
JoinCuts == {Cut([Query EXCEPT !.columns = c, !.join = j, !.order = o], w) :
               c \in JoinLists, j \in Join("v", "ref"), o \in {None} \cup By(Bare("v")), w \in Windows \ {<<None, 0>>}}

All == Filters \cup Cuts \cup Groups \cup Joins \cup JoinCuts

\* LIMIT 0 is looked at after the first row.
NoRows(q) == q.limit = 0
\* OFFSET counts the repetitions of rows that it has skipped.
SkipsRepeated(q) == q.distinct /\ q.offset > 0
\* The row of an aggregate is not subject to the window.
CutsAggregate(q) == Aggregates(q) /\ q.limit # None
\* A view knows no aggregates; an expression no right or full join, its r.id is the left id
\* and its * has columns twice.
OutsideView(q) == q.from = "view" /\ Aggregates(q)
OutsideExpression(q) ==
  /\ q.from = "expression" /\ q.join # None
  /\ q.join.type \in {"right", "full"} \/ Column("r", "id") \in ToSet(q.columns)
                                      \/ q.columns = <<>>
\* HAVING looks at the columns of the result.
HavingUnlisted(q) == \E i \in DOMAIN q.having : q.having[i].column \notin ToSet(q.columns)
\* A search for a key or by an index returns rows, not their number.
CountsByKey(q) ==
  q.from = "table" /\ Aggregates(q) /\ Plain(q) /\ Equality(q) /\ (IsOn(q, "id") \/ IsOn(q, "k"))
\* WHERE over a join filters the left rows alone, before the join.
WhereOnRight(q) == q.join # None /\ q.from = "table" /\ \E i \in DOMAIN q.where : q.where[i].column.of = "r"
WhereBefore(q)  == q.join # None /\ q.from = "table" /\ q.where # <<>> /\ q.join.type \in {"right", "full"}
\* ... of which only the columns of the result and of the join were decoded.
WhereUnread(q)  ==
  /\ q.join # None /\ q.from = "table" /\ Direct(q)
  /\ \E i \in DOMAIN q.where : q.where[i].column.name \notin Needed(q, "l", q.join.left)

Right_(q) == ~ \/ NoRows(q) \/ SkipsRepeated(q) \/ CutsAggregate(q) \/ OutsideView(q)
               \/ OutsideExpression(q) \/ HavingUnlisted(q) \/ CountsByKey(q) \/ WhereOnRight(q) \/ WhereBefore(q)
               \/ WhereUnread(q)
Answered == {q \in All : Right_(q)}
Unread   == {q \in Joins : WhereUnread(q)}
=============================================================================

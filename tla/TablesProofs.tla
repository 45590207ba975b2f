---------------------------- MODULE TablesProofs ----------------------------
(***************************************************************************)
(* Theorems about tables, their indexes and the catalog (Tables): the      *)
(* types, that catalog and schema records agree, that generated keys are   *)
(* fresh and that indexes are exact.                                       *)
(*                                                                         *)
(* The invariant (IInv) says of the pages and of everything that the open  *)
(* transaction can go back to that they are sound.  A statement works on a *)
(* Store, row by row, and may fail at any of them; Stage is what holds     *)
(* between two rows.                                                       *)
(***************************************************************************)
EXTENDS Tables, OrderLemmas

\* Statements give the key as an integer or leave it to the counter.
WholeKeys == Keys \subseteq {"integer", "null"}

\* The functions from some of S to T.
Partial(S, T) == UNION {[X -> T] : X \in SUBSET S}

\* Rows, tables and indexes, on the pages and in the catalog.
Row     == [key : Id, values : Seq(Field)]
Columns == {c \in Seq(Column) : IsInjective(c)}
Table   == [columns : Columns, next : Nat \ {0}, rows : Partial(Id, Row), replaced : BOOLEAN]
Posted  == [table : Name, column : Column, orphan : BOOLEAN, post : SUBSET (Value \X Id)]
Disk    == [tables : Partial(Name, Table), indexes : Partial(Index, Posted)]
Known   == [columns : Columns, next : Nat \ {0}, reloaded : BOOLEAN]
Source  == [table : Name, column : Column]
Catalog == [tables : Partial(Name, Known), indexes : Partial(Index, Source)]
Stores  == [ok : BOOLEAN, disk : Disk, mem : Catalog]

\* The rows have at most the columns of the table, and their numbers as keys.
FitsIn(row, id, columns) ==
  /\ Len(row.values) <= Len(columns)
  /\ WholeKeys => row.key = id
Whole(t) == \A id \in DOMAIN t.rows : FitsIn(t.rows[id], id, t.columns)

\* The postings of index x are those of the rows of table t.
Exact(t, x) ==
  \A v \in Value, id \in Id :
    <<v, id>> \in x.post <=> id \in DOMAIN t.rows /\ Get(t.columns, t.rows[id], x.column) = v

\* An index has its table and column, and is exact unless a row of the table was replaced
\* under its postings.
Indexed(d, x) ==
  /\ x.table \in DOMAIN d.tables
  /\ x.column \in ToSet(d.tables[x.table].columns)
  /\ ~ d.tables[x.table].replaced => Exact(d.tables[x.table], x)

\* Pages whose rows fit their tables and whose indexes are exact.
Sound(d) ==
  /\ \A n \in DOMAIN d.tables : Whole(d.tables[n])
  /\ \A i \in DOMAIN d.indexes : ~ d.indexes[i].orphan => Indexed(d, d.indexes[i])

\* The counter of a table is above every key, until the catalog is loaded again.
Fresh(t, k) == k.reloaded \/ \A id \in DOMAIN t.rows : id < k.next

AllFresh(d, m) == \A n \in DOMAIN d.tables : Fresh(d.tables[n], m.tables[n])

\* The catalog m says what the schema records of d say.
Follows(d, m) ==
  /\ DOMAIN m.tables = DOMAIN d.tables
  /\ \A n \in DOMAIN d.tables : m.tables[n].columns = d.tables[n].columns
  /\ DOMAIN m.indexes = DOMAIN d.indexes
  /\ \A i \in DOMAIN d.indexes : /\ m.indexes[i].table = d.indexes[i].table
                                 /\ m.indexes[i].column = d.indexes[i].column

Good(d, m) == d \in Disk /\ m \in Catalog /\ Sound(d) /\ Follows(d, m)

\* The inductive invariant.
IInv ==
  /\ Good(disk, mem) /\ AllFresh(disk, mem)
  /\ saved \in Seq(Disk) /\ Len(saved) <= MaxSavepoints + 1
  /\ \A k \in DOMAIN saved : Sound(saved[k])
  /\ count \in 0 .. MaxStatements

-----------------------------------------------------------------------------
(* Partial functions.                                                      *)

\* A partial function is a function on some of S with its values in T.
LEMMA PartialType ==
  ASSUME NEW S, NEW T, NEW f
  PROVE  f \in Partial(S, T) <=> /\ f = [x \in DOMAIN f |-> f[x]] /\ DOMAIN f \subseteq S
                                 /\ \A x \in DOMAIN f : f[x] \in T
<1>1. ASSUME f \in Partial(S, T)
      PROVE  /\ f = [x \in DOMAIN f |-> f[x]] /\ DOMAIN f \subseteq S
             /\ \A x \in DOMAIN f : f[x] \in T
  <2>1. PICK X \in SUBSET S : f \in [X -> T]
    BY <1>1 DEF Partial
  <2>2. QED
    BY <2>1
<1>2. ASSUME f = [x \in DOMAIN f |-> f[x]], DOMAIN f \subseteq S, \A x \in DOMAIN f : f[x] \in T
      PROVE  f \in Partial(S, T)
  <2>1. f \in [DOMAIN f -> T]
    BY <1>2
  <2>2. DOMAIN f \in SUBSET S
    BY <1>2
  <2>3. QED
    BY <2>1, <2>2 DEF Partial
<1>3. QED
  BY <1>1, <1>2

\* A partial function with one more value, or another one.
LEMMA WithType ==
  ASSUME NEW S, NEW T, NEW f \in Partial(S, T), NEW x \in S, NEW y \in T
  PROVE  /\ With(f, x, y) \in Partial(S, T)
         /\ DOMAIN With(f, x, y) = DOMAIN f \cup {x}
         /\ With(f, x, y)[x] = y
         /\ \A z \in DOMAIN f : z # x => With(f, x, y)[z] = f[z]
<1> DEFINE g == With(f, x, y)
<1>1. DOMAIN f \subseteq S /\ \A z \in DOMAIN f : f[z] \in T
  BY PartialType
<1>2. /\ g = [z \in DOMAIN f \cup {x} |-> IF z = x THEN y ELSE f[z]]
      /\ DOMAIN g = DOMAIN f \cup {x} /\ g[x] = y
      /\ \A z \in DOMAIN f : z # x => g[z] = f[z]
  BY DEF With
<1>3. g = [z \in DOMAIN g |-> g[z]] /\ DOMAIN g \subseteq S /\ \A z \in DOMAIN g : g[z] \in T
  BY <1>1, <1>2
<1> HIDE DEF g
<1>4. g \in Partial(S, T)
  BY <1>3, PartialType
<1>5. QED
  BY <1>2, <1>4 DEF g

\* A partial function on fewer arguments.
LEMMA WithoutType ==
  ASSUME NEW S, NEW T, NEW f \in Partial(S, T), NEW X, X \subseteq DOMAIN f
  PROVE  /\ Restrict(f, X) \in Partial(S, T)
         /\ DOMAIN Restrict(f, X) = X
         /\ \A z \in X : Restrict(f, X)[z] = f[z]
<1> DEFINE g == Restrict(f, X)
<1>1. DOMAIN f \subseteq S /\ \A z \in DOMAIN f : f[z] \in T
  BY PartialType
<1>2. /\ g = [z \in X |-> f[z]] /\ DOMAIN g = X /\ \A z \in X : g[z] = f[z]
  BY DEF Restrict
<1>3. g = [z \in DOMAIN g |-> g[z]] /\ DOMAIN g \subseteq S /\ \A z \in DOMAIN g : g[z] \in T
  BY <1>1, <1>2
<1> HIDE DEF g
<1>4. g \in Partial(S, T)
  BY <1>3, PartialType
<1>5. QED
  BY <1>2, <1>4 DEF g

\* A partial function with one value replaced.
LEMMA ExceptType ==
  ASSUME NEW S, NEW T, NEW f \in Partial(S, T), NEW x \in DOMAIN f, NEW y \in T
  PROVE  /\ [f EXCEPT ![x] = y] \in Partial(S, T)
         /\ DOMAIN [f EXCEPT ![x] = y] = DOMAIN f
         /\ [f EXCEPT ![x] = y][x] = y
         /\ \A z \in DOMAIN f : z # x => [f EXCEPT ![x] = y][z] = f[z]
<1> DEFINE g == [f EXCEPT ![x] = y]
<1>1. DOMAIN f \subseteq S /\ \A z \in DOMAIN f : f[z] \in T
  BY PartialType
<1>2. /\ DOMAIN g = DOMAIN f /\ g[x] = y
      /\ \A z \in DOMAIN f : z # x => g[z] = f[z]
  OBVIOUS
<1>3. g = [z \in DOMAIN g |-> g[z]] /\ DOMAIN g \subseteq S /\ \A z \in DOMAIN g : g[z] \in T
  BY <1>1, <1>2
<1> HIDE DEF g
<1>4. g \in Partial(S, T)
  BY <1>3, PartialType
<1>5. QED
  BY <1>2, <1>4 DEF g

\* The function that is defined nowhere.
LEMMA NoFunctionType ==
  ASSUME NEW S, NEW T
  PROVE  NoFunction \in Partial(S, T) /\ DOMAIN NoFunction = {}
<1>1. DOMAIN NoFunction = {} /\ NoFunction \in [{} -> T]
  BY DEF NoFunction
<1>2. QED
  BY <1>1 DEF Partial

-----------------------------------------------------------------------------
(* Columns, and the values that a row has for them.                        *)

\* A column has one position.
LEMMA PositionIs ==
  ASSUME NEW cs \in Columns, NEW c \in ToSet(cs)
  PROVE  /\ Position(cs, c) \in 1 .. Len(cs) /\ cs[Position(cs, c)] = c
         /\ \A k \in 1 .. Len(cs) : cs[k] = c => k = Position(cs, c)
<1>1. DOMAIN cs = 1 .. Len(cs) /\ cs \in Seq(Column) /\ IsInjective(cs)
  BY DEF Columns
<1>2. \E k \in 1 .. Len(cs) : cs[k] = c
  BY <1>1 DEF ToSet
<1>3. Position(cs, c) \in 1 .. Len(cs) /\ cs[Position(cs, c)] = c
  BY <1>2 DEF Position
<1>4. QED
  BY <1>1, <1>3 DEF IsInjective

\* A row has a value or Null for every column, and Null for one its table has not.
LEMMA GetType ==
  ASSUME NEW cs \in Columns, NEW row, row.values \in Seq(Field), NEW c
  PROVE  /\ Get(cs, row, c) \in Field
         /\ c \notin ToSet(cs) => Get(cs, row, c) = Null
<1>1. CASE c \notin ToSet(cs)
  BY <1>1 DEF Get, Field
<1>2. CASE c \in ToSet(cs)
  <2>1. Position(cs, c) \in 1 .. Len(cs)
    BY <1>2, PositionIs
  <2>2. QED
    BY <1>2, <2>1 DEF Get, Field
<1>3. QED
  BY <1>1, <1>2

\* A value is found at the position of its column.
LEMMA GetIs ==
  ASSUME NEW cs \in Columns, NEW row, NEW k \in 1 .. Len(cs)
  PROVE  Get(cs, row, cs[k]) = IF k > Len(row.values) THEN Null ELSE row.values[k]
<1>1. cs[k] \in ToSet(cs)
  BY DEF ToSet, Columns
<1>2. Position(cs, cs[k]) = k
  BY <1>1, PositionIs
<1>3. QED
  BY <1>1, <1>2 DEF Get

\* A sequence without one element: those behind it move up.
LEMMA RemoveAtIs ==
  ASSUME NEW T, NEW s \in Seq(T), NEW k \in 1 .. Len(s)
  PROVE  /\ RemoveAt(s, k) \in Seq(T) /\ Len(RemoveAt(s, k)) = Len(s) - 1
         /\ \A j \in 1 .. Len(s) - 1 : RemoveAt(s, k)[j] = s[IF j < k THEN j ELSE j + 1]
<1>1. /\ k - 1 \in 0 .. Len(s) /\ k + 1 \in 1 .. Len(s) + 1 /\ Len(s) \in Nat
      /\ \A i \in 1 .. Len(s) : s[i] \in T
  OBVIOUS
<1> DEFINE a == SubSeq(s, 1, k - 1)
           b == SubSeq(s, k + 1, Len(s))
<1>2. a \in Seq(T) /\ Len(a) = k - 1 /\ \A j \in 1 .. k - 1 : a[j] = s[j]
  <2>1. \A i \in 1 .. k - 1 : s[i] \in T
    BY <1>1
  <2>2. QED
    BY <1>1, <2>1, SubSeqProperties
<1>3. b \in Seq(T) /\ Len(b) = Len(s) - k /\ \A j \in 1 .. Len(s) - k : b[j] = s[k + j]
  <2>1. \A i \in k + 1 .. Len(s) : s[i] \in T
    BY <1>1
  <2>2. CASE k = Len(s)
    BY <1>1, <2>1, <2>2, SubSeqProperties
  <2>3. CASE k < Len(s)
    BY <1>1, <2>1, <2>3, SubSeqProperties
  <2>4. QED
    BY <2>2, <2>3
<1>4. RemoveAt(s, k) = a \o b
  BY DEF RemoveAt
<1> HIDE DEF a, b
<1>5. /\ a \o b \in Seq(T) /\ Len(a \o b) = Len(a) + Len(b)
      /\ \A j \in 1 .. Len(a) + Len(b) :
           (a \o b)[j] = IF j <= Len(a) THEN a[j] ELSE b[j - Len(a)]
  BY <1>2, <1>3, ConcatProperties
<1>6. Len(a) + Len(b) = Len(s) - 1 /\ Len(s) \in Nat
  BY <1>1, <1>2, <1>3
<1>7. ASSUME NEW j \in 1 .. Len(s) - 1
      PROVE  (a \o b)[j] = s[IF j < k THEN j ELSE j + 1]
  <2>1. (a \o b)[j] = IF j <= Len(a) THEN a[j] ELSE b[j - Len(a)]
    BY <1>5, <1>6
  <2>2. CASE j < k
    <3>1. j <= Len(a) /\ j \in 1 .. k - 1
      BY <1>2, <1>6, <2>2
    <3>2. QED
      BY <1>2, <2>1, <2>2, <3>1
  <2>3. CASE ~ (j < k)
    <3>1. ~ (j <= Len(a)) /\ j - Len(a) \in 1 .. Len(s) - k /\ k + (j - Len(a)) = j + 1
      BY <1>2, <1>6, <2>3
    <3>2. b[j - Len(a)] = s[j + 1]
      BY <1>3, <3>1
    <3>3. QED
      BY <2>1, <2>3, <3>1, <3>2
  <2>4. QED
    BY <2>2, <2>3
<1>8. QED
  BY <1>4, <1>5, <1>6, <1>7

\* A row that is padded has a value for each column.
LEMMA PaddedIs ==
  ASSUME NEW cs \in Columns, NEW row, row.values \in Seq(Field)
  PROVE  /\ Padded(cs, row) \in Seq(Field) /\ Len(Padded(cs, row)) = Len(cs)
         /\ \A k \in 1 .. Len(cs) : Padded(cs, row)[k] = Get(cs, row, cs[k])
<1>1. Len(cs) \in Nat
  BY DEF Columns
<1>2. \A k \in 1 .. Len(cs) : Get(cs, row, cs[k]) \in Field
  BY GetType
<1>3. QED
  BY <1>1, <1>2 DEF Padded

\* A table is created with one column.
LEMMA OneColumn ==
  ASSUME NEW c \in Column
  PROVE  <<c>> \in Columns
BY DEF Columns, IsInjective

\* A column is added behind the others.
LEMMA ColumnAdded ==
  ASSUME NEW cs \in Columns, NEW c \in Column \ ToSet(cs)
  PROVE  /\ Append(cs, c) \in Columns /\ Len(Append(cs, c)) = Len(cs) + 1
         /\ \A e \in ToSet(cs) : /\ e \in ToSet(Append(cs, c))
                                 /\ \A row : Get(Append(cs, c), row, e) = Get(cs, row, e)
<1> DEFINE new == Append(cs, c)
<1>1. cs \in Seq(Column) /\ IsInjective(cs) /\ Len(cs) \in Nat /\ DOMAIN cs = 1 .. Len(cs)
  BY DEF Columns
<1>2. /\ new \in Seq(Column) /\ Len(new) = Len(cs) + 1 /\ DOMAIN new = 1 .. Len(cs) + 1
      /\ \A k \in 1 .. Len(cs) : new[k] = cs[k]
      /\ new[Len(cs) + 1] = c
  BY <1>1
<1>3. \A k \in 1 .. Len(cs) : cs[k] \in ToSet(cs) /\ cs[k] # c
  BY <1>1 DEF ToSet
<1> HIDE DEF new
<1>4. \A j, k \in 1 .. Len(cs) + 1 : new[j] = new[k] => j = k
  <2>1. SUFFICES ASSUME NEW j \in 1 .. Len(cs) + 1, NEW k \in 1 .. Len(cs) + 1, new[j] = new[k]
                 PROVE  j = k
    OBVIOUS
  <2>2. \A i \in 1 .. Len(cs) + 1 : i \in 1 .. Len(cs) \/ i = Len(cs) + 1
    BY <1>1
  <2>3. CASE j \in 1 .. Len(cs) /\ k \in 1 .. Len(cs)
    BY <1>1, <1>2, <2>1, <2>3 DEF IsInjective
  <2>4. QED
    BY <1>2, <1>3, <2>1, <2>2, <2>3
<1>5. new \in Columns
  BY <1>2, <1>4 DEF Columns, IsInjective
<1>6. ASSUME NEW e \in ToSet(cs), NEW row
      PROVE  e \in ToSet(new) /\ Get(new, row, e) = Get(cs, row, e)
  <2>1. PICK k \in 1 .. Len(cs) : cs[k] = e
    BY <1>1 DEF ToSet
  <2>2. k \in 1 .. Len(new) /\ new[k] = e
    BY <1>1, <1>2, <2>1
  <2>3. e \in ToSet(new)
    BY <1>2, <2>2 DEF ToSet
  <2>4. Get(new, row, e) = Get(cs, row, e)
    <3>1. Get(new, row, new[k]) = IF k > Len(row.values) THEN Null ELSE row.values[k]
      BY <1>5, <2>2, GetIs
    <3>2. Get(cs, row, cs[k]) = IF k > Len(row.values) THEN Null ELSE row.values[k]
      BY GetIs
    <3>3. QED
      BY <2>1, <2>2, <3>1, <3>2
  <2>5. QED
    BY <2>3, <2>4
<1>7. QED
  BY <1>2, <1>5, <1>6 DEF new

\* A column is removed from the table and from every row.
LEMMA ColumnRemoved ==
  ASSUME NEW cs \in Columns, NEW c \in ToSet(cs), NEW n, n = Position(cs, c)
  PROVE  /\ RemoveAt(cs, n) \in Columns
         /\ \A e \in ToSet(cs) : e # c => e \in ToSet(RemoveAt(cs, n))
         /\ \A row : row.values \in Seq(Field) =>
              /\ RemoveAt(Padded(cs, row), n) \in Seq(Field)
              /\ Len(RemoveAt(Padded(cs, row), n)) = Len(RemoveAt(cs, n))
              /\ \A e \in ToSet(cs) : \A row2 :
                   e # c /\ row2.values = RemoveAt(Padded(cs, row), n) =>
                     Get(RemoveAt(cs, n), row2, e) = Get(cs, row, e)
<1> DEFINE new == RemoveAt(cs, n)
           From(j) == IF j < n THEN j ELSE j + 1
<1>1. cs \in Seq(Column) /\ IsInjective(cs) /\ Len(cs) \in Nat /\ DOMAIN cs = 1 .. Len(cs)
  BY DEF Columns
<1>2. n \in 1 .. Len(cs) /\ cs[n] = c
  BY PositionIs
<1>3. /\ new \in Seq(Column) /\ Len(new) = Len(cs) - 1
      /\ \A j \in 1 .. Len(cs) - 1 : new[j] = cs[From(j)]
  BY <1>1, <1>2, RemoveAtIs
<1>4. /\ \A j \in 1 .. Len(cs) - 1 : From(j) \in 1 .. Len(cs) /\ From(j) # n
      /\ \A j, k \in 1 .. Len(cs) - 1 : From(j) = From(k) => j = k
  BY <1>1, <1>2
<1>5. DOMAIN new = 1 .. Len(cs) - 1 /\ Len(new) \in Nat
  BY <1>3
<1>6. \A i \in 1 .. Len(cs) : i # n => \E j \in 1 .. Len(cs) - 1 : From(j) = i
  <2>1. SUFFICES ASSUME NEW i \in 1 .. Len(cs), i # n
                 PROVE  \E j \in 1 .. Len(cs) - 1 : From(j) = i
    OBVIOUS
  <2>2. CASE i < n
    <3>1. i \in 1 .. Len(cs) - 1 /\ From(i) = i
      BY <1>1, <1>2, <2>2
    <3>2. QED
      BY <3>1
  <2>3. CASE i > n
    <3>1. i - 1 \in 1 .. Len(cs) - 1 /\ From(i - 1) = i
      BY <1>1, <1>2, <2>3
    <3>2. QED
      BY <3>1
  <2>4. QED
    BY <1>1, <1>2, <2>1, <2>2, <2>3
<1> HIDE DEF new
<1>7. new \in Columns
  <2>1. \A j, k \in 1 .. Len(cs) - 1 : new[j] = new[k] => j = k
    BY <1>1, <1>3, <1>4 DEF IsInjective
  <2>2. QED
    BY <1>3, <1>5, <2>1 DEF Columns, IsInjective
<1>8. ASSUME NEW e \in ToSet(cs), e # c
      PROVE  \E j \in 1 .. Len(cs) - 1 : new[j] = e /\ cs[From(j)] = e
  <2>1. PICK i \in 1 .. Len(cs) : cs[i] = e
    BY <1>1 DEF ToSet
  <2>2. PICK j \in 1 .. Len(cs) - 1 : From(j) = i
    BY <1>2, <1>6, <1>8, <2>1
  <2>3. QED
    BY <1>3, <2>1, <2>2
<1>9. \A e \in ToSet(cs) : e # c => e \in ToSet(new)
  BY <1>5, <1>8 DEF ToSet
<1>10. ASSUME NEW row, row.values \in Seq(Field)
       PROVE  /\ RemoveAt(Padded(cs, row), n) \in Seq(Field)
              /\ Len(RemoveAt(Padded(cs, row), n)) = Len(new)
              /\ \A e \in ToSet(cs) : \A row2 :
                   e # c /\ row2.values = RemoveAt(Padded(cs, row), n) =>
                     Get(new, row2, e) = Get(cs, row, e)
  <2> DEFINE pad == Padded(cs, row)
             cut == RemoveAt(pad, n)
  <2>1. /\ pad \in Seq(Field) /\ Len(pad) = Len(cs)
        /\ \A k \in 1 .. Len(cs) : pad[k] = Get(cs, row, cs[k])
    BY <1>10, PaddedIs
  <2> HIDE DEF pad
  <2>2. /\ cut \in Seq(Field) /\ Len(cut) = Len(cs) - 1
        /\ \A j \in 1 .. Len(cs) - 1 : cut[j] = pad[From(j)]
    BY <1>2, <2>1, RemoveAtIs
  <2> HIDE DEF cut
  <2>3. ASSUME NEW e \in ToSet(cs), NEW row2, e # c, row2.values = cut
        PROVE  Get(new, row2, e) = Get(cs, row, e)
    <3>1. PICK j \in 1 .. Len(cs) - 1 : new[j] = e /\ cs[From(j)] = e
      BY <1>8, <2>3
    <3>2. j \in 1 .. Len(new) /\ ~ (j > Len(row2.values))
      BY <1>1, <1>3, <2>2, <2>3, <3>1
    <3>3. Get(new, row2, e) = cut[j]
      BY <1>7, <2>3, <3>1, <3>2, GetIs
    <3>4. cut[j] = Get(cs, row, e)
      BY <1>4, <2>1, <2>2, <3>1
    <3>5. QED
      BY <3>3, <3>4
  <2>4. QED
    BY <1>3, <2>2, <2>3 DEF cut, pad
<1>11. QED
  BY <1>7, <1>9, <1>10 DEF new

\* A column that is renamed keeps its place, and the others are what they were.
LEMMA ColumnRenamed ==
  ASSUME NEW cs \in Columns, NEW c \in ToSet(cs), NEW d \in Column \ ToSet(cs)
  PROVE  LET new == [cs EXCEPT ![Position(cs, c)] = d]
         IN  /\ new \in Columns /\ Len(new) = Len(cs)
             /\ \A e \in ToSet(cs) : e # c => /\ e \in ToSet(new)
                                              /\ \A row : Get(new, row, e) = Get(cs, row, e)
<1> DEFINE n == Position(cs, c)
           new == [cs EXCEPT ![n] = d]
<1>1. cs \in Seq(Column) /\ IsInjective(cs) /\ Len(cs) \in Nat /\ DOMAIN cs = 1 .. Len(cs)
  BY DEF Columns
<1>2. n \in 1 .. Len(cs) /\ cs[n] = c
  BY PositionIs
<1>3. \A k \in 1 .. Len(cs) : cs[k] \in ToSet(cs) /\ cs[k] # d
  BY <1>1 DEF ToSet
<1> HIDE DEF n
<1>4. /\ new \in Seq(Column) /\ Len(new) = Len(cs) /\ DOMAIN new = 1 .. Len(cs) /\ new[n] = d
      /\ \A k \in 1 .. Len(cs) : k # n => new[k] = cs[k]
  BY <1>1, <1>2
<1> HIDE DEF new
<1>5. \A j, k \in 1 .. Len(cs) : new[j] = new[k] => j = k
  BY <1>1, <1>2, <1>3, <1>4 DEF IsInjective
<1>6. new \in Columns
  BY <1>4, <1>5 DEF Columns, IsInjective
<1>7. ASSUME NEW e \in ToSet(cs), e # c, NEW row
      PROVE  e \in ToSet(new) /\ Get(new, row, e) = Get(cs, row, e)
  <2>1. PICK k \in 1 .. Len(cs) : cs[k] = e
    BY <1>1 DEF ToSet
  <2>2. k \in 1 .. Len(new) /\ new[k] = e
    BY <1>2, <1>4, <1>7, <2>1
  <2>3. e \in ToSet(new)
    BY <1>4, <2>2 DEF ToSet
  <2>4. Get(new, row, e) = Get(cs, row, e)
    <3>1. Get(new, row, new[k]) = IF k > Len(row.values) THEN Null ELSE row.values[k]
      BY <1>6, <2>2, GetIs
    <3>2. Get(cs, row, cs[k]) = IF k > Len(row.values) THEN Null ELSE row.values[k]
      BY GetIs
    <3>3. QED
      BY <2>1, <2>2, <3>1, <3>2
  <2>5. QED
    BY <2>3, <2>4
<1>8. QED
  BY <1>4, <1>6, <1>7 DEF new, n

-----------------------------------------------------------------------------
(* Rows and postings.                                                      *)

\* What the types say of the fields of pages and catalog.
LEMMA DiskType ==
  ASSUME NEW d
  PROVE  d \in Disk <=> /\ d = [tables |-> d.tables, indexes |-> d.indexes]
                        /\ d.tables \in Partial(Name, Table) /\ d.indexes \in Partial(Index, Posted)
BY DEF Disk

\* The tables and indexes of pages have their types.
LEMMA TableType ==
  ASSUME NEW d \in Disk
  PROVE  /\ DOMAIN d.tables \subseteq Name /\ DOMAIN d.indexes \subseteq Index
         /\ \A n \in DOMAIN d.tables : d.tables[n] \in Table
         /\ \A i \in DOMAIN d.indexes : d.indexes[i] \in Posted
<1>1. d.tables \in Partial(Name, Table) /\ d.indexes \in Partial(Index, Posted)
  BY DEF Disk
<1>2. QED
  BY <1>1, PartialType

\* So have those of a catalog.
LEMMA KnownType ==
  ASSUME NEW m \in Catalog
  PROVE  /\ DOMAIN m.tables \subseteq Name /\ DOMAIN m.indexes \subseteq Index
         /\ \A n \in DOMAIN m.tables : m.tables[n] \in Known
         /\ \A i \in DOMAIN m.indexes : m.indexes[i] \in Source
<1>1. m.tables \in Partial(Name, Known) /\ m.indexes \in Partial(Index, Source)
  BY DEF Catalog
<1>2. QED
  BY <1>1, PartialType

\* The rows of a table have their types.
LEMMA RowType ==
  ASSUME NEW t \in Table
  PROVE  /\ t.rows \in Partial(Id, Row) /\ DOMAIN t.rows \subseteq Id /\ t.columns \in Columns
         /\ t.next \in Nat \ {0} /\ t.replaced \in BOOLEAN
         /\ \A id \in DOMAIN t.rows : t.rows[id] \in Row /\ t.rows[id].values \in Seq(Field)
<1>1. t.rows \in Partial(Id, Row)
  BY DEF Table
<1>2. DOMAIN t.rows \subseteq Id /\ \A id \in DOMAIN t.rows : t.rows[id] \in Row
  BY <1>1, PartialType
<1>3. QED
  BY <1>1, <1>2 DEF Table, Row

\* A row has at most one posting in an index: its value, if it is not Null.
LEMMA PostingIs ==
  ASSUME NEW m, NEW n, NEW i, NEW id, NEW row, NEW y
  PROVE  y \in Posting(m, n, i, id, row) <=>
           LET v == Get(m.tables[n].columns, row, m.indexes[i].column)
           IN  v # Null /\ y = <<v, id>>
BY DEF Posting

\* The postings of an index of table n, when rows are taken out and others put in.
Moved(m, n, i, post, out, in) ==
  (post \ UNION {Posting(m, n, i, o[1], o[2]) : o \in out})
    \cup UNION {Posting(m, n, i, o[1], o[2]) : o \in in}

\* Rows with their numbers; a row of f, or of R, that has v in column c.
Numbered(R) == \A o \in R : o[1] \in Id /\ o[2].values \in Seq(Field)

Has(cs, f, k, c, v) == k \in DOMAIN f /\ Get(cs, f[k], c) = v
Holds(cs, R, k, c, v) == \E o \in R : o[1] = k /\ Get(cs, o[2], c) = v

\* The postings q are those of before without those of the rows that went, and with
\* those of the rows that came.
Follow(cs, c, post, out, in, q) ==
  /\ q \in SUBSET (Value \X Id)
  /\ \A v \in Value, id \in Id :
       <<v, id>> \in q <=> \/ <<v, id>> \in post /\ ~ Holds(cs, out, id, c, v)
                         \/ Holds(cs, in, id, c, v)

\* What the executor does to an index is Follow.
LEMMA MovedIs ==
  ASSUME NEW m \in Catalog, NEW n \in DOMAIN m.tables, NEW i \in DOMAIN m.indexes,
         NEW post \in SUBSET (Value \X Id), NEW out, NEW in, Numbered(out), Numbered(in)
  PROVE  Follow(m.tables[n].columns, m.indexes[i].column, post, out, in,
                Moved(m, n, i, post, out, in))
<1> DEFINE cs == m.tables[n].columns
           c  == m.indexes[i].column
           P(R) == UNION {Posting(m, n, i, o[1], o[2]) : o \in R}
           q  == Moved(m, n, i, post, out, in)
<1>1. cs \in Columns
  BY KnownType DEF Known
<1>2. Null \notin Value /\ Field = Value \cup {Null}
  BY TablesAssumption DEF Field
<1>3. ASSUME NEW R, Numbered(R)
      PROVE  /\ P(R) \in SUBSET (Value \X Id)
             /\ \A v \in Value, id \in Id :
                  <<v, id>> \in P(R) <=> \E o \in R : o[1] = id /\ Get(cs, o[2], c) = v
  <2>1. \A o \in R : o[1] \in Id /\ Get(cs, o[2], c) \in Value \cup {Null}
    BY <1>1, <1>2, <1>3, GetType DEF Numbered
  <2>2. \A o \in R : \A y : y \in Posting(m, n, i, o[1], o[2])
                        <=> Get(cs, o[2], c) # Null /\ y = <<Get(cs, o[2], c), o[1]>>
    BY PostingIs
  <2>3. \A y : y \in P(R) <=> \E o \in R : y \in Posting(m, n, i, o[1], o[2])
    OBVIOUS
  <2> HIDE DEF P, cs, c
  <2>4. \A y \in P(R) : y \in Value \X Id
    BY <2>1, <2>2, <2>3
  <2>5. \A v \in Value, id \in Id :
          <<v, id>> \in P(R) <=> \E o \in R : o[1] = id /\ Get(cs, o[2], c) = v
    BY <1>2, <2>1, <2>2, <2>3
  <2>6. QED
    BY <2>4, <2>5
<1>4. q = (post \ P(out)) \cup P(in)
  BY DEF Moved
<1> HIDE DEF P, q, cs, c
<1>5. /\ P(out) \in SUBSET (Value \X Id) /\ P(in) \in SUBSET (Value \X Id)
      /\ \A v \in Value, id \in Id :
           /\ <<v, id>> \in P(out) <=> \E o \in out : o[1] = id /\ Get(cs, o[2], c) = v
           /\ <<v, id>> \in P(in) <=> \E o \in in : o[1] = id /\ Get(cs, o[2], c) = v
  BY <1>3
<1>6. q \in SUBSET (Value \X Id)
  BY <1>4, <1>5
<1>7. ASSUME NEW v \in Value, NEW id \in Id
      PROVE  <<v, id>> \in q <=>
               \/ /\ <<v, id>> \in post
                  /\ ~ \E o \in out : o[1] = id /\ Get(cs, o[2], c) = v
               \/ \E o \in in : o[1] = id /\ Get(cs, o[2], c) = v
  <2>1. <<v, id>> \in q <=> (<<v, id>> \in post /\ <<v, id>> \notin P(out)) \/ <<v, id>> \in P(in)
    BY <1>4
  <2>2. QED
    BY <1>5, <2>1
<1>8. QED
  BY <1>6, <1>7 DEF q, cs, c, Follow, Holds

\* The store after the rows of table n became f, and its indexes follow.
LEMMA ReindexIs ==
  ASSUME NEW s \in Stores, NEW n \in DOMAIN s.disk.tables, NEW f, NEW out, NEW in
  PROVE  Reindex([s EXCEPT !.disk.tables[n].rows = f], n, out, in) =
           [ok |-> s.ok, mem |-> s.mem,
            disk |-> [tables  |-> [s.disk.tables EXCEPT ![n] = [s.disk.tables[n] EXCEPT !.rows = f]],
                      indexes |-> Reindexed(s.mem, s.disk.indexes, n, out, in)]]
<1> DEFINE T  == [s.disk.tables EXCEPT ![n] = [s.disk.tables[n] EXCEPT !.rows = f]]
           s1 == [s EXCEPT !.disk.tables[n].rows = f]
<1>1. /\ s = [ok |-> s.ok, disk |-> s.disk, mem |-> s.mem]
      /\ s.disk = [tables |-> s.disk.tables, indexes |-> s.disk.indexes]
  BY DiskType DEF Stores
<1>2. s1 = [s EXCEPT !.disk = [s.disk EXCEPT !.tables = T]]
  OBVIOUS
<1>3. s1 = [ok |-> s.ok, mem |-> s.mem, disk |-> [tables |-> T, indexes |-> s.disk.indexes]]
  BY <1>1, <1>2
<1> HIDE DEF s1
<1>4. Reindex(s1, n, out, in) =
        [s1 EXCEPT !.disk = [s1.disk EXCEPT !.indexes = Reindexed(s1.mem, s1.disk.indexes, n, out, in)]]
  BY DEF Reindex
<1> HIDE DEF T
<1>5. Reindex(s1, n, out, in) =
        [ok |-> s.ok, mem |-> s.mem,
         disk |-> [tables |-> T, indexes |-> Reindexed(s.mem, s.disk.indexes, n, out, in)]]
  BY <1>3, <1>4
<1>6. QED
  BY <1>5 DEF s1, T

\* Rows f fit table t.
Fits(t, f) == Whole([t EXCEPT !.rows = f])

\* Rows f are those of table t without those that went and with those that came.
Exchanged(t, f, out, in) ==
  \A c \in Column, v \in Value, k \in Id :
    Has(t.columns, f, k, c, v) <=>
      \/ Has(t.columns, t.rows, k, c, v) /\ ~ Holds(t.columns, out, k, c, v)
      \/ Holds(t.columns, in, k, c, v)

\* The rows of a table change and its indexes with them: all indexes of sound pages stay
\* exact, unless the table has the mark.
LEMMA RowsStep ==
  ASSUME NEW s \in Stores, Good(s.disk, s.mem), NEW n \in DOMAIN s.disk.tables,
         NEW f \in Partial(Id, Row), NEW out, NEW in, Numbered(out), Numbered(in),
         Fits(s.disk.tables[n], f),
         s.disk.tables[n].replaced \/ Exchanged(s.disk.tables[n], f, out, in)
  PROVE  LET r == Reindex([s EXCEPT !.disk.tables[n].rows = f], n, out, in)
         IN  /\ r \in Stores /\ r.ok = s.ok /\ r.mem = s.mem /\ Good(r.disk, r.mem)
             /\ r.disk.tables = [s.disk.tables EXCEPT ![n] = [s.disk.tables[n] EXCEPT !.rows = f]]
<1> DEFINE d  == s.disk
           m  == s.mem
           t  == d.tables[n]
           u  == [t EXCEPT !.rows = f]
           T  == [d.tables EXCEPT ![n] = u]
           I  == d.indexes
           J  == Reindexed(m, I, n, out, in)
           d2 == [tables |-> T, indexes |-> J]
           r  == Reindex([s EXCEPT !.disk.tables[n].rows = f], n, out, in)
<1>1. r = [ok |-> s.ok, mem |-> m, disk |-> d2]
  <2>1. \A g, x, y : Reindex([s EXCEPT !.disk.tables[n].rows = g], n, x, y) =
           [ok |-> s.ok, mem |-> s.mem,
            disk |-> [tables  |-> [s.disk.tables EXCEPT ![n] = [s.disk.tables[n] EXCEPT !.rows = g]],
                      indexes |-> Reindexed(s.mem, s.disk.indexes, n, x, y)]]
    BY ReindexIs
  <2>2. QED
    BY <2>1
<1>2. d \in Disk /\ m \in Catalog /\ s.ok \in BOOLEAN /\ Sound(d) /\ Follows(d, m)
  BY DEF Good, Stores
<1>3. t \in Table /\ n \in Name
  BY <1>2, TableType
<1>4. u \in Table /\ u.rows = f /\ u.columns = t.columns /\ u.replaced = t.replaced
  BY <1>3 DEF Table
<1> HIDE DEF t, u, r
<1>5. T \in Partial(Name, Table) /\ DOMAIN T = DOMAIN d.tables /\ T[n] = u
      /\ \A k \in DOMAIN d.tables : k # n => T[k] = d.tables[k]
  <2>1. d.tables \in Partial(Name, Table)
    BY <1>2, DiskType
  <2>2. QED
    BY <1>4, <2>1, ExceptType
<1>6. DOMAIN J = DOMAIN I
  BY DEF Reindexed
<1>7. n \in DOMAIN m.tables /\ m.tables[n].columns = t.columns /\ t.columns \in Columns
  BY <1>2, <1>3, RowType DEF Follows, t
<1>8. ASSUME NEW i \in DOMAIN I
      PROVE  /\ J[i] \in Posted
             /\ J[i].table = I[i].table /\ J[i].column = I[i].column /\ J[i].orphan = I[i].orphan
             /\ I[i].table # n => J[i] = I[i]
             /\ I[i].table = n =>
                  \A v \in Value, k \in Id :
                    <<v, k>> \in J[i].post <=>
                      \/ <<v, k>> \in I[i].post /\ ~ Holds(t.columns, out, k, I[i].column, v)
                      \/ Holds(t.columns, in, k, I[i].column, v)
  <2>1. I[i] \in Posted /\ i \in DOMAIN m.indexes
        /\ m.indexes[i].table = I[i].table /\ m.indexes[i].column = I[i].column
    BY <1>2, TableType DEF Follows
  <2>2. i \in IndexesOf(m, n) <=> I[i].table = n
    BY <2>1 DEF IndexesOf
  <2>3. CASE I[i].table # n
    <3>1. J[i] = I[i]
      BY <2>2, <2>3 DEF Reindexed
    <3>2. QED
      BY <2>1, <2>3, <3>1
  <2>4. CASE I[i].table = n
    <3> HIDE DEF m, I
    <3> DEFINE q == Moved(m, n, i, I[i].post, out, in)
    <3>1. J[i] = [I[i] EXCEPT !.post = q]
      BY <2>2, <2>4 DEF Reindexed, Moved
    <3>2. I[i].post \in SUBSET (Value \X Id)
      BY <2>1 DEF Posted
    <3>3. Follow(t.columns, I[i].column, I[i].post, out, in, q)
      BY <1>2, <1>7, <2>1, <3>2, MovedIs
    <3> HIDE DEF q
    <3>4. /\ J[i] \in Posted /\ J[i].post = q
          /\ J[i].table = I[i].table /\ J[i].column = I[i].column /\ J[i].orphan = I[i].orphan
      BY <2>1, <3>1, <3>3 DEF Posted, Follow
    <3>5. QED
      BY <2>4, <3>3, <3>4 DEF Follow
  <2>5. QED
    BY <2>3, <2>4
<1>9. J = [i \in DOMAIN J |-> J[i]]
  BY DEF Reindexed
<1> HIDE DEF T, I, J
<1>10. J \in Partial(Index, Posted)
  <2>1. DOMAIN I \subseteq Index
    BY <1>2, TableType DEF I
  <2>2. QED
    BY <1>6, <1>8, <1>9, <2>1, PartialType
<1>11. d2 \in Disk /\ d2.tables = T /\ d2.indexes = J
  BY <1>5, <1>10 DEF Disk
<1> HIDE DEF d2
<1>12. \A k \in DOMAIN T : Whole(T[k])
  BY <1>2, <1>5 DEF Sound, t, u, Fits
<1>13. ASSUME NEW i \in DOMAIN J, ~ J[i].orphan
       PROVE  Indexed(d2, J[i])
  <2>1. i \in DOMAIN I /\ ~ I[i].orphan
    BY <1>6, <1>8, <1>13
  <2>2. Indexed(d, I[i])
    BY <1>2, <2>1 DEF Sound, I
  <2>3. CASE I[i].table # n
    BY <1>5, <1>8, <1>11, <2>1, <2>2, <2>3 DEF Indexed
  <2>4. CASE I[i].table = n
    <3>1. /\ J[i].table = n /\ J[i].column \in ToSet(u.columns) /\ T[n] = u /\ n \in DOMAIN T
          /\ J[i].column = I[i].column
          /\ ~ t.replaced => Exact(t, I[i])
      BY <1>4, <1>5, <1>8, <2>1, <2>2, <2>4 DEF Indexed, t
    <3>2. ASSUME ~ t.replaced PROVE Exact(u, J[i])
      <4>1. I[i] \in Posted /\ I[i].column \in Column
        BY <1>2, <2>1, TableType DEF Posted, I
      <4>2. ASSUME NEW v \in Value, NEW k \in Id
            PROVE  <<v, k>> \in J[i].post <=> Has(u.columns, u.rows, k, J[i].column, v)
        <5>1. <<v, k>> \in I[i].post <=> Has(t.columns, t.rows, k, I[i].column, v)
          BY <3>1, <3>2 DEF Exact, Has
        <5>2. <<v, k>> \in J[i].post <=>
                \/ <<v, k>> \in I[i].post /\ ~ Holds(t.columns, out, k, I[i].column, v)
                \/ Holds(t.columns, in, k, I[i].column, v)
          BY <1>8, <2>1, <2>4
        <5>3. Has(t.columns, f, k, I[i].column, v) <=>
                   \/ Has(t.columns, t.rows, k, I[i].column, v)
                      /\ ~ Holds(t.columns, out, k, I[i].column, v)
                   \/ Holds(t.columns, in, k, I[i].column, v)
          BY <3>2, <4>1 DEF t, Exchanged
        <5>4. QED
          BY <1>4, <3>1, <5>1, <5>2, <5>3
      <4>3. QED
        BY <4>2 DEF Exact, Has
    <3>3. QED
      BY <1>4, <1>11, <3>1, <3>2 DEF Indexed
  <2>5. QED
    BY <2>3, <2>4
<1>14. Sound(d2)
  BY <1>11, <1>12, <1>13 DEF Sound
<1>15. Follows(d2, m)
  <2>1. \A k \in DOMAIN T : T[k].columns = d.tables[k].columns
    BY <1>4, <1>5 DEF t
  <2>2. QED
    BY <1>2, <1>5, <1>6, <1>8, <1>11, <2>1 DEF Follows, I
<1>16. r \in Stores /\ r.ok = s.ok /\ r.mem = s.mem /\ r.disk = d2
  BY <1>1, <1>2, <1>11 DEF Stores
<1>17. QED
  BY <1>2, <1>11, <1>14, <1>15, <1>16 DEF Good, r, T, u, t

\* Store r is store s with the rows f in table n.
Changed(s, r, n, f) ==
  /\ r \in Stores /\ r.ok = s.ok /\ r.mem = s.mem /\ Good(r.disk, r.mem)
  /\ DOMAIN r.disk.tables = DOMAIN s.disk.tables
  /\ RowsOf(r, n) = f
  /\ r.disk.tables[n].columns = s.disk.tables[n].columns
  /\ r.disk.tables[n].replaced = s.disk.tables[n].replaced
  /\ \A k \in DOMAIN s.disk.tables : k # n => r.disk.tables[k] = s.disk.tables[k]

\* The same, as what changed.
LEMMA RowsChange ==
  ASSUME NEW s \in Stores, Good(s.disk, s.mem), NEW n \in DOMAIN s.disk.tables,
         NEW f \in Partial(Id, Row), NEW out, NEW in, Numbered(out), Numbered(in),
         Fits(s.disk.tables[n], f),
         s.disk.tables[n].replaced \/ Exchanged(s.disk.tables[n], f, out, in)
  PROVE  Changed(s, Reindex([s EXCEPT !.disk.tables[n].rows = f], n, out, in), n, f)
<1> DEFINE r == Reindex([s EXCEPT !.disk.tables[n].rows = f], n, out, in)
           t == s.disk.tables[n]
           u == [t EXCEPT !.rows = f]
<1>1. /\ r \in Stores /\ r.ok = s.ok /\ r.mem = s.mem /\ Good(r.disk, r.mem)
      /\ r.disk.tables = [s.disk.tables EXCEPT ![n] = u]
  BY RowsStep
<1>2. t \in Table
  BY TableType DEF Good
<1>3. u.rows = f /\ u.columns = t.columns /\ u.replaced = t.replaced
  BY <1>2 DEF Table
<1> HIDE DEF r, u
<1>4. /\ DOMAIN r.disk.tables = DOMAIN s.disk.tables /\ r.disk.tables[n] = u
      /\ \A k \in DOMAIN s.disk.tables : k # n => r.disk.tables[k] = s.disk.tables[k]
  BY <1>1
<1>5. QED
  BY <1>1, <1>3, <1>4 DEF Changed, RowsOf, r

\* A row that goes takes its postings with it.
LEMMA Removed ==
  ASSUME NEW s \in Stores, Good(s.disk, s.mem), NEW n \in DOMAIN s.disk.tables,
         NEW id \in DOMAIN RowsOf(s, n)
  PROVE  /\ Changed(s, RemoveRow(s, n, id), n, Without(RowsOf(s, n), id))
         /\ DOMAIN Without(RowsOf(s, n), id) = DOMAIN RowsOf(s, n) \ {id}
         /\ \A k \in DOMAIN RowsOf(s, n) \ {id} : Without(RowsOf(s, n), id)[k] = RowsOf(s, n)[k]
<1> DEFINE t   == s.disk.tables[n]
           f   == Without(t.rows, id)
           out == {<<id, t.rows[id]>>}
<1>1. t \in Table /\ id \in DOMAIN t.rows /\ RowsOf(s, n) = t.rows
  BY TableType DEF Good, RowsOf
<1>2. /\ t.rows \in Partial(Id, Row) /\ DOMAIN t.rows \subseteq Id
      /\ \A k \in DOMAIN t.rows : t.rows[k].values \in Seq(Field)
  BY <1>1, RowType
<1>3. /\ f \in Partial(Id, Row) /\ DOMAIN f = DOMAIN t.rows \ {id}
      /\ \A k \in DOMAIN t.rows \ {id} : f[k] = t.rows[k]
  BY <1>2, WithoutType DEF Without
<1>4. Numbered(out) /\ Numbered({})
  BY <1>1, <1>2 DEF Numbered
<1>5. \A cs, c, v, k : /\ Holds(cs, out, k, c, v) <=> k = id /\ Get(cs, t.rows[id], c) = v
                       /\ ~ Holds(cs, {}, k, c, v)
  BY DEF Holds
<1>6. Whole(t)
  BY DEF Good, Sound
<1>7. RemoveRow(s, n, id) = Reindex([s EXCEPT !.disk.tables[n].rows = f], n, out, {})
  BY DEF RemoveRow, RowsOf
<1> HIDE DEF f, out
<1>8. Fits(t, f)
  <2> DEFINE u == [t EXCEPT !.rows = f]
  <2>1. u.rows = f /\ u.columns = t.columns
    BY <1>1 DEF Table
  <2> HIDE DEF u
  <2>2. Whole(u)
    BY <1>3, <1>6, <2>1 DEF Whole
  <2>3. QED
    BY <2>2 DEF Fits, u
<1>9. Exchanged(t, f, out, {})
  BY <1>3, <1>5 DEF Exchanged, Has
<1>10. Changed(s, Reindex([s EXCEPT !.disk.tables[n].rows = f], n, out, {}), n, f)
  BY <1>3, <1>4, <1>8, <1>9, RowsChange
<1>11. QED
  BY <1>1, <1>3, <1>7, <1>10 DEF f

\* Rows with one more row.
LEMMA RowsWith ==
  ASSUME NEW f \in Partial(Id, Row), NEW id \in Id, NEW row \in Row
  PROVE  /\ With(f, id, row) \in Partial(Id, Row)
         /\ DOMAIN With(f, id, row) = DOMAIN f \cup {id}
         /\ With(f, id, row)[id] = row
         /\ \A k \in DOMAIN f : k # id => With(f, id, row)[k] = f[k]
<1>1. With(f, id, row) \in Partial(Id, Row)
  BY WithType
<1>2. DOMAIN With(f, id, row) = DOMAIN f \cup {id} /\ With(f, id, row)[id] = row
  BY DEF With
<1>3. \A k \in DOMAIN f : k # id => With(f, id, row)[k] = f[k]
  BY DEF With
<1>4. QED
  BY <1>1, <1>2, <1>3

\* A row that comes brings its postings; those of a row that it replaces stay, which
\* the mark of the table tells.
LEMMA Put ==
  ASSUME NEW s \in Stores, Good(s.disk, s.mem), NEW n \in DOMAIN s.disk.tables,
         NEW id \in Id, NEW row \in Row,
         FitsIn(row, id, s.disk.tables[n].columns),
         s.disk.tables[n].replaced \/ id \notin DOMAIN RowsOf(s, n)
  PROVE  /\ Changed(s, PutRow(s, n, id, row), n, With(RowsOf(s, n), id, row))
         /\ DOMAIN With(RowsOf(s, n), id, row) = DOMAIN RowsOf(s, n) \cup {id}
<1> DEFINE t  == s.disk.tables[n]
           f  == With(t.rows, id, row)
           in == {<<id, row>>}
<1>1. t \in Table /\ RowsOf(s, n) = t.rows
  BY TableType DEF Good, RowsOf
<1>2. t.rows \in Partial(Id, Row)
  BY <1>1, RowType
<1>3. /\ f \in Partial(Id, Row) /\ DOMAIN f = DOMAIN t.rows \cup {id} /\ f[id] = row
      /\ \A k \in DOMAIN t.rows : k # id => f[k] = t.rows[k]
  <2>1. f \in Partial(Id, Row)
    BY <1>2, RowsWith
  <2>2. DOMAIN f = DOMAIN t.rows \cup {id} /\ f[id] = row
    BY DEF With
  <2>3. \A k \in DOMAIN t.rows : k # id => f[k] = t.rows[k]
    BY DEF With
  <2>4. QED
    BY <2>1, <2>2, <2>3
<1>4. Numbered(in) /\ Numbered({})
  BY DEF Numbered, Row
<1>5. \A cs, c, v, k : /\ Holds(cs, in, k, c, v) <=> k = id /\ Get(cs, row, c) = v
                       /\ ~ Holds(cs, {}, k, c, v)
  BY DEF Holds
<1>6. Whole(t)
  BY DEF Good, Sound
<1>7. PutRow(s, n, id, row) = Reindex([s EXCEPT !.disk.tables[n].rows = f], n, {}, in)
  BY DEF PutRow, RowsOf
<1> HIDE DEF f, in
<1>8. Fits(t, f)
  <2> DEFINE u == [t EXCEPT !.rows = f]
  <2>1. u.rows = f /\ u.columns = t.columns
    BY <1>1 DEF Table
  <2> HIDE DEF u
  <2>2. Whole(u)
    BY <1>3, <1>6, <2>1 DEF Whole
  <2>3. QED
    BY <2>2 DEF Fits, u
<1>9. t.replaced \/ Exchanged(t, f, {}, in)
  BY <1>1, <1>3, <1>5 DEF Exchanged, Has
<1>10. Changed(s, Reindex([s EXCEPT !.disk.tables[n].rows = f], n, {}, in), n, f)
  BY <1>3, <1>4, <1>8, <1>9, RowsChange
<1>11. QED
  BY <1>1, <1>3, <1>7, <1>10 DEF f

\* Store r is store s with x as the counter of table n.
CounterIs(s, r, n, x) ==
  /\ r \in Stores /\ r.ok = s.ok /\ r.disk = s.disk /\ Good(r.disk, r.mem)
  /\ DOMAIN r.mem.tables = DOMAIN s.mem.tables
  /\ r.mem.tables[n].columns = s.mem.tables[n].columns
  /\ r.mem.tables[n].next = x /\ r.mem.tables[n].reloaded = s.mem.tables[n].reloaded
  /\ \A k \in DOMAIN s.mem.tables : k # n => r.mem.tables[k] = s.mem.tables[k]

\* A counter that is set disturbs neither pages nor the rest of the catalog.
LEMMA CounterSet ==
  ASSUME NEW s \in Stores, Good(s.disk, s.mem), NEW n \in DOMAIN s.mem.tables, NEW x \in Nat \ {0}
  PROVE  CounterIs(s, [s EXCEPT !.mem.tables[n].next = x], n, x)
<1> DEFINE t == s.mem.tables[n]
           u == [t EXCEPT !.next = x]
           T == [s.mem.tables EXCEPT ![n] = u]
           m == [tables |-> T, indexes |-> s.mem.indexes]
           r == [s EXCEPT !.mem.tables[n].next = x]
<1>1. /\ s = [ok |-> s.ok, disk |-> s.disk, mem |-> s.mem] /\ s.mem \in Catalog
      /\ s.mem = [tables |-> s.mem.tables, indexes |-> s.mem.indexes]
      /\ s.mem.tables \in Partial(Name, Known) /\ s.mem.indexes \in Partial(Index, Source)
  BY DEF Stores, Catalog
<1>2. r = [s EXCEPT !.mem = [s.mem EXCEPT !.tables = T]]
  OBVIOUS
<1>3. t \in Known
  BY <1>1, KnownType
<1>4. u \in Known /\ u.columns = t.columns /\ u.next = x /\ u.reloaded = t.reloaded
  BY <1>3 DEF Known
<1> HIDE DEF r, u
<1>5. T \in Partial(Name, Known) /\ DOMAIN T = DOMAIN s.mem.tables /\ T[n] = u
      /\ \A k \in DOMAIN s.mem.tables : k # n => T[k] = s.mem.tables[k]
  BY <1>1, <1>4, ExceptType
<1> HIDE DEF T
<1>6. r.ok = s.ok /\ r.disk = s.disk /\ r.mem = m /\ r = [ok |-> s.ok, disk |-> s.disk, mem |-> m]
  BY <1>1, <1>2
<1>7. m \in Catalog /\ m.tables = T /\ m.indexes = s.mem.indexes
  BY <1>1, <1>5 DEF Catalog
<1>8. r \in Stores
  BY <1>6, <1>7 DEF Stores
<1>9. Follows(s.disk, m)
  <2>1. \A k \in DOMAIN T : T[k].columns = s.mem.tables[k].columns
    BY <1>4, <1>5
  <2>2. QED
    BY <1>5, <1>7, <2>1 DEF Good, Follows
<1>10. Good(r.disk, r.mem)
  BY <1>6, <1>7, <1>9 DEF Good
<1> HIDE DEF m
<1>11. QED
  BY <1>4, <1>5, <1>6, <1>7, <1>8, <1>10 DEF CounterIs, r

\* Store r is store s where table n has the mark, or not.
MarkIs(s, r, n, b) ==
  /\ r \in Stores /\ r.ok = s.ok /\ r.mem = s.mem /\ Good(r.disk, r.mem)
  /\ DOMAIN r.disk.tables = DOMAIN s.disk.tables
  /\ RowsOf(r, n) = RowsOf(s, n)
  /\ r.disk.tables[n].columns = s.disk.tables[n].columns
  /\ r.disk.tables[n].replaced = b
  /\ \A k \in DOMAIN s.disk.tables : k # n => r.disk.tables[k] = s.disk.tables[k]

\* The mark of a table excuses its indexes.
LEMMA MarkSet ==
  ASSUME NEW s \in Stores, Good(s.disk, s.mem), NEW n \in DOMAIN s.disk.tables, NEW b \in BOOLEAN,
         s.disk.tables[n].replaced => b
  PROVE  MarkIs(s, [s EXCEPT !.disk.tables[n].replaced = b], n, b)
<1> DEFINE t == s.disk.tables[n]
           u == [t EXCEPT !.replaced = b]
           T == [s.disk.tables EXCEPT ![n] = u]
           d == [tables |-> T, indexes |-> s.disk.indexes]
           r == [s EXCEPT !.disk.tables[n].replaced = b]
<1>1. /\ s = [ok |-> s.ok, disk |-> s.disk, mem |-> s.mem] /\ s.disk \in Disk /\ s.mem \in Catalog
      /\ s.disk = [tables |-> s.disk.tables, indexes |-> s.disk.indexes]
      /\ s.disk.tables \in Partial(Name, Table) /\ s.disk.indexes \in Partial(Index, Posted)
  BY DEF Stores, Disk
<1>2. r = [s EXCEPT !.disk = [s.disk EXCEPT !.tables = T]]
  OBVIOUS
<1>3. t \in Table
  BY <1>1, TableType
<1>4. u \in Table /\ u.columns = t.columns /\ u.rows = t.rows /\ u.replaced = b
  BY <1>3 DEF Table
<1> HIDE DEF r, u
<1>5. T \in Partial(Name, Table) /\ DOMAIN T = DOMAIN s.disk.tables /\ T[n] = u
      /\ \A k \in DOMAIN s.disk.tables : k # n => T[k] = s.disk.tables[k]
  BY <1>1, <1>4, ExceptType
<1> HIDE DEF T
<1>6. r.ok = s.ok /\ r.disk = d /\ r.mem = s.mem /\ r = [ok |-> s.ok, disk |-> d, mem |-> s.mem]
  BY <1>1, <1>2
<1>7. d \in Disk /\ d.tables = T /\ d.indexes = s.disk.indexes
  BY <1>1, <1>5 DEF Disk
<1>8. r \in Stores
  BY <1>1, <1>6, <1>7 DEF Stores
<1> HIDE DEF d
<1>9. \A k \in DOMAIN T : /\ T[k].columns = s.disk.tables[k].columns
                          /\ T[k].rows = s.disk.tables[k].rows
                          /\ s.disk.tables[k].replaced => T[k].replaced
  BY <1>4, <1>5
<1>10. Follows(d, s.mem)
  BY <1>5, <1>7, <1>9 DEF Good, Follows
<1>11. Sound(d)
  <2>1. \A k \in DOMAIN T : Whole(T[k])
    BY <1>5, <1>9 DEF Good, Sound, Whole
  <2>2. \A i \in DOMAIN s.disk.indexes :
          Indexed(s.disk, s.disk.indexes[i]) => Indexed(d, s.disk.indexes[i])
    <3>1. SUFFICES ASSUME NEW x, Indexed(s.disk, x) PROVE Indexed(d, x)
      OBVIOUS
    <3> DEFINE k == x.table
    <3>2. k \in DOMAIN T /\ x.column \in ToSet(T[k].columns)
      BY <1>5, <1>9, <3>1 DEF Indexed
    <3>3. ASSUME ~ T[k].replaced PROVE Exact(T[k], x)
      <4>1. Exact(s.disk.tables[k], x)
        BY <1>9, <3>1, <3>2, <3>3 DEF Indexed
      <4>2. T[k].columns = s.disk.tables[k].columns /\ T[k].rows = s.disk.tables[k].rows
        BY <1>9, <3>2
      <4>3. QED
        BY <4>1, <4>2 DEF Exact
    <3>4. QED
      BY <1>7, <3>2, <3>3 DEF Indexed
  <2>3. QED
    BY <1>7, <2>1, <2>2 DEF Good, Sound
<1>12. Good(r.disk, r.mem)
  BY <1>1, <1>6, <1>7, <1>10, <1>11 DEF Good
<1>13. QED
  BY <1>4, <1>5, <1>6, <1>7, <1>8, <1>12 DEF MarkIs, RowsOf, r

-----------------------------------------------------------------------------
(* INSERT, UPDATE and DELETE of one row.                                   *)

\* The statement goes on, over what it may do to table n with the columns cs.
Stage(s, n, cs) ==
  /\ s \in Stores
  /\ s.ok => /\ Good(s.disk, s.mem) /\ AllFresh(s.disk, s.mem)
             /\ n \in DOMAIN s.disk.tables /\ s.disk.tables[n].columns = cs

\* A statement that fails stays where it failed.
LEMMA FailStage ==
  ASSUME NEW s \in Stores, NEW n, NEW cs
  PROVE  Fail(s) \in Stores /\ Fail(s).ok = FALSE /\ Stage(Fail(s), n, cs)
BY DEF Fail, Stores, Stage

\* What a store says of its table n.
LEMMA StageTypes ==
  ASSUME NEW s, NEW n, NEW cs, Stage(s, n, cs), s.ok
  PROVE  /\ s.disk \in Disk /\ s.mem \in Catalog
         /\ s.disk.tables[n] \in Table /\ s.disk.tables[n].columns = cs /\ cs \in Columns
         /\ n \in DOMAIN s.mem.tables /\ s.mem.tables[n] \in Known
         /\ s.mem.tables[n].columns = cs
         /\ s.mem.tables[n].next \in Nat \ {0}
         /\ DOMAIN RowsOf(s, n) \subseteq Id
         /\ \A id \in DOMAIN RowsOf(s, n) :
              /\ RowsOf(s, n)[id] \in Row /\ FitsIn(RowsOf(s, n)[id], id, cs)
<1>1. /\ s.disk \in Disk /\ s.mem \in Catalog /\ n \in DOMAIN s.disk.tables
      /\ n \in DOMAIN s.mem.tables /\ s.mem.tables[n].columns = s.disk.tables[n].columns
      /\ Whole(s.disk.tables[n]) /\ s.disk.tables[n].columns = cs
  BY DEF Stage, Good, Follows, Sound
<1>2. s.disk.tables[n] \in Table /\ s.mem.tables[n] \in Known
  BY <1>1, TableType, KnownType
<1>3. QED
  BY <1>1, <1>2, RowType DEF Known, RowsOf, Whole

\* Keys below the counter are fresh.
LEMMA FreshAfter ==
  ASSUME NEW s, NEW r, NEW n, NEW f, Changed(s, r, n, f), AllFresh(s.disk, s.mem),
         \A id \in DOMAIN f : id \in DOMAIN RowsOf(s, n) \/ id < s.mem.tables[n].next
  PROVE  AllFresh(r.disk, r.mem)
<1>1. /\ DOMAIN r.disk.tables = DOMAIN s.disk.tables /\ r.mem = s.mem /\ r.disk.tables[n].rows = f
      /\ \A k \in DOMAIN s.disk.tables : k # n => r.disk.tables[k] = s.disk.tables[k]
  BY DEF Changed, RowsOf
<1>2. ASSUME NEW k \in DOMAIN s.disk.tables
      PROVE  Fresh(r.disk.tables[k], r.mem.tables[k])
  <2>1. Fresh(s.disk.tables[k], s.mem.tables[k])
    BY DEF AllFresh
  <2>2. CASE k = n
    BY <1>1, <2>1, <2>2 DEF Fresh, RowsOf
  <2>3. CASE k # n
    BY <1>1, <2>1, <2>3
  <2>4. QED
    BY <2>2, <2>3
<1>3. QED
  BY <1>1, <1>2 DEF AllFresh

\* A counter that only grows keeps what is fresh.
LEMMA FreshCounted ==
  ASSUME NEW s, NEW r, NEW n, NEW x, CounterIs(s, r, n, x),
         \A k \in DOMAIN s.disk.tables :
           k # n => Fresh(s.disk.tables[k], s.mem.tables[k]),
         s.mem.tables[n].reloaded \/ \A id \in DOMAIN RowsOf(s, n) : id < x,
         DOMAIN s.mem.tables = DOMAIN s.disk.tables
  PROVE  AllFresh(r.disk, r.mem)
BY DEF CounterIs, AllFresh, Fresh, RowsOf

\* A row with one column set has a value for every column, and its key.
LEMMA RevisedIs ==
  ASSUME NEW m, NEW n, NEW cs \in Columns, m.tables[n].columns = cs, NEW row \in Row,
         NEW set, set[2] \in Field
  PROVE  /\ Revised(m, n, row, set) \in Row
         /\ Revised(m, n, row, set).key = row.key
         /\ Len(Revised(m, n, row, set).values) = Len(cs)
<1> DEFINE vs == [k \in 1 .. Len(cs) |->
                    IF cs[k] = set[1] THEN set[2] ELSE Get(cs, row, cs[k])]
<1>1. row = [key |-> row.key, values |-> row.values] /\ row.key \in Id /\ row.values \in Seq(Field)
  BY DEF Row
<1>2. Len(cs) \in Nat
  BY DEF Columns
<1>3. \A k \in 1 .. Len(cs) : Get(cs, row, cs[k]) \in Field
  BY <1>1, GetType
<1>4. vs \in Seq(Field) /\ Len(vs) = Len(cs)
  BY <1>2, <1>3
<1>5. Revised(m, n, row, set) = [row EXCEPT !.values = vs]
  BY DEF Revised
<1> HIDE DEF vs
<1>6. Revised(m, n, row, set) = [key |-> row.key, values |-> vs]
  BY <1>1, <1>5
<1>7. QED
  BY <1>1, <1>4, <1>6 DEF Row

\* Store r is store s without row id, and the statement may go on.
Went(s, r, n, cs, id) ==
  /\ Stage(r, n, cs) /\ r.ok /\ r.mem = s.mem
  /\ DOMAIN RowsOf(r, n) = DOMAIN RowsOf(s, n) \ {id}
  /\ r.disk.tables[n].replaced = s.disk.tables[n].replaced

\* A row that goes leaves the statement where it may go on.
LEMMA RemoveStage ==
  ASSUME NEW s, NEW n, NEW cs, Stage(s, n, cs), s.ok, NEW id \in DOMAIN RowsOf(s, n)
  PROVE  Went(s, RemoveRow(s, n, id), n, cs, id)
<1> DEFINE r == RemoveRow(s, n, id)
           f == Without(RowsOf(s, n), id)
<1>1. /\ s \in Stores /\ Good(s.disk, s.mem) /\ AllFresh(s.disk, s.mem)
      /\ n \in DOMAIN s.disk.tables /\ s.disk.tables[n].columns = cs
  BY DEF Stage
<1>2. Changed(s, r, n, f) /\ DOMAIN f = DOMAIN RowsOf(s, n) \ {id}
  BY <1>1, Removed
<1> HIDE DEF r, f
<1>3. AllFresh(r.disk, r.mem)
  BY <1>1, <1>2, FreshAfter
<1>4. QED
  BY <1>1, <1>2, <1>3 DEF Changed, Stage, Went, r

\* So does a row that comes under a number below the counter.
LEMMA PutStage ==
  ASSUME NEW s, NEW n, NEW cs, Stage(s, n, cs), s.ok, NEW id \in Id, NEW row \in Row,
         FitsIn(row, id, cs), id < s.mem.tables[n].next,
         s.disk.tables[n].replaced \/ id \notin DOMAIN RowsOf(s, n)
  PROVE  Stage(PutRow(s, n, id, row), n, cs)
<1> DEFINE r == PutRow(s, n, id, row)
           f == With(RowsOf(s, n), id, row)
<1>1. /\ s \in Stores /\ Good(s.disk, s.mem) /\ AllFresh(s.disk, s.mem)
      /\ n \in DOMAIN s.disk.tables /\ s.disk.tables[n].columns = cs
  BY DEF Stage
<1>2. Changed(s, r, n, f) /\ DOMAIN f = DOMAIN RowsOf(s, n) \cup {id}
  BY <1>1, Put
<1> HIDE DEF r, f
<1>3. AllFresh(r.disk, r.mem)
  BY <1>1, <1>2, FreshAfter
<1>4. QED
  BY <1>1, <1>2, <1>3 DEF Changed, Stage, r

\* The counter grows.
LEMMA CountStage ==
  ASSUME NEW s, NEW n, NEW cs, Stage(s, n, cs), s.ok, NEW x \in Nat \ {0},
         s.mem.tables[n].next <= x
  PROVE  LET r == [s EXCEPT !.mem.tables[n].next = x]
         IN  /\ Stage(r, n, cs) /\ r.ok /\ r.disk = s.disk /\ r.mem.tables[n].next = x
<1> DEFINE r == [s EXCEPT !.mem.tables[n].next = x]
           next == s.mem.tables[n].next
<1>1. /\ s \in Stores /\ Good(s.disk, s.mem) /\ AllFresh(s.disk, s.mem)
      /\ n \in DOMAIN s.disk.tables /\ s.disk.tables[n].columns = cs
  BY DEF Stage
<1>2. DOMAIN s.mem.tables = DOMAIN s.disk.tables
  BY <1>1 DEF Good, Follows
<1>3. CounterIs(s, r, n, x)
  BY <1>1, <1>2, CounterSet
<1>4. next \in Nat /\ DOMAIN RowsOf(s, n) \subseteq Nat
  BY TablesAssumption, StageTypes DEF Id
<1> HIDE DEF r
<1>5. s.mem.tables[n].reloaded \/ \A id \in DOMAIN RowsOf(s, n) : id < next
  BY <1>1 DEF AllFresh, Fresh, RowsOf
<1>6. s.mem.tables[n].reloaded \/ \A id \in DOMAIN RowsOf(s, n) : id < x
  BY <1>4, <1>5
<1>7. AllFresh(r.disk, r.mem)
  BY <1>1, <1>2, <1>3, <1>6, FreshCounted DEF AllFresh
<1>8. QED
  BY <1>1, <1>3, <1>7 DEF CounterIs, Stage, r

\* A table is marked.
LEMMA MarkStage ==
  ASSUME NEW s, NEW n, NEW cs, Stage(s, n, cs), s.ok, NEW b \in BOOLEAN,
         s.disk.tables[n].replaced => b
  PROVE  LET r == [s EXCEPT !.disk.tables[n].replaced = b]
         IN  /\ Stage(r, n, cs) /\ r.ok /\ r.mem = s.mem /\ RowsOf(r, n) = RowsOf(s, n)
             /\ r.disk.tables[n].replaced = b
<1> DEFINE r == [s EXCEPT !.disk.tables[n].replaced = b]
<1>1. /\ s \in Stores /\ Good(s.disk, s.mem) /\ AllFresh(s.disk, s.mem)
      /\ n \in DOMAIN s.disk.tables /\ s.disk.tables[n].columns = cs
  BY DEF Stage
<1>2. MarkIs(s, r, n, b)
  BY <1>1, MarkSet
<1> HIDE DEF r
<1>3. AllFresh(r.disk, r.mem)
  <2>1. SUFFICES ASSUME NEW k \in DOMAIN s.disk.tables
                 PROVE  Fresh(r.disk.tables[k], s.mem.tables[k])
    BY <1>2 DEF MarkIs, AllFresh
  <2>2. r.disk.tables[k].rows = s.disk.tables[k].rows
    <3>1. CASE k = n
      BY <1>2, <3>1 DEF MarkIs, RowsOf
    <3>2. CASE k # n
      BY <1>2, <3>2 DEF MarkIs
    <3>3. QED
      BY <3>1, <3>2
  <2>3. QED
    BY <1>1, <2>2 DEF AllFresh, Fresh
<1>4. QED
  BY <1>1, <1>2, <1>3 DEF MarkIs, Stage, r

\* The number of a row is below the counter that comes after it, and is the key of the
\* row when the keys are whole.
LEMMA PickedIs ==
  ASSUME NEW next \in Nat \ {0}, NEW key, key.given \in Keys, key.n \in Id
  PROVE  /\ Picked(next, key).next \in Nat \ {0} /\ next <= Picked(next, key).next
         /\ Picked(next, key).id \in Nat /\ Picked(next, key).id < Picked(next, key).next
         /\ Picked(next, key).mayExist \in BOOLEAN
         /\ Picked(next, key).id \in Id => Picked(next, key).key \in Id
         /\ WholeKeys => Picked(next, key).key = Picked(next, key).id
<1>1. MaxId \in Nat /\ key.n \in Nat
  BY TablesAssumption DEF Id
<1>2. CASE key.given = "integer"
  BY <1>1, <1>2 DEF Picked
<1>3. CASE key.given # "integer"
  <2>1. WholeKeys => key.given = "null"
    BY <1>3 DEF WholeKeys
  <2>2. QED
    BY <1>1, <1>3, <2>1 DEF Picked
<1>4. QED
  BY <1>2, <1>3

\* A row of an INSERT, and what it does when the row exists.
Given(given, cs) ==
  /\ given.key.given \in Keys /\ given.key.n \in Id
  /\ given.values \in [1 .. Len(cs) -> Field]

Resolves(conflict) ==
  /\ conflict.action \in {"abort", "ignore", "replace", "update"}
  /\ conflict.action = "update" => conflict.set[2] \in Field

\* One row of an INSERT.
LEMMA InsertStage ==
  ASSUME NEW s, NEW n, NEW cs, Stage(s, n, cs), NEW given, Given(given, cs),
         NEW conflict, Resolves(conflict)
  PROVE  Stage(InsertRow(s, n, given, conflict), n, cs)
<1> DEFINE p     == Picked(s.mem.tables[n].next, given.key)
           s1    == [s EXCEPT !.mem.tables[n].next = p.next]
           id    == p.id
           taken == p.mayExist /\ id \in DOMAIN RowsOf(s, n)
           b     == s.disk.tables[n].replaced \/ id \in DOMAIN RowsOf(s, n)
           s2    == [s1 EXCEPT !.disk.tables[n].replaced = s1.disk.tables[n].replaced \/ id \in DOMAIN RowsOf(s, n)]
           row   == [key |-> p.key, values |-> given.values]
           new   == Revised(s.mem, n, RowsOf(s, n)[id], conflict.set)
           r     == InsertRow(s, n, given, conflict)
           gone  == RemoveRow(s1, n, id)
<1>1. r = CASE ~ s.ok \/ id \notin Id -> Fail(s)
            [] s.ok /\ id \in Id /\ ~ taken -> PutRow(s2, n, id, row)
            [] s.ok /\ taken /\ conflict.action = "abort"   -> Fail(s)
            [] s.ok /\ taken /\ conflict.action = "ignore"  -> s1
            [] s.ok /\ taken /\ conflict.action = "replace" -> PutRow(gone, n, id, row)
            [] s.ok /\ taken /\ conflict.action = "update"  -> PutRow(gone, n, id, new)
  BY DEF InsertRow
<1> HIDE DEF r
<1>2. s \in Stores
  BY DEF Stage
<1>3. Stage(Fail(s), n, cs)
  BY <1>2, FailStage
<1>4. CASE ~ s.ok \/ id \notin Id
  <2>1. ~ (s.ok /\ taken)
    BY <1>4, StageTypes
  <2> HIDE DEF taken, gone, s1, s2, row, new, id
  <2>2. r = Fail(s)
    BY <1>1, <1>4, <2>1
  <2>3. QED
    BY <1>3, <2>2 DEF r
<1>5. CASE s.ok /\ id \in Id
  <2>1. s.mem.tables[n].next \in Nat \ {0} /\ cs \in Columns
    BY <1>5, StageTypes
  <2>2. /\ p.next \in Nat \ {0} /\ s.mem.tables[n].next <= p.next /\ id < p.next
        /\ p.mayExist \in BOOLEAN /\ p.key \in Id
        /\ WholeKeys => p.key = id
    BY <1>5, <2>1, PickedIs DEF Given
  <2> HIDE DEF p
  <2>3. Stage(s1, n, cs) /\ s1.ok /\ s1.disk = s.disk /\ s1.mem.tables[n].next = p.next
    BY <1>5, <2>2, CountStage
  <2> HIDE DEF s1
  <2>4. row \in Row /\ FitsIn(row, id, cs)
    <3>1. Len(cs) \in Nat
      BY <2>1 DEF Columns
    <3>2. given.values \in Seq(Field) /\ Len(given.values) = Len(cs)
      BY <3>1 DEF Given
    <3>3. QED
      BY <2>2, <3>1, <3>2 DEF Row, FitsIn
  <2>5. ASSUME ~ taken
        PROVE  Stage(PutRow(s2, n, id, row), n, cs)
    <3>1. b \in BOOLEAN
      <4>1. s.disk.tables[n].replaced \in BOOLEAN
        BY <1>5, StageTypes, RowType
      <4>2. QED
        BY <4>1
    <3>2. s2 = [s1 EXCEPT !.disk.tables[n].replaced = b]
      BY <2>3
    <3>3. s1.disk.tables[n].replaced => b
      BY <2>3
    <3> HIDE DEF s2, b
    <3>4. /\ Stage(s2, n, cs) /\ s2.ok /\ s2.mem = s1.mem /\ RowsOf(s2, n) = RowsOf(s1, n)
          /\ s2.disk.tables[n].replaced = b
      BY <2>3, <3>1, <3>2, <3>3, MarkStage
    <3>5. s2.disk.tables[n].replaced \/ id \notin DOMAIN RowsOf(s2, n)
      BY <2>3, <3>4 DEF RowsOf, b
    <3>6. id < s2.mem.tables[n].next
      BY <2>2, <2>3, <3>4
    <3> HIDE DEF id, row
    <3>7. QED
      BY <1>5, <2>4, <3>4, <3>5, <3>6, PutStage
  <2>6. ASSUME taken, NEW x \in Row, FitsIn(x, id, cs)
        PROVE  Stage(PutRow(gone, n, id, x), n, cs)
    <3>1. id \in DOMAIN RowsOf(s1, n)
      BY <2>3, <2>6 DEF RowsOf
    <3> HIDE DEF id
    <3>2. /\ Stage(gone, n, cs) /\ gone.ok /\ gone.mem = s1.mem
          /\ DOMAIN RowsOf(gone, n) = DOMAIN RowsOf(s1, n) \ {id}
      <4>1. Went(s1, gone, n, cs, id)
        BY <2>3, <3>1, RemoveStage
      <4>2. QED
        BY <4>1 DEF Went
    <3>3. id < gone.mem.tables[n].next /\ id \notin DOMAIN RowsOf(gone, n)
      BY <2>2, <2>3, <3>2
    <3> HIDE DEF gone
    <3>4. QED
      BY <1>5, <2>6, <3>2, <3>3, PutStage
  <2>7. ASSUME taken, conflict.action = "update"
        PROVE  new \in Row /\ FitsIn(new, id, cs)
    <3>1. RowsOf(s, n)[id] \in Row /\ FitsIn(RowsOf(s, n)[id], id, cs) /\ s.mem.tables[n].columns = cs
      BY <1>5, <2>7, StageTypes
    <3>2. conflict.set[2] \in Field
      BY <2>7 DEF Resolves
    <3> HIDE DEF id
    <3>3. new \in Row /\ new.key = RowsOf(s, n)[id].key /\ Len(new.values) = Len(cs)
      BY <2>1, <3>1, <3>2, RevisedIs
    <3> HIDE DEF new
    <3>4. Len(cs) \in Nat
      BY <2>1 DEF Columns
    <3>5. QED
      BY <3>1, <3>3, <3>4 DEF FitsIn
  <2>8. Stage(PutRow(gone, n, id, row), n, cs) \/ ~ taken
    BY <2>4, <2>6
  <2>9. Stage(PutRow(gone, n, id, new), n, cs) \/ ~ taken \/ conflict.action # "update"
    BY <2>6, <2>7
  <2>10. taken \in BOOLEAN
    BY <2>2
  <2> HIDE DEF taken, gone, s2, row, new, id
  <2>11. CASE ~ taken
    BY <1>1, <1>5, <2>5, <2>11 DEF r
  <2>12. CASE taken
    <3>1. conflict.action \in {"abort", "ignore", "replace", "update"}
      BY DEF Resolves
    <3>2. CASE conflict.action = "abort"
      <4>1. r = Fail(s)
        BY <1>1, <1>5, <2>12, <3>2
      <4>2. QED
        BY <1>3, <4>1 DEF r
    <3>3. CASE conflict.action = "ignore"
      <4>1. r = s1
        BY <1>1, <1>5, <2>12, <3>3
      <4>2. QED
        BY <2>3, <4>1 DEF r
    <3>4. CASE conflict.action = "replace"
      <4>1. r = PutRow(gone, n, id, row)
        BY <1>1, <1>5, <2>12, <3>4
      <4>2. QED
        BY <2>8, <2>12, <4>1 DEF r
    <3>5. CASE conflict.action = "update"
      <4>1. r = PutRow(gone, n, id, new)
        BY <1>1, <1>5, <2>12, <3>5
      <4>2. QED
        BY <2>9, <2>12, <3>5, <4>1 DEF r
    <3>6. QED
      BY <3>1, <3>2, <3>3, <3>4, <3>5
  <2>13. QED
    BY <2>10, <2>11, <2>12
<1>6. QED
  BY <1>4, <1>5

\* One row of an UPDATE: the other rows of the table remain.
LEMMA UpdateStage ==
  ASSUME NEW s, NEW n, NEW cs, Stage(s, n, cs), NEW id \in Id, NEW toId \in 0 .. MaxId,
         NEW set, set[2] \in Field,
         disk.tables[n].rows[id] \in Row, FitsIn(disk.tables[n].rows[id], id, cs),
         s.ok => id \in DOMAIN RowsOf(s, n)
  PROVE  /\ Stage(UpdateRow(s, n, id, set, toId), n, cs)
         /\ UpdateRow(s, n, id, set, toId).ok =>
              s.ok /\ DOMAIN RowsOf(s, n) \ {id} \subseteq DOMAIN RowsOf(UpdateRow(s, n, id, set, toId), n)
<1> DEFINE new   == IF toId = 0 THEN id ELSE toId
           old   == disk.tables[n].rows[id]
           base  == Revised(s.mem, n, old, set)
           row   == [base EXCEPT !.key = IF toId = 0 THEN base.key ELSE toId]
           gone  == RemoveRow(s, n, id)
           s1    == PutRow(gone, n, new, row)
           x     == IF new >= s1.mem.tables[n].next THEN new + 1 ELSE s1.mem.tables[n].next
           fails == ~ s.ok \/ (new # id /\ new \in DOMAIN RowsOf(s, n))
           last  == [s1 EXCEPT !.mem.tables[n].next = x]
           r     == UpdateRow(s, n, id, set, toId)
<1>1. r = IF fails THEN Fail(s) ELSE last
  BY DEF UpdateRow
<1>2. s \in Stores
  BY DEF Stage
<1> HIDE DEF r, last
<1>3. CASE fails
  <2>1. r = Fail(s)
    BY <1>1, <1>3
  <2>2. QED
    BY <1>2, <2>1, FailStage DEF r
<1>4. CASE ~ fails
  <2>1. s.ok /\ id \in DOMAIN RowsOf(s, n) /\ (new = id \/ new \notin DOMAIN RowsOf(s, n))
        /\ r = last
    BY <1>1, <1>4
  <2>2. cs \in Columns /\ s.mem.tables[n].columns = cs /\ Len(cs) \in Nat
    BY <2>1, StageTypes DEF Columns
  <2>3. new \in Id /\ new \in Nat
    BY TablesAssumption DEF Id
  <2>4. row \in Row /\ FitsIn(row, new, cs)
    <3>1. base \in Row /\ base.key = old.key /\ Len(base.values) = Len(cs)
      BY <2>2, RevisedIs
    <3> HIDE DEF base, new
    <3>2. /\ row \in Row /\ row.values = base.values
          /\ row.key = IF toId = 0 THEN base.key ELSE toId
      <4>1. toId # 0 => toId \in Id
        BY TablesAssumption DEF Id
      <4>2. QED
        BY <3>1, <4>1 DEF Row
    <3> HIDE DEF row
    <3>3. WholeKeys => row.key = new
      BY <3>1, <3>2 DEF FitsIn, new
    <3>4. QED
      BY <2>2, <3>1, <3>2, <3>3 DEF FitsIn
  <2> HIDE DEF row, new
  <2>5. Went(s, gone, n, cs, id)
    BY <2>1, RemoveStage
  <2> HIDE DEF gone
  <2>6. /\ gone \in Stores /\ Good(gone.disk, gone.mem) /\ AllFresh(gone.disk, gone.mem)
        /\ n \in DOMAIN gone.disk.tables /\ gone.disk.tables[n].columns = cs
        /\ DOMAIN RowsOf(gone, n) = DOMAIN RowsOf(s, n) \ {id} /\ gone.ok
    BY <2>5 DEF Went, Stage
  <2>7. new \notin DOMAIN RowsOf(gone, n)
    BY <2>1, <2>6
  <2> DEFINE f == With(RowsOf(gone, n), new, row)
  <2>8. Changed(gone, s1, n, f) /\ DOMAIN f = DOMAIN RowsOf(gone, n) \cup {new}
    <3>1. FitsIn(row, new, gone.disk.tables[n].columns)
      BY <2>4, <2>6
    <3>2. gone.disk.tables[n].replaced \/ new \notin DOMAIN RowsOf(gone, n)
      BY <2>7
    <3>3. row \in Row /\ new \in Id
      BY <2>3, <2>4
    <3> HIDE DEF x
    <3>4. Changed(gone, s1, n, f)
      BY <2>6, <3>1, <3>2, <3>3, Put
    <3>5. DOMAIN f = DOMAIN RowsOf(gone, n) \cup {new}
      BY DEF With
    <3>6. QED
      BY <3>4, <3>5
  <2> HIDE DEF f, s1
  <2>9. /\ s1 \in Stores /\ Good(s1.disk, s1.mem) /\ s1.mem = gone.mem
        /\ DOMAIN s1.mem.tables = DOMAIN s1.disk.tables
        /\ n \in DOMAIN s1.disk.tables /\ s1.disk.tables[n].columns = cs
        /\ DOMAIN RowsOf(s1, n) = DOMAIN RowsOf(gone, n) \cup {new}
    BY <2>6, <2>8 DEF Changed, Good, Follows
  <2>10. s1.mem.tables[n].next \in Nat \ {0}
    BY <2>5, <2>6, <2>9, StageTypes DEF Went
  <2>11. x \in Nat \ {0} /\ s1.mem.tables[n].next <= x /\ new < x
    BY <2>3, <2>10
  <2> HIDE DEF x
  <2>12. CounterIs(s1, last, n, x)
    BY <2>9, <2>11, CounterSet DEF last
  <2>13. \A k \in DOMAIN s1.disk.tables :
           k # n => Fresh(s1.disk.tables[k], s1.mem.tables[k])
    BY <2>6, <2>8 DEF Changed, AllFresh
  <2>14. s1.mem.tables[n].reloaded \/ \A k \in DOMAIN RowsOf(s1, n) : k < x
    <3>1. s1.mem.tables[n].reloaded \/ \A k \in DOMAIN RowsOf(gone, n) : k < s1.mem.tables[n].next
      BY <2>6, <2>9 DEF AllFresh, Fresh, RowsOf
    <3>2. DOMAIN RowsOf(gone, n) \subseteq Nat
      BY <2>5, <2>6, StageTypes, TablesAssumption DEF Went, Id
    <3>3. ASSUME ~ s1.mem.tables[n].reloaded, NEW k \in DOMAIN RowsOf(s1, n)
          PROVE  k < x
      <4>1. CASE k = new
        BY <2>11, <4>1
      <4>2. CASE k \in DOMAIN RowsOf(gone, n)
        <5>1. k < s1.mem.tables[n].next /\ k \in Nat
          BY <3>1, <3>2, <3>3, <4>2
        <5>2. QED
          BY <2>10, <2>11, <5>1
      <4>3. QED
        BY <2>9, <4>1, <4>2
    <3>4. QED
      BY <3>3
  <2>15. AllFresh(last.disk, last.mem)
    BY <2>9, <2>12, <2>13, <2>14, FreshCounted
  <2>16. /\ Stage(last, n, cs) /\ last.disk = s1.disk
    BY <2>9, <2>12, <2>15 DEF CounterIs, Stage
  <2>17. DOMAIN RowsOf(s, n) \ {id} \subseteq DOMAIN RowsOf(last, n)
    BY <2>6, <2>9, <2>16 DEF RowsOf
  <2>18. QED
    BY <2>1, <2>16, <2>17 DEF r
<1>5. QED
  BY <1>3, <1>4

-----------------------------------------------------------------------------
(* The statements on rows, one row after the other.                        *)

\* A statement starts over the pages and the catalog as they are.
LEMMA StartStage ==
  ASSUME Good(disk, mem), AllFresh(disk, mem), NEW n \in DOMAIN mem.tables
  PROVE  /\ Stage(Store(disk, mem), n, mem.tables[n].columns) /\ Store(disk, mem).ok
         /\ Store(disk, mem).disk = disk /\ Store(disk, mem).mem = mem
         /\ n \in DOMAIN disk.tables /\ disk.tables[n].columns = mem.tables[n].columns
BY DEF Good, Follows, Store, Stores, Stage

\* The rows of an INSERT, one after the other.
LEMMA InsertedStage ==
  ASSUME Good(disk, mem), AllFresh(disk, mem), NEW n \in DOMAIN mem.tables,
         NEW rows, Len(rows) \in Nat, NEW conflict, Resolves(conflict),
         \A k \in 1 .. Len(rows) : Given(rows[k], mem.tables[n].columns)
  PROVE  Stage(Inserted(n, rows, conflict), n, mem.tables[n].columns)
<1> DEFINE N    == Len(rows)
           cs   == mem.tables[n].columns
           a    == Store(disk, mem)
           X0   == {s \in Stores : Stage(s, n, cs)}
           X    == [k \in 0 .. N |-> X0]
           F    == [k \in 1 .. N |-> [s \in X0 |-> InsertRow(s, n, rows[k], conflict)]]
           E(g) == g = [k \in 0 .. N |-> IF k = 0 THEN a ELSE InsertRow(g[k - 1], n, rows[k], conflict)]
           after == CHOOSE g : E(g)
<1>1. a \in X0
  BY StartStage DEF Stage
<1>2. ASSUME NEW k \in 1 .. N, NEW s \in X0
      PROVE  InsertRow(s, n, rows[k], conflict) \in X0
  <2>1. Stage(s, n, cs) /\ Given(rows[k], cs)
    OBVIOUS
  <2> HIDE DEF cs
  <2>2. Stage(InsertRow(s, n, rows[k], conflict), n, cs)
    BY <2>1, InsertStage
  <2>3. QED
    BY <2>2 DEF Stage
<1>3. Inserted(n, rows, conflict) = after[N]
  BY DEF Inserted
<1> HIDE DEF a, X0
<1>4. \A k \in 1 .. N : F[k] \in [X[k - 1] -> X[k]]
  <2>1. ASSUME NEW k \in 1 .. N PROVE F[k] \in [X[k - 1] -> X[k]]
    <3>1. X[k - 1] = X0 /\ X[k] = X0 /\ F[k] = [s \in X0 |-> InsertRow(s, n, rows[k], conflict)]
      OBVIOUS
    <3>2. [s \in X0 |-> InsertRow(s, n, rows[k], conflict)] \in [X0 -> X0]
      BY <1>2
    <3>3. QED
      BY <3>1, <3>2
  <2>2. QED
    BY <2>1
<1>5. a \in X[0] /\ N \in Nat
  BY <1>1
<1>6. \A k \in 1 .. N : k - 1 \in 0 .. N /\ k # 0 /\ k \in 0 .. N
  BY <1>5
<1>7. \A k \in 1 .. N, s \in X0 : F[k][s] = InsertRow(s, n, rows[k], conflict)
  OBVIOUS
<1>8. \A k \in 0 .. N : X[k] = X0
  OBVIOUS
<1> HIDE DEF N, X, F
<1>9. PICK g : Steps(g, N, a, X, F)
  BY <1>4, <1>5, StepsExist
<1>10. E(g)
  <2>1. ASSUME NEW k \in 0 .. N
        PROVE  g[k] = IF k = 0 THEN a ELSE InsertRow(g[k - 1], n, rows[k], conflict)
    <3>1. CASE k = 0
      BY <1>9, <3>1 DEF Steps
    <3>2. CASE k # 0
      <4>1. k \in 1 .. N
        BY <1>5, <3>2
      <4>2. g[k] = F[k][g[k - 1]] /\ g[k - 1] \in X0
        BY <1>6, <1>8, <1>9, <4>1 DEF Steps
      <4>3. QED
        BY <1>7, <3>2, <4>1, <4>2
    <3>3. QED
      BY <3>1, <3>2
  <2>2. QED
    BY <1>9, <2>1 DEF Steps
<1>11. E(after)
  BY <1>10
<1> HIDE DEF after
<1>12. after[0] = a /\ \A k \in 1 .. N : after[k] = InsertRow(after[k - 1], n, rows[k], conflict)
  BY <1>5, <1>6, <1>11
<1> DEFINE P == {k \in 0 .. N : after[k] \in X0}
<1>13. 0 \in P /\ \A k \in 1 .. N : k - 1 \in P => k \in P
  BY <1>1, <1>2, <1>5, <1>6, <1>12 DEF N
<1>14. 0 .. N \subseteq P
  <2> HIDE DEF P
  <2>1. QED
    BY <1>5, <1>13, Climb
<1>15. after[N] \in X0
  BY <1>5, <1>14
<1>16. QED
  BY <1>3, <1>15 DEF X0

\* The rows that the statement has still to come to are there.
Waiting(s, n, cs, rest) == Stage(s, n, cs) /\ (s.ok => rest \subseteq DOMAIN RowsOf(s, n))

\* The rows that an UPDATE selects are still there when their turn comes.
LEMMA UpdatedStage ==
  ASSUME Good(disk, mem), AllFresh(disk, mem), NEW n \in DOMAIN mem.tables,
         NEW where, NEW toId \in 0 .. MaxId, NEW set, set[2] \in Field
  PROVE  Stage(Updated(n, set, toId, where), n, mem.tables[n].columns)
<1> DEFINE N    == MaxId
           cs   == mem.tables[n].columns
           M    == Matching(n, where)
           Rest(k) == {i \in M : i > k}
           a    == Store(disk, mem)
           X    == [k \in 0 .. N |-> {s \in Stores : Waiting(s, n, cs, Rest(k))}]
           Then(k, s) == IF k \in M THEN UpdateRow(s, n, k, set, toId) ELSE s
           F    == [k \in 1 .. N |-> [s \in X[k - 1] |-> Then(k, s)]]
           E(g) == g = [k \in 0 .. N |-> IF k = 0 THEN a
                                         ELSE IF k \in M THEN UpdateRow(g[k - 1], n, k, set, toId)
                                         ELSE g[k - 1]]
           after == CHOOSE g : E(g)
<1>1. N \in Nat /\ \A k \in 1 .. N : k - 1 \in 0 .. N /\ k # 0 /\ k \in 0 .. N
  BY TablesAssumption
<1>2. /\ Stage(a, n, cs) /\ a.ok /\ a.disk = disk /\ a.mem = mem
      /\ n \in DOMAIN disk.tables /\ disk.tables[n].columns = cs
  BY StartStage
<1>3. /\ M \subseteq DOMAIN disk.tables[n].rows /\ M \subseteq Id /\ RowsOf(a, n) = disk.tables[n].rows
      /\ \A id \in M : /\ disk.tables[n].rows[id] \in Row
                        /\ FitsIn(disk.tables[n].rows[id], id, cs)
  <2>1. RowsOf(a, n) = disk.tables[n].rows
    BY <1>2 DEF RowsOf
  <2>2. M \subseteq DOMAIN disk.tables[n].rows
    BY DEF Matching
  <2> HIDE DEF a, M, cs
  <2>3. QED
    BY <1>2, <2>1, <2>2, StageTypes
<1>4. a \in X[0]
  <2>1. Rest(0) \subseteq DOMAIN RowsOf(a, n)
    BY <1>3
  <2> HIDE DEF a, Rest
  <2>2. QED
    BY <1>1, <1>2, <2>1 DEF Stage, Waiting
<1>5. Updated(n, set, toId, where) = after[N]
  BY DEF Updated
<1>6. ASSUME NEW k \in 0 .. N, NEW s
      PROVE  s \in X[k] <=> /\ Stage(s, n, cs)
                            /\ s.ok => Rest(k) \subseteq DOMAIN RowsOf(s, n)
  <2> HIDE DEF Rest, cs, M
  <2>1. s \in X[k] <=> s \in Stores /\ Waiting(s, n, cs, Rest(k))
    OBVIOUS
  <2>2. QED
    BY <2>1 DEF Stage, Waiting
<1>7. \A k \in 1 .. N : Rest(k) \subseteq Rest(k - 1) \ {k} /\ (k \in M => k \in Rest(k - 1))
                         /\ (k \notin M => Rest(k) = Rest(k - 1))
  BY <1>1, <1>3, TablesAssumption DEF Id
<1> HIDE DEF a, X, M, cs, Rest
<1>8. ASSUME NEW k \in 1 .. N, NEW s \in X[k - 1]
      PROVE  Then(k, s) \in X[k]
  <2>1. Stage(s, n, cs) /\ (s.ok => Rest(k - 1) \subseteq DOMAIN RowsOf(s, n)) /\ k \in 0 .. N
    BY <1>1, <1>6
  <2>2. CASE k \notin M
    BY <1>6, <1>7, <2>1, <2>2
  <2>3. CASE k \in M
    <3> DEFINE r == UpdateRow(s, n, k, set, toId)
    <3>1. /\ k \in Id /\ disk.tables[n].rows[k] \in Row /\ FitsIn(disk.tables[n].rows[k], k, cs)
          /\ s.ok => k \in DOMAIN RowsOf(s, n)
      BY <1>3, <1>7, <2>1, <2>3
    <3>2. /\ Stage(r, n, cs)
          /\ r.ok => s.ok /\ DOMAIN RowsOf(s, n) \ {k} \subseteq DOMAIN RowsOf(r, n)
      BY <2>1, <3>1, UpdateStage
    <3> HIDE DEF r
    <3>3. r.ok => Rest(k) \subseteq DOMAIN RowsOf(r, n)
      BY <1>7, <2>1, <3>2
    <3>4. QED
      BY <1>6, <2>1, <2>3, <3>2, <3>3 DEF r
  <2>4. QED
    BY <2>2, <2>3
<1>9. \A k \in 1 .. N : F[k] \in [X[k - 1] -> X[k]]
  <2>1. ASSUME NEW k \in 1 .. N PROVE F[k] \in [X[k - 1] -> X[k]]
    <3> HIDE DEF Then
    <3>1. F[k] = [s \in X[k - 1] |-> Then(k, s)]
      OBVIOUS
    <3>2. [s \in X[k - 1] |-> Then(k, s)] \in [X[k - 1] -> X[k]]
      BY <1>8
    <3>3. QED
      BY <3>1, <3>2
  <2>2. QED
    BY <2>1
<1>10. \A k \in 1 .. N : \A s \in X[k - 1] : F[k][s] = Then(k, s)
  OBVIOUS
<1> HIDE DEF N, F
<1>11. PICK g : Steps(g, N, a, X, F)
  BY <1>1, <1>4, <1>9, StepsExist
<1>12. E(g)
  <2>1. ASSUME NEW k \in 0 .. N
        PROVE  g[k] = IF k = 0 THEN a ELSE Then(k, g[k - 1])
    <3> HIDE DEF Then
    <3>1. CASE k = 0
      BY <1>11, <3>1 DEF Steps
    <3>2. CASE k # 0
      <4>1. k \in 1 .. N
        BY <1>1, <3>2
      <4>2. g[k] = F[k][g[k - 1]] /\ g[k - 1] \in X[k - 1]
        BY <1>1, <1>11, <4>1 DEF Steps
      <4>3. QED
        BY <1>10, <3>2, <4>1, <4>2
    <3>3. QED
      BY <3>1, <3>2
  <2>2. QED
    BY <1>11, <2>1 DEF Steps
<1>13. E(after)
  BY <1>12
<1> HIDE DEF after
<1>14. after[0] = a /\ \A k \in 1 .. N : after[k] = Then(k, after[k - 1])
  BY <1>1, <1>13
<1> DEFINE P == {k \in 0 .. N : after[k] \in X[k]}
<1>15. 0 \in P /\ \A k \in 1 .. N : k - 1 \in P => k \in P
  <2> HIDE DEF Then
  <2>1. 0 \in P
    BY <1>1, <1>4, <1>14
  <2>2. ASSUME NEW k \in 1 .. N, k - 1 \in P PROVE k \in P
    BY <1>1, <1>8, <1>14, <2>2 DEF N
  <2>3. QED
    BY <2>1, <2>2
<1>16. 0 .. N \subseteq P
  <2> HIDE DEF P
  <2>1. QED
    BY <1>1, <1>15, Climb
<1>17. after[N] \in X[N] /\ N \in 0 .. N
  BY <1>1, <1>16
<1>18. QED
  BY <1>5, <1>6, <1>17 DEF N, cs

\* So are those that a DELETE selects.
LEMMA DeletedStage ==
  ASSUME Good(disk, mem), AllFresh(disk, mem), NEW n \in DOMAIN mem.tables,
         NEW where
  PROVE  Stage(Deleted(n, where), n, mem.tables[n].columns)
<1> DEFINE N    == MaxId
           cs   == mem.tables[n].columns
           M    == Matching(n, where)
           Rest(k) == {i \in M : i > k}
           a    == Store(disk, mem)
           X    == [k \in 0 .. N |-> {s \in Stores : Waiting(s, n, cs, Rest(k)) /\ s.ok}]
           Then(k, s) == IF k \in M THEN RemoveRow(s, n, k) ELSE s
           F    == [k \in 1 .. N |-> [s \in X[k - 1] |-> Then(k, s)]]
           E(g) == g = [k \in 0 .. N |-> IF k = 0 THEN a
                                         ELSE IF k \in M THEN RemoveRow(g[k - 1], n, k)
                                         ELSE g[k - 1]]
           after == CHOOSE g : E(g)
<1>1. N \in Nat /\ \A k \in 1 .. N : k - 1 \in 0 .. N /\ k # 0 /\ k \in 0 .. N
  BY TablesAssumption
<1>2. /\ Stage(a, n, cs) /\ a.ok /\ a.disk = disk /\ a.mem = mem
      /\ n \in DOMAIN disk.tables /\ disk.tables[n].columns = cs
  BY StartStage
<1>3. /\ M \subseteq DOMAIN disk.tables[n].rows /\ M \subseteq Id /\ RowsOf(a, n) = disk.tables[n].rows
      /\ \A id \in M : /\ disk.tables[n].rows[id] \in Row
                        /\ FitsIn(disk.tables[n].rows[id], id, cs)
  <2>1. RowsOf(a, n) = disk.tables[n].rows
    BY <1>2 DEF RowsOf
  <2>2. M \subseteq DOMAIN disk.tables[n].rows
    BY DEF Matching
  <2> HIDE DEF a, M, cs
  <2>3. QED
    BY <1>2, <2>1, <2>2, StageTypes
<1>4. a \in X[0]
  <2>1. Rest(0) \subseteq DOMAIN RowsOf(a, n)
    BY <1>3
  <2> HIDE DEF a, Rest
  <2>2. QED
    BY <1>1, <1>2, <2>1 DEF Stage, Waiting
<1>5. Deleted(n, where) = after[N]
  BY DEF Deleted
<1>6. ASSUME NEW k \in 0 .. N, NEW s
      PROVE  s \in X[k] <=> /\ Stage(s, n, cs) /\ s.ok
                            /\ s.ok => Rest(k) \subseteq DOMAIN RowsOf(s, n)
  <2> HIDE DEF Rest, cs, M
  <2>1. s \in X[k] <=> s \in Stores /\ Waiting(s, n, cs, Rest(k)) /\ s.ok
    OBVIOUS
  <2>2. QED
    BY <2>1 DEF Stage, Waiting
<1>7. \A k \in 1 .. N : Rest(k) \subseteq Rest(k - 1) \ {k} /\ (k \in M => k \in Rest(k - 1))
                         /\ (k \notin M => Rest(k) = Rest(k - 1))
  BY <1>1, <1>3, TablesAssumption DEF Id
<1> HIDE DEF a, X, M, cs, Rest
<1>8. ASSUME NEW k \in 1 .. N, NEW s \in X[k - 1]
      PROVE  Then(k, s) \in X[k]
  <2>1. Stage(s, n, cs) /\ s.ok /\ Rest(k - 1) \subseteq DOMAIN RowsOf(s, n) /\ k \in 0 .. N
    BY <1>1, <1>6
  <2>2. CASE k \notin M
    BY <1>6, <1>7, <2>1, <2>2
  <2>3. CASE k \in M
    <3> DEFINE r == RemoveRow(s, n, k)
    <3>1. k \in DOMAIN RowsOf(s, n)
      BY <1>7, <2>1, <2>3
    <3>2. Went(s, r, n, cs, k)
      BY <2>1, <3>1, RemoveStage
    <3> HIDE DEF r
    <3>3. Stage(r, n, cs) /\ r.ok /\ Rest(k) \subseteq DOMAIN RowsOf(r, n)
      BY <1>7, <2>1, <3>2 DEF Went
    <3>4. QED
      BY <1>6, <2>1, <2>3, <3>3 DEF r
  <2>4. QED
    BY <2>2, <2>3
<1>9. \A k \in 1 .. N : F[k] \in [X[k - 1] -> X[k]]
  <2>1. ASSUME NEW k \in 1 .. N PROVE F[k] \in [X[k - 1] -> X[k]]
    <3> HIDE DEF Then
    <3>1. F[k] = [s \in X[k - 1] |-> Then(k, s)]
      OBVIOUS
    <3>2. [s \in X[k - 1] |-> Then(k, s)] \in [X[k - 1] -> X[k]]
      BY <1>8
    <3>3. QED
      BY <3>1, <3>2
  <2>2. QED
    BY <2>1
<1>10. \A k \in 1 .. N : \A s \in X[k - 1] : F[k][s] = Then(k, s)
  OBVIOUS
<1> HIDE DEF N, F
<1>11. PICK g : Steps(g, N, a, X, F)
  BY <1>1, <1>4, <1>9, StepsExist
<1>12. E(g)
  <2>1. ASSUME NEW k \in 0 .. N
        PROVE  g[k] = IF k = 0 THEN a ELSE Then(k, g[k - 1])
    <3> HIDE DEF Then
    <3>1. CASE k = 0
      BY <1>11, <3>1 DEF Steps
    <3>2. CASE k # 0
      <4>1. k \in 1 .. N
        BY <1>1, <3>2
      <4>2. g[k] = F[k][g[k - 1]] /\ g[k - 1] \in X[k - 1]
        BY <1>1, <1>11, <4>1 DEF Steps
      <4>3. QED
        BY <1>10, <3>2, <4>1, <4>2
    <3>3. QED
      BY <3>1, <3>2
  <2>2. QED
    BY <1>11, <2>1 DEF Steps
<1>13. E(after)
  BY <1>12
<1> HIDE DEF after
<1>14. after[0] = a /\ \A k \in 1 .. N : after[k] = Then(k, after[k - 1])
  BY <1>1, <1>13
<1> DEFINE P == {k \in 0 .. N : after[k] \in X[k]}
<1>15. 0 \in P /\ \A k \in 1 .. N : k - 1 \in P => k \in P
  <2> HIDE DEF Then
  <2>1. 0 \in P
    BY <1>1, <1>4, <1>14
  <2>2. ASSUME NEW k \in 1 .. N, k - 1 \in P PROVE k \in P
    BY <1>1, <1>8, <1>14, <2>2 DEF N
  <2>3. QED
    BY <2>1, <2>2
<1>16. 0 .. N \subseteq P
  <2> HIDE DEF P
  <2>1. QED
    BY <1>1, <1>15, Climb
<1>17. after[N] \in X[N] /\ N \in 0 .. N
  BY <1>1, <1>16
<1>18. QED
  BY <1>5, <1>6, <1>17 DEF N, cs

-----------------------------------------------------------------------------
(* The steps of the specification.                                         *)

\* The catalog that is loaded from pages follows them, and every table of it is one whose
\* counter nothing is claimed of.
LEMMA LoadGood ==
  ASSUME NEW d \in Disk, Sound(d)
  PROVE  Good(d, Load(d)) /\ AllFresh(d, Load(d))
<1> DEFINE m == Load(d)
           T == [n \in DOMAIN d.tables |->
                  [columns |-> d.tables[n].columns, next |-> d.tables[n].next, reloaded |-> TRUE]]
           I == [i \in DOMAIN d.indexes |->
                  [table |-> d.indexes[i].table, column |-> d.indexes[i].column]]
<1>1. m = [tables |-> T, indexes |-> I]
  BY DEF Load
<1>2. /\ DOMAIN d.tables \subseteq Name /\ DOMAIN d.indexes \subseteq Index
      /\ \A n \in DOMAIN d.tables : d.tables[n] \in Table
      /\ \A i \in DOMAIN d.indexes : d.indexes[i] \in Posted
  BY TableType
<1>3. /\ DOMAIN T = DOMAIN d.tables /\ T = [n \in DOMAIN T |-> T[n]]
      /\ \A n \in DOMAIN d.tables :
           T[n] = [columns |-> d.tables[n].columns, next |-> d.tables[n].next, reloaded |-> TRUE]
  OBVIOUS
<1>4. /\ DOMAIN I = DOMAIN d.indexes /\ I = [i \in DOMAIN I |-> I[i]]
      /\ \A i \in DOMAIN d.indexes :
           I[i] = [table |-> d.indexes[i].table, column |-> d.indexes[i].column]
  OBVIOUS
<1> HIDE DEF T, I
<1>5. ASSUME NEW n \in DOMAIN T
      PROVE  T[n] \in Known /\ T[n].columns = d.tables[n].columns /\ T[n].reloaded
  <2>1. d.tables[n].columns \in Columns /\ d.tables[n].next \in Nat \ {0}
    BY <1>2, <1>3 DEF Table
  <2>2. T[n] = [columns |-> d.tables[n].columns, next |-> d.tables[n].next, reloaded |-> TRUE]
    BY <1>3
  <2>3. QED
    BY <2>1, <2>2 DEF Known
<1>6. ASSUME NEW i \in DOMAIN I
      PROVE  /\ I[i] \in Source
             /\ I[i].table = d.indexes[i].table /\ I[i].column = d.indexes[i].column
  <2>1. d.indexes[i].table \in Name /\ d.indexes[i].column \in Column
    BY <1>2, <1>4 DEF Posted
  <2>2. I[i] = [table |-> d.indexes[i].table, column |-> d.indexes[i].column]
    BY <1>4
  <2>3. QED
    BY <2>1, <2>2 DEF Source
<1>7. T \in Partial(Name, Known)
  BY <1>2, <1>3, <1>5, PartialType
<1>8. I \in Partial(Index, Source)
  BY <1>2, <1>4, <1>6, PartialType
<1>9. m \in Catalog /\ m.tables = T /\ m.indexes = I
  BY <1>1, <1>7, <1>8 DEF Catalog
<1> HIDE DEF m
<1>10. Follows(d, m)
  BY <1>3, <1>4, <1>5, <1>6, <1>9 DEF Follows
<1>11. AllFresh(d, m)
  BY <1>3, <1>5, <1>9 DEF AllFresh, Fresh
<1>12. QED
  BY <1>9, <1>10, <1>11 DEF Good, m

\* A statement ends with what it did, or with the pages as they were and the catalog
\* loaded again.
LEMMA FinishKeeps ==
  ASSUME IInv, Counted, NEW s, NEW n, NEW cs, Stage(s, n, cs), Finish(s)
  PROVE  IInv'
<1>1. /\ disk \in Disk /\ Sound(disk) /\ saved' = saved
      /\ count' \in 0 .. MaxStatements
  BY TablesAssumption DEF IInv, Good, Counted, Finish
<1>2. Good(disk, mem)' /\ AllFresh(disk, mem)'
  <2>1. CASE s.ok
    <3>1. disk' = s.disk /\ mem' = s.mem
      BY <2>1 DEF Finish
    <3>2. QED
      BY <2>1, <3>1 DEF Stage
  <2>2. CASE ~ s.ok
    <3>1. disk' = disk /\ mem' = Load(disk)
      BY <2>2 DEF Finish
    <3>2. QED
      BY <1>1, <3>1, LoadGood
  <2>3. QED
    BY <2>1, <2>2
<1>3. QED
  BY <1>1, <1>2 DEF IInv

\* An INSERT.
LEMMA InsertKeeps ==
  ASSUME IInv, NEW n \in DOMAIN mem.tables, Insert(n)
  PROVE  IInv'
<1> DEFINE cs == mem.tables[n].columns
<1>1. Counted
  BY DEF Insert
<1>2. PICK rows \in UNION {[1 .. k -> Rows(n)] : k \in 1 .. MaxRows}, conflict \in Conflicts(n) :
        Finish(Inserted(n, rows, conflict))
  BY DEF Insert
<1>3. PICK k \in 1 .. MaxRows : rows \in [1 .. k -> Rows(n)]
  BY <1>2
<1>4. rows \in Seq(Rows(n)) /\ Len(rows) \in Nat /\ \A j \in 1 .. Len(rows) : rows[j] \in Rows(n)
  BY <1>3
<1>5. ASSUME NEW g \in Rows(n) PROVE Given(g, cs)
  BY DEF Rows, Given
<1>6. \A j \in 1 .. Len(rows) : Given(rows[j], cs)
  BY <1>4, <1>5
<1>7. Resolves(conflict)
  <2>1. CASE conflict \in {[action |-> a, set |-> <<>>] : a \in {"abort", "ignore", "replace"}}
    BY <2>1 DEF Resolves
  <2>2. CASE conflict \in {[action |-> "update", set |-> x] : x \in Sets(n)}
    BY <2>2 DEF Resolves, Sets
  <2>3. QED
    BY <2>1, <2>2 DEF Conflicts
<1>8. Stage(Inserted(n, rows, conflict), n, cs)
  BY <1>4, <1>6, <1>7, InsertedStage DEF IInv
<1>9. QED
  BY <1>1, <1>2, <1>8, FinishKeeps

\* An UPDATE.
LEMMA UpdateKeeps ==
  ASSUME IInv, NEW n \in DOMAIN mem.tables, Update(n)
  PROVE  IInv'
<1> DEFINE cs == mem.tables[n].columns
<1>1. Counted
  BY DEF Update
<1>2. PICK set \in Sets(n), toId \in 0 .. MaxId, where \in Where(n) :
        Finish(Updated(n, set, toId, where))
  BY DEF Update
<1>3. set[2] \in Field
  BY DEF Sets
<1>4. Stage(Updated(n, set, toId, where), n, cs)
  BY <1>3, UpdatedStage DEF IInv
<1>5. QED
  BY <1>1, <1>2, <1>4, FinishKeeps

\* A DELETE.
LEMMA DeleteKeeps ==
  ASSUME IInv, NEW n \in DOMAIN mem.tables, Delete(n)
  PROVE  IInv'
<1> DEFINE cs == mem.tables[n].columns
<1>1. Counted
  BY DEF Delete
<1>2. PICK where \in Where(n) : Finish(Deleted(n, where))
  BY DEF Delete
<1>3. Stage(Deleted(n, where), n, cs)
  BY DeletedStage DEF IInv
<1>4. QED
  BY <1>1, <1>2, <1>3, FinishKeeps

\* A statement that fails before it did anything.
LEMMA FailsKeeps ==
  ASSUME IInv, Fails
  PROVE  IInv'
<1>1. Store(disk, mem) \in Stores
  BY DEF IInv, Good, Store, Stores
<1>2. Stage(Fail(Store(disk, mem)), 0, 0)
  BY <1>1, FailStage
<1>3. QED
  BY <1>2, FinishKeeps DEF Fails

\* A statement on the schema ends with the pages and the catalog that it makes.
LEMMA BecomesKeeps ==
  ASSUME IInv, NEW d, NEW m, Good(d, m), AllFresh(d, m), Becomes(d, m)
  PROVE  IInv'
<1>1. /\ disk' = d /\ mem' = m /\ saved' = saved /\ count' \in 0 .. MaxStatements
  BY TablesAssumption DEF IInv, Becomes, Counted
<1>2. QED
  BY <1>1 DEF IInv

\* Table u has, for column c, what table t has for it.
Kept(t, u, c) ==
  /\ u.replaced = t.replaced /\ c \in ToSet(u.columns) /\ DOMAIN u.rows = DOMAIN t.rows
  /\ \A id \in DOMAIN t.rows : Get(u.columns, u.rows[id], c) = Get(t.columns, t.rows[id], c)

\* An index stays exact over pages whose table has the same for its column.
LEMMA Carried ==
  ASSUME NEW d, NEW d2, NEW x, NEW y, Indexed(d, x),
         y.table = x.table, y.column = x.column, y.post = x.post,
         x.table \in DOMAIN d2.tables, Kept(d.tables[x.table], d2.tables[x.table], x.column)
  PROVE  Indexed(d2, y)
<1> DEFINE t == d.tables[x.table]
           u == d2.tables[x.table]
<1>1. ASSUME ~ u.replaced PROVE Exact(u, y)
  <2>1. Exact(t, x)
    BY <1>1 DEF Indexed, Kept
  <2>2. SUFFICES ASSUME NEW v \in Value, NEW id \in Id
                 PROVE  <<v, id>> \in y.post <=> id \in DOMAIN u.rows /\ Get(u.columns, u.rows[id], y.column) = v
    BY DEF Exact
  <2>3. <<v, id>> \in x.post <=> id \in DOMAIN t.rows /\ Get(t.columns, t.rows[id], x.column) = v
    BY <2>1 DEF Exact
  <2>4. DOMAIN u.rows = DOMAIN t.rows
        /\ (id \in DOMAIN t.rows => Get(u.columns, u.rows[id], x.column) = Get(t.columns, t.rows[id], x.column))
    BY DEF Kept
  <2>5. QED
    BY <2>3, <2>4
<1>2. QED
  BY <1>1 DEF Indexed, Kept

\* A table has what it has.
LEMMA KeptSame ==
  ASSUME NEW d, NEW x, Indexed(d, x)
  PROVE  Kept(d.tables[x.table], d.tables[x.table], x.column)
BY DEF Indexed, Kept

\* A new table has no rows and no indexes.
LEMMA CreateTableKeeps ==
  ASSUME IInv, NEW n \in Name, CreateTable(n)
  PROVE  IInv'
<1>1. PICK c \in Column :
        Becomes([disk EXCEPT !.tables = With(disk.tables, n, [columns |-> <<c>>, next |-> 1, rows |-> NoFunction,
                                                              replaced |-> FALSE])],
                [mem EXCEPT !.tables = With(mem.tables, n, [columns |-> <<c>>, next |-> 1, reloaded |-> FALSE])])
  BY DEF CreateTable
<1> DEFINE t  == [columns |-> <<c>>, next |-> 1, rows |-> NoFunction, replaced |-> FALSE]
           k  == [columns |-> <<c>>, next |-> 1, reloaded |-> FALSE]
           T  == With(disk.tables, n, t)
           M  == With(mem.tables, n, k)
           d2 == [disk EXCEPT !.tables = T]
           m2 == [mem EXCEPT !.tables = M]
<1>2. /\ disk \in Disk /\ mem \in Catalog /\ Sound(disk) /\ Follows(disk, mem) /\ AllFresh(disk, mem)
      /\ n \notin DOMAIN disk.tables
  BY DEF IInv, Good, Follows, CreateTable
<1>3. t \in Table /\ k \in Known /\ DOMAIN t.rows = {} /\ t.columns = <<c>> /\ k.columns = <<c>>
  BY OneColumn, NoFunctionType DEF Table, Known
<1>4. /\ disk = [tables |-> disk.tables, indexes |-> disk.indexes]
      /\ disk.tables \in Partial(Name, Table) /\ disk.indexes \in Partial(Index, Posted)
      /\ mem = [tables |-> mem.tables, indexes |-> mem.indexes]
      /\ mem.tables \in Partial(Name, Known) /\ mem.indexes \in Partial(Index, Source)
  BY <1>2 DEF Disk, Catalog
<1> HIDE DEF t, k
<1>5. /\ T \in Partial(Name, Table) /\ DOMAIN T = DOMAIN disk.tables \cup {n} /\ T[n] = t
      /\ \A j \in DOMAIN disk.tables : j # n => T[j] = disk.tables[j]
  <2>1. T \in Partial(Name, Table)
    BY <1>3, <1>4, WithType
  <2>2. QED
    BY <2>1 DEF With
<1>6. /\ M \in Partial(Name, Known) /\ DOMAIN M = DOMAIN mem.tables \cup {n} /\ M[n] = k
      /\ \A j \in DOMAIN mem.tables : j # n => M[j] = mem.tables[j]
  <2>1. M \in Partial(Name, Known)
    BY <1>3, <1>4, WithType
  <2>2. QED
    BY <2>1 DEF With
<1> HIDE DEF T, M
<1>7. d2 = [tables |-> T, indexes |-> disk.indexes] /\ m2 = [tables |-> M, indexes |-> mem.indexes]
  BY <1>4
<1>8. /\ d2 \in Disk /\ d2.tables = T /\ d2.indexes = disk.indexes
      /\ m2 \in Catalog /\ m2.tables = M /\ m2.indexes = mem.indexes
  BY <1>4, <1>5, <1>6, <1>7 DEF Disk, Catalog
<1>9. Becomes(d2, m2)
  BY <1>1 DEF T, M, t, k
<1> HIDE DEF d2, m2
<1>10. Follows(d2, m2)
  BY <1>2, <1>3, <1>5, <1>6, <1>8 DEF Follows
<1>11. AllFresh(d2, m2)
  <2>1. ASSUME NEW j \in DOMAIN T PROVE Fresh(T[j], M[j])
    <3>1. CASE j = n
      BY <1>3, <1>5, <1>6, <3>1 DEF Fresh
    <3>2. CASE j # n
      BY <1>2, <1>5, <1>6, <3>2 DEF AllFresh, Follows
    <3>3. QED
      BY <3>1, <3>2
  <2>2. QED
    BY <1>8, <2>1 DEF AllFresh
<1>12. Sound(d2)
  <2>1. ASSUME NEW j \in DOMAIN T PROVE Whole(T[j])
    <3>1. CASE j = n
      BY <1>3, <1>5, <3>1 DEF Whole
    <3>2. CASE j # n
      BY <1>2, <1>5, <3>2 DEF Sound
    <3>3. QED
      BY <3>1, <3>2
  <2>2. ASSUME NEW i \in DOMAIN disk.indexes, ~ disk.indexes[i].orphan
        PROVE  Indexed(d2, disk.indexes[i])
    <3> DEFINE x == disk.indexes[i]
    <3>1. Indexed(disk, x)
      BY <1>2, <2>2 DEF Sound
    <3> HIDE DEF x
    <3>2. x.table \in DOMAIN disk.tables /\ x.table # n
      BY <1>2, <3>1 DEF Indexed
    <3>3. x.table \in DOMAIN d2.tables /\ d2.tables[x.table] = disk.tables[x.table]
      BY <1>5, <1>8, <3>2
    <3>4. Kept(disk.tables[x.table], d2.tables[x.table], x.column)
      BY <3>1, <3>3, KeptSame
    <3>5. QED
      BY <3>1, <3>3, <3>4, Carried DEF x
  <2>3. QED
    BY <1>8, <2>1, <2>2 DEF Sound
<1>13. QED
  BY <1>8, <1>9, <1>10, <1>11, <1>12, BecomesKeeps DEF Good

\* A table that is dropped takes its indexes with it.
LEMMA DropTableKeeps ==
  ASSUME IInv, NEW n \in DOMAIN mem.tables, DropTable(n)
  PROVE  IInv'
<1> DEFINE Gone == IndexesOf(mem, n)
           T  == Without(disk.tables, n)
           M  == Without(mem.tables, n)
           J  == Restrict(disk.indexes, DOMAIN disk.indexes \ Gone)
           K  == Restrict(mem.indexes, DOMAIN mem.indexes \ Gone)
           d2 == [tables |-> T, indexes |-> J]
           m2 == [tables |-> M, indexes |-> K]
<1>1. Becomes(d2, m2)
  BY DEF DropTable
<1>2. /\ disk \in Disk /\ mem \in Catalog /\ Sound(disk) /\ Follows(disk, mem) /\ AllFresh(disk, mem)
  BY DEF IInv, Good
<1>3. /\ disk.tables \in Partial(Name, Table) /\ disk.indexes \in Partial(Index, Posted)
      /\ mem.tables \in Partial(Name, Known) /\ mem.indexes \in Partial(Index, Source)
  BY <1>2 DEF Disk, Catalog
<1>4. /\ T \in Partial(Name, Table) /\ DOMAIN T = DOMAIN disk.tables \ {n}
      /\ \A j \in DOMAIN disk.tables \ {n} : T[j] = disk.tables[j]
  BY <1>3, WithoutType DEF Without
<1>5. /\ M \in Partial(Name, Known) /\ DOMAIN M = DOMAIN mem.tables \ {n}
      /\ \A j \in DOMAIN mem.tables \ {n} : M[j] = mem.tables[j]
  BY <1>3, WithoutType DEF Without
<1>6. /\ J \in Partial(Index, Posted) /\ DOMAIN J = DOMAIN disk.indexes \ Gone
      /\ \A i \in DOMAIN disk.indexes \ Gone : J[i] = disk.indexes[i]
  BY <1>3, WithoutType
<1>7. /\ K \in Partial(Index, Source) /\ DOMAIN K = DOMAIN mem.indexes \ Gone
      /\ \A i \in DOMAIN mem.indexes \ Gone : K[i] = mem.indexes[i]
  BY <1>3, WithoutType
<1>8. \A i \in DOMAIN disk.indexes \ Gone : disk.indexes[i].table # n
  BY <1>2 DEF IndexesOf, Follows
<1> HIDE DEF T, M, J, K, Gone
<1>9. /\ d2 \in Disk /\ d2.tables = T /\ d2.indexes = J
      /\ m2 \in Catalog /\ m2.tables = M /\ m2.indexes = K
  BY <1>4, <1>5, <1>6, <1>7 DEF Disk, Catalog
<1> HIDE DEF d2, m2
<1>10. Follows(d2, m2)
  BY <1>2, <1>4, <1>5, <1>6, <1>7, <1>9 DEF Follows
<1>11. AllFresh(d2, m2)
  BY <1>2, <1>4, <1>5, <1>9 DEF AllFresh, Follows
<1>12. Sound(d2)
  <2>1. \A j \in DOMAIN T : Whole(T[j])
    BY <1>2, <1>4 DEF Sound
  <2>2. ASSUME NEW i \in DOMAIN J, ~ J[i].orphan
        PROVE  Indexed(d2, J[i])
    <3> DEFINE x == J[i]
    <3>1. Indexed(disk, x) /\ x.table # n
      BY <1>2, <1>6, <1>8, <2>2 DEF Sound
    <3> HIDE DEF x
    <3>2. x.table \in DOMAIN d2.tables /\ d2.tables[x.table] = disk.tables[x.table]
      BY <1>4, <1>9, <3>1 DEF Indexed
    <3>3. Kept(disk.tables[x.table], d2.tables[x.table], x.column)
      BY <3>1, <3>2, KeptSame
    <3>4. QED
      BY <3>1, <3>2, <3>3, Carried DEF x
  <2>3. QED
    BY <1>9, <2>1, <2>2 DEF Sound
<1>13. QED
  BY <1>1, <1>9, <1>10, <1>11, <1>12, BecomesKeeps DEF Good

\* Table n becomes u, and the indexes J are those of before, some of them orphans now.
Reshaped(n, u, J) ==
  /\ Whole(u) /\ DOMAIN u.rows = DOMAIN disk.tables[n].rows
  /\ DOMAIN J = DOMAIN disk.indexes
  /\ \A i \in DOMAIN J :
       /\ J[i].table = disk.indexes[i].table /\ J[i].column = disk.indexes[i].column
       /\ J[i].post = disk.indexes[i].post
       /\ ~ J[i].orphan => ~ disk.indexes[i].orphan
       /\ J[i].table = n /\ ~ J[i].orphan /\ J[i].column \in ToSet(disk.tables[n].columns) =>
            Kept(disk.tables[n], u, J[i].column)

\* The definition of a table changes, and every index that is no orphan has the values it
\* had.
LEMMA AlterGood ==
  ASSUME IInv, NEW n \in DOMAIN mem.tables, NEW u \in Table,
         NEW J \in Partial(Index, Posted), Reshaped(n, u, J)
  PROVE  /\ Good([tables |-> [disk.tables EXCEPT ![n] = u], indexes |-> J],
                 [mem EXCEPT !.tables[n].columns = u.columns])
         /\ AllFresh([tables |-> [disk.tables EXCEPT ![n] = u], indexes |-> J],
                     [mem EXCEPT !.tables[n].columns = u.columns])
<1> DEFINE k  == mem.tables[n]
           w  == [k EXCEPT !.columns = u.columns]
           T  == [disk.tables EXCEPT ![n] = u]
           M  == [mem.tables EXCEPT ![n] = w]
           d2 == [tables |-> T, indexes |-> J]
           m2 == [mem EXCEPT !.tables[n].columns = u.columns]
<1>1. /\ disk \in Disk /\ mem \in Catalog /\ Sound(disk) /\ Follows(disk, mem) /\ AllFresh(disk, mem)
      /\ n \in DOMAIN disk.tables
  BY DEF IInv, Good, Follows
<1>2. /\ disk.tables \in Partial(Name, Table) /\ disk.indexes \in Partial(Index, Posted)
      /\ mem.tables \in Partial(Name, Known) /\ mem.indexes \in Partial(Index, Source)
      /\ mem = [tables |-> mem.tables, indexes |-> mem.indexes]
  BY <1>1 DEF Disk, Catalog
<1>3. k \in Known /\ u.columns \in Columns
  BY <1>1, KnownType, RowType
<1>4. w \in Known /\ w.columns = u.columns /\ w.next = k.next /\ w.reloaded = k.reloaded
  BY <1>3 DEF Known
<1>5. m2 = [mem EXCEPT !.tables = M]
  OBVIOUS
<1> HIDE DEF m2, w
<1>6. T \in Partial(Name, Table) /\ DOMAIN T = DOMAIN disk.tables /\ T[n] = u
      /\ \A j \in DOMAIN disk.tables : j # n => T[j] = disk.tables[j]
  BY <1>1, <1>2, ExceptType
<1>7. M \in Partial(Name, Known) /\ DOMAIN M = DOMAIN mem.tables /\ M[n] = w
      /\ \A j \in DOMAIN mem.tables : j # n => M[j] = mem.tables[j]
  BY <1>2, <1>4, ExceptType
<1> HIDE DEF T, M
<1>8. m2 = [tables |-> M, indexes |-> mem.indexes]
  BY <1>2, <1>5
<1>9. /\ d2 \in Disk /\ d2.tables = T /\ d2.indexes = J
      /\ m2 \in Catalog /\ m2.tables = M /\ m2.indexes = mem.indexes
  BY <1>2, <1>6, <1>7, <1>8 DEF Disk, Catalog
<1> HIDE DEF d2
<1>10. Follows(d2, m2)
  <2>1. \A j \in DOMAIN T : M[j].columns = T[j].columns
    BY <1>1, <1>4, <1>6, <1>7 DEF Follows
  <2>2. QED
    BY <1>1, <1>6, <1>7, <1>9, <2>1 DEF Follows, Reshaped
<1>11. AllFresh(d2, m2)
  <2>1. ASSUME NEW j \in DOMAIN T PROVE Fresh(T[j], M[j])
    <3>1. Fresh(disk.tables[j], mem.tables[j])
      BY <1>1, <1>6 DEF AllFresh
    <3>2. CASE j = n
      BY <1>4, <1>6, <1>7, <3>1, <3>2 DEF Fresh, Reshaped
    <3>3. CASE j # n
      BY <1>1, <1>6, <1>7, <3>1, <3>3 DEF Follows
    <3>4. QED
      BY <3>2, <3>3
  <2>2. QED
    BY <1>9, <2>1 DEF AllFresh
<1>12. Sound(d2)
  <2>1. ASSUME NEW j \in DOMAIN T PROVE Whole(T[j])
    BY <1>1, <1>6 DEF Sound, Reshaped
  <2>2. ASSUME NEW i \in DOMAIN J, ~ J[i].orphan
        PROVE  Indexed(d2, J[i])
    <3> DEFINE x == disk.indexes[i]
               y == J[i]
    <3>1. /\ i \in DOMAIN disk.indexes /\ ~ x.orphan
          /\ y.table = x.table /\ y.column = x.column /\ y.post = x.post
          /\ y.table = n /\ y.column \in ToSet(disk.tables[n].columns) =>
               Kept(disk.tables[n], u, y.column)
      BY <2>2 DEF Reshaped
    <3>2. Indexed(disk, x)
      BY <1>1, <3>1 DEF Sound
    <3> HIDE DEF x, y
    <3>3. x.table \in DOMAIN d2.tables /\ x.column \in ToSet(disk.tables[x.table].columns)
      BY <1>6, <1>9, <3>2 DEF Indexed
    <3>4. CASE x.table = n
      <4>1. Kept(disk.tables[n], u, x.column) /\ d2.tables[n] = u
        BY <1>6, <1>9, <3>1, <3>3, <3>4
      <4>2. QED
        BY <3>1, <3>2, <3>3, <3>4, <4>1, Carried DEF y
    <3>5. CASE x.table # n
      <4>1. d2.tables[x.table] = disk.tables[x.table]
        BY <1>6, <1>9, <3>3, <3>5
      <4>2. Kept(disk.tables[x.table], d2.tables[x.table], x.column)
        BY <3>2, <4>1, KeptSame
      <4>3. QED
        BY <3>1, <3>2, <3>3, <4>2, Carried DEF y
    <3>6. QED
      BY <3>4, <3>5
  <2>3. QED
    BY <1>9, <2>1, <2>2 DEF Sound
<1>13. QED
  BY <1>9, <1>10, <1>11, <1>12 DEF Good, d2, m2, T

\* The indexes on a table, or on one column of it, become orphans.
OrphansOf(J, I, n, c) ==
  /\ J \in Partial(Index, Posted) /\ DOMAIN J = DOMAIN I
  /\ \A i \in DOMAIN J :
       /\ J[i].table = I[i].table /\ J[i].column = I[i].column /\ J[i].post = I[i].post
       /\ ~ J[i].orphan => ~ I[i].orphan /\ (I[i].table = n => c # "all" /\ I[i].column # c)

\* The indexes keep what they are, but for those that become orphans.
LEMMA OrphanedIs ==
  ASSUME NEW d \in Disk, NEW n, NEW c
  PROVE  /\ Orphaned(d, n, c) = [tables |-> d.tables, indexes |-> Orphaned(d, n, c).indexes]
         /\ OrphansOf(Orphaned(d, n, c).indexes, d.indexes, n, c)
<1> DEFINE I == d.indexes
           J == [i \in DOMAIN I |->
                   IF I[i].table = n /\ (c = "all" \/ I[i].column = c)
                   THEN [I[i] EXCEPT !.orphan = TRUE] ELSE I[i]]
<1>1. d = [tables |-> d.tables, indexes |-> d.indexes]
  BY DiskType
<1>2. Orphaned(d, n, c) = [d EXCEPT !.indexes = J]
  BY DEF Orphaned
<1>3. \A i \in DOMAIN I : I[i] \in Posted /\ i \in Index
  BY TableType
<1>4. ASSUME NEW i \in DOMAIN I
      PROVE  /\ J[i] \in Posted
             /\ J[i].table = I[i].table /\ J[i].column = I[i].column /\ J[i].post = I[i].post
             /\ ~ J[i].orphan => ~ I[i].orphan /\ (I[i].table = n => c # "all" /\ I[i].column # c)
  <2>1. I[i] \in Posted
    BY <1>3
  <2> DEFINE x == [I[i] EXCEPT !.orphan = TRUE]
  <2>2. x \in Posted /\ x.table = I[i].table /\ x.column = I[i].column /\ x.post = I[i].post /\ x.orphan
    BY <2>1 DEF Posted
  <2>3. J[i] = IF I[i].table = n /\ (c = "all" \/ I[i].column = c) THEN x ELSE I[i]
    OBVIOUS
  <2> HIDE DEF x, J, I
  <2>4. CASE I[i].table = n /\ (c = "all" \/ I[i].column = c)
    BY <2>2, <2>3, <2>4
  <2>5. CASE ~ (I[i].table = n /\ (c = "all" \/ I[i].column = c))
    BY <2>1, <2>3, <2>5
  <2>6. QED
    BY <2>4, <2>5
<1>5. J = [i \in DOMAIN J |-> J[i]] /\ DOMAIN J = DOMAIN I
  OBVIOUS
<1> HIDE DEF J, I
<1>6. Orphaned(d, n, c) = [tables |-> d.tables, indexes |-> J]
  BY <1>1, <1>2
<1>7. J \in Partial(Index, Posted)
  BY <1>3, <1>4, <1>5, PartialType
<1>8. OrphansOf(J, I, n, c)
  BY <1>4, <1>5, <1>7 DEF OrphansOf
<1>9. QED
  BY <1>6, <1>8 DEF I

\* What a definition that changes starts from.
LEMMA AlterStart ==
  ASSUME IInv, NEW n \in DOMAIN mem.tables
  PROVE  /\ disk \in Disk /\ n \in DOMAIN disk.tables /\ disk.tables[n] \in Table
         /\ disk = [tables |-> disk.tables, indexes |-> disk.indexes]
         /\ disk.indexes \in Partial(Index, Posted)
         /\ disk.tables[n].columns = mem.tables[n].columns /\ mem.tables[n].columns \in Columns
         /\ mem.tables[n].next \in Nat \ {0}
         /\ Whole(disk.tables[n])
         /\ disk.tables[n].rows \in Partial(Id, Row)
         /\ \A id \in DOMAIN disk.tables[n].rows :
              disk.tables[n].rows[id] \in Row /\ disk.tables[n].rows[id].values \in Seq(Field)
<1>1. /\ disk \in Disk /\ mem \in Catalog /\ n \in DOMAIN disk.tables
      /\ disk.tables[n].columns = mem.tables[n].columns /\ Whole(disk.tables[n])
  BY DEF IInv, Good, Follows, Sound
<1>2. disk.tables[n] \in Table /\ mem.tables[n] \in Known
  BY <1>1, TableType, KnownType
<1>3. mem.tables[n].columns \in Columns /\ mem.tables[n].next \in Nat \ {0}
  BY <1>2 DEF Known
<1>4. /\ disk = [tables |-> disk.tables, indexes |-> disk.indexes]
      /\ disk.indexes \in Partial(Index, Posted)
  BY <1>1, DiskType
<1>5. QED
  BY <1>1, <1>2, <1>3, <1>4, RowType

\* The rows end before the new column, which no index has.
LEMMA AddColumnKeeps ==
  ASSUME IInv, NEW n \in DOMAIN mem.tables, AddColumn(n)
  PROVE  IInv'
<1> DEFINE t  == disk.tables[n]
           cs == mem.tables[n].columns
<1>1. PICK c \in Column \ ToSet(cs) : Alter(n, Append(cs, c))
  BY DEF AddColumn
<1> DEFINE new == Append(cs, c)
           u   == [t EXCEPT !.columns = new, !.next = mem.tables[n].next]
           d2  == [tables |-> [disk.tables EXCEPT ![n] = u], indexes |-> disk.indexes]
<1>2. t \in Table /\ t.columns = cs /\ cs \in Columns /\ Whole(t) /\ mem.tables[n].next \in Nat \ {0}
      /\ disk = [tables |-> disk.tables, indexes |-> disk.indexes]
      /\ disk.indexes \in Partial(Index, Posted)
  BY AlterStart
<1>3. /\ new \in Columns /\ Len(new) = Len(cs) + 1 /\ Len(cs) \in Nat
      /\ \A e \in ToSet(cs) : e \in ToSet(new) /\ \A row : Get(new, row, e) = Get(cs, row, e)
  BY <1>2, ColumnAdded DEF Columns
<1> HIDE DEF new, t, cs
<1>4. u \in Table /\ u.columns = new /\ u.rows = t.rows /\ u.replaced = t.replaced
  BY <1>2, <1>3 DEF Table
<1>5. Becomes(d2, [mem EXCEPT !.tables[n].columns = new])
  <2>1. [disk EXCEPT !.tables[n] = u] = d2
    BY <1>2
  <2>2. QED
    BY <1>1, <2>1 DEF Alter, new, t, cs
<1> HIDE DEF u
<1>6. Whole(u)
  <2>1. \A id \in DOMAIN t.rows : t.rows[id].values \in Seq(Field)
    BY <1>2, RowType
  <2>2. ASSUME NEW id \in DOMAIN t.rows PROVE FitsIn(t.rows[id], id, new)
    <3>1. FitsIn(t.rows[id], id, cs) /\ Len(t.rows[id].values) \in Nat
      BY <1>2, <2>1 DEF Whole
    <3>2. QED
      BY <1>3, <3>1 DEF FitsIn
  <2>3. QED
    BY <1>4, <2>2 DEF Whole
<1>7. \A e \in ToSet(cs) : Kept(t, u, e)
  BY <1>2, <1>3, <1>4 DEF Kept
<1>8. Reshaped(n, u, disk.indexes)
  BY <1>2, <1>4, <1>6, <1>7 DEF Reshaped, t
<1>9. /\ Good(d2, [mem EXCEPT !.tables[n].columns = new])
      /\ AllFresh(d2, [mem EXCEPT !.tables[n].columns = new])
  BY <1>2, <1>4, <1>8, AlterGood
<1>10. QED
  BY <1>5, <1>9, BecomesKeeps

\* The rows lose the value of the column, and the indexes on it are orphans.
LEMMA DropColumnKeeps ==
  ASSUME IInv, NEW n \in DOMAIN mem.tables, DropColumn(n)
  PROVE  IInv'
<1> DEFINE t    == disk.tables[n]
           cs   == mem.tables[n].columns
           rows == t.rows
<1>1. PICK c \in ToSet(cs) :
        LET k       == Position(cs, c)
            shorter == [id \in DOMAIN rows |->
                          [rows[id] EXCEPT !.values = RemoveAt(Padded(cs, rows[id]), k)]]
        IN  Becomes([Orphaned(disk, n, c) EXCEPT !.tables[n] =
                       [Orphaned(disk, n, c).tables[n] EXCEPT
                          !.columns = RemoveAt(cs, k), !.next = mem.tables[n].next, !.rows = shorter]],
                    [mem EXCEPT !.tables[n].columns = RemoveAt(cs, k)])
  BY DEF DropColumn
<1> DEFINE k   == Position(cs, c)
           new == RemoveAt(cs, k)
           cut(id) == RemoveAt(Padded(cs, rows[id]), k)
           shorter == [id \in DOMAIN rows |-> [rows[id] EXCEPT !.values = cut(id)]]
           u   == [t EXCEPT !.columns = new, !.next = mem.tables[n].next, !.rows = shorter]
           O   == Orphaned(disk, n, c)
           J   == O.indexes
           d2  == [tables |-> [disk.tables EXCEPT ![n] = u], indexes |-> J]
<1>2. /\ disk \in Disk /\ t \in Table /\ t.columns = cs /\ cs \in Columns /\ Whole(t)
      /\ mem.tables[n].next \in Nat \ {0}
      /\ rows \in Partial(Id, Row)
      /\ \A id \in DOMAIN rows : rows[id] \in Row /\ rows[id].values \in Seq(Field)
  BY AlterStart
<1>3. O = [tables |-> disk.tables, indexes |-> J] /\ OrphansOf(J, disk.indexes, n, c)
  BY <1>2, OrphanedIs
<1>4. Becomes(d2, [mem EXCEPT !.tables[n].columns = new])
  <2> HIDE DEF O, J
  <2>1. [O EXCEPT !.tables[n] = u] = d2 /\ O.tables[n] = t
    BY <1>3
  <2>2. QED
    BY <1>1, <2>1 DEF O
<1> HIDE DEF J, O, k
<1>5. /\ new \in Columns
      /\ \A e \in ToSet(cs) : e # c => e \in ToSet(new)
      /\ \A row : row.values \in Seq(Field) =>
           /\ RemoveAt(Padded(cs, row), k) \in Seq(Field)
           /\ Len(RemoveAt(Padded(cs, row), k)) = Len(new)
           /\ \A e \in ToSet(cs) : \A row2 :
                e # c /\ row2.values = RemoveAt(Padded(cs, row), k) =>
                  Get(new, row2, e) = Get(cs, row, e)
  BY <1>2, ColumnRemoved DEF k
<1> HIDE DEF new, cs, t
<1>6. ASSUME NEW id \in DOMAIN rows
      PROVE  /\ shorter[id] \in Row /\ FitsIn(shorter[id], id, new)
             /\ \A e \in ToSet(cs) : e # c => Get(new, shorter[id], e) = Get(cs, rows[id], e)
  <2>1. /\ cut(id) \in Seq(Field) /\ Len(cut(id)) = Len(new) /\ rows[id] \in Row
        /\ \A e \in ToSet(cs) : \A row2 :
             e # c /\ row2.values = cut(id) => Get(new, row2, e) = Get(cs, rows[id], e)
    BY <1>2, <1>5
  <2>2. shorter[id] = [rows[id] EXCEPT !.values = cut(id)]
    OBVIOUS
  <2> HIDE DEF cut, shorter, rows
  <2>3. shorter[id] \in Row /\ shorter[id].values = cut(id) /\ shorter[id].key = rows[id].key
    BY <2>1, <2>2 DEF Row
  <2>4. FitsIn(rows[id], id, cs) /\ Len(new) \in Nat
    BY <1>2, <1>5 DEF Whole, rows, Columns
  <2>5. QED
    BY <2>1, <2>3, <2>4 DEF FitsIn
<1>7. shorter = [id \in DOMAIN shorter |-> shorter[id]] /\ DOMAIN shorter = DOMAIN rows
  OBVIOUS
<1> HIDE DEF shorter, rows
<1>8. shorter \in Partial(Id, Row)
  <2>1. DOMAIN rows \subseteq Id
    BY <1>2, PartialType
  <2>2. \A id \in DOMAIN shorter : shorter[id] \in Row
    BY <1>6, <1>7
  <2>3. QED
    BY <1>7, <2>1, <2>2, PartialType
<1>9. u \in Table /\ u.columns = new /\ u.rows = shorter /\ u.replaced = t.replaced
  BY <1>2, <1>5, <1>8 DEF Table
<1> HIDE DEF u
<1>10. Whole(u)
  BY <1>6, <1>7, <1>9 DEF Whole
<1>11. \A e \in ToSet(cs) : e # c => Kept(t, u, e)
  BY <1>2, <1>5, <1>6, <1>7, <1>9 DEF Kept, rows
<1>12. Reshaped(n, u, J)
  <2>1. DOMAIN u.rows = DOMAIN t.rows
    BY <1>7, <1>9 DEF rows
  <2>2. QED
    BY <1>2, <1>3, <1>10, <1>11, <2>1 DEF Reshaped, OrphansOf, t
<1>13. J \in Partial(Index, Posted)
  BY <1>3 DEF OrphansOf
<1>14. /\ Good(d2, [mem EXCEPT !.tables[n].columns = new])
       /\ AllFresh(d2, [mem EXCEPT !.tables[n].columns = new])
  BY <1>9, <1>12, <1>13, AlterGood
<1>15. QED
  BY <1>4, <1>14, BecomesKeeps

\* The column keeps its place, and the indexes on it are orphans.
LEMMA RenameColumnKeeps ==
  ASSUME IInv, NEW n \in DOMAIN mem.tables, RenameColumn(n)
  PROVE  IInv'
<1> DEFINE t  == disk.tables[n]
           cs == mem.tables[n].columns
<1>1. PICK c \in ToSet(cs), d \in Column \ ToSet(cs) :
        Becomes([Orphaned(disk, n, c) EXCEPT !.tables[n] =
                   [Orphaned(disk, n, c).tables[n] EXCEPT
                      !.columns = [cs EXCEPT ![Position(cs, c)] = d], !.next = mem.tables[n].next]],
                [mem EXCEPT !.tables[n].columns = [cs EXCEPT ![Position(cs, c)] = d]])
  BY DEF RenameColumn
<1> DEFINE new == [cs EXCEPT ![Position(cs, c)] = d]
           u   == [t EXCEPT !.columns = new, !.next = mem.tables[n].next]
           O   == Orphaned(disk, n, c)
           J   == O.indexes
           d2  == [tables |-> [disk.tables EXCEPT ![n] = u], indexes |-> J]
<1>2. /\ disk \in Disk /\ t \in Table /\ t.columns = cs /\ cs \in Columns /\ Whole(t)
      /\ mem.tables[n].next \in Nat \ {0}
  BY AlterStart
<1>3. O = [tables |-> disk.tables, indexes |-> J] /\ OrphansOf(J, disk.indexes, n, c)
  BY <1>2, OrphanedIs
<1>4. Becomes(d2, [mem EXCEPT !.tables[n].columns = new])
  <2> HIDE DEF O, J
  <2>1. [O EXCEPT !.tables[n] = u] = d2 /\ O.tables[n] = t
    BY <1>3
  <2>2. QED
    BY <1>1, <2>1 DEF O
<1> HIDE DEF J, O
<1>5. /\ new \in Columns /\ Len(new) = Len(cs)
      /\ \A e \in ToSet(cs) : e # c => e \in ToSet(new) /\ \A row : Get(new, row, e) = Get(cs, row, e)
  BY <1>2, ColumnRenamed
<1> HIDE DEF new, cs, t
<1>6. u \in Table /\ u.columns = new /\ u.rows = t.rows /\ u.replaced = t.replaced
  BY <1>2, <1>5 DEF Table
<1> HIDE DEF u
<1>7. Whole(u)
  BY <1>2, <1>5, <1>6 DEF Whole, FitsIn
<1>8. \A e \in ToSet(cs) : e # c => Kept(t, u, e)
  BY <1>2, <1>5, <1>6 DEF Kept
<1>9. Reshaped(n, u, J)
  BY <1>2, <1>3, <1>6, <1>7, <1>8 DEF Reshaped, OrphansOf, t
<1>10. J \in Partial(Index, Posted)
  BY <1>3 DEF OrphansOf
<1>11. /\ Good(d2, [mem EXCEPT !.tables[n].columns = new])
       /\ AllFresh(d2, [mem EXCEPT !.tables[n].columns = new])
  BY <1>6, <1>9, <1>10, AlterGood
<1>12. QED
  BY <1>4, <1>11, BecomesKeeps

\* A table goes over to another name, and leaves its indexes as orphans.
LEMMA RenameTableKeeps ==
  ASSUME IInv, NEW n \in DOMAIN mem.tables, RenameTable(n)
  PROVE  IInv'
<1> DEFINE t == disk.tables[n]
           k == mem.tables[n]
           u == [t EXCEPT !.next = k.next]
           O == Orphaned(disk, n, "all")
           J == O.indexes
<1>1. PICK o \in Name \ DOMAIN mem.tables :
        Becomes([O EXCEPT !.tables = With(Without(O.tables, n), o, [O.tables[n] EXCEPT !.next = k.next])],
                [mem EXCEPT !.tables = With(Without(mem.tables, n), o, mem.tables[n])])
  BY DEF RenameTable
<1> DEFINE T0 == Without(disk.tables, n)
           M0 == Without(mem.tables, n)
           T  == With(T0, o, u)
           M  == With(M0, o, k)
           d2 == [tables |-> T, indexes |-> J]
           m2 == [mem EXCEPT !.tables = M]
<1>2. /\ disk \in Disk /\ mem \in Catalog /\ Sound(disk) /\ Follows(disk, mem) /\ AllFresh(disk, mem)
      /\ n \in DOMAIN disk.tables /\ o \notin DOMAIN disk.tables /\ o # n
  BY DEF IInv, Good, Follows
<1>3. /\ disk.tables \in Partial(Name, Table) /\ disk.indexes \in Partial(Index, Posted)
      /\ mem.tables \in Partial(Name, Known) /\ mem.indexes \in Partial(Index, Source)
      /\ mem = [tables |-> mem.tables, indexes |-> mem.indexes]
  BY <1>2 DEF Disk, Catalog
<1>4. t \in Table /\ k \in Known /\ k.next \in Nat \ {0} /\ Whole(t)
  BY <1>2, TableType, KnownType, AlterStart
<1>5. O = [tables |-> disk.tables, indexes |-> J] /\ OrphansOf(J, disk.indexes, n, "all")
  BY <1>2, OrphanedIs
<1>6. Becomes(d2, m2)
  <2> HIDE DEF O, J, T0
  <2>1. O.tables = disk.tables
    BY <1>5
  <2> HIDE DEF t, k
  <2>2. [O EXCEPT !.tables = T] = d2
    BY <1>5
  <2>3. QED
    BY <1>1, <2>1, <2>2 DEF O, T0, t, k
<1> HIDE DEF O, J
<1>7. u \in Table /\ u.columns = t.columns /\ u.rows = t.rows /\ u.replaced = t.replaced
  BY <1>4 DEF Table
<1>8. /\ T0 \in Partial(Name, Table) /\ DOMAIN T0 = DOMAIN disk.tables \ {n}
      /\ \A j \in DOMAIN disk.tables \ {n} : T0[j] = disk.tables[j]
  BY <1>3, WithoutType DEF Without
<1>9. /\ M0 \in Partial(Name, Known) /\ DOMAIN M0 = DOMAIN mem.tables \ {n}
      /\ \A j \in DOMAIN mem.tables \ {n} : M0[j] = mem.tables[j]
  BY <1>3, WithoutType DEF Without
<1> HIDE DEF T0, M0, u, t, k
<1>10. /\ T \in Partial(Name, Table) /\ DOMAIN T = (DOMAIN disk.tables \ {n}) \cup {o} /\ T[o] = u
       /\ \A j \in DOMAIN disk.tables \ {n} : T[j] = disk.tables[j]
  <2>1. T \in Partial(Name, Table)
    BY <1>7, <1>8, WithType
  <2>2. QED
    BY <1>2, <1>8, <2>1 DEF With
<1>11. /\ M \in Partial(Name, Known) /\ DOMAIN M = (DOMAIN mem.tables \ {n}) \cup {o} /\ M[o] = k
       /\ \A j \in DOMAIN mem.tables \ {n} : M[j] = mem.tables[j]
  <2>1. M \in Partial(Name, Known)
    BY <1>4, <1>9, WithType
  <2>2. QED
    BY <1>9, <2>1 DEF With
<1> HIDE DEF T, M
<1>12. m2 = [tables |-> M, indexes |-> mem.indexes]
  BY <1>3
<1>13. J \in Partial(Index, Posted)
  BY <1>5 DEF OrphansOf
<1>14. /\ d2 \in Disk /\ d2.tables = T /\ d2.indexes = J
       /\ m2 \in Catalog /\ m2.tables = M /\ m2.indexes = mem.indexes
  BY <1>3, <1>10, <1>11, <1>12, <1>13 DEF Disk, Catalog
<1> HIDE DEF d2, m2
<1>15. ASSUME NEW j \in DOMAIN T
       PROVE  M[j].columns = T[j].columns /\ Fresh(T[j], M[j]) /\ Whole(T[j])
  <2>1. CASE j = o
    <3>1. k.columns = t.columns /\ Fresh(t, k)
      BY <1>2 DEF Follows, AllFresh, t, k
    <3>2. QED
      BY <1>4, <1>7, <1>10, <1>11, <2>1, <3>1 DEF Fresh, Whole
  <2>2. CASE j # o
    <3>1. j \in DOMAIN disk.tables \ {n}
      BY <1>10, <2>2
    <3>2. T[j] = disk.tables[j] /\ M[j] = mem.tables[j]
      BY <1>2, <1>10, <1>11, <3>1 DEF Follows
    <3>3. QED
      BY <1>2, <3>1, <3>2 DEF Follows, AllFresh, Sound
  <2>3. QED
    BY <2>1, <2>2
<1>16. Follows(d2, m2) /\ AllFresh(d2, m2)
  <2>1. DOMAIN M = DOMAIN T
    BY <1>2, <1>10, <1>11 DEF Follows
  <2>2. DOMAIN mem.indexes = DOMAIN J
    BY <1>2, <1>5 DEF Follows, OrphansOf
  <2>3. \A i \in DOMAIN J : /\ mem.indexes[i].table = J[i].table
                            /\ mem.indexes[i].column = J[i].column
    BY <1>2, <1>5 DEF Follows, OrphansOf
  <2>4. QED
    BY <1>14, <1>15, <2>1, <2>2, <2>3 DEF Follows, AllFresh
<1>17. Sound(d2)
  <2>1. ASSUME NEW i \in DOMAIN J, ~ J[i].orphan
        PROVE  Indexed(d2, J[i])
    <3> DEFINE x == disk.indexes[i]
               y == J[i]
    <3>1. /\ i \in DOMAIN disk.indexes /\ ~ x.orphan /\ x.table # n
          /\ y.table = x.table /\ y.column = x.column /\ y.post = x.post
      BY <1>5, <2>1 DEF OrphansOf
    <3>2. Indexed(disk, x)
      BY <1>2, <3>1 DEF Sound
    <3> HIDE DEF x, y
    <3>3. x.table \in DOMAIN disk.tables
      BY <3>2 DEF Indexed
    <3>4. x.table \in DOMAIN d2.tables /\ d2.tables[x.table] = disk.tables[x.table]
      BY <1>10, <1>14, <3>1, <3>3
    <3>5. Kept(disk.tables[x.table], d2.tables[x.table], x.column)
      BY <3>2, <3>4, KeptSame
    <3>6. QED
      BY <3>1, <3>2, <3>4, <3>5, Carried DEF y
  <2>2. QED
    BY <1>14, <1>15, <2>1 DEF Sound
<1>18. QED
  BY <1>6, <1>14, <1>16, <1>17, BecomesKeeps DEF Good

\* A new index has the postings of every row of its table.
LEMMA CreateIndexKeeps ==
  ASSUME IInv, NEW n \in DOMAIN mem.tables, CreateIndex(n)
  PROVE  IInv'
<1> DEFINE t  == disk.tables[n]
           cs == mem.tables[n].columns
           rows == t.rows
<1>1. PICK i \in Index \ DOMAIN mem.indexes, c \in ToSet(cs) :
        LET m == [mem EXCEPT !.indexes = With(mem.indexes, i, [table |-> n, column |-> c])]
        IN  Becomes([disk EXCEPT !.indexes =
                       With(disk.indexes, i,
                            [table |-> n, column |-> c, orphan |-> FALSE,
                             post |-> UNION {Posting(m, n, i, id, rows[id]) : id \in DOMAIN rows}])],
                    m)
  BY DEF CreateIndex
<1> DEFINE y    == [table |-> n, column |-> c]
           K    == With(mem.indexes, i, y)
           m2   == [mem EXCEPT !.indexes = K]
           in   == {<<id, rows[id]>> : id \in DOMAIN rows}
           post == UNION {Posting(m2, n, i, id, rows[id]) : id \in DOMAIN rows}
           x    == [table |-> n, column |-> c, orphan |-> FALSE, post |-> post]
           J    == With(disk.indexes, i, x)
           d2   == [disk EXCEPT !.indexes = J]
<1>2. /\ disk \in Disk /\ mem \in Catalog /\ Sound(disk) /\ Follows(disk, mem) /\ AllFresh(disk, mem)
      /\ n \in DOMAIN disk.tables /\ n \in Name /\ i \notin DOMAIN disk.indexes
  BY TableType DEF IInv, Good, Follows
<1>3. /\ t \in Table /\ t.columns = cs /\ cs \in Columns /\ DOMAIN rows \subseteq Id
      /\ \A id \in DOMAIN rows : rows[id].values \in Seq(Field)
  BY <1>2, AlterStart, RowType
<1>4. /\ disk.tables \in Partial(Name, Table) /\ disk.indexes \in Partial(Index, Posted)
      /\ mem.tables \in Partial(Name, Known) /\ mem.indexes \in Partial(Index, Source)
      /\ disk = [tables |-> disk.tables, indexes |-> disk.indexes]
      /\ mem = [tables |-> mem.tables, indexes |-> mem.indexes]
  BY <1>2 DEF Disk, Catalog
<1>5. c \in Column /\ y \in Source /\ y.table = n /\ y.column = c
  <2>1. c \in Column
    BY <1>3 DEF Columns, ToSet
  <2>2. QED
    BY <1>2, <2>1 DEF Source
<1>6. Becomes(d2, m2)
  BY <1>1
<1> HIDE DEF y
<1>7. /\ K \in Partial(Index, Source) /\ DOMAIN K = DOMAIN mem.indexes \cup {i} /\ K[i] = y
      /\ \A j \in DOMAIN mem.indexes : j # i => K[j] = mem.indexes[j]
  <2>1. K \in Partial(Index, Source)
    BY <1>4, <1>5, WithType
  <2>2. QED
    BY <2>1 DEF With
<1> HIDE DEF K
<1>8. m2 = [tables |-> mem.tables, indexes |-> K]
  BY <1>4
<1>9. m2 \in Catalog /\ m2.tables = mem.tables /\ m2.indexes = K
  BY <1>4, <1>7, <1>8 DEF Catalog
<1> HIDE DEF m2, t, cs
<1>10. post = Moved(m2, n, i, {}, {}, in)
  <2>1. UNION {Posting(m2, n, i, o[1], o[2]) : o \in in} = post
    <3> HIDE DEF rows
    <3>1. ASSUME NEW o \in in, NEW z \in Posting(m2, n, i, o[1], o[2]) PROVE z \in post
      <4>1. PICK id \in DOMAIN rows : o = <<id, rows[id]>>
        OBVIOUS
      <4>2. o[1] = id /\ o[2] = rows[id]
        BY <4>1
      <4>3. z \in Posting(m2, n, i, id, rows[id])
        BY <3>1, <4>2
      <4>4. QED
        BY <4>3
    <3>2. ASSUME NEW id \in DOMAIN rows, NEW z \in Posting(m2, n, i, id, rows[id])
          PROVE  \E o \in in : z \in Posting(m2, n, i, o[1], o[2])
      <4> DEFINE o == <<id, rows[id]>>
      <4>1. o \in in /\ o[1] = id /\ o[2] = rows[id]
        OBVIOUS
      <4> HIDE DEF o, in
      <4>2. QED
        BY <3>2, <4>1
    <3> HIDE DEF in
    <3>3. QED
      BY <3>1, <3>2
  <2>2. QED
    BY <2>1 DEF Moved
<1>11. Numbered(in) /\ Numbered({})
  BY <1>3 DEF Numbered
<1>12. m2.tables[n].columns = cs /\ m2.indexes[i].column = c
       /\ n \in DOMAIN m2.tables /\ i \in DOMAIN m2.indexes
  BY <1>5, <1>7, <1>9 DEF cs
<1> HIDE DEF post, in
<1>13. Follow(cs, c, {}, {}, in, post)
  <2>1. {} \in SUBSET (Value \X Id)
    OBVIOUS
  <2>2. QED
    BY <1>9, <1>10, <1>11, <1>12, <2>1, MovedIs
<1>14. /\ x \in Posted /\ x.table = n /\ x.column = c /\ x.post = post
  BY <1>2, <1>5, <1>13 DEF Posted, Follow
<1>15. \A v \in Value, id \in Id :
         <<v, id>> \in post <=> id \in DOMAIN rows /\ Get(cs, rows[id], c) = v
  <2>1. SUFFICES ASSUME NEW v \in Value, NEW id \in Id
                 PROVE  <<v, id>> \in post <=> id \in DOMAIN rows /\ Get(cs, rows[id], c) = v
    OBVIOUS
  <2>2. <<v, id>> \in post <=> Holds(cs, in, id, c, v)
    BY <1>13 DEF Follow, Holds
  <2>3. Holds(cs, in, id, c, v) <=> id \in DOMAIN rows /\ Get(cs, rows[id], c) = v
    <3> HIDE DEF rows
    <3>1. ASSUME NEW o \in in, o[1] = id
          PROVE  id \in DOMAIN rows /\ o[2] = rows[id]
      <4>1. PICK j \in DOMAIN rows : o = <<j, rows[j]>>
        BY DEF in
      <4>2. QED
        BY <3>1, <4>1
    <3>2. ASSUME id \in DOMAIN rows
          PROVE  \E o \in in : o[1] = id /\ o[2] = rows[id]
      <4>1. <<id, rows[id]>> \in in
        BY <3>2 DEF in
      <4>2. QED
        BY <4>1
    <3>3. QED
      BY <3>1, <3>2 DEF Holds
  <2>4. QED
    BY <2>2, <2>3
<1> HIDE DEF x
<1>16. /\ J \in Partial(Index, Posted) /\ DOMAIN J = DOMAIN disk.indexes \cup {i} /\ J[i] = x
       /\ \A j \in DOMAIN disk.indexes : j # i => J[j] = disk.indexes[j]
  <2>1. J \in Partial(Index, Posted)
    BY <1>4, <1>14, WithType
  <2>2. QED
    BY <2>1 DEF With
<1> HIDE DEF J
<1>17. d2 = [tables |-> disk.tables, indexes |-> J]
  BY <1>4
<1>18. d2 \in Disk /\ d2.tables = disk.tables /\ d2.indexes = J
  BY <1>4, <1>16, <1>17 DEF Disk
<1> HIDE DEF d2
<1>19. Follows(d2, m2) /\ AllFresh(d2, m2)
  BY <1>2, <1>5, <1>7, <1>9, <1>14, <1>16, <1>18 DEF Follows, AllFresh
<1>20. Sound(d2)
  <2>1. ASSUME NEW j \in DOMAIN J, ~ J[j].orphan
        PROVE  Indexed(d2, J[j])
    <3>1. CASE j = i
      <4>1. Exact(t, x)
        BY <1>3, <1>14, <1>15 DEF Exact
      <4>2. Indexed(d2, x)
        BY <1>2, <1>3, <1>14, <1>18, <4>1 DEF Indexed, t
      <4>3. QED
        BY <1>16, <3>1, <4>2
    <3>2. CASE j # i
      <4>1. j \in DOMAIN disk.indexes /\ J[j] = disk.indexes[j]
        BY <1>16, <3>2
      <4>2. Indexed(disk, J[j])
        BY <1>2, <2>1, <4>1 DEF Sound
      <4>3. QED
        BY <1>18, <4>2 DEF Indexed
    <3>3. QED
      BY <3>1, <3>2
  <2>2. QED
    BY <1>2, <1>18, <2>1 DEF Sound
<1>21. QED
  BY <1>6, <1>9, <1>18, <1>19, <1>20, BecomesKeeps DEF Good

\* An index goes from pages and catalog.
LEMMA DropIndexKeeps ==
  ASSUME IInv, DropIndex
  PROVE  IInv'
<1>1. PICK i \in DOMAIN mem.indexes :
        Becomes([disk EXCEPT !.indexes = Without(disk.indexes, i)],
                [mem EXCEPT !.indexes = Without(mem.indexes, i)])
  BY DEF DropIndex
<1> DEFINE J  == Without(disk.indexes, i)
           K  == Without(mem.indexes, i)
           d2 == [disk EXCEPT !.indexes = J]
           m2 == [mem EXCEPT !.indexes = K]
<1>2. /\ disk \in Disk /\ mem \in Catalog /\ Sound(disk) /\ Follows(disk, mem) /\ AllFresh(disk, mem)
  BY DEF IInv, Good
<1>3. /\ disk.tables \in Partial(Name, Table) /\ disk.indexes \in Partial(Index, Posted)
      /\ mem.tables \in Partial(Name, Known) /\ mem.indexes \in Partial(Index, Source)
      /\ disk = [tables |-> disk.tables, indexes |-> disk.indexes]
      /\ mem = [tables |-> mem.tables, indexes |-> mem.indexes]
  BY <1>2 DEF Disk, Catalog
<1>4. /\ J \in Partial(Index, Posted) /\ DOMAIN J = DOMAIN disk.indexes \ {i}
      /\ \A j \in DOMAIN disk.indexes \ {i} : J[j] = disk.indexes[j]
  BY <1>3, WithoutType DEF Without
<1>5. /\ K \in Partial(Index, Source) /\ DOMAIN K = DOMAIN mem.indexes \ {i}
      /\ \A j \in DOMAIN mem.indexes \ {i} : K[j] = mem.indexes[j]
  BY <1>3, WithoutType DEF Without
<1> HIDE DEF J, K
<1>6. d2 = [tables |-> disk.tables, indexes |-> J] /\ m2 = [tables |-> mem.tables, indexes |-> K]
  BY <1>3
<1>7. /\ d2 \in Disk /\ d2.tables = disk.tables /\ d2.indexes = J
      /\ m2 \in Catalog /\ m2.tables = mem.tables /\ m2.indexes = K
  BY <1>3, <1>4, <1>5, <1>6 DEF Disk, Catalog
<1>8. Becomes(d2, m2)
  BY <1>1 DEF J, K
<1> HIDE DEF d2, m2
<1>9. Follows(d2, m2) /\ AllFresh(d2, m2)
  BY <1>2, <1>4, <1>5, <1>7 DEF Follows, AllFresh
<1>10. Sound(d2)
  BY <1>2, <1>4, <1>7 DEF Sound, Indexed
<1>11. QED
  BY <1>7, <1>8, <1>9, <1>10, BecomesKeeps DEF Good

\* The pages become ones that were sound, and the catalog is loaded from them.
LEMMA LoadKeeps ==
  ASSUME IInv, NEW d \in Disk, Sound(d), disk' = d, mem' = Load(d),
         saved' = saved \/ saved' = <<>>, count' \in 0 .. MaxStatements
  PROVE  IInv'
<1>1. Good(d, Load(d)) /\ AllFresh(d, Load(d))
  BY LoadGood
<1>2. Good(disk, mem)' /\ AllFresh(disk, mem)'
  BY <1>1
<1>3. CASE saved' = saved
  BY <1>2, <1>3 DEF IInv
<1>4. CASE saved' = <<>>
  BY <1>2, <1>4, TablesAssumption DEF IInv
<1>5. QED
  BY <1>3, <1>4

\* Transactions: what they go back to was sound.
LEMMA TransactionKeeps ==
  ASSUME IInv, Begin \/ Commit \/ Savepoint \/ Release
  PROVE  IInv'
<1>1. /\ disk \in Disk /\ Sound(disk) /\ disk' = disk /\ mem' = mem /\ count' = count
      /\ saved \in Seq(Disk) /\ Len(saved) <= MaxSavepoints + 1 /\ Len(saved) \in Nat
      /\ \A k \in 1 .. Len(saved) : Sound(saved[k])
  BY DEF IInv, Good, Begin, Commit, Savepoint, Release
<1>2. /\ saved' \in Seq(Disk) /\ Len(saved') <= MaxSavepoints + 1
      /\ \A k \in 1 .. Len(saved') : Sound(saved'[k])
  <2>1. CASE Begin
    BY <1>1, <2>1, TablesAssumption DEF Begin
  <2>2. CASE Commit
    BY <1>1, <2>2, TablesAssumption DEF Commit
  <2>3. CASE Savepoint
    <3>1. saved' = Append(saved, disk) /\ Len(saved) <= MaxSavepoints
      BY <2>3 DEF Savepoint
    <3>2. /\ saved' \in Seq(Disk) /\ Len(saved') = Len(saved) + 1
          /\ \A k \in 1 .. Len(saved) : saved'[k] = saved[k]
          /\ saved'[Len(saved) + 1] = disk
      BY <1>1, <3>1
    <3>3. ASSUME NEW k \in 1 .. Len(saved') PROVE Sound(saved'[k])
      <4>1. k \in 1 .. Len(saved) \/ k = Len(saved) + 1
        BY <1>1, <3>2
      <4>2. QED
        BY <1>1, <3>2, <4>1
    <3>4. QED
      BY <1>1, <3>1, <3>2, <3>3, TablesAssumption
  <2>4. CASE Release
    <3>1. saved' = SubSeq(saved, 1, Len(saved) - 1) /\ Len(saved) - 1 \in 0 .. Len(saved)
      BY <1>1, <2>4 DEF Release, Front
    <3>2. /\ saved' \in Seq(Disk) /\ Len(saved') = Len(saved) - 1
          /\ \A k \in 1 .. Len(saved) - 1 : saved'[k] = saved[k]
      BY <1>1, <3>1, PrefixOfSeq
    <3>3. QED
      BY <1>1, <3>2, TablesAssumption
  <2>5. QED
    BY <2>1, <2>2, <2>3, <2>4
<1>3. QED
  BY <1>1, <1>2 DEF IInv

\* A rollback or a restart: the pages go back to what the transaction or savepoint started
\* from, and the catalog is loaded again.
LEMMA RollbackKeeps ==
  ASSUME IInv, RollbackTo \/ Rollback \/ Reopen
  PROVE  IInv'
<1>1. /\ disk \in Disk /\ Sound(disk) /\ count \in 0 .. MaxStatements
      /\ saved \in Seq(Disk) /\ Len(saved) \in Nat
      /\ \A k \in 1 .. Len(saved) : saved[k] \in Disk /\ Sound(saved[k])
  BY DEF IInv, Good
<1>2. saved # <<>> => Head(saved) \in Disk /\ Sound(Head(saved))
  BY <1>1
<1>3. Len(saved) > 1 => Last(saved) \in Disk /\ Sound(Last(saved))
  BY <1>1 DEF Last
<1>4. CASE RollbackTo
  BY <1>1, <1>3, <1>4, LoadKeeps DEF RollbackTo
<1>5. CASE Rollback
  BY <1>1, <1>2, <1>5, LoadKeeps DEF Rollback
<1>6. CASE Reopen
  <2>1. /\ disk' \in Disk /\ Sound(disk') /\ mem' = Load(disk') /\ saved' = <<>>
        /\ count' \in 0 .. MaxStatements
    BY <1>1, <1>2, <1>6, TablesAssumption DEF Reopen, Counted
  <2>2. QED
    BY <2>1, LoadKeeps
<1>7. QED
  BY <1>4, <1>5, <1>6

-----------------------------------------------------------------------------
(* The theorems.                                                           *)

\* The empty database is sound.
LEMMA InitIInv ==
  ASSUME Init
  PROVE  IInv
<1>1. disk = [tables |-> NoFunction, indexes |-> NoFunction] /\ mem = Load(disk)
      /\ saved = <<>> /\ count = 0
  BY DEF Init
<1>2. /\ NoFunction \in Partial(Name, Table) /\ NoFunction \in Partial(Index, Posted)
      /\ DOMAIN NoFunction = {}
  BY NoFunctionType
<1>3. disk \in Disk /\ disk.tables = NoFunction /\ disk.indexes = NoFunction
  BY <1>1, <1>2 DEF Disk
<1>4. Sound(disk)
  BY <1>2, <1>3 DEF Sound
<1>5. Good(disk, mem) /\ AllFresh(disk, mem)
  BY <1>1, <1>3, <1>4, LoadGood
<1>6. saved \in Seq(Disk) /\ Len(saved) = 0 /\ DOMAIN saved = {}
  BY <1>1
<1>7. QED
  BY <1>1, <1>5, <1>6, TablesAssumption DEF IInv

\* Every step keeps it sound.
LEMMA NextIInv ==
  ASSUME IInv, [Next]_vars
  PROVE  IInv'
<1>1. CASE UNCHANGED vars
  BY <1>1 DEF vars, IInv, Good, AllFresh, Sound, Follows
<1>2. CASE \E n \in Name : CreateTable(n)
  BY <1>2, CreateTableKeeps
<1>3. ASSUME NEW n \in DOMAIN mem.tables,
             \/ Insert(n) \/ Update(n) \/ Delete(n)
             \/ DropTable(n) \/ AddColumn(n) \/ DropColumn(n) \/ RenameColumn(n) \/ RenameTable(n)
             \/ CreateIndex(n)
      PROVE  IInv'
  BY <1>3, InsertKeeps, UpdateKeeps, DeleteKeeps, DropTableKeeps, AddColumnKeeps,
     DropColumnKeeps, RenameColumnKeeps, RenameTableKeeps, CreateIndexKeeps
<1>4. CASE DropIndex
  BY <1>4, DropIndexKeeps
<1>5. CASE Fails
  BY <1>5, FailsKeeps
<1>6. CASE Begin \/ Commit \/ Savepoint \/ Release
  BY <1>6, TransactionKeeps
<1>7. CASE RollbackTo \/ Rollback \/ Reopen
  BY <1>7, RollbackKeeps
<1>8. QED
  BY <1>1, <1>2, <1>3, <1>4, <1>5, <1>6, <1>7 DEF Next

\* Pages, catalog and what a transaction goes back to are sound in every state.
THEOREM Soundness == Spec => []IInv
<1>1. Init => IInv
  BY InitIInv
<1>2. IInv /\ [Next]_vars => IInv'
  BY NextIInv
<1>3. QED
  BY <1>1, <1>2, PTL DEF Spec

\* Sound pages have the types of the specification.
LEMMA TypeFollows ==
  ASSUME IInv
  PROVE  TypeOK
<1>1. disk \in Disk /\ Sound(disk)
  BY DEF IInv, Good
<1>2. ASSUME NEW n \in DOMAIN disk.tables
      PROVE  /\ n \in Name /\ disk.tables[n].columns \in Seq(Column)
             /\ IsInjective(disk.tables[n].columns)
             /\ disk.tables[n].next \in Nat \ {0}
             /\ DOMAIN disk.tables[n].rows \subseteq Id
             /\ \A id \in DOMAIN disk.tables[n].rows :
                  /\ disk.tables[n].rows[id].values \in Seq(Field)
                  /\ Len(disk.tables[n].rows[id].values) <= Len(disk.tables[n].columns)
  <2>1. disk.tables[n] \in Table /\ n \in Name /\ Whole(disk.tables[n])
    BY <1>1, TableType DEF Sound
  <2>2. QED
    BY <2>1, RowType DEF Columns, Whole, FitsIn
<1>3. \A i \in DOMAIN disk.indexes : i \in Index /\ disk.indexes[i].post \subseteq Value \X Id
  BY <1>1, TableType DEF Posted
<1>4. Len(saved) <= MaxSavepoints + 1 /\ count \in 0 .. MaxStatements
  BY DEF IInv
<1>5. QED
  BY <1>2, <1>3, <1>4 DEF TypeOK

\* Every table has the types of its schema record, and no row has more values than its
\* table has columns, whatever statements failed half way or were rolled back.
THEOREM TypeCorrect == Spec => []TypeOK
<1>1. IInv => TypeOK
  BY TypeFollows
<1>2. QED
  BY <1>1, Soundness, PTL

\* The catalog of the executor and the schema records of page 1 agree on tables, columns
\* and indexes, after every statement, failure, rollback and restart.
THEOREM CatalogCorrect == Spec => []CatalogCurrent
<1>1. ASSUME IInv
      PROVE  CatalogCurrent
  <2>1. TypeOK
    BY <1>1, TypeFollows
  <2>2. mem \in Catalog /\ Follows(disk, mem)
    BY <1>1 DEF IInv, Good
  <2>3. mem.indexes = Load(disk).indexes
    <3> DEFINE I == mem.indexes
               J == [i \in DOMAIN disk.indexes |->
                       [table |-> disk.indexes[i].table, column |-> disk.indexes[i].column]]
    <3>1. Load(disk).indexes = J
      BY DEF Load
    <3>2. I = [i \in DOMAIN I |-> I[i]] /\ DOMAIN I = DOMAIN disk.indexes
          /\ \A i \in DOMAIN I : I[i] \in Source
      BY <2>2, PartialType DEF Catalog, Follows
    <3>3. ASSUME NEW i \in DOMAIN I PROVE I[i] = J[i]
      BY <2>2, <3>2 DEF Follows, Source
    <3> HIDE DEF I
    <3>4. I = J
      BY <3>2, <3>3
    <3>5. QED
      BY <3>1, <3>4 DEF I
  <2>4. QED
    BY <2>1, <2>2, <2>3 DEF CatalogCurrent, Follows
<1>2. QED
  BY <1>1, Soundness, PTL

\* A key that an INSERT generates is above every key of its table, as long as the table is
\* the one that was created and no rollback or restart has loaded its counter again.
THEOREM FreshCorrect == Spec => []FreshUnlessReloaded
<1>1. ASSUME IInv
      PROVE  FreshUnlessReloaded
  BY <1>1 DEF IInv, Good, Follows, AllFresh, Fresh, FreshUnlessReloaded
<1>2. QED
  BY <1>1, Soundness, PTL

\* When keys are integers or generated, a row is found under its key, and each index that
\* nothing was renamed or dropped under has, for each value, the rows that have it.
THEOREM IndexCorrect ==
  ASSUME WholeKeys
  PROVE  Spec => []IndexIsExact
<1>1. ASSUME IInv
      PROVE  IndexIsExact
  <2>1. disk \in Disk /\ Sound(disk) /\ Follows(disk, mem)
    BY <1>1 DEF IInv, Good
  <2>2. \A n \in DOMAIN disk.tables : \A id \in DOMAIN disk.tables[n].rows :
          disk.tables[n].rows[id].key = id
    BY <2>1 DEF Sound, Whole, FitsIn
  <2>3. ASSUME NEW i \in DOMAIN disk.indexes, ~ disk.indexes[i].orphan,
               ~ disk.tables[disk.indexes[i].table].replaced, NEW v \in Value
        PROVE  {id \in Id : <<v, id>> \in disk.indexes[i].post} =
               {id \in DOMAIN disk.tables[disk.indexes[i].table].rows :
                  Get(mem.tables[disk.indexes[i].table].columns,
                      disk.tables[disk.indexes[i].table].rows[id], disk.indexes[i].column) = v}
    <3> DEFINE x == disk.indexes[i]
               t == disk.tables[x.table]
    <3>1. x.table \in DOMAIN disk.tables /\ Exact(t, x)
      BY <2>1, <2>3 DEF Sound, Indexed
    <3>2. t \in Table /\ mem.tables[x.table].columns = t.columns
      BY <2>1, <3>1, TableType DEF Follows
    <3>3. DOMAIN t.rows \subseteq Id
      BY <3>2, RowType
    <3> HIDE DEF x, t
    <3>4. {id \in Id : <<v, id>> \in x.post} =
          {id \in DOMAIN t.rows : Get(t.columns, t.rows[id], x.column) = v}
      BY <3>1, <3>3 DEF Exact
    <3>5. QED
      BY <3>2, <3>4 DEF x, t
  <2>4. QED
    BY <2>2, <2>3 DEF IndexIsExact
<1>2. QED
  BY <1>1, Soundness, PTL

=============================================================================

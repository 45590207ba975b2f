----------------------------- MODULE Conditions -----------------------------
(***************************************************************************)
(* WHERE: how a condition is parsed (src/sql/parser.rs) and how it is      *)
(* decided for a row (matches_condition, row_matches_resolved and          *)
(* sql_like_match of src/sql/executor.rs, Value::compare of src/traits.rs).*)
(*                                                                         *)
(* A state is a condition of one of three forms: a pattern and a text that *)
(* LIKE compares; conditions that AND, OR and parentheses join; or a value *)
(* and what it is compared with.                                           *)
(***************************************************************************)
EXTENDS Integers, Sequences, SequencesExt, FiniteSets, Functions

CONSTANTS
  MaxPattern,  \* bound: characters of a pattern, and of a text
  MaxWords     \* bound: words of a condition

ConditionsAssumption == MaxPattern \in Nat /\ MaxWords \in Nat

VARIABLES form, left, right

vars == <<form, left, right>>

-----------------------------------------------------------------------------
(* Values.  at orders the numbers, counted in halves, and the texts; texts  *)
(* and numbers are not comparable.                                          *)

SqlNull  == [type |-> "null", at |-> 0]
Values   == {SqlNull} \cup [type : {"integer"}, at : {2, 4}] \cup [type : {"real"}, at : {2, 3}]
                   \cup [type : {"text"}, at : {2, 3}]
IsNumber(v) == v.type \in {"integer", "real"}

Order == {"=", "<>", ">", "<", ">=", "<="}

\* Value::compare: -1, 0 or 1; SqlNull comes first, and a text and a number are equal.
Compare(a, b) ==
  IF SqlNull \in {a, b} \/ (IsNumber(a) /\ IsNumber(b)) \/ a.type = b.type
  THEN IF a.at < b.at THEN -1 ELSE IF a.at > b.at THEN 1 ELSE 0
  ELSE 0

\* matches_condition: equality is that of values, in which 1 is not 1.0.
Matches(a, op, b) ==
  CASE op = "is null"     -> a = SqlNull
    [] op = "is not null" -> a # SqlNull
    [] op \in Order ->
         /\ a # SqlNull /\ b # SqlNull
         /\ CASE op = "="  -> a = b
              [] op = "<>" -> a # b
              [] op = ">"  -> Compare(a, b) = 1
              [] op = "<"  -> Compare(a, b) = -1
              [] op = ">=" -> Compare(a, b) >= 0
              [] op = "<=" -> Compare(a, b) <= 0

\* Fault: the bound belongs to both.
NegatedLoosely(op) ==
  CASE op = "="  -> "<>" [] op = "<>" -> "="
    [] op = ">"  -> "<"  [] op = "<"  -> ">"
    [] op = ">=" -> "<=" [] op = "<=" -> ">="

\* parse_primary_where_expr: NOT before an operator.
Negated(op) ==
  CASE op = "="  -> "<>" [] op = "<>" -> "="
    [] op = ">"  -> "<=" [] op = "<"  -> ">="
    [] op = ">=" -> "<"  [] op = "<=" -> ">"

\* row_matches_resolved, of IN and NOT IN.
InList(a, values, negated) ==
  LET in == \E v \in values : Compare(a, v) = 0
  IN  /\ a # SqlNull
      /\ IF negated THEN SqlNull \notin values /\ ~ in ELSE in

\* The conditions on one value.
Decided(a, c) ==
  CASE c.kind = "is"      -> Matches(a, IF c.negated THEN "is not null" ELSE "is null", SqlNull)
    [] c.kind = "order"   -> Matches(a, IF c.negated THEN Negated(c.op) ELSE c.op, c.value)
    [] c.kind = "between" -> Matches(a, ">=", c.low) /\ Matches(a, "<=", c.high)
    [] c.kind = "in"      -> InList(a, c.values, c.negated)

Condition ==
  [kind : {"is"}, negated : BOOLEAN]
    \cup [kind : {"order"}, op : Order, value : Values, negated : BOOLEAN]
    \cup [kind : {"between"}, low : Values, high : Values]
    \cup [kind : {"in"}, values : {S \in SUBSET Values : Cardinality(S) \in {1, 2}}, negated : BOOLEAN]

-----------------------------------------------------------------------------
(* sql_like_match: p and t are the next characters of the pattern and of    *)
(* the text, star the last % of the pattern that was passed, and from the   *)
(* character of the text up to which it reaches.                            *)

RECURSIVE Scan(_, _, _)
Scan(pattern, string, s) ==
  IF s.t > Len(string)
  THEN \A k \in s.p .. Len(pattern) : pattern[k] = "%"
  ELSE IF s.p <= Len(pattern) /\ pattern[s.p] \in {"_", string[s.t]}
  THEN Scan(pattern, string, [s EXCEPT !.p = @ + 1, !.t = @ + 1])
  ELSE IF s.p <= Len(pattern) /\ pattern[s.p] = "%"
  THEN Scan(pattern, string, [s EXCEPT !.p = @ + 1, !.star = s.p, !.from = s.t])
  ELSE /\ s.star # 0
       /\ Scan(pattern, string, [s EXCEPT !.p = s.star + 1, !.t = s.from + 1, !.from = @ + 1])

Like(pattern, string) == Scan(pattern, string, [p |-> 1, t |-> 1, star |-> 0, from |-> 1])

-----------------------------------------------------------------------------
(* parse_or_expr, parse_and_expr and parse_primary_where_expr.  A condition *)
(* on a value is the word "c", and what is parsed is the set of the sets of *)
(* such words that have to hold for it to hold.                             *)

Worlds  == SUBSET (1 .. MaxWords)
Refused == [ok |-> FALSE, at |-> 0, holds |-> {}]
Word(ws, k) == IF k \in DOMAIN ws THEN ws[k] ELSE "end"

RECURSIVE ParseOr(_, _)
ParsePrimary(ws, k) ==
  CASE Word(ws, k) = "c" -> [ok |-> TRUE, at |-> k + 1, holds |-> {W \in Worlds : k \in W}]
    [] Word(ws, k) = "(" -> LET inner == ParseOr(ws, k + 1)
                            IN  IF inner.ok /\ Word(ws, inner.at) = ")"
                                THEN [inner EXCEPT !.at = @ + 1] ELSE Refused
    [] Word(ws, k) \notin {"c", "("} -> Refused

RECURSIVE MoreAnds(_, _)
MoreAnds(ws, l) ==
  IF ~ l.ok \/ Word(ws, l.at) # "and" THEN l
  ELSE LET r == ParsePrimary(ws, l.at + 1)
       IN  MoreAnds(ws, [r EXCEPT !.holds = @ \cap l.holds])
ParseAnd(ws, k) == MoreAnds(ws, ParsePrimary(ws, k))

RECURSIVE MoreOrs(_, _)
MoreOrs(ws, l) ==
  IF ~ l.ok \/ Word(ws, l.at) # "or" THEN l
  ELSE LET r == ParseAnd(ws, l.at + 1)
       IN  MoreOrs(ws, [r EXCEPT !.holds = @ \cup l.holds])
ParseOr(ws, k) == MoreOrs(ws, ParseAnd(ws, k))

\* parse_tokens refuses words that are left over.
Parsed(ws) ==
  LET r == ParseOr(ws, 1)
  IN  IF r.ok /\ r.at = Len(ws) + 1 THEN r ELSE Refused

-----------------------------------------------------------------------------
Init ==
  \/ form = "like" /\ left = <<>> /\ right = <<>>
  \/ form = "words" /\ left = <<>> /\ right = <<>>
  \/ form = "value" /\ left \in Values /\ right \in Condition

Next ==
  /\ UNCHANGED form
  /\ \/ /\ form = "like" /\ right = <<>> /\ Len(left) < MaxPattern
        /\ \E c \in {"a", "b", "%", "_"} : left' = Append(left, c)
        /\ UNCHANGED right
     \/ /\ form = "like" /\ Len(right) < MaxPattern
        /\ \E c \in {"a", "b", "%"} : right' = Append(right, c)
        /\ UNCHANGED left
     \/ /\ form = "words" /\ Len(left) < MaxWords
        /\ \E w \in {"c", "and", "or", "(", ")"} : left' = Append(left, w)
        /\ UNCHANGED right

-----------------------------------------------------------------------------
(* What conditions mean.                                                    *)

\* A text is like a pattern, cut in two: what its first character matches and the rest.
RECURSIVE IsLike(_, _)
IsLike(pattern, string) ==
  IF pattern = <<>> THEN string = <<>>
  ELSE IF Head(pattern) = "%"
  THEN \E k \in 0 .. Len(string) : IsLike(Tail(pattern), SubSeq(string, k + 1, Len(string)))
  ELSE /\ string # <<>> /\ Head(pattern) \in {"_", Head(string)}
       /\ IsLike(Tail(pattern), Tail(string))

\* OR binds least, then AND: a condition is cut at one that is outside parentheses.
DepthAt(ws, k) ==
  Cardinality({j \in 1 .. k : ws[j] = "("}) - Cardinality({j \in 1 .. k : ws[j] = ")"})
Cuts(ws, w) == {k \in DOMAIN ws : ws[k] = w /\ DepthAt(ws, k) = 0}

RECURSIVE Meaning(_, _)
Meaning(ws, offset) ==
  LET Part(a, b) == Meaning(SubSeq(ws, a, b), offset + a - 1)
      Cut(w) == LET k == CHOOSE j \in Cuts(ws, w) : TRUE
                    l == Part(1, k - 1)
                    r == Part(k + 1, Len(ws))
                IN  [ok |-> l.ok /\ r.ok,
                     holds |-> IF w = "or" THEN l.holds \cup r.holds ELSE l.holds \cap r.holds]
  IN  IF Cuts(ws, "or") # {} THEN Cut("or")
      ELSE IF Cuts(ws, "and") # {} THEN Cut("and")
      ELSE IF ws = <<"c">> THEN [ok |-> TRUE, holds |-> {W \in Worlds : offset + 1 \in W}]
      ELSE IF Len(ws) > 2 /\ Head(ws) = "(" /\ Last(ws) = ")" THEN Part(2, Len(ws) - 1)
      ELSE [ok |-> FALSE, holds |-> {}]

\* Three truth values, of which only TRUE lets a row pass.
Not3(x) == CASE x = "true" -> "false" [] x = "false" -> "true" [] x = "unknown" -> x
And3(S) == IF "false" \in S THEN "false" ELSE IF "unknown" \in S THEN "unknown" ELSE "true"
Or3(S)  == Not3(And3({Not3(x) : x \in S}))
Truth(b) == IF b THEN "true" ELSE "false"

Holds3(a, op, b) ==
  IF SqlNull \in {a, b} THEN "unknown"
  ELSE CASE op = "="  -> Truth(a.at = b.at)
         [] op = "<>" -> Truth(a.at # b.at)
         [] op = ">"  -> Truth(a.at > b.at)
         [] op = "<"  -> Truth(a.at < b.at)
         [] op = ">=" -> Truth(a.at >= b.at)
         [] op = "<=" -> Truth(a.at <= b.at)

Meant(a, c) ==
  LET plain == CASE c.kind = "is"      -> Truth(a = SqlNull)
                 [] c.kind = "order"   -> Holds3(a, c.op, c.value)
                 [] c.kind = "between" -> And3({Holds3(a, ">=", c.low), Holds3(a, "<=", c.high)})
                 [] c.kind = "in"      -> Or3({Holds3(a, "=", v) : v \in c.values})
  IN  IF c.kind # "between" /\ c.negated THEN Not3(plain) ELSE plain

Operands(c) == CASE c.kind = "is" -> {} [] c.kind = "order" -> {c.value}
                 [] c.kind = "between" -> {c.low, c.high} [] c.kind = "in" -> c.values

\* A text and a number; and an integer and a real that are asked to be equal.
Mixed(a, c) ==
  \E b \in Operands(c) \ {SqlNull} :
    /\ a # SqlNull
    /\ \/ IsNumber(a) # IsNumber(b)
       \/ c.kind = "order" /\ c.op \in {"=", "<>"} /\ a.type # b.type

(***************************************************************************)
(* A row passes a condition exactly if the condition is true of it: LIKE   *)
(* matches what its pattern describes, AND binds more than OR, and NULL    *)
(* makes a comparison, a list and their negations unknown.  Excepted are a *)
(* % in a text, and values of different types.                             *)
(***************************************************************************)
ConditionsAreRight ==
  CASE form = "like"  -> Contains(right, "%") \/ Like(left, right) = IsLike(left, right)
    [] form = "words" -> /\ Parsed(left).ok = Meaning(left, 0).ok
                         /\ Parsed(left).ok => Parsed(left).holds = Meaning(left, 0).holds
    [] form = "value" -> Mixed(left, right) \/ Decided(left, right) = (Meant(left, right) = "true")

\* The same for every text, and for values of different types.
LikeAlwaysMatches == form = "like" => Like(left, right) = IsLike(left, right)
MixedAreRight     == form = "value" => Decided(left, right) = (Meant(left, right) = "true")
=============================================================================

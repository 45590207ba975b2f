------------------------------- MODULE Lexer -------------------------------
(***************************************************************************)
(* The lexer (src/sql/lexer.rs), and the text that a view is kept as:      *)
(* CREATE VIEW stores the tokens of its query as text again                *)
(* (tokens_to_sql of src/sql/parser.rs), and every use of the view reads   *)
(* that text.                                                              *)
(*                                                                         *)
(* A text is a sequence of characters, of which Alphabet holds one or two  *)
(* of each class that the lexer tells apart; keywords are words.           *)
(***************************************************************************)
EXTENDS Integers, Sequences, SequencesExt

CONSTANTS
  Alphabet,  \* characters
  MaxText    \* bound: characters of a text

LexerAssumption == MaxText \in Nat

VARIABLE text

Init == text = <<>>

Next == /\ Len(text) < MaxText
        /\ \E c \in Alphabet : text' = Append(text, c)

-----------------------------------------------------------------------------
(* Tokens: [kind, text], the text of a string without its quotes and       *)
(* escapes, that of a number as it is printed.                              *)

Word(cs)   == [kind |-> "word", text |-> cs]
Symbol(cs) == [kind |-> "symbol", text |-> cs]
Str(cs)    == [kind |-> "string", text |-> cs]
Whole(cs)  == [kind |-> "integer", text |-> cs]
Float(cs)  == [kind |-> "float", text |-> cs]

Quote == {"'", "\""}
Digit == {"1"}
Letter == {"a", "n", "t", "_"}

At(cs, k) == IF k \in DOMAIN cs THEN cs[k] ELSE "end"

\* The first of the positions k, k + 1, ... that does not hold one of S.
After(cs, k, S) == CHOOSE j \in k .. Len(cs) + 1 :
                     At(cs, j) \notin S /\ \A i \in k .. j - 1 : cs[i] \in S

-----------------------------------------------------------------------------
(* tokenize.                                                                *)

Escapes == {"n", "t", "r", "0", "\\"}
Escaped(c) == CASE c = "n" -> "newline" [] c = "t" -> "tab" [] c = "r" -> "return"
                [] c = "0" -> "nul" [] OTHER -> c

\* A string literal from behind its quote q: its text, and the position behind it, or 0.
RECURSIVE Literal(_, _, _, _)
Literal(cs, k, q, read) ==
  LET c == At(cs, k)
      d == At(cs, k + 1)
  IN  IF c = "end" THEN [text |-> read, next |-> 0]
      ELSE IF c = q /\ d = q THEN Literal(cs, k + 2, q, Append(read, q))
      ELSE IF c = q THEN [text |-> read, next |-> k + 1]
      ELSE IF c = "\\" /\ d # "end"
           THEN Literal(cs, k + 2, q,
                        IF d \in Escapes \cup {q} THEN Append(read, Escaped(d))
                        ELSE read \o <<c, d>>)
      ELSE Literal(cs, k + 1, q, Append(read, c))

\* What a float is printed as: without a point when it is whole.
Printed(cs) == IF Last(cs) = "." THEN Front(cs) ELSE cs

\* A number of digits and points; of more than one point none can be made.
Number(cs, from, to) ==
  LET digits == SubSeq(cs, from, to - 1)
      points == SelectSeq(digits, LAMBDA c : c = ".")
  IN  IF Len(points) > 1 THEN <<>>
      ELSE IF points = <<>> THEN <<Whole(digits)>>
      ELSE <<Float(Printed(digits))>>

\* Behind a block comment, or at the end.
CommentEnd(cs, k) ==
  LET ends == {j \in k .. Len(cs) - 1 : cs[j] = "*" /\ cs[j + 1] = "/"}
  IN  IF ends = {} THEN Len(cs) + 1 ELSE 2 + CHOOSE j \in ends : \A i \in ends : j <= i

Pair == {<<"-", ">">>, <<"!", "=">>, <<"<", "=">>, <<">", "=">>, <<"<", ">">>}
Single == {"(", ")", "[", "]", ",", ";", "=", "?", "*", ".", ":", "<", ">", "-"}

Named(cs) == IF cs = <<"<", ">">> THEN Symbol(<<"!", "=">>) ELSE Symbol(cs)

\* The token, if any, and the position behind it, or 0 for an error.
Lexeme(cs, k) ==
  LET c == cs[k]
      d == At(cs, k + 1)
      number == c \in Digit \/ (c = "-" /\ d \in Digit)
      end == After(cs, IF c = "-" THEN k + 1 ELSE k, Digit \cup {"."})
      word == After(cs, k, Letter \cup Digit)
  IN  CASE c \in {" ", "newline"}   -> [token |-> <<>>, next |-> k + 1]
        [] c = "-" /\ d = "-"       -> [token |-> <<>>, next |-> After(cs, k, Alphabet \ {"newline"})]
        [] c = "/" /\ d = "*"       -> [token |-> <<>>, next |-> CommentEnd(cs, k + 2)]
        [] <<c, d>> \in Pair        -> [token |-> <<Named(<<c, d>>)>>, next |-> k + 2]
        [] number                   -> [token |-> Number(cs, k, end),
                                        next |-> IF Number(cs, k, end) = <<>> THEN 0 ELSE end]
        [] c \in Single /\ ~ number /\ <<c, d>> \notin Pair /\ <<c, d>> # <<"-", "-">>
                                    -> [token |-> <<Symbol(<<c>>)>>, next |-> k + 1]
        [] c \in Quote              -> LET l == Literal(cs, k + 1, c, <<>>)
                                       IN  [token |-> <<Str(l.text)>>, next |-> l.next]
        [] c \in Letter             -> [token |-> <<Word(SubSeq(cs, k, word - 1))>>, next |-> word]
        [] OTHER                    -> [token |-> <<>>, next |-> 0]

RECURSIVE TokensFrom(_, _, _)
TokensFrom(cs, k, read) ==
  IF k > Len(cs) THEN [ok |-> TRUE, tokens |-> read]
  ELSE LET l == Lexeme(cs, k)
       IN  IF l.next = 0 THEN [ok |-> FALSE, tokens |-> <<>>]
           ELSE TokensFrom(cs, l.next, read \o l.token)

Tokenize(cs) == TokensFrom(cs, 1, <<>>)

-----------------------------------------------------------------------------
(* tokens_to_sql.                                                           *)

Doubled(cs) == FlattenSeq([k \in DOMAIN cs |-> IF cs[k] = "'" THEN <<"'", "'">> ELSE <<cs[k]>>])

\* Fault: a quote in a string is written as it is.
RenderUndoubled(t) == IF t.kind = "string" THEN <<"'">> \o t.text \o <<"'">> ELSE t.text

Render(t) == IF t.kind = "string" THEN <<"'">> \o Doubled(t.text) \o <<"'">> ELSE t.text

Is(t, cs) == t.kind = "symbol" /\ t.text \in {<<c>> : c \in cs}

TokensToSql(ts) ==
  FlattenSeq([k \in DOMAIN ts |->
    IF k = 1 \/ Is(ts[k], {",", ";", ")", "]", "."}) \/ Is(ts[k - 1], {"(", "[", "."})
    THEN Render(ts[k]) ELSE <<" ">> \o Render(ts[k])])

-----------------------------------------------------------------------------
(* Properties.                                                              *)

\* Tokens whose text is read as something else: a float that is whole is read as an
\* integer, and a string with a backslash that the lexer takes for an escape.
IsWhole(t) == t.kind = "float" /\ ~ Contains(t.text, ".")
Escaping(t) ==
  t.kind = "string" /\ \E k \in DOMAIN t.text :
    t.text[k] = "\\" /\ At(t.text, k + 1) \in Escapes \cup {"'", "end"}

\* A number with a point behind it, which no statement has.
Pointed(ts) ==
  \E k \in DOMAIN ts : ts[k].kind \in {"integer", "float"} /\ Is(At(ts \o <<Word(<<>>)>>, k + 1), {"."})

ReadsBack(cs) == Tokenize(TokensToSql(Tokenize(cs).tokens)).tokens = Tokenize(cs).tokens

(***************************************************************************)
(* The text that a view is kept as has the tokens of the query that it was *)
(* made of, whatever comments, blanks, quotes, signs and operators the     *)
(* query was written with, and whatever stands beside what.                *)
(***************************************************************************)
ViewReadsBack ==
  LET ts == Tokenize(text).tokens
  IN  \/ ~ Tokenize(text).ok
      \/ Pointed(ts) \/ \E t \in ToSet(ts) : IsWhole(t) \/ Escaping(t)
      \/ ReadsBack(text)

\* What CREATE VIEW is for: the same without the exceptions.
EveryViewReadsBack == Tokenize(text).ok /\ ~ Pointed(Tokenize(text).tokens) => ReadsBack(text)
=============================================================================

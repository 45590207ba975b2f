------------------------------- MODULE Codec -------------------------------
(***************************************************************************)
(* Rows as bytes (src/sql/codec.rs, src/btree/varint.rs), and the values   *)
(* that a column takes in (coerce_value of src/sql/catalog.rs).            *)
(*                                                                         *)
(* A byte has Byte values (256) and half as many in a byte of a varint     *)
(* that is followed by another; a varint has VarintBytes bytes (9) at      *)
(* most.  Integers, reals and the dimensions of a vector keep the number   *)
(* of bytes that they have in the code.                                    *)
(***************************************************************************)
EXTENDS Integers, Sequences, SequencesExt

CONSTANTS
  Byte, VarintBytes,
  Precision,  \* bits of a real's significand (53 in the code)
  Real,       \* reals of the rows, which their opposites join,
  Length,     \* lengths of texts and blobs,
  Dimensions, \* and of vectors
  MaxColumns, \* bound: values of a row
  MaxNumeral  \* bound: characters of the texts that are coerced

CodecAssumption ==
  /\ Byte \in Nat \ {0} /\ Byte % 2 = 0 /\ VarintBytes \in Nat \ {0, 1}
  /\ Precision \in Nat \ {0}
  /\ {MaxColumns, MaxNumeral} \subseteq Nat /\ Real \cup Length \cup Dimensions \subseteq Nat

VARIABLE row

SqlNull == [kind |-> "null"]
Whole(n)     == [kind |-> "integer", value |-> n]
Float(n)   == [kind |-> "real", value |-> n]
Text(bs)   == [kind |-> "text", value |-> bs]
Blob(bs)   == [kind |-> "blob", value |-> bs]
Vector(fs) == [kind |-> "vector", value |-> fs]

\* Some bytes or floats; that they differ shows a value read at a wrong place.
Filled(n) == [i \in 1 .. n |-> i % Byte]

\* The numbers at the edges of the widths that integers are kept in.
Edges == LET top(width) == Byte^width \div 2
         IN  {0, 1, 2, -top(8), top(8) - 1}
               \cup UNION {{-top(w) - 1, -top(w), top(w) - 1, top(w)} : w \in {1, 2, 4}}

Value == {SqlNull} \cup {Whole(n) : n \in Edges} \cup {Float(n) : n \in Real \cup {-n : n \in Real}}
           \cup {Text(Filled(n)) : n \in Length} \cup {Blob(Filled(n)) : n \in Length}
           \cup {Vector(Filled(n)) : n \in Dimensions}

Init == row = <<>>
Next == Len(row) < MaxColumns /\ \E v \in Value : row' = Append(row, v)

-----------------------------------------------------------------------------
(* Numbers as bytes.                                                        *)

\* to_le_bytes of a number of width bytes, and back.
Bytes(n, width) == [i \in 1 .. width |-> (n \div Byte^(i - 1)) % Byte]
Unsigned(bs) == FoldRight(LAMBDA b, n : b + Byte * n, bs, 0)
Signed(bs) == LET n == Unsigned(bs)
              IN  IF 2 * n < Byte^Len(bs) THEN n ELSE n - Byte^Len(bs)

Holds(width, n) == -(Byte^width) <= 2 * n /\ 2 * n < Byte^width

Half == Byte \div 2
More(b) == b + Half \* another byte follows

\* The digits of n with base Half, the last in front.
RECURSIVE Digits(_)
Digits(n) == IF n < Half THEN <<n>> ELSE Append(Digits(n \div Half), n % Half)

\* Fault: the last of the bytes that a number can have is read like the others.
VarintEven(n) == LET ds == Digits(n)
                 IN  [i \in 1 .. Len(ds) |-> IF i < Len(ds) THEN More(ds[i]) ELSE ds[i]]

\* encode_varint.
Varint(n) ==
  IF n < Half^(VarintBytes - 1) THEN VarintEven(n)
  ELSE Append([i \in 1 .. VarintBytes - 1 |->
                 More((n \div (Byte * Half^(VarintBytes - 1 - i))) % Half)], n % Byte)

\* decode_varint: the number and the bytes read, which are 0 where the input ends.
RECURSIVE VarintAt(_, _, _, _)
VarintAt(bs, k, read, n) ==
  IF k > Len(bs) THEN [value |-> n, bytes |-> 0]
  ELSE IF read = VarintBytes - 1 THEN [value |-> n * Byte + bs[k], bytes |-> VarintBytes]
  ELSE IF bs[k] < Half THEN [value |-> n * Half + bs[k], bytes |-> read + 1]
  ELSE VarintAt(bs, k + 1, read + 1, n * Half + (bs[k] % Half))
ReadVarint(bs, k) == VarintAt(bs, k, 0, 0)

-----------------------------------------------------------------------------
(* Rows.                                                                    *)

WidthOf == [int8 |-> 1, int16 |-> 2, int32 |-> 4, int64 |-> 8, real |-> 8]

Tag(v) ==
  CASE v.kind # "integer" -> v.kind
    [] v.kind = "integer" /\ v.value \in {0, 1} -> IF v.value = 0 THEN "int0" ELSE "int1"
    [] OTHER -> LET w == CHOOSE w \in {1, 2, 4, 8} :
                           Holds(w, v.value) /\ \A x \in {1, 2, 4, 8} : x < w => ~ Holds(x, v.value)
                IN  CHOOSE t \in {"int8", "int16", "int32", "int64"} : WidthOf[t] = w

Body(v) ==
  LET t == Tag(v)
  IN  CASE t \in DOMAIN WidthOf     -> Bytes(v.value, WidthOf[t])
        [] t \in {"text", "blob"} -> Varint(Len(v.value)) \o v.value
        [] t = "vector"           -> Bytes(Len(v.value), 2) \o FlattenSeq([i \in DOMAIN v.value |-> Bytes(v.value[i], 4)])
        [] OTHER                  -> <<>>

\* encode_row_into.  Tags are bytes too, and kept by their names.
Encode(values) == Varint(Len(values)) \o [i \in DOMAIN values |-> Tag(values[i])]
                    \o FlattenSeq([i \in DOMAIN values |-> Body(values[i])])

\* Where a value with tag t that begins at k ends, or 0 where that cannot be read.
EndOf(bs, t, k) ==
  LET length == ReadVarint(bs, k)
  IN  CASE t \in DOMAIN WidthOf     -> k + WidthOf[t]
        [] t \in {"text", "blob"} -> IF length.bytes = 0 THEN 0 ELSE k + length.bytes + length.value
        [] t = "vector"           -> IF k + 1 > Len(bs) THEN 0 ELSE k + 2 + 4 * Unsigned(SubSeq(bs, k, k + 1))
        [] OTHER                  -> k

ValueAt(bs, t, k) ==
  LET end == EndOf(bs, t, k)
  IN  CASE t \in {"int8", "int16", "int32", "int64"} -> Whole(Signed(SubSeq(bs, k, end - 1)))
        [] t = "int0"   -> Whole(0)
        [] t = "int1"   -> Whole(1)
        [] t = "real"   -> Float(Signed(SubSeq(bs, k, end - 1)))
        [] t = "text"   -> Text(SubSeq(bs, k + ReadVarint(bs, k).bytes, end - 1))
        [] t = "blob"   -> Blob(SubSeq(bs, k + ReadVarint(bs, k).bytes, end - 1))
        [] t = "vector" -> Vector([i \in 1 .. (end - k - 2) \div 4 |->
                                     Unsigned(SubSeq(bs, k + 4 * i - 2, k + 4 * i + 1))])
        [] OTHER        -> SqlNull

Needed(mask, i) == i \in DOMAIN mask => mask[i]

\* One column: a value that is not needed is skipped and not looked at.  A cursor that a
\* skipped value has left behind the end of the bytes is one that slicing panics at.
Column(bs, tags, mask, s, i) ==
  LET t   == tags[i]
      end == EndOf(bs, t, s.cursor)
  IN  IF s.result # "ok" THEN s
      ELSE IF t \in {"text", "blob"} /\ s.cursor > Len(bs) + 1 THEN [s EXCEPT !.result = "panic"]
      ELSE IF end = 0 \/ (Needed(mask, i) /\ end > s.cursor /\ end > Len(bs) + 1)
      THEN [s EXCEPT !.result = "refused"]
      ELSE [s EXCEPT !.cursor = end,
                     !.values = Append(@, IF Needed(mask, i) THEN ValueAt(bs, t, s.cursor) ELSE SqlNull)]

\* decode_row_values_into_projected, with the tags in bytes of their own.
Decode(bs, mask) ==
  LET count == ReadVarint(bs, 1)
      first == count.bytes + count.value + 1
      start == [result |-> "ok", values |-> <<>>, cursor |-> first]
      tags  == SubSeq(bs, count.bytes + 1, first - 1)
  IN  IF bs = <<>> THEN [start EXCEPT !.values = <<>>]
      ELSE IF count.bytes = 0 \/ first > Len(bs) + 1 THEN [start EXCEPT !.result = "refused"]
      ELSE FoldLeft(LAMBDA s, i : Column(bs, tags, mask, s, i), start, [i \in 1 .. count.value |-> i])

\* decode_row_shared_projected: columns that were added since are NULL.
DecodeRow(bs, mask, columns) ==
  LET d == Decode(bs, mask)
  IN  IF Len(d.values) >= columns THEN d
      ELSE [d EXCEPT !.values = @ \o [i \in 1 .. columns - Len(d.values) |-> SqlNull]]

-----------------------------------------------------------------------------
(* coerce_value.  Reals count in halves, and have Precision bits; infinite *)
(* ones, and those with an exponent, are left out.  Numerals have the       *)
(* digits 0 and 1, so that the characters of a numeral are 0, 1, the point  *)
(* and the sign.                                                            *)

\* The real nearest to n halves; of two as near, the one whose last bit is 0.
Rounded(n) ==
  LET size  == IF n < 0 THEN -n ELSE n
      bits  == CHOOSE k \in 0 .. size :
                 size \div 2^k < 2^Precision /\ \A j \in 0 .. k - 1 : size \div 2^j >= 2^Precision
      unit  == 2^bits
      lower == unit * (size \div unit)
      up    == \/ 2 * (size % unit) > unit
               \/ 2 * (size % unit) = unit /\ (lower \div unit) % 2 = 1
      near  == IF up THEN lower + unit ELSE lower
  IN  IF n < 0 THEN -near ELSE near

\* i64::MIN and MAX.
MinInteger == -(Byte^8 \div 2)
MaxInteger == Byte^8 \div 2 - 1

Point == 2
Minus == 3

RECURSIVE Positive(_)
Positive(n) == IF n < 2 THEN <<n>> ELSE Append(Positive(n \div 2), n % 2)
Numeral(n) == IF n < 0 THEN <<Minus>> \o Positive(-n) ELSE Positive(n)
RealNumeral(halves) ==
  LET size == IF halves < 0 THEN -halves ELSE halves
  IN  (IF halves < 0 THEN <<Minus>> ELSE <<>>) \o Positive(size \div 2)
        \o (IF size % 2 = 1 THEN <<Point, 1>> ELSE <<>>)

Refused == [kind |-> "refused"]

\* str::parse of an integer, and of a real, in halves.
FromDigits(ds) == FoldLeft(LAMBDA n, d : 2 * n + d, 0, ds)
Unsign(bs) == IF bs # <<>> /\ bs[1] = Minus THEN SubSeq(bs, 2, Len(bs)) ELSE bs
Sign(bs, n) == IF Unsign(bs) = bs THEN n ELSE -n
AreDigits(ds) == \A i \in DOMAIN ds : ds[i] \in {0, 1}

ParseInteger(bs) ==
  LET ds == Unsign(bs)
      n  == Sign(bs, FromDigits(ds))
  IN  IF ds # <<>> /\ AreDigits(ds) /\ n \in MinInteger .. MaxInteger THEN Whole(n) ELSE Refused

\* The number that a numeral stands for, in halves, and the real that is read for it.
Halves(bs) ==
  LET ds     == Unsign(bs)
      points == {i \in DOMAIN ds : ds[i] = Point}
      point  == IF points = {} THEN Len(ds) + 1 ELSE CHOOSE i \in points : TRUE
      whole  == SubSeq(ds, 1, point - 1)
      part   == SubSeq(ds, point + 1, Len(ds))
  IN  IF AreDigits(whole) /\ AreDigits(part) /\ Len(whole) + Len(part) > 0
      THEN {Sign(bs, 2 * FromDigits(whole) + FromDigits(part))}
      ELSE {}
ParseReal(bs) == IF Halves(bs) = {} THEN Refused ELSE Float(Rounded(CHOOSE n \in Halves(bs) : TRUE))

\* Fault: any whole real is cast, and the cast saturates.
ToIntegerUnbounded(n) ==
  LET whole == n \div 2
  IN  IF n % 2 # 0 THEN Refused
      ELSE Whole(IF whole > MaxInteger THEN MaxInteger ELSE IF whole < MinInteger THEN MinInteger ELSE whole)

\* A real is taken for an integer when it is whole and not beyond i64::MAX as f64, which
\* is the real above i64::MAX: the cast then gives i64::MAX.
ToInteger(n) ==
  IF n % 2 = 0 /\ Rounded(2 * MinInteger) <= n /\ n <= Rounded(2 * MaxInteger)
  THEN Whole(IF n \div 2 > MaxInteger THEN MaxInteger ELSE n \div 2) ELSE Refused

Coerce(type, v) ==
  CASE v.kind \in {"null", type} -> v
    [] type = "integer" /\ v.kind = "real" -> ToInteger(v.value)
    [] type = "integer" /\ v.kind = "text" -> ParseInteger(v.value)
    [] type = "real" /\ v.kind = "integer" -> Float(Rounded(2 * v.value))
    [] type = "real" /\ v.kind = "text"    -> ParseReal(v.value)
    [] type = "text" /\ v.kind = "integer" -> Text(Numeral(v.value))
    [] type = "text" /\ v.kind = "real"    -> Text(RealNumeral(v.value))
    [] OTHER -> Refused

-----------------------------------------------------------------------------
(* Properties.                                                              *)

Masks == UNION {[1 .. n -> BOOLEAN] : n \in 0 .. Len(row)}
Seen(mask) == [i \in DOMAIN row |-> IF Needed(mask, i) THEN row[i] ELSE SqlNull]

\* The longest vector that its field can count (65 535 dimensions), and numbers that a
\* varint of VarintBytes bytes can hold.
Fits == \A i \in DOMAIN row : row[i].kind = "vector" => Len(row[i].value) < Byte * Byte

(***************************************************************************)
(* A row is read as it was written, whatever numbers and lengths sit at    *)
(* the edge of a width, and whichever columns a query skips: those are     *)
(* NULL, and so are columns added since.  A row whose bytes end early is   *)
(* refused when every column is read.                                      *)
(***************************************************************************)
RowsReadBack ==
  Fits => /\ \A mask \in Masks :
               DecodeRow(Encode(row), mask, MaxColumns)
                 = [result |-> "ok", cursor |-> Len(Encode(row)) + 1,
                    values |-> Seen(mask) \o [i \in 1 .. MaxColumns - Len(row) |-> SqlNull]]
          /\ \A n \in 1 .. Len(Encode(row)) - 1 : Decode(SubSeq(Encode(row), 1, n), <<>>).result = "refused"

Numerals == {bs \in SeqOf(0 .. Minus, MaxNumeral) : \A i \in DOMAIN bs : bs[i] = Point => i >= Len(bs) - 1}

\* The number, in halves, that a value stands for, if it does.
Number(v) == CASE v.kind = "integer" -> {2 * v.value}
               [] v.kind = "real"    -> {v.value}
               [] v.kind = "text"    -> Halves(v.value)
               [] OTHER              -> {}

\* Reals around the integers at the edges; what a column may be given.
EdgeReals == {Float(Rounded(2 * n)) : n \in Edges \cup {e + e \div 2^(Precision - 1) : e \in Edges}}
Given     == Value \cup EdgeReals \cup {Text(bs) : bs \in Numerals}

Distance(m, n) == IF m < n THEN n - m ELSE m - n
IsReal(n) == \E k \in 0 .. 2 * Precision :
               n % 2^k = 0 /\ n \div 2^k \in -(2^Precision) .. 2^Precision
TooLarge(v) == v.kind = "real" /\ v.value = 2 * (MaxInteger + 1)

(***************************************************************************)
(* A value that a column of numbers or of text takes in is taken in again  *)
(* as it is: the value that an insert announces, checks against the        *)
(* indexes and stores is one.  A column of integers keeps the number       *)
(* exactly, except that i64::MAX + 1 becomes i64::MAX.  A column of reals  *)
(* keeps it exactly where it is a real, and else stores one to which no    *)
(* other real is nearer.  A column of text keeps what is read back as the  *)
(* number that was given.                                                  *)
(***************************************************************************)
CoercionKeepsNumbers ==
  row = <<>> =>
    \A type \in {"integer", "real", "text"}, v \in Given :
      LET c == Coerce(type, v)
      IN  c # Refused =>
            /\ Coerce(type, c) = c
            /\ type = "integer" => Number(c) = Number(v) \/ (TooLarge(v) /\ c = Whole(MaxInteger))
            /\ type = "real" =>
                 \A n \in Number(v), m \in Number(c) :
                   /\ IsReal(n) => m = n
                   /\ IsReal(m)
                   /\ \A d \in 0 .. Distance(m, n) - 1 : ~ IsReal(n - d) /\ ~ IsReal(n + d)
            /\ type = "text" /\ v.kind \in {"integer", "real"} => Coerce(v.kind, c) = v

\* The number is kept whatever it is.
NumbersAreKept ==
  row = <<>> =>
    \A type \in {"integer", "real"}, v \in Given :
      LET c == Coerce(type, v) IN c # Refused => Number(c) = Number(v)

\* Skipping columns is as careful as reading them; and vectors of any size.
SkippingIsSafe == \A n \in 0 .. Len(Encode(row)), mask \in Masks :
                    Decode(SubSeq(Encode(row), 1, n), mask).result # "panic"
LongVectors == \A i \in DOMAIN row : Decode(Encode(row), <<>>).values[i] = row[i]
=============================================================================

---------------------------- MODULE Compression ----------------------------
(***************************************************************************)
(* The compression of pages (src/pager/compression.rs): blocks of literals *)
(* and of matches with what came before, and the frame in which the pager  *)
(* writes a page, or the page as it is where nothing is gained.            *)
(*                                                                         *)
(* The widths are scaled down, so that every length overflows its field in *)
(* a short page: a byte has Byte values (256), a field of a token Field    *)
(* (16, with Field * Field = Byte), a match MinMatch bytes (4) at least,   *)
(* and none begins in the last Margin bytes (12).                          *)
(***************************************************************************)
EXTENDS Integers, Sequences, SequencesExt

CONSTANTS
  Byte, Field, MinMatch, Margin,
  HashSlots,    \* of the hash table
  Magic,    \* the byte that a frame begins with
  Trailer,  \* bytes at the end of a page that are reserved
  PageSize, \* bound: bytes of a page
  Letters   \* bytes that pages are made of

CompressionAssumption ==
  /\ {Field, MinMatch, HashSlots, PageSize} \subseteq Nat \ {0, 1} /\ Trailer \in Nat
  /\ Byte = Field * Field /\ Margin \in Nat /\ Margin >= MinMatch
  /\ PageSize < Byte * Byte
  /\ Letters \cup {Magic} \subseteq 0 .. Byte - 1

VARIABLE page

Word(n) == <<n % Byte, n \div Byte>>             \* u16::to_le_bytes
WordAt(s, k) == s[k] + Byte * s[k + 1]

Stored == 0 \* UNCOMPRESSED_PAGE_FLAG
Lz4    == 1 \* LZ4_COMPRESSED_PAGE_FLAG

\* A page grows byte by byte; some begin like a frame.
Init == page \in {<<>>} \cup {<<Magic, flag>> \o Word(PageSize) : flag \in {Stored, Lz4, Lz4 + 1}}
Next == Len(page) < PageSize /\ \E b \in Letters : page' = Append(page, b)

-----------------------------------------------------------------------------
(* compress_lz4_block.  Positions count from 0, as in the code.             *)

From(src, a, b) == SubSeq(src, a + 1, b)         \* src[a..b]

\* The part of a length that its field holds, and the bytes for the rest.
InField(n) == IF n < Field - 1 THEN n ELSE Field - 1
RECURSIVE Overflow(_)
Overflow(rest) == IF rest >= Byte - 1 THEN <<Byte - 1>> \o Overflow(rest - (Byte - 1)) ELSE <<rest>>

\* Fault: a length that fills its field has no byte for the rest.
ExtraUnlessMore(n) == IF n > Field - 1 THEN Overflow(n - (Field - 1)) ELSE <<>>

Extra(n) == IF n >= Field - 1 THEN Overflow(n - (Field - 1)) ELSE <<>>

Token(literals, match) == InField(literals) * Field + InField(match)

Literals(src, a, b) == <<Token(b - a, 0)>> \o Extra(b - a) \o From(src, a, b)

\* hash_4, of which only matters that different bytes may share a slot.
Hash(bytes) == FoldLeft(LAMBDA h, b : 3 * h + b, 0, bytes) % HashSlots

\* How far the bytes at p and at q are the same.
RECURSIVE MatchLength(_, _, _, _)
MatchLength(src, p, q, n) ==
  IF q + n < Len(src) /\ src[p + n + 1] = src[q + n + 1] THEN MatchLength(src, p, q, n + 1) ELSE n

RECURSIVE Scan(_, _)
Scan(src, s) ==
  LET end   == Len(src)
      limit == IF end < Margin THEN 0 ELSE end - Margin
      here  == From(src, s.ip, s.ip + MinMatch)
      was   == s.table[Hash(here)]
      table == [s.table EXCEPT ![Hash(here)] = s.ip]
      n     == MatchLength(src, was, s.ip, MinMatch)
      next  == s.ip + n
      back  == MinMatch \div 2
      out   == <<Token(s.ip - s.anchor, n - MinMatch)>> \o Extra(s.ip - s.anchor)
                 \o From(src, s.anchor, s.ip) \o Word(s.ip - was) \o Extra(n - MinMatch)
  IN  IF s.ip >= limit THEN s
      ELSE IF was < s.ip /\ s.ip - was < Byte * Byte /\ From(src, was, was + MinMatch) = here
      THEN Scan(src, [ip |-> next, anchor |-> next, out |-> s.out \o out,
                      table |-> IF next >= limit THEN table
                                ELSE [table EXCEPT ![Hash(From(src, next - back, next - back + MinMatch))] =
                                        next - back]])
      ELSE Scan(src, [s EXCEPT !.ip = @ + 1, !.table = table])

Compress(src) ==
  LET s == Scan(src, [ip |-> 0, anchor |-> 0, out |-> <<>>,
                      table |-> [h \in 0 .. HashSlots - 1 |-> 0]])
  IN  IF Len(src) < MinMatch THEN Literals(src, 0, Len(src))
      ELSE s.out \o Literals(src, s.anchor, Len(src))

-----------------------------------------------------------------------------
(* decompress_lz4_block.                                                    *)

Refused == [ok |-> FALSE, out |-> <<>>]

\* A length whose field holds n: the length, and the position behind its bytes.
RECURSIVE LengthFrom(_, _, _)
LengthFrom(src, ip, n) ==
  IF ip >= Len(src) THEN [length |-> n, ip |-> ip]
  ELSE IF src[ip + 1] # Byte - 1 THEN [length |-> n + src[ip + 1], ip |-> ip + 1]
  ELSE LengthFrom(src, ip + 1, n + src[ip + 1])
LengthOf(src, ip, field) ==
  IF field = Field - 1 THEN LengthFrom(src, ip, field) ELSE [length |-> field, ip |-> ip]

\* A match may overlap what it writes.
Copied(out, offset, n) ==
  FoldLeft(LAMBDA o, i : Append(o, o[Len(out) - offset + i]), out, [i \in 1 .. n |-> i])

RECURSIVE Read(_, _, _, _)
Read(src, target, ip, out) ==
  IF ip >= Len(src) \/ Len(out) >= target THEN [ok |-> TRUE, out |-> out]
  ELSE LET token  == src[ip + 1]
           lits   == LengthOf(src, ip + 1, token \div Field)
           behind == lits.ip + lits.length
           all    == out \o From(src, lits.ip, behind)
           offset == WordAt(src, behind + 1)
           match  == LengthOf(src, behind + 2, token % Field)
           n      == match.length + MinMatch
       IN  IF behind > Len(src) \/ Len(out) + lits.length > target THEN Refused
           ELSE IF Len(all) >= target \/ behind >= Len(src) THEN [ok |-> TRUE, out |-> all]
           ELSE IF behind + 2 > Len(src) THEN Refused
           ELSE IF offset = 0 \/ offset > Len(all) \/ Len(all) + n > target THEN Refused
           ELSE Read(src, target, match.ip, Copied(all, offset, n))

Decompress(src, target) == Read(src, target, 0, <<>>)

-----------------------------------------------------------------------------
(* Frames, as the pager writes and reads them.                              *)

Padded(s, n) == s \o [i \in 1 .. (IF Len(s) < n THEN n - Len(s) ELSE 0) |-> 0]

\* compress_page_frame, and the padding of write_page and commit_transaction.
WriteFrame(raw) ==
  LET block == Compress(raw)
  IN  IF Len(block) + 4 <= Len(raw) - Trailer
      THEN Padded(<<Magic, Lz4>> \o Word(Len(raw)) \o block, PageSize)
      ELSE raw

IsFrame(frame) == Len(frame) >= 4 /\ frame[1] = Magic /\ WordAt(frame, 3) = PageSize

\* decompress_page_frame and decompress_if_needed.
ReadFrame(frame) ==
  LET block == SubSeq(frame, 5, Len(frame))
      read  == Decompress(block, PageSize)
  IN  IF ~ IsFrame(frame) THEN [ok |-> TRUE, out |-> frame]
      ELSE CASE frame[2] = Stored -> [ok |-> TRUE, out |-> Padded(block, PageSize)]
             [] frame[2] = Lz4    -> IF Len(read.out) = PageSize THEN read ELSE Refused
             [] OTHER             -> [ok |-> TRUE, out |-> frame]

-----------------------------------------------------------------------------
(* Properties.                                                              *)

Kept(p) == [ok |-> TRUE, out |-> p]

\* Pages that are stored as they are and begin like a frame: a page number that no file
\* is long enough for.
Mistaken(p) == WriteFrame(p) = p /\ IsFrame(p) /\ p[2] \in {Stored, Lz4}

(***************************************************************************)
(* A block, and a page, is read as it was written, however its lengths     *)
(* overflow their fields and its matches overlap; and a page of the disk   *)
(* has the size of a page.                                                 *)
(***************************************************************************)
PagesReadBack ==
  /\ Decompress(Compress(page), Len(page)) = Kept(page)
  /\ Len(page) = PageSize =>
       /\ Len(WriteFrame(page)) = PageSize
       /\ Mistaken(page) \/ ReadFrame(WriteFrame(page)) = Kept(page)

\* The same without the exception.
EveryPageReadsBack == Len(page) = PageSize => ReadFrame(WriteFrame(page)) = Kept(page)
=============================================================================

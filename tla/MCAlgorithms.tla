---------------------------- MODULE MCAlgorithms ----------------------------
(* Model-checking instance of the algorithms that tables, statements and    *)
(* results rest on: the B+tree of a table (BTree), the text of a view       *)
(* (Lexer), rows as bytes (Codec), pages that are compressed (Compression), *)
(* conditions (Conditions), prepared inserts and their events (Prepared),   *)
(* the cursors of the C interface (CApi), the vectors that are kept in      *)
(* pages (PagedHnsw), and the words of memories (Recall).  They share no    *)
(* state, so that a behaviour is one of a single part, the others resting   *)
(* in an initial state: the states add up instead of multiplying.           *)
EXTENDS MCBTree

CONSTANTS
  Alphabet, MaxText,
  RowByte, VarintBytes, Precision, Real, Length, Dimensions, MaxColumns, MaxNumeral,
  Byte, Field, MinMatch, Margin, HashSlots, Magic, Trailer, PageSize, Letters,
  MaxPattern, MaxWords,
  Thread, KeyAt, MaxTokens, MaxInserts,
  Handle, Null, Written, Word32, MaxCalls,
  PagedId, Place, Levels, Capacity, Width, Breadth, Readers, MaxPagedSteps,
  MemoryId, Memories, Short, Searches, None, MaxTime, MaxChanges

VARIABLES
  part,                                     \* the part that takes the steps
  text,                                     \* Lexer
  row,                                      \* Codec
  image,                                    \* Compression
  form, left, right,                        \* Conditions
  tokens, table, waiting, events, count,    \* Prepared
  rows, db, stmt, returned, found, seen, calls, \* CApi
  store, head, written, reading, done, history, \* PagedHnsw
  memories, words, scoped, clock, changes       \* Recall

Texts    == INSTANCE Lexer
Rows     == INSTANCE Codec WITH Byte <- RowByte
Pages    == INSTANCE Compression WITH page <- image
Tests    == INSTANCE Conditions
Inserts  == INSTANCE Prepared
Cursors  == INSTANCE CApi
Paged    == INSTANCE PagedHnsw
Recalls  == INSTANCE Recall

SomeChars ==
  {" ", "-", ">", "<", "=", "'", "\"", "\\", "a", "1", ".", "(", "/", "*"}
SomeValues == {[kind |-> "integer", value |-> 9], [kind |-> "real", value |-> -3],
               [kind |-> "text", value |-> 1]}

\* Words and their repetition, a place, a namespace and tags, an end, and an importance.
Space  == [sort |-> "namespace", name |-> "n"]
TagT   == [sort |-> "tag", name |-> "t"]
TagU   == [sort |-> "tag", name |-> "u"]
Memory(content, near, scopes, expires, importance) ==
  [content |-> content, near |-> near, scopes |-> scopes, expires |-> expires,
   importance |-> importance]
SomeMemories ==
  {Memory(<<"a", "b", "a">>, None, {Space, TagT}, None, 1), Memory(<<"b">>, 2, {TagT, TagU}, 1, 0),
   Memory(<<"x">>, 1, {Space, TagU}, None, 0), Memory(<<"a", "x">>, 0, {Space}, None, 3)}
SomeSearches ==
  [words : {None, <<"b">>, <<"a", "b", "a">>}, vector : BOOLEAN,
   scopes : {{}, {Space}, {TagT, TagU}, {Space, TagU}}, limit : {1, 2}, candidates : {1, 3},
   least : {0, 2}, hops : {0, 1}]

ASSUME /\ Texts!LexerAssumption /\ Paged!PagedHnswAssumption /\ Recalls!RecallAssumption
       /\ Rows!CodecAssumption /\ Pages!CompressionAssumption
       /\ Tests!ConditionsAssumption /\ Inserts!PreparedAssumption
       /\ Cursors!CApiAssumption

testVars   == <<form, left, right>>
insertVars == <<tokens, table, waiting, events, count>>
cursorVars == <<rows, db, stmt, returned, found, seen, calls>>
pagedVars  == <<store, head, written, reading, done, history>>
recallVars == <<memories, words, scoped, clock, changes>>

\* A part that rests does so in one initial state.
PartsInit ==
  /\ part \in {"trees", "texts", "rows", "pages", "tests", "inserts", "cursors", "paged", "recalls"}
  /\ Paged!Init /\ Recalls!Init /\ Texts!Init /\ Rows!Init /\ Cursors!Init
  /\ Pages!Init /\ (part # "pages" => image = <<>>)
  /\ Tests!Init /\ (part # "tests" => form = "like")
  /\ Inserts!Init /\ (part # "inserts" => tokens = <<>>)
  /\ Init /\ (part # "trees" => root = CHOOSE r \in Roots : TRUE)

PartsNext ==
  /\ \/ /\ part = "trees" /\ Next
        /\ UNCHANGED <<text, row, image, testVars, insertVars, cursorVars, pagedVars, recallVars>>
     \/ /\ part = "texts" /\ Texts!Next
        /\ UNCHANGED <<vars, row, image, testVars, insertVars, cursorVars, pagedVars, recallVars>>
     \/ /\ part = "rows" /\ Rows!Next
        /\ UNCHANGED <<vars, text, image, testVars, insertVars, cursorVars, pagedVars, recallVars>>
     \/ /\ part = "pages" /\ Pages!Next
        /\ UNCHANGED <<vars, text, row, testVars, insertVars, cursorVars, pagedVars, recallVars>>
     \/ /\ part = "tests" /\ Tests!Next
        /\ UNCHANGED <<vars, text, row, image, insertVars, cursorVars, pagedVars, recallVars>>
     \/ /\ part = "inserts" /\ Inserts!Next
        /\ UNCHANGED <<vars, text, row, image, testVars, cursorVars, pagedVars, recallVars>>
     \/ /\ part = "cursors" /\ Cursors!Next
        /\ UNCHANGED <<vars, text, row, image, testVars, insertVars, pagedVars, recallVars>>
     \/ /\ part = "paged" /\ Paged!Next
        /\ UNCHANGED <<vars, text, row, image, testVars, insertVars, cursorVars, recallVars>>
     \/ /\ part = "recalls" /\ Recalls!Next
        /\ UNCHANGED <<vars, text, row, image, testVars, insertVars, cursorVars, pagedVars>>
  /\ UNCHANGED part

Parts ==
  PartsInit /\ [][PartsNext]_<<part, vars, text, row, image, testVars, insertVars,
                              cursorVars, pagedVars, recallVars>>

-----------------------------------------------------------------------------
(* The properties of the instances; those of the trees are BTree's.         *)

\* The text of a view, a row and a page are read as they were written, and a column takes
\* a value in with its number, as exactly as its type can hold it.
WrittenIsReadBack ==
  CASE part = "texts" -> Texts!ViewReadsBack
    [] part = "rows"  -> Rows!RowsReadBack /\ Rows!CoercionKeepsNumbers
    [] part = "pages" -> Pages!PagesReadBack
    [] OTHER          -> TRUE

\* A condition holds where it should, a compiled insert does what its text says, an event
\* names its row, and a cursor goes over the rows that its statement found.
StatementsAreUnderstood ==
  CASE part = "tests"   -> Tests!ConditionsAreRight
    [] part = "inserts" -> Inserts!PlanIsStatement /\ Inserts!EventsNameRows
    [] part = "cursors" -> Cursors!CursorsKeepTheirRows
    [] OTHER            -> TRUE

\* A search of vectors in pages, or of memories by their words, finds what was stored.
IndexesAreExact ==
  CASE part = "paged"   -> Paged!PagedIsSound
    [] part = "recalls" -> Recalls!RecallIsExact
    [] OTHER            -> TRUE

-----------------------------------------------------------------------------
(* What one would like to hold as well, and does not (README, Variations).  *)

\* The text of any view, and any page, is read as it was written; a row that ends early is
\* refused without a panic, and a vector of any size is read.
EveryViewReadsBack == part = "texts" => Texts!EveryViewReadsBack
EveryPageReadsBack == part = "pages" => Pages!EveryPageReadsBack
SkippingIsSafe     == part = "rows" => Rows!SkippingIsSafe
LongVectors        == part = "rows" => Rows!LongVectors

\* A column takes every number in as it is.
NumbersAreKept == part = "rows" => Rows!NumbersAreKept

\* LIKE finds every match, and values of different kinds compare as they should.
LikeAlwaysMatches == part = "tests" => Tests!LikeAlwaysMatches
MixedAreRight     == part = "tests" => Tests!MixedAreRight

\* Every event names its row.
EveryEventNamesItsRow == part = "inserts" => Inserts!EveryEventNamesItsRow

\* A success resets the code of the last error; a query without rows has columns.
ErrorsPass      == part = "cursors" => Cursors!ErrorsPass
ColumnsAreKnown == part = "cursors" => Cursors!ColumnsAreKnown

\* Vectors in pages are found even after a removal, and their cache is bounded.
AlwaysFindsAll == part = "paged" => Paged!AlwaysFindsAll
CacheIsBounded == part = "paged" => Paged!CacheIsBounded

\* What recall adds over links has the tags that are asked for; fused ranks are of live memories.
AddedHaveTags == part = "recalls" => Recalls!AddedHaveTags
RrfIsLive     == part = "recalls" => Recalls!RrfIsLive
=============================================================================

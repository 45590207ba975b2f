------------------------------- MODULE Recall -------------------------------
(***************************************************************************)
(* What an agent recalls of its memories (src/memory/): the inverted index *)
(* over their words (bm25.rs), the lists of what is in a scope (indexed.rs) *)
(* and the three searches: recall, recall_rrf and search_indexed.          *)
(*                                                                         *)
(* Scores are numbers in the order of those of the code.  The score of     *)
(* words is greater the more often and the more rarely they occur; a       *)
(* memory's vector is its likeness to the vector asked for, and stands for *)
(* an exact search (Hnsw is the search of the index); importance stands    *)
(* for importance and recency.  Equal scores are ordered by identifier.    *)
(* What a reading counts is left out.                                      *)
(***************************************************************************)
EXTENDS Integers, Sequences, FiniteSets, FiniteSetsExt, SequencesExt, Functions

CONSTANTS
  MemoryId,   \* identifiers
  Memories,   \* what is stored: [content, near, scopes, expires, importance]
  Short,      \* words of one letter, which are not indexed
  Searches,   \* [words, vector, scopes, limit, candidates, least, hops]
  None,       \* no vector, no expiry, no text or vector asked for
  MaxTime,    \* bound: the clock
  MaxChanges  \* bound: changes of memories

RecallAssumption ==
  /\ MemoryId \subseteq Nat /\ {MaxTime, MaxChanges} \subseteq Nat
  /\ \A e \in Memories : e.importance \in Nat
  /\ \A s \in Searches : {s.limit, s.candidates, s.least, s.hops} \subseteq Nat

VARIABLES
  memories, \* MemoryEngine.entries, with their associations
  words,    \* Bm25Index: postings, lengths, total and the words of every document
  scoped,   \* MemoryRuntime.scopes
  clock, changes

recallVars == <<memories, words, scoped, clock, changes>>

Init == /\ memories = <<>> /\ scoped = <<>> /\ clock = 0 /\ changes = 0
        /\ words = [postings |-> <<>>, lengths |-> <<>>, total |-> 0, terms |-> <<>>]

With(f, x, y) == [z \in DOMAIN f \cup {x} |-> IF z = x THEN y ELSE f[z]]
Without(f, S) == Restrict(f, DOMAIN f \ S)
At(f, x)      == IF x \in DOMAIN f THEN f[x] ELSE {}

-----------------------------------------------------------------------------
(* The inverted index.                                                      *)

Tokens(content) == SelectSeq(content, LAMBDA w : w \notin Short)
Count(content, w) == Cardinality({i \in DOMAIN content : content[i] = w})

\* remove_document.  A word with no postings left goes.
RemoveDocument(w, id) ==
  IF id \notin DOMAIN w.lengths THEN w
  ELSE LET terms == At(w.terms, id)
           left  == [t \in DOMAIN w.postings |->
                       IF t \in terms THEN {p \in w.postings[t] : p.id # id} ELSE w.postings[t]]
       IN  [postings |-> Without(left, {t \in terms \cap DOMAIN left : left[t] = {}}),
            lengths  |-> Without(w.lengths, {id}),
            total    |-> w.total - w.lengths[id],
            terms    |-> Without(w.terms, {id})]

AddDocument(w, id, content) ==
  LET tokens == Tokens(content)
      terms  == ToSet(tokens)
  IN  IF tokens = <<>> THEN [w EXCEPT !.lengths = With(@, id, 0)]
      ELSE [postings |-> [t \in DOMAIN w.postings \cup terms |->
                            At(w.postings, t) \cup (IF t \in terms
                              THEN {[id |-> id, count |-> Count(tokens, t)]} ELSE {})],
            lengths  |-> With(w.lengths, id, Len(tokens)),
            total    |-> w.total + Len(tokens),
            terms    |-> With(w.terms, id, terms)]

\* Fault: what a memory said before stays in the index.
IndexOver(w, id, content) == AddDocument(w, id, content)

\* index_document.
IndexDocument(w, id, content) == AddDocument(RemoveDocument(w, id), id, content)

-----------------------------------------------------------------------------
(* Changes of memories.  MemoryRuntime::changed, for the scopes.            *)

Leave(sc, id) == LET left == [k \in DOMAIN sc |-> sc[k] \ {id}]
                 IN  Without(left, {k \in DOMAIN left : left[k] = {}})
Enter(sc, id, keys) == [k \in DOMAIN sc \cup keys |-> At(sc, k) \cup (IF k \in keys THEN {id} ELSE {})]

\* restore_entry, which new memories and replaced ones go through: links are kept.
Remember(id, e) ==
  /\ memories' = With(memories, id, [entry |-> e, links |->
       IF id \in DOMAIN memories THEN memories[id].links ELSE {}])
  /\ words' = IndexDocument(words, id, e.content)
  /\ scoped' = Enter(Leave(scoped, id), id, e.scopes)
  /\ UNCHANGED clock

\* forget, and prune for one memory.
Forget(id) ==
  /\ id \in DOMAIN memories
  /\ memories' = [x \in DOMAIN memories \ {id} |-> [memories[x] EXCEPT !.links = @ \ {id}]]
  /\ words' = RemoveDocument(words, id)
  /\ scoped' = Leave(scoped, id)
  /\ UNCHANGED clock

Associate(x, y) ==
  /\ {x, y} \subseteq DOMAIN memories
  /\ memories' = [memories EXCEPT ![x].links = @ \cup {y}, ![y].links = @ \cup {x}]
  /\ UNCHANGED <<words, scoped, clock>>

Changed == \/ \E id \in MemoryId, e \in Memories : Remember(id, e)
           \/ \E id \in MemoryId : Forget(id)
           \/ \E x, y \in MemoryId : x < y /\ Associate(x, y)

Next == \/ changes < MaxChanges /\ changes' = changes + 1 /\ Changed
        \/ clock < MaxTime /\ clock' = clock + 1 /\ UNCHANGED <<memories, words, scoped, changes>>

-----------------------------------------------------------------------------
(* Searches.                                                                *)

Live(id) == memories[id].entry.expires = None \/ clock < memories[id].entry.expires

\* The identifiers of S, the best first.
\* The members of S, the highest score first.
Ranked(S, score) ==
  SetToSortSeq(S, LAMBDA x, y : score[x] > score[y] \/ (score[x] = score[y] /\ x < y))
First(s, n) == SubSeq(s, 1, IF Len(s) < n THEN Len(s) ELSE n)

\* The BM25 score: the sum over the words of the query, each once.
Lexical(id, query) ==
  MapThenSumSet(LAMBDA t : LET rarity == Cardinality(DOMAIN words.lengths) + 1 - Cardinality(At(words.postings, t))
                           IN  rarity * MapThenSumSet(LAMBDA p : p.count, {p \in At(words.postings, t) : p.id = id}),
                ToSet(Tokens(query)))

\* search_where.
SearchWhere(query, n, accepted) ==
  LET hits == UNION {{p.id : p \in At(words.postings, t)} : t \in ToSet(Tokens(query))}
  IN  First(Ranked(hits \cap accepted, [id \in hits |-> Lexical(id, query)]), n)

Near(id) == IF memories[id].entry.near = None THEN 0 ELSE memories[id].entry.near
Nearness == [id \in DOMAIN memories |-> Near(id)]

\* reciprocal_rank_fusion of the lists, with k = 1; Scale divides by every rank.
Scale == 60
Share(list, id) == MapThenSumSet(LAMBDA i : Scale \div (1 + i), {i \in DOMAIN list : list[i] = id})
Fused(lists, n) ==
  LET ids == UNION {ToSet(lists[l]) : l \in DOMAIN lists}
      score == [id \in ids |-> FoldLeft(LAMBDA sum, l : sum + Share(l, id), 0, lists)]
  IN  First(Ranked(ids, score), n)

\* One scope of each sort that is asked for must hold, of several tags one.
InScopes(mine, asked) ==
  \A sort \in {k.sort : k \in asked} : \E k \in asked : k.sort = sort /\ k \in mine

\* allowed: all memories when no scope is asked for.
Allowed(asked) ==
  LET of(sort) == UNION {At(scoped, k) : k \in {a \in asked : a.sort = sort}}
  IN  {id \in DOMAIN memories : \A sort \in {k.sort : k \in asked} : id \in of(sort)}

\* Fault: a search of words also finds memories that have expired.
AcceptedEver(id, asked) == id \in Allowed(asked)

Accepted(id, asked) == id \in Allowed(asked) /\ Live(id)

WordsOf(s)   == IF s.words = None THEN <<>> ELSE s.words
HasQuery(s)  == s.words # None \/ s.vector

\* search_indexed: two channels of at most s.candidates memories, and what is best of both.
SearchIndexed(s) ==
  LET accepted == {id \in DOMAIN memories : Accepted(id, s.scopes)}
      lexical  == SearchWhere(WordsOf(s), s.candidates, accepted)
      vectors  == IF s.vector
                  THEN First(Ranked({id \in accepted : Nearness[id] > 0}, Nearness), s.candidates)
                  ELSE <<>>
      found == ToSet(Fused(<<lexical, vectors>>, 2 * s.candidates))
      score == [id \in found |-> Share(lexical, id) + Share(vectors, id)
                                   + memories[id].entry.importance]
  IN  First(Ranked({id \in found : score[id] >= s.least}, score), s.limit)

\* recall, first part: every memory is scored.
Scored(s) ==
  LET score(id) == (IF s.vector THEN Near(id) ELSE 0) + Lexical(id, WordsOf(s)) + memories[id].entry.importance
      matches(id) == HasQuery(s) => Lexical(id, WordsOf(s)) > 0 \/ (s.vector /\ Near(id) > 0)
  IN  [score |-> [id \in DOMAIN memories |-> score(id)],
       ids   |-> {id \in DOMAIN memories : Live(id) /\ InScopes(memories[id].entry.scopes, s.scopes)
                                             /\ matches(id) /\ score(id) >= s.least}]

NotTags(scopes) == {k \in scopes : k.sort # "tag"}

\* recall, second part: what the best are linked to joins them, its scope looked at without
\* the tags, with a little less than the score of the first that it is linked to.
Expanded(s) ==
  LET c      == Scored(s)
      base   == First(Ranked(c.ids, c.score), s.limit)
      linked == {id \in DOMAIN memories \ c.ids :
                   /\ Live(id) /\ InScopes(memories[id].entry.scopes, NotTags(s.scopes))
                   /\ \E i \in DOMAIN base : id \in memories[base[i]].links}
      parent(id) == CHOOSE i \in DOMAIN base : /\ id \in memories[base[i]].links
                                               /\ \A j \in 1 .. i - 1 : id \notin memories[base[j]].links
      all == [id \in DOMAIN memories |-> IF id \in linked THEN 2 * c.score[base[parent(id)]] - 1
                                           ELSE 2 * c.score[id]]
  IN  First(Ranked(c.ids \cup (IF s.hops > 0 THEN linked ELSE {}), all), s.limit)

RecallAll(s) == Expanded(s)

\* recall_rrf, which has no filter at all; a text is always asked for.
RecallRrf(s) ==
  LET lexical == SearchWhere(WordsOf(s), Cardinality(DOMAIN memories), DOMAIN memories)
      near    == {id \in DOMAIN memories : memories[id].entry.near # None}
      vectors == IF s.vector THEN Ranked(near, Nearness) ELSE <<>>
  IN  Fused(<<lexical, vectors>>, s.limit)

-----------------------------------------------------------------------------
(* Properties.                                                              *)

(***************************************************************************)
(* The index of the words is the one that the memories now held would give *)
(* when indexed anew, in whatever order they were stored, replaced and     *)
(* forgotten; and so are the lists of the scopes.                          *)
(***************************************************************************)
WordsAreExact ==
  LET held   == DOMAIN memories
      tokens == [id \in held |-> Tokens(memories[id].entry.content)]
      terms  == UNION {ToSet(tokens[id]) : id \in held}
      keys   == UNION {memories[id].entry.scopes : id \in held}
  IN  /\ words.postings = [t \in terms |->
                             {[id |-> id, count |-> Count(tokens[id], t)] : id \in {x \in held : t \in ToSet(tokens[x])}}]
      /\ words.lengths = [id \in held |-> Len(tokens[id])]
      /\ words.total = MapThenSumSet(LAMBDA id : Len(tokens[id]), held)
      /\ scoped = [k \in keys |-> {id \in held : k \in memories[id].entry.scopes}]

\* What a search asks for, from the memories alone.
Says(id, s) == \E w \in ToSet(Tokens(memories[id].entry.content)) : w \in ToSet(WordsOf(s))
IsLike(id, s) == s.vector /\ Near(id) > 0
Wanted(s) == {id \in DOMAIN memories : /\ Live(id) /\ InScopes(memories[id].entry.scopes, s.scopes)
                                       /\ Says(id, s) \/ IsLike(id, s)}

(***************************************************************************)
(* A search returns memories that have not expired, are in its scope and   *)
(* match it, each once; and with no least score, as many as there are or   *)
(* as its limit, the bound on candidates permitting, allows.  What recall  *)
(* adds is linked to what matched.                                         *)
(***************************************************************************)
RecallsWhatIsWanted ==
  \A s \in Searches :
    LET indexed  == SearchIndexed(s)
        recalled == RecallAll(s)
        wanted   == Wanted(s)
        some(n)  == IF Cardinality(wanted) < n THEN Cardinality(wanted) ELSE n
    IN  HasQuery(s) =>
          /\ IsInjective(indexed) /\ ToSet(indexed) \subseteq wanted
          /\ s.least = 0 => Len(indexed) >= some(IF s.candidates < s.limit THEN s.candidates ELSE s.limit)
          /\ IsInjective(recalled)
          /\ s.hops = 0 => ToSet(recalled) \subseteq wanted
          /\ s.hops = 0 /\ s.least = 0 => Len(recalled) = some(s.limit)
          /\ \A id \in ToSet(recalled) \ wanted :
               Live(id) /\ \E x \in wanted : id \in memories[x].links

RecallIsExact == WordsAreExact /\ RecallsWhatIsWanted

\* What recall adds has the tags that are asked for; recall_rrf returns live memories.
AddedHaveTags == \A s \in Searches : \A id \in ToSet(RecallAll(s)) : InScopes(memories[id].entry.scopes, s.scopes)
RrfIsLive == \A s \in Searches : \A id \in ToSet(RecallRrf(s)) : Live(id)
=============================================================================

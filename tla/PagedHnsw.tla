------------------------------ MODULE PagedHnsw ------------------------------
(***************************************************************************)
(* The disk-backed vector index (src/vector/paged_hnsw.rs): nodes are kept *)
(* in a store of pages with a bounded cache over it, and the index over    *)
(* the store is its entry point; both are written to tables and read back  *)
(* by the executor.                                                        *)
(*                                                                         *)
(* The upper layers of a node are created without links and never get any, *)
(* so that a descent stays at the entry point: of the layers, only how     *)
(* many a node has is modelled.  A store is shared by the clones of its    *)
(* index; Readers are threads that look a node up through such a clone.    *)
(***************************************************************************)
EXTENDS Integers, Sequences, SequencesExt, FiniteSets, FiniteSetsExt, Functions

CONSTANTS
  PagedId, Place,   \* vectors: their numbers, and where they are
  Levels,           \* levels that random_level draws
  Capacity,         \* records in the cache
  Width,            \* m0: links of a node
  Breadth,          \* ef_search
  Readers,
  MaxPagedSteps     \* bound: steps

PagedHnswAssumption ==
  /\ PagedId \subseteq Nat \ {0} /\ Place \subseteq Nat /\ Levels \subseteq Nat
  /\ {Capacity, Width, Breadth} \subseteq Nat \ {0} /\ MaxPagedSteps \in Nat

VARIABLES
  store,    \* [disk, cache, queue]: pages, cached records, and the order of use
  head,     \* [entry, top]: entry_point (0: none) and max_level
  written,  \* what the tables hold: head and pages
  reading,  \* per reader, the record that it fetched and has not yet cached
  done      \* steps so far

(* Histories, which the code does not store: known, the vectors that the     *)
(* caller put and did not remove; revived, those that came back with the     *)
(* tables; and spoiled, whether links were lost in a way the code admits: a  *)
(* node was removed, put again, or refused by neighbours that were full.     *)
VARIABLE history

vars == <<store, head, written, reading, done, history>>

With(f, x, y)  == [z \in DOMAIN f \cup {x} |-> IF z = x THEN y ELSE f[z]]
Without(f, x)  == Restrict(f, DOMAIN f \ {x})
Distance(a, b) == IF a < b THEN b - a ELSE a - b

Fresh == [disk |-> <<>>, cache |-> <<>>, queue |-> <<>>]

Init ==
  /\ store = Fresh /\ head = [entry |-> 0, top |-> 0]
  /\ history = [known |-> <<>>, revived |-> {}, spoiled |-> FALSE]
  /\ written = [head |-> head, pages |-> <<>>, history |-> history]
  /\ reading = [r \in Readers |-> <<>>] /\ done = 0

-----------------------------------------------------------------------------
(* The store.                                                               *)

\* touch: the first place of the record in the queue is given up for the last.
Touch(s, id) ==
  LET at == {k \in DOMAIN s.queue : s.queue[k] = id}
  IN  [s EXCEPT !.queue = Append(IF at = {} THEN @ ELSE RemoveAt(@, Min(at)), id)]

\* insert_cache: a record may be in the queue several times, and one that is first in
\* the queue need not be cached any more.
Cached(s, id, record) ==
  LET full == Cardinality(DOMAIN s.cache) >= Capacity /\ s.queue # <<>>
  IN  [s EXCEPT !.cache = With(IF full THEN Without(@, Head(s.queue)) ELSE @, id, record),
                !.queue = Append(IF full THEN Tail(@) ELSE @, id)]

\* PagedVectorStore::get: the record, and the store after it.
Has(s, id)  == id \in DOMAIN s.cache \cup DOMAIN s.disk
Read(s, id) == IF id \in DOMAIN s.cache THEN s.cache[id] ELSE s.disk[id]
Get(s, id) ==
  IF id \in DOMAIN s.cache THEN Touch(s, id)
  ELSE IF id \in DOMAIN s.disk THEN Cached(s, id, s.disk[id])
  ELSE s

\* PagedVectorStore::put
Put(s, id, record) == Cached([s EXCEPT !.disk = With(@, id, record)], id, record)

\* Fault: the record stays in the cache.
TakenFromDisk(s, id) == [s EXCEPT !.disk = Without(@, id)]

\* PagedVectorStore::remove: the record stays in the queue.
Taken(s, id) == [s EXCEPT !.cache = Without(@, id), !.disk = Without(@, id)]

-----------------------------------------------------------------------------
(* PagedHnswIndex::insert.                                                  *)

\* The entry point is looked up once for each layer of the descent.
Descend(s, n) == FoldLeft(LAMBDA t, k : Get(t, head.entry), s, [k \in 1 .. n |-> k])

Nearest(s, at, ids, n) ==
  LET d(id) == Distance(at, Read(s, id).at)
      order == SortSeq([k \in DOMAIN ids |-> k],
                       LAMBDA j, k : d(ids[j]) < d(ids[k]) \/ (d(ids[j]) = d(ids[k]) /\ j < k))
  IN  [k \in 1 .. Min({n, Len(order)}) |-> ids[order[k]]]

\* The neighbours of a new node are the entry point and its neighbours, the nearest first.
Chosen(s, at) ==
  LET near == SelectSeq(Read(s, head.entry).links, LAMBDA id : Has(s, id))
  IN  Nearest(s, at, <<head.entry>> \o near, Width)

\* A neighbour takes the link up when it has not got it and is not full.
LinkBack(s, n, id) ==
  LET t == Get(s, n)
      record == Read(t, n)
  IN  IF ~ Has(s, n) \/ id \in ToSet(record.links) THEN t
      ELSE Put(t, n, [record EXCEPT !.links =
                        SubSeq(Append(@, id), 1, Min({Width, Len(@) + 1}))])

Insert(id, at, level) ==
  /\ IF head.entry = 0
     THEN /\ store' = Put(store, id, [at |-> at, links |-> <<>>])
          /\ head' = [entry |-> id, top |-> level]
          /\ history' = [history EXCEPT !.known = With(@, id, at)]
     ELSE LET s1 == Descend(store, IF head.top > level THEN head.top - level ELSE 0)
              s2 == Get(s1, head.entry)
              s3 == FoldLeft(Get, s2, Read(s2, head.entry).links)
              there == Has(s1, head.entry)
              near == IF there THEN Chosen(s2, at) ELSE <<>>
              s4 == FoldLeft(LAMBDA s, n : LinkBack(s, n, id), IF there THEN s3 ELSE s1, near)
              accepted == \E n \in ToSet(near) : id \in ToSet(Read(s4, n).links)
          IN  /\ store' = Put(s4, id, [at |-> at, links |-> near])
              /\ head' = IF level > head.top THEN [entry |-> id, top |-> level] ELSE head
              /\ history' = [history EXCEPT
                               !.known = With(@, id, at), !.revived = @ \ {id},
                               !.spoiled = @ \/ Has(store, id) \/ ~ accepted]
  /\ UNCHANGED <<written, reading>>

\* PagedHnswIndex::remove: the entry point stays what it was, and so do links.
Delete(id) ==
  /\ Has(store, id)
  /\ store' = Taken(store, id)
  /\ history' = [known |-> Without(history.known, id), revived |-> history.revived \ {id},
                 spoiled |-> TRUE]
  /\ UNCHANGED <<head, written, reading>>

-----------------------------------------------------------------------------
(* PagedHnswIndex::search.                                                  *)

Look(s, query, id) ==
  IF id \in s.visited \/ ~ Has(s.store, id)
  THEN [s EXCEPT !.visited = @ \cup {id}]
  ELSE LET d    == Distance(query, Read(s.store, id).at)
           best == s.best \cup {<<d, id>>}
           last == CHOOSE x \in best : \A y \in best : y[1] < x[1] \/ (y[1] = x[1] /\ y[2] <= x[2])
       IN  IF d < s.limit \/ Cardinality(s.best) < Breadth
           THEN [s EXCEPT !.visited = @ \cup {id}, !.store = Get(@, id),
                          !.open = @ \cup {<<d, id>>},
                          !.best = IF Cardinality(best) > Breadth THEN best \ {last} ELSE best]
           ELSE [s EXCEPT !.visited = @ \cup {id}, !.store = Get(@, id)]

\* The limit is the greatest distance among the best when a candidate is taken.
RECURSIVE Walk(_, _)
Walk(s, query) ==
  IF s.open = {} THEN s
  ELSE LET c == CHOOSE x \in s.open : \A y \in s.open : x[1] < y[1] \/ (x[1] = y[1] /\ x[2] <= y[2])
           limit == Max({x[1] : x \in s.best})
           t == [s EXCEPT !.open = @ \ {c}, !.limit = limit, !.store = Get(@, c[2])]
       IN  IF c[1] > limit /\ Cardinality(s.best) >= Breadth THEN s
           ELSE Walk(FoldLeft(LAMBDA r, id : Look(r, query, id), t, Read(s.store, c[2]).links),
                     query)

\* What is found: distances and numbers; and the store after the search.
Found(query) ==
  LET s == Descend(store, head.top)
      d == Distance(query, Read(s, head.entry).at)
      start == [open |-> {<<d, head.entry>>}, best |-> {<<d, head.entry>>},
                visited |-> {head.entry}, limit |-> d, store |-> Get(s, head.entry)]
  IN  IF head.entry = 0 \/ ~ Has(store, head.entry) THEN [best |-> {}, store |-> store]
      ELSE Walk(start, query)

Search(query) ==
  /\ store' = Found(query).store
  /\ UNCHANGED <<head, written, reading, history>>

-----------------------------------------------------------------------------
(* Tables, and other threads.                                               *)

\* persist_paged_vector_index: pages are added and replaced, never taken away.
Persist ==
  /\ written' = [head |-> head, history |-> history,
                 pages |-> [id \in DOMAIN written.pages \cup DOMAIN store.disk |->
                              IF id \in DOMAIN store.disk THEN store.disk[id]
                              ELSE written.pages[id]]]
  /\ UNCHANGED <<store, head, reading, history>>

\* load_paged_vector_index, into a store of its own.
Load ==
  /\ store' = [Fresh EXCEPT !.disk = written.pages]
  /\ head' = written.head
  /\ history' = [written.history EXCEPT
                   !.revived = DOMAIN written.pages \ DOMAIN written.history.known]
  /\ reading' = [r \in Readers |-> <<>>]
  /\ UNCHANGED written

\* get, which lets go of the cache between reading the page and caching it.
Fetch(r, id) ==
  /\ reading[r] = <<>> /\ id \in DOMAIN store.disk \ DOMAIN store.cache
  /\ reading' = [reading EXCEPT ![r] = <<id, store.disk[id]>>]
  /\ UNCHANGED <<store, head, written, history>>
Fill(r) ==
  /\ reading[r] # <<>>
  /\ store' = Cached(store, reading[r][1], reading[r][2])
  /\ reading' = [reading EXCEPT ![r] = <<>>]
  /\ UNCHANGED <<head, written, history>>

Next ==
  /\ done < MaxPagedSteps /\ done' = done + 1
  /\ \/ \E id \in PagedId, at \in Place, level \in Levels : Insert(id, at, level)
     \/ \E id \in PagedId : Delete(id)
     \/ \E query \in Place : Search(query)
     \/ Persist
     \/ Load
     \/ \E r \in Readers, id \in PagedId : Fetch(r, id)
     \/ \E r \in Readers : Fill(r)

-----------------------------------------------------------------------------
(* Properties.                                                              *)

\* The cache holds what the pages hold.
CacheIsDisk ==
  \A id \in DOMAIN store.cache : id \in DOMAIN store.disk /\ store.cache[id] = store.disk[id]

\* The pages are those of the vectors that are there, and of those that the tables revived.
PagesAreKnown ==
  /\ DOMAIN store.disk = DOMAIN history.known \cup history.revived
  /\ \A id \in DOMAIN history.known : store.disk[id].at = history.known[id]

\* A search finds the nearest vectors, as many as it may.
FindsAll ==
  \A query \in Place :
    LET found == Found(query).best
        all   == {<<Distance(query, history.known[id]), id>> : id \in DOMAIN history.known}
    IN  /\ Cardinality(found) = Min({Breadth, Cardinality(all)})
        /\ found \subseteq all
        /\ \A x \in all \ found : \A y \in found : y[1] <= x[1]

(***************************************************************************)
(* Whatever was put, removed, written and read back, a page that is cached *)
(* is the page of the store, and a search finds the nearest vectors, as    *)
(* long as no node was removed, put again or refused by its neighbours.    *)
(***************************************************************************)
PagedIsSound == CacheIsDisk /\ PagesAreKnown /\ (history.spoiled \/ FindsAll)

\* What a caller expects of an index, spoiled or not.
AlwaysFindsAll == FindsAll

\* What "memory-bounded" says of the cache.
CacheIsBounded == Cardinality(DOMAIN store.cache) <= Capacity
=============================================================================

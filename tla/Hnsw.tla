-------------------------------- MODULE Hnsw --------------------------------
(***************************************************************************)
(* The index of a vector column (src/vector/hnsw.rs): a graph in layers,   *)
(* of which each vector is in the lowest ones up to a random level.  A     *)
(* search descends from the entry point to the lowest layer and spreads    *)
(* from there; an insertion does the same and links what it finds.         *)
(*                                                                         *)
(* A vector is a position on a line, which is what the metric sees of unit *)
(* vectors in a half plane; of two at the same distance the one with the   *)
(* lesser id comes first.                                                  *)
(***************************************************************************)
EXTENDS Naturals, Sequences, SequencesExt, FiniteSets, FiniteSetsExt, Functions

CONSTANTS
  Id, Position,  \* the row ids and the vectors that are used
  TopLevel,      \* bound of random_level
  m, m0,         \* links of a vector on a layer, and on the lowest one
  efConstruction, efSearch, \* candidates that an insertion and a search keep
  MaxSteps,      \* bound: calls
  None

\* What is assumed of the constants.
HnswAssumption ==
  /\ Id \subseteq Nat /\ Position \subseteq Nat
  /\ m \in Nat \ {0, 1} /\ m0 \in Nat \ {0, 1} \* with_config_and_seed
  /\ efConstruction >= m /\ efSearch \in Nat \ {0}

VARIABLES
  index,  \* nodes, entry_point, max_level, tombstones
  stored, \* history: the vectors that were inserted and not deleted since
  steps

vars == <<index, stored, steps>>

Empty == [nodes |-> <<>>, entry |-> None, top |-> 0, tombstones |-> {}]

-----------------------------------------------------------------------------
(* Searching.                                                              *)

Distance(a, b) == IF a < b THEN b - a ELSE a - b
Away(ix, id, q) == Distance(ix.nodes[id].at, q)
Closer(ix, q, a, b) ==
  Away(ix, a, q) < Away(ix, b, q) \/ (Away(ix, a, q) = Away(ix, b, q) /\ a < b)
Nearest(ix, q, S)  == CHOOSE a \in S : \A b \in S \ {a} : Closer(ix, q, a, b)
Furthest(ix, q, S) == CHOOSE a \in S : \A b \in S \ {a} : Closer(ix, q, b, a)
ByDistance(ix, q, S) == SetToSortSeq(S, LAMBDA a, b : Closer(ix, q, a, b))

Layers(ix, id)       == Len(ix.nodes[id].links)
Links(ix, id, layer) == IF layer < Layers(ix, id) THEN ix.nodes[id].links[layer + 1] ELSE <<>>
Times(n) == [i \in 1 .. n |-> i]

\* A neighbour that was not seen yet joins the candidates if it is closer than the furthest
\* of the nearest was when its node was taken, or if there are not ef of them yet.
Visit(ix, q, ef, far, s, id) ==
  IF id \in s.visited THEN s
  ELSE IF ~ (Away(ix, id, q) < far \/ Cardinality(s.near) < ef)
  THEN [s EXCEPT !.visited = @ \cup {id}]
  ELSE LET near == s.near \cup {id}
       IN  [s EXCEPT !.visited = @ \cup {id}, !.candidates = @ \cup {id},
                     !.near = IF Cardinality(near) > ef
                              THEN near \ {Furthest(ix, q, near)} ELSE near]

\* search_layer
SearchLayer(ix, q, from, ef, layer) ==
  LET Expand(s, i) ==
        IF s.done \/ s.candidates = {} THEN s
        ELSE LET c   == Nearest(ix, q, s.candidates)
                 far == Away(ix, Furthest(ix, q, s.near), q)
                 t   == [s EXCEPT !.candidates = @ \ {c}]
             IN  IF Away(ix, c, q) > far /\ Cardinality(s.near) >= ef
                 THEN [t EXCEPT !.done = TRUE]
                 ELSE FoldLeft(LAMBDA u, id : Visit(ix, q, ef, far, u, id), t, Links(ix, c, layer))
      found == FoldLeft(Expand,
                        [candidates |-> from, near |-> from, visited |-> from, done |-> FALSE],
                        Times(Cardinality(DOMAIN ix.nodes)))
  IN  ByDistance(ix, q, found.near)

\* The greedy descent on one layer: on to the first neighbour that is closer, until none is.
Descend(ix, q, layer, start) ==
  LET Onward(from, i) ==
        LET closer == SelectSeq(Links(ix, from, layer),
                                LAMBDA id : Away(ix, id, q) < Away(ix, from, q))
        IN  IF closer = <<>> THEN from ELSE Head(closer)
  IN  FoldLeft(Onward, start, Times(Cardinality(DOMAIN ix.nodes)))

\* Down from the top layer to the one above layer.
DescendTo(ix, q, layer) ==
  FoldLeft(LAMBDA from, l : IF l > layer THEN Descend(ix, q, l, from) ELSE from,
           ix.entry, Reverse(Times(ix.top)))

Live(ix) == DOMAIN ix.nodes \ ix.tombstones

\* search_knn_where.  The vectors of a small filter are scored one by one; otherwise ef
\* doubles until there are enough results, or until it covers every node.
SearchKnn(ix, q, k, accepted, filter) ==
  LET cap == Cardinality(DOMAIN ix.nodes)
      Results(ef) ==
        SelectSeq(SearchLayer(ix, q, {DescendTo(ix, q, 0)}, ef, 0),
                  LAMBDA id : id \notin ix.tombstones /\ id \in accepted)
      least == Max({efSearch, k}) * IF filter THEN 4 ELSE 1
      efs   == {ef \in 1 .. cap : ef = cap \/ \E d \in 0 .. cap : ef = least * 2 ^ d}
      Enough(ef) == Len(Results(ef)) >= Min({k, Cardinality(Live(ix))}) \/ ef = cap
      found == IF filter /\ Cardinality(accepted) <= Max({efSearch, k})
               THEN ByDistance(ix, q, Live(ix) \cap accepted)
               ELSE Results(Min({ef \in efs : Enough(ef)}))
  IN  IF cap = 0 THEN <<>> ELSE SubSeq(found, 1, Min({k, Len(found)}))

-----------------------------------------------------------------------------
(* Changing the graph.                                                     *)

\* diverse_neighbors: candidates that are closer to a chosen one than to the anchor are
\* taken only if there are too few others.  at gives the vectors of all of them.
Diverse(anchor, candidates, limit, at) ==
  LET Choose(s, id) ==
        IF Len(s.selected) = limit THEN s
        ELSE IF \E i \in DOMAIN s.selected :
                  Distance(at[id], at[s.selected[i]]) < Distance(at[id], anchor)
        THEN [s EXCEPT !.pruned = Append(@, id)]
        ELSE [s EXCEPT !.selected = Append(@, id)]
      chosen == FoldLeft(Choose, [selected |-> <<>>, pruned |-> <<>>], candidates)
      rest   == Min({limit - Len(chosen.selected), Len(chosen.pruned)})
  IN  IF Len(candidates) <= limit THEN candidates
      ELSE chosen.selected \o SubSeq(chosen.pruned, 1, rest)

\* remove_vector; the new entry point is any of the vectors that reach highest.
Removals(ix, id) ==
  LET left == DOMAIN ix.nodes \ {id}
      Without(links) == [l \in DOMAIN links |-> SelectSeq(links[l], LAMBDA n : n # id)]
      nodes == [n \in left |-> [ix.nodes[n] EXCEPT !.links = Without(@)]]
      reduced == [ix EXCEPT !.nodes = nodes, !.tombstones = @ \ {id}]
      highest == {n \in left : \A o \in left : Layers(ix, o) <= Layers(ix, n)}
  IN  IF id \notin DOMAIN ix.nodes THEN {ix}
      ELSE IF ix.entry # id THEN {reduced}
      ELSE IF left = {} THEN {[reduced EXCEPT !.entry = None, !.top = 0]}
      ELSE {[reduced EXCEPT !.entry = n, !.top = Layers(ix, n) - 1] : n \in highest}

\* Fault: a neighbour does not learn of the new vector.
LinkBackNone(id, at, layer, limit, s, n) == s

\* The reverse link from neighbour n to the new vector, with pruning when n has too many.
LinkBack(id, at, layer, limit, s, n) ==
  LET links == Append(Links(s, n, layer), id)
      ats   == [x \in DOMAIN s.nodes \cup {id} |-> IF x = id THEN at ELSE s.nodes[x].at]
      Before(x, y) ==
        LET dx == Distance(ats[n], ats[x])
            dy == Distance(ats[n], ats[y])
        IN  dx < dy \/ (dx = dy /\ x < y)
      kept  == IF Len(links) <= limit THEN links
               ELSE Diverse(ats[n], SetToSortSeq(ToSet(links), Before), limit, ats)
  IN  IF layer >= Layers(s, n) THEN s
      ELSE [s EXCEPT !.nodes[n].links[layer + 1] = kept]

\* insert_vector of an id that is not there, with the level that random_level gave it.
Added(ix, id, at, level) ==
  LET ats == [x \in DOMAIN ix.nodes |-> ix.nodes[x].at]
      Connect(s, layer) ==
        LET limit == IF layer = 0 THEN m0 ELSE m
            found == SearchLayer(s.ix, at, s.from, efConstruction, layer)
            links == Diverse(at, found, limit, ats)
        IN  [ix    |-> FoldLeft(LAMBDA t, n : LinkBack(id, at, layer, limit, t, n), s.ix, links),
             from  |-> ToSet(found),
             links |-> [s.links EXCEPT ![layer + 1] = links]]
      common == Min({level, ix.top})
      built  == FoldLeft(Connect,
                         [ix |-> ix, from |-> {DescendTo(ix, at, level)},
                          links |-> [l \in 1 .. level + 1 |-> <<>>]],
                         Reverse([i \in 1 .. common + 1 |-> i - 1]))
      Node(links) == [at |-> at, links |-> links]
  IN  IF ix.entry = None
      THEN [ix EXCEPT !.nodes = (id :> Node([l \in 1 .. level + 1 |-> <<>>])),
                      !.entry = id, !.top = level]
      ELSE [built.ix EXCEPT !.nodes = (id :> Node(built.links)) @@ @,
                            !.entry = IF level > ix.top THEN id ELSE @,
                            !.top   = IF level > ix.top THEN level ELSE @]

\* The vectors of an index that have no tombstone, inserted again into an empty one.
Rebuilt(ix, levels) ==
  FoldLeft(LAMBDA s, id : Added(s, id, ix.nodes[id].at, levels[id]),
           Empty, SetToSortSeq(Live(ix), <))

-----------------------------------------------------------------------------
(* Calls.                                                                  *)

Step == steps < MaxSteps /\ steps' = steps + 1

\* insert_vector, which removes a vector with the same id first.
InsertVector(id, at, level) ==
  /\ Step
  /\ \E ix \in Removals(index, id) : index' = Added(ix, id, at, level)
  /\ stored' = (id :> at) @@ stored

RemoveVector(id) ==
  /\ Step
  /\ id \in DOMAIN index.nodes
  /\ index' \in Removals(index, id)
  /\ stored' = Restrict(stored, DOMAIN stored \ {id})

MarkDeleted(id) ==
  /\ Step
  /\ id \in Live(index)
  /\ index' = [index EXCEPT !.tombstones = @ \cup {id}]
  /\ stored' = Restrict(stored, DOMAIN stored \ {id})

Rebuild(levels) ==
  /\ Step
  /\ index.tombstones # {}
  /\ index' = Rebuilt(index, levels)
  /\ UNCHANGED stored

Init == index = Empty /\ stored = <<>> /\ steps = 0

Next ==
  \/ \E id \in Id, at \in Position, level \in 0 .. TopLevel : InsertVector(id, at, level)
  \/ \E id \in Id : RemoveVector(id) \/ MarkDeleted(id)
  \/ \E levels \in [Live(index) -> 0 .. TopLevel] : Rebuild(levels)

Spec == Init /\ [][Next]_vars

-----------------------------------------------------------------------------
(* Properties.                                                             *)

\* The graph is sound: links lead to vectors that are there and reach that layer, without
\* repetition and within the degree; the entry point is one of those that reach highest;
\* and the vectors are those that were stored.
GraphIsSound ==
  /\ steps \in 0 .. MaxSteps
  /\ stored = [id \in Live(index) |-> index.nodes[id].at]
  /\ index.tombstones \subseteq DOMAIN index.nodes
  /\ (index.entry = None) <=> (index.nodes = <<>>)
  /\ index.nodes # <<>> =>
       /\ index.entry \in DOMAIN index.nodes /\ Layers(index, index.entry) = index.top + 1
       /\ \A id \in DOMAIN index.nodes : Layers(index, id) <= index.top + 1
  /\ \A id \in DOMAIN index.nodes : \A l \in 0 .. Layers(index, id) - 1 :
       LET links == Links(index, id, l)
       IN  /\ Len(links) <= (IF l = 0 THEN m0 ELSE m)
           /\ IsInjective(links)
           /\ \A i \in DOMAIN links :
                /\ links[i] \in DOMAIN index.nodes \ {id}
                /\ l < Layers(index, links[i])

\* As long as the lowest layer has room for every link and a search keeps a candidate for
\* every vector, it returns the nearest vectors, all of those asked for, whatever was
\* replaced, removed or rebuilt.
FindsNearest ==
  \A q \in Position, k \in {1, Cardinality(Id)}, accepted \in {Id, {Max(Id)}} :
    LET found  == SearchKnn(index, q, k, accepted, accepted # Id)
        wanted == SetToSortSeq(DOMAIN stored \cap accepted, LAMBDA a, b : Closer(index, q, a, b))
        DistancesOf(ids) == [i \in DOMAIN ids |-> Away(index, ids[i], q)]
    IN  /\ IsInjective(found) /\ Range(found) \subseteq DOMAIN stored \cap accepted
        /\ DistancesOf(found) = DistancesOf(SubSeq(wanted, 1, Min({k, Len(wanted)})))

\* Every vector can be reached from the entry point on the lowest layer, or no search can
\* find it, however many candidates it keeps.
AllReachable ==
  index.entry # None =>
    ToSet(SearchLayer(index, 0, {index.entry}, Cardinality(DOMAIN index.nodes), 0))
      = DOMAIN index.nodes
=============================================================================

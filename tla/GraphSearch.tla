---------------------------- MODULE GraphSearch ----------------------------
(***************************************************************************)
(* What is asked of a graph: paths, subgraphs, components                  *)
(* (src/graph/mod.rs), the compressed rows (csr.rs), chains of steps       *)
(* (chain.rs), patterns of several hops (cypher.rs) and the neighbourhood  *)
(* that GraphRAG collects (rag.rs).  Each is the algorithm of the code,    *)
(* with its queues and its tables of what was visited; the properties      *)
(* compare it with what the edges say.                                     *)
(*                                                                         *)
(* A graph is the sequence of its edges in the order of their numbers,     *)
(* which is the order of the adjacency lists.  How results are scored is   *)
(* left out: the properties are about what is found, not how it is ranked. *)
(***************************************************************************)
EXTENDS Naturals, FiniteSetsExt, SequencesExt

CONSTANTS
  Nodes,     \* bound: nodes, which are 1 .. Nodes
  Kinds,     \* of edges: [label, weight], with weights in units of 0.0001
  MaxEdges,  \* bound: edges
  MaxHops    \* bound: hops of a query

GraphSearchAssumption ==
  /\ {Nodes, MaxEdges, MaxHops} \subseteq Nat /\ Nodes > 0
  /\ \A k \in Kinds : k.weight \in Nat

VARIABLE graph

Node == 1 .. Nodes
Edge == {[from |-> a, to |-> b, label |-> k.label, weight |-> k.weight] :
           a \in Node, b \in Node, k \in Kinds}

Init == graph = <<>>

\* GraphEngine::add_edge
Next == /\ Len(graph) < MaxEdges
        /\ \E e \in Edge : graph' = Append(graph, e)

-----------------------------------------------------------------------------
(* Adjacency, as the engine hands it out: numbers of edges.                 *)

Numbers    == [k \in 1 .. Len(graph) |-> k]
Out(n)     == SelectSeq(Numbers, LAMBDA e : graph[e].from = n)
In(n)      == SelectSeq(Numbers, LAMBDA e : graph[e].to = n)
Other(n, e) == IF graph[e].from = n THEN graph[e].to ELSE graph[e].from

Directions == {"outgoing", "incoming", "both"}

\* neighbor_refs: a loop is there twice for "both".
Around(n, direction) ==
  CASE direction = "outgoing" -> Out(n)
    [] direction = "incoming" -> In(n)
    [] direction = "both"     -> Out(n) \o In(n)

Neighbours(n, direction, labels) ==
  SelectSeq(Around(n, direction), LAMBDA e : graph[e].label \in labels)

Labels == {k.label : k \in Kinds}

With(f, x, y) == [z \in DOMAIN f \cup {x} |-> IF z = x THEN y ELSE f[z]]

-----------------------------------------------------------------------------
(* find_path and extract_subgraph: breadth first.  depth holds the nodes    *)
(* that were visited, by the edge by.                                       *)

Started(n) == [queue |-> <<n>>, depth |-> n :> 0, by |-> n :> 0, edges |-> <<>>, found |-> FALSE]

\* A node that is visited for the first time joins the queue.
Visit(s, from, n, e) ==
  IF n \in DOMAIN s.depth THEN s
  ELSE [s EXCEPT !.queue = Append(@, n), !.depth = With(@, n, s.depth[from] + 1),
                 !.by = With(@, n, e)]

RECURSIVE FindFrom(_, _, _)
FindFrom(s, end, max) ==
  IF s.queue = <<>> THEN s
  ELSE LET n == Head(s.queue)
           t == [s EXCEPT !.queue = Tail(@)]
       IN  IF n = end THEN [s EXCEPT !.found = TRUE]
           ELSE FindFrom(IF s.depth[n] >= max THEN t
                         ELSE FoldLeft(LAMBDA r, e : Visit(r, n, graph[e].to, e), t, Out(n)),
                         end, max)

\* The path is read backwards from its end.
RECURSIVE Back(_, _, _)
Back(by, start, n) ==
  IF n = start THEN <<>> ELSE Append(Back(by, start, graph[by[n]].from), by[n])

NoPath == <<0>>

FindPath(start, end, max) ==
  IF start = end THEN <<>>
  ELSE LET s == FindFrom(Started(start), end, max)
       IN  IF s.found THEN Back(s.by, start, end) ELSE NoPath

RECURSIVE CollectFrom(_, _)
CollectFrom(s, max) ==
  IF s.queue = <<>> THEN s
  ELSE LET n == Head(s.queue)
           t == [s EXCEPT !.queue = Tail(@)]
           Take(r, e) ==
             Visit([r EXCEPT !.edges = IF e \in ToSet(@) THEN @ ELSE Append(@, e)],
                   n, Other(n, e), e)
       IN  CollectFrom(IF s.depth[n] < max THEN FoldLeft(Take, t, Out(n) \o In(n)) ELSE t, max)

\* extract_subgraph
Subgraph(center, max) == CollectFrom(Started(center), max)

-----------------------------------------------------------------------------
(* dijkstra_shortest_path: the heap is a set of costs and nodes, of which   *)
(* one of the least costs is taken.                                         *)

AtLeastOne(w) == IF w = 0 THEN 1 ELSE w \* edge.weight.max(0.0001)

RECURSIVE Settle(_, _)
Settle(s, end) ==
  IF s.heap = {} THEN s
  ELSE LET p == CHOOSE q \in s.heap : \A r \in s.heap : q[1] <= r[1]
           n == p[2]
           t == [s EXCEPT !.heap = @ \ {p}]
           Relax(r, e) ==
             LET w == graph[e].to
                 cost == p[1] + AtLeastOne(graph[e].weight)
             IN  IF w \in DOMAIN r.cost /\ r.cost[w] <= cost THEN r
                 ELSE [r EXCEPT !.cost = With(@, w, cost), !.by = With(@, w, e),
                                !.heap = @ \cup {<<cost, w>>}]
       IN  IF n = end THEN [s EXCEPT !.found = TRUE]
           ELSE Settle(IF p[1] > s.cost[n] THEN t ELSE FoldLeft(Relax, t, Out(n)), end)

Dijkstra(start, end) ==
  IF start = end THEN [path |-> <<>>, cost |-> 0]
  ELSE LET s == Settle([heap |-> {<<0, start>>}, cost |-> start :> 0, by |-> start :> 0,
                        found |-> FALSE], end)
       IN  IF s.found THEN [path |-> Back(s.by, start, end), cost |-> s.cost[end]]
           ELSE [path |-> NoPath, cost |-> 0]

-----------------------------------------------------------------------------
(* connected_components, whose numbers follow the order in which the nodes  *)
(* come: here that of their identifiers.                                    *)

RECURSIVE Spread(_, _, _)
Spread(comp, queue, c) ==
  IF queue = <<>> THEN comp
  ELSE LET n == Head(queue)
           Reach(r, e) ==
             IF Other(n, e) \in DOMAIN r.comp THEN r
             ELSE [comp |-> With(r.comp, Other(n, e), c), queue |-> Append(r.queue, Other(n, e))]
           s == FoldLeft(Reach, [comp |-> comp, queue |-> Tail(queue)], Out(n) \o In(n))
       IN  Spread(s.comp, s.queue, c)

Components ==
  FoldLeft(LAMBDA comp, n :
             IF n \in DOMAIN comp THEN comp
             ELSE LET c == Cardinality(Range(comp))
                  IN  Spread(With(comp, n, c), <<n>>, c),
           <<>>, [n \in 1 .. Nodes |-> n])

-----------------------------------------------------------------------------
(* betweenness_centrality, by the algorithm of Brandes: for each source, the *)
(* numbers of the shortest walks forwards, and what depends on a node        *)
(* backwards, in units that the numbers of walks divide.                     *)

Unit == 36 \* bound: for at most three edges

Plus(f, x, d) == [f EXCEPT ![x] = @ + d]
Zeros         == [n \in Node |-> 0]

RECURSIVE CountFrom(_)
CountFrom(s) ==
  IF s.queue = <<>> THEN s
  ELSE LET v == Head(s.queue)
           Reach(r, e) ==
             LET w == graph[e].to
                 u == Visit(r, v, w, e)
             IN  IF u.depth[w] # u.depth[v] + 1 THEN u
                 ELSE [u EXCEPT !.walks = Plus(@, w, u.walks[v]), !.before[w] = Append(@, v)]
       IN  CountFrom(FoldLeft(Reach, [s EXCEPT !.queue = Tail(@), !.stack = <<v>> \o @], Out(v)))

Dependencies(source) ==
  LET s == CountFrom([queue |-> <<source>>, depth |-> source :> 0, by |-> source :> 0,
                      stack |-> <<>>, walks |-> Plus(Zeros, source, 1),
                      before |-> [n \in Node |-> <<>>]])
      Share(delta, w) ==
        FoldLeft(LAMBDA d, v : Plus(d, v, (s.walks[v] * (Unit + delta[w])) \div s.walks[w]),
                 delta, s.before[w])
  IN  FoldLeft(Share, Zeros, s.stack)

\* Not normalised; of fewer than three nodes all are zero.
Betweenness ==
  LET dependencies == [n \in Node |-> Dependencies(n)]
  IN  [n \in Node |-> IF Nodes < 3 THEN 0
                      ELSE MapThenSumSet(LAMBDA source : dependencies[source][n], Node \ {n})]

-----------------------------------------------------------------------------
(* The statements: GRAPH TRAVERSE, and a pattern of one hop in both of its   *)
(* languages.  The condition of a statement is on the weight of an edge and  *)
(* on the node at its end.                                                   *)

\* GRAPH TRAVERSE: the condition decides whether a hop is made.
RECURSIVE WalkFrom(_, _)
WalkFrom(s, c) ==
  IF s.queue = <<>> THEN s
  ELSE LET n == Head(s.queue)
           t == [s EXCEPT !.queue = Tail(@)]
           Hop(r, e) == IF graph[e].weight < c.least \/ Other(n, e) \notin c.nodes THEN r
                        ELSE Visit(r, n, Other(n, e), e)
       IN  WalkFrom(IF s.depth[n] >= c.max THEN t
                    ELSE FoldLeft(Hop, t, Neighbours(n, c.direction, c.labels)), c)

Walked(start, c) == WalkFrom(Started(start), c).depth

\* GRAPH MATCH of SQL goes over the edges,
Matched(c) ==
  SelectSeq(Numbers, LAMBDA e : /\ graph[e].label \in c.labels
                                /\ graph[e].from \in c.sources /\ graph[e].to \in c.targets
                                /\ graph[e].weight >= c.least)

\* MATCH of Cypher over the nodes and their edges, and filters what it has bound.
MatchedFrom(c) ==
  LET sources == SelectSeq([n \in 1 .. Nodes |-> n], LAMBDA n : n \in c.sources)
      bound   == FlattenSeq([k \in DOMAIN sources |->
                   SelectSeq(Neighbours(sources[k], "outgoing", c.labels),
                             LAMBDA e : Other(sources[k], e) \in c.targets)])
  IN  SelectSeq(bound, LAMBDA e : graph[e].weight >= c.least)

-----------------------------------------------------------------------------
(* CsrGraph::from_graph_engine: the edges of each node in the order of      *)
(* their targets, one node after the other.                                 *)

\* Targets first, and the older edge of two to the same target.
Precedes(d, e) == graph[d].to < graph[e].to \/ (graph[d].to = graph[e].to /\ d < e)
Row(n)         == SortSeq(Out(n), Precedes)

Csr ==
  [targets |-> FlattenSeq([n \in 1 .. Nodes |-> [k \in 1 .. Len(Row(n)) |-> graph[Row(n)[k]].to]]),
   offsets |-> [n \in 1 .. Nodes + 1 |-> FoldSet(LAMBDA m, s : s + Len(Row(m)), 0, 1 .. n - 1)]]

\* outgoing_neighbors
Slice(c, n) == SubSeq(c.targets, c.offsets[n] + 1, c.offsets[n + 1])

\* has_edge: a binary search.
RECURSIVE FoundBetween(_, _, _, _)
FoundBetween(row, x, low, high) ==
  IF low > high THEN FALSE
  ELSE LET mid == (low + high) \div 2
       IN  IF row[mid] = x THEN TRUE
           ELSE IF row[mid] < x THEN FoundBetween(row, x, mid + 1, high)
           ELSE FoundBetween(row, x, low, mid - 1)

HasEdge(c, a, b) == FoundBetween(Slice(c, a), b, 1, Len(Slice(c, a)))

\* common_neighbors_count: two pointers.
RECURSIVE CommonFrom(_, _, _, _)
CommonFrom(u, v, i, j) ==
  IF i > Len(u) \/ j > Len(v) THEN 0
  ELSE IF u[i] = v[j] THEN 1 + CommonFrom(u, v, i + 1, j + 1)
  ELSE IF u[i] < v[j] THEN CommonFrom(u, v, i + 1, j)
  ELSE CommonFrom(u, v, i, j + 1)

Common(c, a, b) == CommonFrom(Slice(c, a), Slice(c, b), 1, 1)

-----------------------------------------------------------------------------
(* GraphChain: steps along edges of a label, of a least weight; a walk is   *)
(* continued along an edge once in each step.                               *)

\* resolve_candidates, for one step: [node, path] of the walks.
ChainStep(frontier, step) ==
  FoldLeft(LAMBDA next, w :
             FoldLeft(LAMBDA r, e :
                        IF graph[e].weight < step.least
                             \/ \E x \in ToSet(r) : Last(x.path) = e /\ x.from = w.node
                        THEN r
                        ELSE Append(r, [node |-> Other(w.node, e), from |-> w.node,
                                        path |-> Append(w.path, e)]),
                      next, Neighbours(w.node, step.direction, step.labels)),
           <<>>, frontier)

Chain(start, steps) ==
  FoldLeft(ChainStep, <<[node |-> start, from |-> start, path |-> <<>>]>>, steps)

-----------------------------------------------------------------------------
(* expand_multihop: depth first; a pair of nodes is passed once.            *)

RECURSIVE Expand(_, _, _, _)
Expand(s, n, depth, p) ==
  IF depth > p.max THEN s
  ELSE FoldLeft(LAMBDA r, e :
                  LET w == Other(n, e)
                  IN  IF <<n, w>> \in r.pairs THEN r
                      ELSE Expand([pairs |-> r.pairs \cup {<<n, w>>},
                                   found |-> IF depth >= p.min THEN r.found \cup {w} ELSE r.found],
                                  w, depth + 1, p),
                s, Neighbours(n, p.direction, p.labels))

\* execute_match: the targets of one source.
Targets(n, p) ==
  IF p.max <= 1 THEN {Other(n, e) : e \in ToSet(Neighbours(n, p.direction, p.labels))}
  ELSE Expand([pairs |-> {}, found |-> {}], n, 1, p).found

-----------------------------------------------------------------------------
(* GraphRagEngine::query: from the seeds, over nodes that are permitted; a  *)
(* node is visited again when it is reached by a heavier path of the same   *)
(* length.  The weight of a path of h hops is the product of the weights    *)
(* of its edges over (h + 1)!, so that paths of one length compare by the   *)
(* product.                                                                 *)

\* Fault: the neighbour's permission is not asked.
PermittedAll(c, n) == TRUE

Permitted(c, n) == n \in c.permitted

RECURSIVE Traverse(_, _)
Traverse(s, c) ==
  IF s.queue = <<>> THEN s
  ELSE LET x == Head(s.queue)
           t == [s EXCEPT !.queue = Tail(@)]
           Hop(r, e) ==
             LET w == Other(x.node, e)
                 new == [hops |-> x.hops + 1, weight |-> x.weight * graph[e].weight]
                 better == \/ w \notin DOMAIN r.visited
                           \/ new.hops < r.visited[w].hops
                           \/ new.hops = r.visited[w].hops /\ new.weight > r.visited[w].weight
                 u == [r EXCEPT !.edges = @ \cup {<<x.node, e>>, <<w, e>>}]
             IN  IF ~ Permitted(c, w) THEN r
                 ELSE IF ~ better THEN u
                 ELSE [u EXCEPT !.visited = With(@, w, new),
                                !.queue = Append(@, [node |-> w, hops |-> new.hops,
                                                     weight |-> new.weight])]
       IN  Traverse(IF x.hops >= c.max THEN t
                    ELSE FoldLeft(Hop, t, Around(x.node, c.direction)), c)

Rag(c) ==
  LET seeds == SetToSortSeq(c.seeds, <)
  IN  Traverse([queue   |-> [k \in 1 .. Len(seeds) |-> [node |-> seeds[k], hops |-> 0, weight |-> 1]],
                visited |-> [n \in c.seeds |-> [hops |-> 0, weight |-> 1]],
                edges   |-> {}], c)

-----------------------------------------------------------------------------
(* What the edges say.                                                      *)

\* The nodes at the end of walks of k edges from n, over edges that are admitted.
RECURSIVE Ends(_, _, _, _)
Ends(n, k, direction, es) ==
  IF k = 0 THEN {n}
  ELSE UNION {{Other(m, e) : e \in ToSet(Around(m, direction)) \cap es} :
                m \in Ends(n, k - 1, direction, es)}

All == DOMAIN graph
Of(labels) == {e \in All : graph[e].label \in labels}

Within(n, k, direction, es) == UNION {Ends(n, j, direction, es) : j \in 0 .. k}

Hops(n, m, direction, es) ==
  LET S == {k \in 0 .. Nodes : m \in Ends(n, k, direction, es)}
  IN  IF S = {} THEN Nodes + 1 ELSE Min(S)

\* A path follows edges from one node to the other.
IsWalk(path, a, b) ==
  IF path = <<>> THEN a = b
  ELSE /\ graph[path[1]].from = a /\ graph[Last(path)].to = b
       /\ \A k \in 1 .. Len(path) - 1 : graph[path[k]].to = graph[path[k + 1]].from

CostOf(path) == FoldLeft(LAMBDA c, e : c + AtLeastOne(graph[e].weight), 0, path)

Paths(a, b) ==
  {p \in UNION {[1 .. k -> All] : k \in 0 .. Nodes - 1} : IsWalk(p, a, b)}

\* find_path finds a shortest path, when there is one of at most max edges.
PathsAreShortest ==
  \A a, b \in Node : \A max \in 0 .. MaxHops :
    LET p == FindPath(a, b, max)
        h == Hops(a, b, "outgoing", All)
    IN  IF h > max /\ a # b THEN p = NoPath ELSE IsWalk(p, a, b) /\ Len(p) = h

\* extract_subgraph gives the nodes within depth hops, each once, and the edges that
\* leave or enter one that is nearer.
SubgraphsAreWhole ==
  \A n \in Node : \A max \in 0 .. MaxHops :
    LET s == Subgraph(n, max)
    IN  /\ DOMAIN s.depth = Within(n, max, "both", All)
        /\ IsInjective(s.edges)
        /\ ToSet(s.edges) =
             {e \in All : \E m \in {graph[e].from, graph[e].to} : Hops(n, m, "both", All) < max}

\* dijkstra_shortest_path finds a path of the least weight, and its weight.
PathsAreCheapest ==
  \A a, b \in Node :
    LET d == Dijkstra(a, b)
        costs == {CostOf(p) : p \in Paths(a, b)}
    IN  IF costs = {} THEN d.path = NoPath
        ELSE IsWalk(d.path, a, b) /\ CostOf(d.path) = d.cost /\ d.cost = Min(costs)

\* Two nodes are of one component when edges connect them, and the numbers have no gap.
ComponentsAreConnected ==
  /\ Range(Components) = 0 .. Cardinality(Range(Components)) - 1
  /\ \A a, b \in Node :
       (Components[a] = Components[b]) <=> (b \in Within(a, Nodes, "both", All))

\* The compressed rows are the adjacency of the engine, and what reads them agrees.
RowsAreAdjacency ==
  LET c == Csr
      Times(a, b) == Cardinality({e \in All : graph[e].from = a /\ graph[e].to = b})
      Fewer(x, y) == IF x < y THEN x ELSE y
  IN  \A a, b \in Node :
        /\ Cardinality({k \in DOMAIN Slice(c, a) : Slice(c, a)[k] = b}) = Times(a, b)
        /\ HasEdge(c, a, b) = (Times(a, b) > 0)
        /\ Common(c, a, b) = MapThenSumSet(LAMBDA m : Fewer(Times(a, m), Times(b, m)), Node)

\* Steps along edges of one label, and along edges of a least weight.
ByLabel  == [direction : Directions, labels : {{l} : l \in Labels}, least : {0}]
ByWeight == [direction : Directions, labels : {Labels}, least : {k.weight : k \in Kinds}]

\* A chain of steps ends at the nodes to which its steps lead.
ChainsEndWhereTheyLead ==
  LET ends == [s \in ByLabel \cup ByWeight |->
                 LET es == {e \in Of(s.labels) : graph[e].weight >= s.least}
                 IN  [n \in Node |-> Ends(n, 1, s.direction, es)]]
  IN  \A n \in Node : \A s \in ByLabel : \A t \in ByWeight :
        {w.node : w \in ToSet(Chain(n, <<s, t>>))} = UNION {ends[t][m] : m \in ends[s][n]}

\* What GraphRAG collects is permitted, is all that is permitted within the hops, at its
\* least distance; its edges connect permitted nodes only.
ContextIsPermitted ==
  \A direction \in Directions : \A permitted \in SUBSET Node :
    LET es   == {e \in All : {graph[e].from, graph[e].to} \subseteq permitted}
        near == [a \in permitted |-> [k \in 0 .. MaxHops |-> Within(a, k, direction, es)]]
    IN  \A max \in 1 .. MaxHops : \A seeds \in SUBSET permitted \ {{}} :
          LET r == Rag([permitted |-> permitted, seeds |-> seeds, max |-> max,
                        direction |-> direction])
          IN  /\ DOMAIN r.visited = UNION {near[s][max] : s \in seeds}
              /\ \A n \in DOMAIN r.visited :
                   r.visited[n].hops = Min({k \in 0 .. max : \E s \in seeds : n \in near[s][k]})
              /\ {x[2] : x \in r.edges} \subseteq es

\* betweenness_centrality gives a node its share of the shortest walks between two others.
SharesAreExact ==
  LET shortest == [a, b \in Node |->
                     {p \in Paths(a, b) : Len(p) = Hops(a, b, "outgoing", All)}]
      through(p) == {graph[p[k]].to : k \in 1 .. Len(p) - 1}
      Share(n, a, b) ==
        IF a = b \/ n \in {a, b} \/ shortest[a, b] = {} THEN 0
        ELSE (Unit * Cardinality({p \in shortest[a, b] : n \in through(p)}))
               \div Cardinality(shortest[a, b])
  IN  \A n \in Node :
        Nodes >= 3 => Betweenness[n] = MapThenSumSet(LAMBDA q : Share(n, q[1], q[2]), Node \X Node)

\* Conditions of a statement.
Leasts == {k.weight : k \in Kinds}

\* GRAPH TRAVERSE lists the nodes to which hops lead that all meet the condition, at the
\* least depth.
TraversalsFollowHops ==
  \A start \in Node, nodes \in SUBSET Node, direction \in Directions, least \in Leasts :
    LET c(max) == [direction |-> direction, labels |-> Labels, nodes |-> nodes,
                   least |-> least, max |-> max]
        Meets(n, e) == graph[e].weight >= least /\ Other(n, e) \in nodes
        Onward(S) == S \cup UNION {{Other(n, e) : e \in {d \in ToSet(Around(n, direction)) : Meets(n, d)}} :
                                     n \in S}
        reached == FoldLeft(LAMBDA s, k : Append(s, Onward(s[k])), <<{start}>>,
                            [k \in 1 .. MaxHops |-> k])
    IN  \A max \in 0 .. MaxHops :
          LET d == Walked(start, c(max))
          IN  /\ DOMAIN d = reached[max + 1]
              /\ \A n \in DOMAIN d : d[n] = Min({k \in 0 .. max : n \in reached[k + 1]})

\* The same pattern matches the same edges in both languages, each once.
PatternsAgree ==
  \A sources, targets \in SUBSET Node, least \in Leasts, labels \in SUBSET Labels :
    LET c == [sources |-> sources, targets |-> targets, least |-> least, labels |-> labels]
        found == MatchedFrom(c)
    IN  IsInjective(found) /\ ToSet(found) = ToSet(Matched(c))

(***************************************************************************)
(* Every search of the graph finds what its edges say: shortest and        *)
(* cheapest paths, whole neighbourhoods and components, shares of paths,   *)
(* the rows of the compressed graph, the ends of chains and traversals,    *)
(* the same edges for a pattern in either language, and of GraphRAG only   *)
(* what is permitted.                                                      *)
(***************************************************************************)
SearchesFollowEdges ==
  /\ PathsAreShortest /\ SubgraphsAreWhole /\ PathsAreCheapest
  /\ ComponentsAreConnected /\ RowsAreAdjacency
  /\ ChainsEndWhereTheyLead /\ ContextIsPermitted
  /\ SharesAreExact /\ TraversalsFollowHops /\ PatternsAgree

\* A condition that filters what GRAPH TRAVERSE lists, as WHERE does elsewhere.  Here it
\* stops the walk at a node that does not meet it.
TraversalsFilter ==
  \A start \in Node, nodes \in SUBSET Node :
    DOMAIN Walked(start, [direction |-> "outgoing", labels |-> Labels, nodes |-> nodes,
                          least |-> 0, max |-> MaxHops])
      = {start} \cup (nodes \cap Within(start, MaxHops, "outgoing", All))

\* A pattern of several hops finds every node within its hops.  The code misses some:
\* a pair of nodes that was passed at the last hop is not passed again at an earlier one.
PatternsFindAll ==
  \A n \in Node : \A direction \in Directions : \A max \in 2 .. MaxHops :
    Targets(n, [min |-> 1, max |-> max, direction |-> direction, labels |-> Labels]) =
      UNION {Ends(n, k, direction, All) : k \in 1 .. max}
=============================================================================

----------------------------- MODULE GraphStore -----------------------------
(***************************************************************************)
(* The property graph: GraphEngine (src/graph/mod.rs), which holds it in   *)
(* memory, and the tables __sys_graph_nodes, __sys_graph_edges and         *)
(* __sys_graph_adj in which the executor keeps it                          *)
(* (src/sql/executor.rs).                                                  *)
(*                                                                         *)
(* The functions of Connection (src/lib.rs) change the memory first and    *)
(* then make one write to a B+tree after the other, outside any statement; *)
(* INSERT NODE and INSERT EDGE do both inside atomic_statement, which      *)
(* takes the pages back when something fails and then loads the graph once *)
(* more over the one in memory.  A failure of storage may stop either      *)
(* after any write.                                                        *)
(***************************************************************************)
EXTENDS Naturals, Sequences, FiniteSets, FiniteSetsExt, Functions, SequencesExt, Bags, BagsExt

CONSTANTS
  Node,          \* identifiers of nodes
  MaxEdge,       \* bound: identifiers of edges
  MaxSteps,      \* bound: operations that change something
  MaxSavepoints, \* bound: savepoints of a transaction
  Faults         \* whether storage may fail

VARIABLES
  disk,  \* the three tables
  mem,   \* SQLExecutor.graph
  saved, \* the tables that the open transaction and its savepoints go back to
  apart, \* history: a failure since the last rebuild left memory ahead of the tables
  steps  \* operations so far

vars == <<disk, mem, saved, apart, steps>>

EdgeId == 1 .. MaxEdge
Edge   == [from : Node, to : Node]

NoFunction == <<>>
With(f, x, y) == [z \in DOMAIN f \cup {x} |-> IF z = x THEN y ELSE f[z]]
Without(f, x) == Restrict(f, DOMAIN f \ {x})

-----------------------------------------------------------------------------
(* The graph in memory.  Each node has two lists of edges; a list is a bag, *)
(* for an edge can be in it more than once.                                *)

Empty == [nodes |-> {}, edges |-> NoFunction, out |-> NoFunction, inc |-> NoFunction, next |-> 1]

\* entry(n).or_default()
Listed(lists, n) == IF n \in DOMAIN lists THEN lists ELSE With(lists, n, EmptyBag)
Pushed(lists, n, e) == [Listed(lists, n) EXCEPT ![n] = BagAdd(@, e)]
\* retain: every occurrence goes.
Unlisted(lists, n, e) ==
  IF n \in DOMAIN lists THEN [lists EXCEPT ![n] = Without(@, e)] ELSE lists

\* add_node_with_vector and restore_node.
NodeAdded(g, n) ==
  [g EXCEPT !.nodes = @ \cup {n}, !.out = Listed(@, n), !.inc = Listed(@, n)]

EdgeLinked(g, e, x) ==
  [g EXCEPT !.edges = With(@, e, x), !.out = Pushed(@, x.from, e), !.inc = Pushed(@, x.to, e)]

EdgeAdded(g, x) == [EdgeLinked(g, g.next, x) EXCEPT !.next = @ + 1]

EdgeRestored(g, e, x) ==
  [EdgeLinked(g, e, x) EXCEPT !.next = IF e >= @ THEN e + 1 ELSE @]

EdgeRemoved(g, e) ==
  [g EXCEPT !.edges = Without(@, e),
            !.out   = Unlisted(@, g.edges[e].from, e),
            !.inc   = Unlisted(@, g.edges[e].to, e)]

\* The edges of its two lists that exist go with the node.
Incident(g, n) ==
  (DOMAIN g.edges) \cap (BagToSet(g.out[n]) \cup BagToSet(g.inc[n]))

NodeRemoved(g, n) ==
  LET h == FoldSet(LAMBDA e, k : EdgeRemoved(k, e), g, Incident(g, n))
  IN  [h EXCEPT !.nodes = @ \ {n}, !.out = Without(@, n), !.inc = Without(@, n)]

\* neighbor_refs: an edge whose other end does not exist is passed over.
Other(x, n) == IF x.from = n THEN x.to ELSE x.from
List(lists, n) == IF n \in DOMAIN lists THEN lists[n] ELSE EmptyBag
Neighbours(g, n, lists) ==
  {<<Other(g.edges[e], n), e>> :
     e \in {f \in BagToSet(List(lists, n)) \cap DOMAIN g.edges :
              Other(g.edges[f], n) \in g.nodes}}

-----------------------------------------------------------------------------
(* The tables.  What a procedure does to them is the sequence of their     *)
(* contents after each of its writes.                                      *)

NoLinks == [out |-> {}, inc |-> {}]
Adjacency(d, n) == IF n \in DOMAIN d.adj THEN d.adj[n] ELSE NoLinks

\* An adjacency record is written when it changes, and only then.
Relinked(d, n, links) ==
  IF links = Adjacency(d, n) THEN d ELSE [d EXCEPT !.adj = With(@, n, links)]
LinkFrom(d, e, n)   == Relinked(d, n, [Adjacency(d, n) EXCEPT !.out = @ \cup {e}])
LinkTo(d, e, n)     == Relinked(d, n, [Adjacency(d, n) EXCEPT !.inc = @ \cup {e}])
UnlinkFrom(d, e, n) == Relinked(d, n, [Adjacency(d, n) EXCEPT !.out = @ \ {e}])
UnlinkTo(d, e, n)   == Relinked(d, n, [Adjacency(d, n) EXCEPT !.inc = @ \ {e}])

NodePut(d, n) == <<[d EXCEPT !.nodes = @ \cup {n}]>>

EdgePut(d, e, x) ==
  LET d1 == [d EXCEPT !.edges = With(@, e, x)]
      d2 == LinkFrom(d1, e, x.from)
      d3 == LinkTo(d2, e, x.to)
  IN  <<d1, d2, d3>>

EdgeDeleted(d, e) ==
  IF e \notin DOMAIN d.edges THEN <<d>>
  ELSE LET d1 == [d EXCEPT !.edges = Without(@, e)]
           d2 == UnlinkFrom(d1, e, d.edges[e].from)
           d3 == UnlinkTo(d2, e, d.edges[e].to)
       IN  <<d1, d2, d3>>

\* delete_graph_node, then delete_graph_edge for each of its edges.
NodeDeleted(d, n, edges) ==
  LET d1 == [d EXCEPT !.nodes = @ \ {n}]
      d2 == [d1 EXCEPT !.adj = Without(@, n)]
  IN  FoldSet(LAMBDA e, stages : stages \o EdgeDeleted(Last(stages), e), <<d1, d2>>, edges)

\* get_disk_graph_neighbors
DiskNeighbours(d, n, links) ==
  {<<Other(d.edges[e], n), e>> :
     e \in {f \in links \cap DOMAIN d.edges : Other(d.edges[f], n) \in d.nodes}}

\* load_graph_from_disk, into the graph that is there.
Loaded(g, d) ==
  LET h == FoldSet(LAMBDA n, k : NodeAdded(k, n), g, d.nodes)
  IN  FoldSet(LAMBDA e, k : EdgeRestored(k, e, d.edges[e]), h, DOMAIN d.edges)

-----------------------------------------------------------------------------
(* Operations                                                              *)

Step == steps < MaxSteps /\ steps' = steps + 1

\* All writes are made (torn, a history field, says that an operation wrote some of
\* them only, or wrote while memory was ahead of the tables).
Written(stages) == [Last(stages) EXCEPT !.torn = @ \/ apart]

\* A function of Connection: memory is changed, then the writes are made; when one
\* fails, those before it stay.
Direct(g, stages) ==
  /\ Step
  /\ mem' = g
  /\ \/ disk' = Written(stages) /\ UNCHANGED apart
     \/ /\ Faults
        /\ \E k \in 0 .. Len(stages) - 1 :
             disk' = [(IF k = 0 THEN disk ELSE stages[k]) EXCEPT !.torn = @ \/ k > 0]
        /\ apart' = TRUE
  /\ UNCHANGED saved

\* A statement: when it fails, the tables are as before it and are loaded into the
\* graph that it has changed.
Atomic(g, stages) ==
  /\ Step
  /\ \/ mem' = g /\ disk' = Written(stages) /\ UNCHANGED apart
     \/ /\ Faults
        /\ mem' = Loaded(g, disk) /\ UNCHANGED disk
        /\ apart' = TRUE
  /\ UNCHANGED saved

GraphAddNode(n) == Direct(NodeAdded(mem, n), NodePut(disk, n))
InsertNode(n)   == Atomic(NodeAdded(mem, n), NodePut(disk, n))

CanLink(x) == {x.from, x.to} \subseteq mem.nodes /\ mem.next \in EdgeId

GraphAddEdge(x) ==
  CanLink(x) /\ Direct(EdgeAdded(mem, x), EdgePut(disk, mem.next, x))
InsertEdge(x) ==
  CanLink(x) /\ Atomic(EdgeAdded(mem, x), EdgePut(disk, mem.next, x))

GraphRemoveNode(n) ==
  /\ n \in mem.nodes
  /\ Direct(NodeRemoved(mem, n), NodeDeleted(disk, n, Incident(mem, n)))
GraphRemoveEdge(e) ==
  /\ e \in DOMAIN mem.edges
  /\ Direct(EdgeRemoved(mem, e), EdgeDeleted(disk, e))

\* A statement that fails before it has changed the graph: INSERT EDGE between nodes
\* that do not exist, or one that is not about the graph.
FailStatement ==
  /\ Step
  /\ mem' = Loaded(mem, disk)
  /\ UNCHANGED <<disk, saved, apart>>

\* Fault: the tables are loaded into the graph that is there.
RebuildOver(d) ==
  /\ disk' = d /\ mem' = Loaded(mem, d)
  /\ apart' = FALSE

\* ROLLBACK and ROLLBACK TO: the graph is built anew.
Rebuild(d) ==
  /\ disk' = d /\ mem' = Loaded(Empty, d)
  /\ apart' = FALSE

Begin    == saved = <<>> /\ Step /\ saved' = <<disk>> /\ UNCHANGED <<disk, mem, apart>>
Commit   == saved # <<>> /\ Step /\ saved' = <<>> /\ UNCHANGED <<disk, mem, apart>>
Rollback == saved # <<>> /\ Step /\ saved' = <<>> /\ Rebuild(saved[1])

Savepoint ==
  /\ Len(saved) \in 1 .. MaxSavepoints /\ Step
  /\ saved' = Append(saved, disk)
  /\ UNCHANGED <<disk, mem, apart>>
RollbackTo(k) ==
  /\ k \in 2 .. Len(saved) /\ Step
  /\ saved' = SubSeq(saved, 1, k)
  /\ Rebuild(saved[k])
Release(k) ==
  /\ k \in 2 .. Len(saved) /\ Step
  /\ saved' = SubSeq(saved, 1, k - 1)
  /\ UNCHANGED <<disk, mem, apart>>

\* The database is closed and opened; what was not committed is gone.
Reopen ==
  /\ Step
  /\ saved' = <<>>
  /\ Rebuild(IF saved = <<>> THEN disk ELSE saved[1])

Init ==
  /\ disk = [nodes |-> {}, edges |-> NoFunction, adj |-> NoFunction, torn |-> FALSE]
  /\ mem = Empty
  /\ saved = <<>>
  /\ apart = FALSE
  /\ steps = 0

Next ==
  \/ \E n \in Node : GraphAddNode(n) \/ InsertNode(n) \/ GraphRemoveNode(n)
  \/ \E x \in Edge : GraphAddEdge(x) \/ InsertEdge(x)
  \/ \E e \in EdgeId : GraphRemoveEdge(e)
  \/ FailStatement
  \/ Begin \/ Commit \/ Rollback \/ Savepoint
  \/ \E k \in 2 .. MaxSavepoints + 1 : RollbackTo(k) \/ Release(k)
  \/ Reopen

Spec == Init /\ [][Next]_vars

-----------------------------------------------------------------------------
(* Properties                                                              *)

IsTables(d) ==
  /\ d.nodes \subseteq Node /\ d.torn \in BOOLEAN
  /\ DOMAIN d.edges \subseteq EdgeId /\ Range(d.edges) \subseteq Edge
  /\ DOMAIN d.adj \subseteq Node
  /\ Range(d.adj) \subseteq [out : SUBSET EdgeId, inc : SUBSET EdgeId]

\* Both copies of the graph and the tables to go back to have their types; the lists
\* of the engine name edges that it has, at both of their ends.
TypeOK ==
  /\ IsTables(disk) /\ \A k \in DOMAIN saved : IsTables(saved[k])
  /\ mem.nodes \subseteq Node /\ mem.next \in 1 .. MaxEdge + 1
  /\ DOMAIN mem.edges \subseteq EdgeId /\ Range(mem.edges) \subseteq Edge
  /\ \A n \in DOMAIN mem.out : IsABag(mem.out[n])
                                 /\ BagToSet(mem.out[n]) = {e \in DOMAIN mem.edges : mem.edges[e].from = n}
  /\ \A n \in DOMAIN mem.inc : IsABag(mem.inc[n])
                                 /\ BagToSet(mem.inc[n]) = {e \in DOMAIN mem.edges : mem.edges[e].to = n}

EngineHolds ==
  apart \/ /\ mem.nodes = disk.nodes
           /\ mem.edges = disk.edges
           /\ \A e \in DOMAIN mem.edges : e < mem.next

AdjacencyFinds ==
  disk.torn \/
    /\ \A e \in DOMAIN disk.edges : {disk.edges[e].from, disk.edges[e].to} \subseteq disk.nodes
    /\ ~ apart => \A n \in Node :
         /\ DiskNeighbours(disk, n, Adjacency(disk, n).out) = Neighbours(mem, n, mem.out)
         /\ DiskNeighbours(disk, n, Adjacency(disk, n).inc) = Neighbours(mem, n, mem.inc)

\* The engine holds the graph of the tables, through every mixture of statements,
\* functions of Connection, savepoints and reopening: it may be ahead of them only after
\* storage failed, and only until the next rollback or reopening.  And
\* get_disk_graph_neighbors, which reads the adjacency records, finds what the engine
\* finds, and no edge has lost an end, unless a function of Connection was cut short
\* or one wrote what refers to a node of which storage never heard.
MemoryFollows == TypeOK /\ EngineHolds /\ AdjacencyFinds

\* A neighbour is found once for each edge that leads to it, whatever statements have
\* failed.
NeighboursAlwaysOnce ==
  \A n \in DOMAIN mem.out : \A e \in DOMAIN mem.out[n] : mem.out[n][e] = 1
=============================================================================

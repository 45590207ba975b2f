----------------------------- MODULE MCExecutor -----------------------------
(* Model-checking instance of what the executor keeps in memory over its    *)
(* tables: the catalog (Tables), the graph (GraphStore) and the history     *)
(* (TimeTravel).  They share no state, so that a behaviour is one of a      *)
(* single part, the others resting in their initial states.  Names and      *)
(* identifiers are only compared.                                           *)
EXTENDS Tables, TLC

CONSTANTS Node, MaxEdge, MaxSteps, Faults, Table, Versioned, Payload, MaxTime, MaxChanges

VARIABLES
  part,                                       \* the part that takes the steps
  graphDisk, graphMem, graphSaved, apart, steps, \* GraphStore
  pages, executor, before, now, changes        \* TimeTravel

Graph == INSTANCE GraphStore WITH disk <- graphDisk, mem <- graphMem, saved <- graphSaved
History == INSTANCE TimeTravel WITH
  Name <- Table, Value <- Payload, disk <- pages, mem <- executor, saved <- before

ASSUME History!TimeTravelAssumption

Symmetry == Permutations(Name) \cup Permutations(Column) \cup Permutations(Node)

graphVars == <<graphDisk, graphMem, graphSaved, apart, steps>>
historyVars == <<pages, executor, before, now, changes>>

PartsInit == part \in {"tables", "graph", "history"} /\ Init /\ Graph!Init /\ History!Init

PartsNext ==
  /\ \/ part = "tables" /\ Next /\ UNCHANGED <<graphVars, historyVars>>
     \/ part = "graph" /\ Graph!Next /\ UNCHANGED <<vars, historyVars>>
     \/ part = "history" /\ History!Next /\ UNCHANGED <<vars, graphVars>>
  /\ UNCHANGED part

Parts == PartsInit /\ [][PartsNext]_<<part, vars, graphVars, historyVars>>

-----------------------------------------------------------------------------
(* The properties of the graph and the history; those of the tables are     *)
(* Tables'.                                                                 *)

\* The graph in memory is the one of the tables, unless storage failed, and the
\* adjacency records find what it finds.
MemoryFollows == Graph!MemoryFollows

\* A neighbour is found once for each edge.
NeighboursAlwaysOnce == Graph!NeighboursAlwaysOnce

\* SELECT ... AS OF TIMESTAMP t finds the rows that the table had at t.
HistoryIsExact == History!HistoryIsExact

\* A version that was recorded keeps its row and its value.
VersionsAreKept == History!VersionsAreKept
=============================================================================

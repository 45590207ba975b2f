----------------------------- MODULE MCEngines -----------------------------
(* Model-checking instance of the engines that answer from memory: the      *)
(* memories of an agent (MemoryStore), the graph of a vector index (Hnsw),  *)
(* the vector indexes over tables (VectorIndex), the searches of a graph of *)
(* nodes and edges (GraphSearch), and the paths along which a SELECT is     *)
(* answered (Select).  They share no state, so that a behaviour is one of a *)
(* single part, the others resting in their initial states: the states add  *)
(* up instead of multiplying.                                               *)
EXTENDS MemoryStore

CONSTANTS
  VectorId, Position, TopLevel, m, m0, efConstruction, efSearch, MaxVectorSteps,
  Name, RowId, Vectors, Kinds, MaxStatements, Asked,
  Nodes, EdgeKinds, MaxEdges, MaxHops

VARIABLES
  part,                                          \* the part that takes the steps
  index, stored, vectorSteps,                    \* Hnsw
  vectorDisk, indexes, vectorSaved, vectorCount, \* VectorIndex
  graph,                                         \* GraphSearch
  tables, query, answer                          \* Select

\* Memories: one model with two dimensions, and limits that a transaction can lower below
\* what it started with.
OneModel   == {[model |-> "m", dimension |-> d] : d \in {1, 2}}
SomeDocuments ==
  {[key |-> k, space |-> s] : k \in Key, s \in Space}
    \cup {[key |-> None, space |-> s] : s \in {None, [model |-> "m", dimension |-> 1]}}
SomeLimits == {[documents |-> n, spaces |-> 1] : n \in {1, 2}}

Graphs  == INSTANCE Hnsw WITH
  Id <- VectorId, MaxSteps <- MaxVectorSteps, steps <- vectorSteps
Indexes == INSTANCE VectorIndex WITH
  Vector <- Vectors, Row <- RowId, Null <- None,
  disk <- vectorDisk, saved <- vectorSaved, count <- vectorCount
Searches == INSTANCE GraphSearch WITH Kinds <- EdgeKinds
Forms   == INSTANCE MCSelect WITH LeftRows <- {}, RightRows <- {}, Queries <- {}
Answers == INSTANCE Select WITH
  LeftRows <- Forms!Left, RightRows <- Forms!Right, Queries <- Asked

TwoKinds == {[label |-> "x", weight |-> 0], [label |-> "y", weight |-> 3]}

OneDimension  == {[dims |-> 1, at |-> "x"], [dims |-> 1, at |-> "y"]}
TwoDimensions == {[dims |-> d, at |-> "x"] : d \in {1, 2}}
Answered      == Forms!Answered
Unread        == Forms!Unread

ASSUME Graphs!HnswAssumption /\ Searches!GraphSearchAssumption

graphVars  == <<index, stored, vectorSteps>>
vectorVars == <<vectorDisk, indexes, vectorSaved, vectorCount>>
queryVars  == <<tables, query, answer>>

\* The tables that are queried are initial states of their part.
PartsInit ==
  /\ part \in {"memories", "graphs", "vectors", "searches", "queries"}
  /\ Init /\ Graphs!Init /\ Indexes!Init /\ Searches!Init
  /\ part # "memories" => config = [documents |-> 1, spaces |-> 1]
  /\ IF part = "queries" THEN Answers!Init
     ELSE tables = <<>> /\ query = None /\ answer = <<>>

PartsNext ==
  /\ \/ /\ part = "memories" /\ Next
        /\ UNCHANGED <<graphVars, vectorVars, graph, queryVars>>
     \/ /\ part = "graphs" /\ Graphs!Next
        /\ UNCHANGED <<vars, vectorVars, graph, queryVars>>
     \/ /\ part = "vectors" /\ Indexes!Next
        /\ UNCHANGED <<vars, graphVars, graph, queryVars>>
     \/ /\ part = "searches" /\ Searches!Next
        /\ UNCHANGED <<vars, graphVars, vectorVars, queryVars>>
     \/ /\ part = "queries" /\ Answers!Next
        /\ UNCHANGED <<vars, graphVars, vectorVars, graph>>
  /\ UNCHANGED part

Parts == PartsInit /\ [][PartsNext]_<<part, vars, graphVars, vectorVars, graph, queryVars>>

-----------------------------------------------------------------------------
(* The properties of the instances; those of the memories are MemoryStore's. *)

\* A vector search returns the nearest vectors, from a graph that is sound.
FindsNearest == part = "graphs" => Graphs!GraphIsSound /\ Graphs!FindsNearest

\* Every vector can be found by some search.
AllReachable == part = "graphs" => Graphs!AllReachable

\* The vector indexes and their snapshots are those of the rows.
IndexFollowsRows == part = "vectors" => Indexes!IndexFollowsRows

\* The searches of a graph find what its edges say.
SearchesFollowEdges == part = "searches" => Searches!SearchesFollowEdges

\* Every path of a SELECT returns what the query means.
AnswersAreRight == part = "queries" => Answers!AnswersAreRight
-----------------------------------------------------------------------------
(* What one would like to hold as well, and does not (README, Variations).  *)

\* A pattern of several hops finds every node within its hops; the condition of a traversal
\* filters what is listed.
PatternsFindAll  == part = "searches" => Searches!PatternsFindAll
TraversalsFilter == part = "searches" => Searches!TraversalsFilter
=============================================================================

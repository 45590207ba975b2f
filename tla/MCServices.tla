----------------------------- MODULE MCServices -----------------------------
(* Model-checking instance of the parts beside the transaction engine: the *)
(* change feed (Changes), replication by snapshots (Replication), opening  *)
(* and backup (LockFile), the import from devices (IotImport), and the     *)
(* databases in an object store (RemoteStore).                             *)
(* They share no state, so that a behaviour is one of a single part, the   *)
(* others resting in their initial states: the states add up instead of    *)
(* multiplying, and one run checks them all.                               *)
EXTENDS Changes, LockFile, TLC

CONSTANTS
  Node, Writers, Exporters, Followers, MaxPages, MaxExported, MaxDamages, MaxUnloaded,
  Value, Deleted, Blank, MaxWrites, MaxTries,
  Writer, Reader, RemoteCapacity, MaxRemotePages, MaxRemoteWrites, MaxShared, MaxPuts, Absent,
  source, first

VARIABLES
  part,                                          \* the part that takes the steps
  store, tx, view, net, commits, history,        \* Replication
  bank, kept, write, acked, tries, cut, doubtful, air, head, memory, import,
                                                 \* MicroStore, IotImport
  puts, pager, meant, fate, written              \* RemoteStore

Replicas == INSTANCE Replication WITH MaxCommits <- MaxExported
Devices  == INSTANCE IotImport WITH call <- write

Remotes  == INSTANCE RemoteStore WITH
  Capacity <- RemoteCapacity, MaxPages <- MaxRemotePages, MaxWrites <- MaxRemoteWrites,
  None <- Absent

ASSUME ChangesAssumption

Symmetry == Permutations(Process)

PartsInit ==
  /\ part \in {"changes", "replicas", "files", "devices", "remotes"}
  /\ FeedInit /\ Replicas!Init /\ Init /\ Devices!Init
  /\ IF part = "remotes" THEN Remotes!Init
     ELSE puts = <<>> /\ pager = <<>> /\ meant = <<>> /\ fate = <<>> /\ written = 0

replicaVars == <<store, tx, view, net, commits, history>>
deviceVars  ==
  <<bank, kept, write, acked, tries, cut, doubtful, air, head, memory, import>>
remoteVars  == <<puts, pager, meant, fate, written>>

PartsNext ==
  /\ \/ /\ part = "changes" /\ FeedNext
        /\ UNCHANGED <<replicaVars, vars, deviceVars, remoteVars>>
     \/ /\ part = "replicas" /\ Replicas!Next
        /\ UNCHANGED <<feedVars, vars, deviceVars, remoteVars>>
     \/ /\ part = "files" /\ Next
        /\ UNCHANGED <<feedVars, replicaVars, deviceVars, remoteVars>>
     \/ /\ part = "devices" /\ Devices!Next
        /\ UNCHANGED <<feedVars, replicaVars, vars, remoteVars>>
     \/ /\ part = "remotes" /\ Remotes!Next
        /\ UNCHANGED <<feedVars, replicaVars, vars, deviceVars>>
  /\ UNCHANGED part

Parts ==
  PartsInit /\ [][PartsNext]_<<part, feedVars, replicaVars, vars, deviceVars,
                              remoteVars>>

-----------------------------------------------------------------------------
(* The properties of the instances: those of Changes and LockFile are stated there.  *)

\* A follower and its caches show what some commit of the source made, but for what stays of
\* an older graph, and a snapshot that is newer than a database is not refused for its number.
SnapshotsAreSound == Replicas!SnapshotsAreWhole /\ Replicas!NewerIsAccepted

\* Nothing stays of an older graph.
GraphIsReplaced == Replicas!GraphIsReplaced

\* What a device acknowledged is what it reads, after any power loss, and no two values
\* are exported under one sequence number that counts.
DevicesKeepValues == Devices!AckedIsKept /\ Devices!OneValuePerSequence

\* The document and the head that are imported are those of one capsule.
DocumentMatchesHead == Devices!DocumentMatchesHead

\* A writer of a remote database reads, page by page, what its statements left, except the
\* pages that it has lost: to an eviction, to a rollback of what was written past the undo
\* log, or to another writer's push.
SeesOwnWrites == part = "remotes" => Remotes!SeesOwnWrites

\* No page is lost to an eviction, to a rollback, to another writer's push.
EvictionLosesNothing == part = "remotes" => Remotes!EvictionLosesNothing
RollbackUndoesAll    == part = "remotes" => Remotes!RollbackUndoesAll
PushesKeepApart      == part = "remotes" => Remotes!PushesKeepApart

\* The pages that a reader has fetched come from one object.
OneObject == part = "remotes" => Remotes!OneObject

\* A follower never goes back to an older state, and what a push stores is, page by page,
\* what the statements of the writer left, except the pages that it has lost.
CopiesMoveForward == Replicas!NeverGoesBack /\ Remotes!PushStoresOwn

\* What a push stores is a committed state.
PushIsCommitted == Remotes!PushIsCommitted
=============================================================================

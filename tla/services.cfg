SPECIFICATION Parts
CONSTANTS
  Thread = {t}
  MaxChanges = 4
  MaxDepth = 2
  Calls = {"transaction", "savepoint", "release"}
  source = source
  first = first
  Node = {source, first}
  Writers = {source}
  Exporters = {source}
  Followers = {first}
  MaxPages = 2
  MaxExported = 2
  MaxDamages = 1
  MaxUnloaded = 1
  Process = {a, b, c}
  Gone = gone
  MaxSnapshot = 4
  MaxCommits = 2
  Value = {v, blank}
  Blank = {blank}
  Deleted = deleted
  MaxWrites = 3
  MaxTries = 4
  Writer = {w, x}
  Reader = {}
  MaxRemotePages = 3
  MaxRemoteWrites = 3
  MaxShared = 1
  RemoteCapacity = 2
  MaxPuts = 1
  Absent = absent
SYMMETRY Symmetry
CHECK_DEADLOCK FALSE
INVARIANTS OnlyCommitted KeptUnlessReleased
INVARIANTS SnapshotsAreSound
INVARIANTS OneHolder LogBelongs
INVARIANTS DevicesKeepValues DocumentMatchesHead
INVARIANTS SeesOwnWrites
PROPERTY CopiesMoveForward

SPECIFICATION Parts
CONSTANTS
  Name = {t, u}
  Index = {i}
  Column = {c, d}
  Value = {v}
  Null = Null
  MaxId = 2
  Keys = {"integer", "null"}
  MaxRows = 2
  MaxStatements = 4
  MaxSavepoints = 1
  Node = {a, b, n}
  MaxEdge = 2
  MaxSteps = 6
  Faults = TRUE
  Table = {k, l}
  Versioned = {k}
  Payload = {x, y}
  MaxTime = 3
  MaxChanges = 3
SYMMETRY Symmetry
INVARIANTS CatalogCurrent IndexIsExact FreshUnlessReloaded
INVARIANTS MemoryFollows HistoryIsExact
CHECK_DEADLOCK FALSE

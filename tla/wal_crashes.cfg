SPECIFICATION Chosen
CONSTANTS
  Page = {1, 2}
  MaxTxn = 3
  CheckpointThreshold = 4
  CrashKinds = {"process", "power"}
  CheckpointDuringTx = FALSE
  Torn = Torn
INVARIANTS TypeOK FileMatchesMemory AckedIsDurable AlwaysOpenable NoUncommittedTail
PROPERTY ImplementsStore

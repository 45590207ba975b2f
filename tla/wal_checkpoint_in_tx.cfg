CONSTANTS
  Page = {1, 2}
  MaxTxn = 2
  CheckpointThreshold = 4
  CrashKinds = {"process"}
  CheckpointDuringTx = TRUE
  Torn = Torn
SPECIFICATION Chosen
INVARIANT AckedIsDurable
CHECK_DEADLOCK FALSE

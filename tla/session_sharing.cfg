SPECIFICATION Spec
CONSTANTS
  Thread = {t, u, v}
  MaxSessions = 2
  MaxWrites = 1
  Uses = {"statement"}
  Clones = TRUE
  Waits = {TRUE}
  Faults = {"wal", "read"}
CHECK_DEADLOCK FALSE
INVARIANTS TransactionHasOwner NoLostWakeup
PROPERTY EveryCallReturns

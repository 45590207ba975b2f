SPECIFICATION Spec
CONSTANTS
  Thread = {t, u}
  MaxSessions = 2
  MaxWrites = 2
  Uses = {"statement", "closure"}
  Clones = FALSE
  Waits = {TRUE, FALSE}
  Faults = {"wal"}
CHECK_DEADLOCK FALSE
INVARIANTS TypeOK AllOrNothing
PROPERTY ImplementsSessionStore

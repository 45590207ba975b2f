SPECIFICATION Spec
CONSTANTS
  Name = {t, u}
  Index = {i}
  Column = {c, d}
  Value = {v}
  Null = Null
  MaxId = 2
  Keys = {"integer", "null"}
  MaxRows = 2
  MaxStatements = 4
  MaxSavepoints = 1
INVARIANT GeneratedKeysAreFresh
CHECK_DEADLOCK FALSE

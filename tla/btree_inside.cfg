SPECIFICATION Spec
CONSTANTS
  MaxKey = 5
  MaxPage = 12
  MaxWrites = 5
  MaxDepth = 3
  Roots = {2}
  PageRoom = 2
  Page1Room = 2
  Fanout = 2
  Shapes <- SmallShape
  Workload = {"new"}
PROPERTY ImplementsMap
CHECK_DEADLOCK FALSE

SPECIFICATION Parts
CONSTANTS
  Key = {k}
  Space <- OneModel
  Documents <- SomeDocuments
  None = None
  Limits <- SomeLimits
  MaxId = 3
  MaxBatch = 2
  MaxSteps = 4
  MaxSavepoints = 1
  VectorId = {1, 2, 3, 4}
  Position = {1, 4}
  TopLevel = 1
  m = 2
  m0 = 3
  efConstruction = 3
  efSearch = 4
  MaxVectorSteps = 5
  Name = {t, u}
  RowId = {1, 2}
  Vectors <- OneDimension
  Kinds = {}
  Asked <- Answered
  MaxStatements = 6
  Nodes = 3
  EdgeKinds <- TwoKinds
  MaxEdges = 3
  MaxHops = 2
INVARIANTS EngineFollows NothingClobbered FindsNearest IndexFollowsRows SearchesFollowEdges AnswersAreRight
CHECK_DEADLOCK FALSE

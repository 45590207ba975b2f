SPECIFICATION Parts
CONSTANTS
  MaxKey = 6
  MaxPage = 12
  MaxWrites = 7
  MaxDepth = 3
  Roots = {1}
  PageRoom = 2
  Page1Room = 2
  Fanout = 2
  Shapes <- AnyShape
  Workload = {"append", "fitting"}
  Alphabet <- SomeChars
  MaxText = 5
  RowByte = 4
  VarintBytes = 3
  Precision = 7
  Real = {4, 5}
  Length = {0, 1, 2, 4, 15}
  Dimensions = {0, 2, 15}
  MaxColumns = 2
  MaxNumeral = 4
  Byte = 4
  Field = 2
  MinMatch = 2
  Margin = 3
  HashSlots = 3
  Magic = 1
  Trailer = 1
  PageSize = 15
  Letters = {0, 1}
  MaxPattern = 4
  MaxWords = 7
  Thread = {t}
  KeyAt = 1
  MaxTokens = 5
  MaxInserts = 3
  Handle = {g, h}
  Null = Null
  Written <- SomeValues
  Word32 = 16
  MaxCalls = 3
  PagedId = {1, 2, 3}
  Place = {1, 3}
  Levels = {0, 1}
  Capacity = 2
  Width = 2
  Breadth = 3
  Readers = {}
  MaxPagedSteps = 5
  MemoryId = {1, 2, 3}
  Memories <- SomeMemories
  Short = {"x"}
  Searches <- SomeSearches
  None = None
  MaxTime = 1
  MaxChanges = 4
CHECK_DEADLOCK FALSE
INVARIANTS TreeIsSound WrittenIsReadBack StatementsAreUnderstood IndexesAreExact
PROPERTY ImplementsMap

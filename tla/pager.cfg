SPECIFICATION Spec
CONSTANTS
  Page = {1, 2, 3}
  Options <- FileOrMemory
  SlotsPerTrunk = 1
  MaxWork = 3
  Name = {a, b}
  None = None
SYMMETRY Symmetry
INVARIANTS NoDoubleAllocation LivePagesReadable
PROPERTY ImplementsPageStore

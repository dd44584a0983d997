CONSTANTS
  SizeMax = 1000000
  Limits <- SomeMemory
  ItemBounds = {0}
  Groups <- MCGroups
  PerNode <- MCPerNode
  Preferred = {1, 31, 64}
  Shapes = {}
  Inputs = {}
  Widths = {}
  ItemSizes = {}
  Width = 1
SPECIFICATION KernelSpec
INVARIANTS
  LimitMet
CHECK_DEADLOCK FALSE

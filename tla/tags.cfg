CONSTANTS
  SizeMax = 1000000
  Limits = {}
  ItemBounds = {}
  Groups = {}
  PerNode <- MCPerNode
  Preferred = {}
  Shapes <- MCShapes
  Inputs = {}
  Widths = {}
  ItemSizes = {}
  Width = 1
SPECIFICATION KernelSpec
INVARIANTS
  OriginsFound
CHECK_DEADLOCK FALSE

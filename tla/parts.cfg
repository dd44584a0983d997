CONSTANTS
  SizeMax = 1000000
  Limits <- MCLimits
  ItemBounds = {0, 100, 700}
  Groups <- MCGroups
  PerNode <- MCPerNode
  Preferred = {1, 31, 64}
  Shapes <- MCShapes
  Inputs <- MCInputs
  Widths <- MCWidths
  ItemSizes = {1, 2, 4, 6, 7, 8, 10, 12, 16, 24, 28, 30, 32, 36, 40}
  Width = 6
  THREADS = 2
  BufSizes = {1, 2}
  Updates <- MCUpdates
  MaxRejects = 1
  Index <- MCIndex
  PermSize = 5
  Throws <- MCThrows
  Size = 4
  Matrices <- MCMatrices
  Queries <- MCQueries
  Limit = 4
  dataSize = 2
  N = 2
  Kinds <- AllKinds
  LinkItems = 2
  Quota <- ClientQuota
  MaxRounds = 2
SPECIFICATION PartSpec
INVARIANTS
  ItemsArrive
  CodecCorrect
  MethodsFit
  Exact
  Results
PROPERTIES
  Terminates
  RepliesSpec
  ProgramEnds
  LinksSpec
  ElasticEnds
CHECK_DEADLOCK FALSE

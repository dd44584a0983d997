CONSTANTS
  THREADS = 2
  BufSizes = {1, 2}
  Updates <- MCUpdates
  MaxRejects = 1
  Index <- MCIndex
  PermSize = 5
  Throws <- MCThrows
  Size = 4
  Matrices <- MCMatrices
  Queries <- MCQueries
  Limit = 4
  dataSize = 2
SPECIFICATION ProgramSpec
INVARIANTS
  Sums

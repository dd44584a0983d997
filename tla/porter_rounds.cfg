CONSTANTS
  N = 3
  Live = {0, 1}
  Multiplicity = 1
  BufItems = 2
  Nonblocking = FALSE
  Steady = FALSE
  Elastic = FALSE
  Quota <- Duplex2
  MaxRounds = 2
SPECIFICATION ClosingSpec
INVARIANTS
  RoundsApart
PROPERTIES
  LinksSpec
  Termination

CONSTANTS
  N = 2
  Live = {0, 1}
  Multiplicity = 4
  BufItems = 2
  Nonblocking = TRUE
  Steady = TRUE
  Elastic = FALSE
  Quota <- OneWay2
  MaxRounds = 1
SPECIFICATION LiveSpec
INVARIANTS
  TypeOK
PROPERTIES
  SteadyDelivery

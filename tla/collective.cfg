CONSTANTS
  N = 4
  n_cols = 2
  RowItems = 1
  ColItems = 1
  Steady = {TRUE, FALSE}
  Quota <- ClientQuota
  MaxRounds = 2
  THREADS = 2
  BufCnt = 2
  Answers = TRUE
  ExQuota <- ExStream
  MaxUnpops = 1
  ExRounds = 2
SPECIFICATION PartSpec
INVARIANTS
  TypeOK
  Delivered
  LandsOnEmpty
  LeaveTogether
PROPERTIES
  LinksSpec
  TwoHopProgress

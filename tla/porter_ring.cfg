CONSTANTS
  N = 2
  Live = {0, 1}
  Multiplicity = 2
  BufItems = 2
  Nonblocking = TRUE
  Steady = FALSE
  Elastic = TRUE
  Quota <- OneWay4
  MaxRounds = 1
SPECIFICATION Spec
INVARIANTS
  ChannelOrder
  SourceStable
  FlowControl
  UrgentCount
PROPERTIES
  LinksSpec

CONSTANTS
  N = 2
  Capacity = 1
  Circle = 2
  Options <- AllOptions
  Quota <- ClientQuota
  MaxRounds = 2
  Bi = {TRUE, FALSE}
  BiOptions <- NoScatter
  Limit <- SameLimit
  PullsAll = TRUE
  THREADS = 2
  BufCnt = 1
  ExQuota <- OneWay2
  MaxUnpops = 1
  ExRounds = 2
SPECIFICATION PartSpec
INVARIANTS
  TypeOK
  FlowControl
PROPERTIES
  LinksSpec
  AnswersSpec
  SimpleProgress
  LinksSpecEx2
  Exstack2Ends

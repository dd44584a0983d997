CONSTANTS
  N = 2
  Capacity = 1
  Circle = 2
  Options <- AllOptions
  Quota <- ClientQuota
  MaxRounds = 2
  Bi = {TRUE}
  BiOptions <- NoScatter
  Limit <- ShorterLimit
  PullsAll = TRUE
SPECIFICATION FairSpecBi
PROPERTIES
  OneReplyEach

CONSTANTS
  N = 2
  Capacity = 1
  Circle = 2
  Options <- AllOptions
  Quota <- ClientQuota
  MaxRounds = 2
  Bi = {TRUE}
  BiOptions <- AllOptions
  Limit <- SameLimit
  PullsAll = TRUE
SPECIFICATION SpecBi
INVARIANTS
  RepliesPresent

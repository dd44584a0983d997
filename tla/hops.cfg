CONSTANTS
  PROCS = 4
  NLocal = 2
  Order = 2
  Shrink = TRUE
  Multiplicity = 1
  BufItems = 1
  TensorQuota <- TensorStream
  Eager = {0}
  TensorRounds = 2
  n_ranks = 2
  Live = {0, 1}
  MpiBufItems = 1
  MpiQuota <- MpiStream
  MpiRounds = 2
SPECIFICATION PartSpec
INVARIANTS
  Requests
PROPERTIES
  TensorLinksSpec
  EndgameInOrder
  LinksSpecMpi
  HopsEnd

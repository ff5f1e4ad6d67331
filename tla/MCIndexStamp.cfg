SPECIFICATION Spec
CONSTANTS
  c1 = c1
  c2 = c2
  vec = vec
  Command = {c1, c2}
  Search = {s1}
  Manifest <- MCManifests
  Seed <- MCSeed
  Request <- MCRequests
  Provider = {vec}
  SharesDelete = FALSE
  HitFactor = 1
  HitFloor = 3
  None = None
INVARIANT ReadyIndexCoversTheCorpus
SYMMETRY MCSymmetry
CHECK_DEADLOCK FALSE

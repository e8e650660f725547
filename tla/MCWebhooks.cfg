CONSTANTS
  Events = {e1}
  Endpoints = {p1, p2}
  Workers = {w1, w2}
  None = None
  MaxAttempts = 2
  MaxMishaps = 2
SPECIFICATION FairSpec
CHECK_DEADLOCK FALSE
INVARIANTS
  TypeOK
  SucceededMeansAccepted
  AttemptsCoverPosts
PROPERTIES
  DisabledStaysQuiet
  DeliveriesDecided

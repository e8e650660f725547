CONSTANTS
  Requests = {r1, r2}
  Workers = {w1}
  None = None
SPECIFICATION FairSpec
CHECK_DEADLOCK FALSE
PROPERTY ActiveJobsFinish

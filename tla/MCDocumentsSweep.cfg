CONSTANTS
  Docs = {d1, d2}
  Jobs = {j1}
  Callers = {c1}
  Sweepers = {s1}
  Workers = {w1}
  None = None
  DocLimit = 2
  SweepLimit = 1
  Rank <- SomeRank
  MaxMishaps = 1
SPECIFICATION FairSpec
CHECK_DEADLOCK FALSE
PROPERTY ExpiredAreRetired

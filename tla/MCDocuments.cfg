CONSTANTS
  Docs = {d1, d2, d3}
  Jobs = {j1}
  Callers = {c1}
  Sweepers = {s1}
  Workers = {w1}
  None = None
  DocLimit = 2
  SweepLimit = 3
  Rank <- SomeRank
  MaxMishaps = 1
SPECIFICATION Spec
SYMMETRY Symmetric
CHECK_DEADLOCK FALSE
INVARIANTS
  TypeOK
  InputsKept
  DocumentLimitHolds
  BytesMatchRows

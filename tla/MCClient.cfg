\* Two runs of the same command: the second meets whatever the first left.
CONSTANTS
  Documents = 2
  MaxRuns = 2
SPECIFICATION FairSpec
CHECK_DEADLOCK FALSE
INVARIANTS
  TypeOK
  VerdictHolds
  OneJobPerKey
PROPERTIES
  ReplacedWhole
  RunsEnd

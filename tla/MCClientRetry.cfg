\* The first run's submission meets a queue that is down, the user retries.
CONSTANTS
  Documents = 2
  MaxRuns = 2
SPECIFICATION FairSpec
CHECK_DEADLOCK FALSE
PROPERTY SuggestedRetryWorks

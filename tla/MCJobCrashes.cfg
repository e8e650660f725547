\* Two racing creators, two jobs and one admission slot, which refused
\* enqueues and ended jobs free and replays take back, with a crash anywhere.
CONSTANTS
  Keys = {k1, k2}
  Bodies = {b1}
  Handlers = {h1, h2}
  Workers = {w1}
  None = None
  ActiveJobLimit = 1
  MaxTickets = 2
  MaxCrashes = 1
  Operations = {"create"}
  Faults = {"queueDown", "apiCrash", "workerCrash"}
SPECIFICATION CrashSpec
CHECK_DEADLOCK FALSE
INVARIANT AdmissionBound
PROPERTY JobsFinish

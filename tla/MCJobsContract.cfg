\* One client that creates and replays two jobs, two workers, Redis up and down.
CONSTANTS
  Keys = {k1, k2}
  Bodies = {b1}
  Handlers = {h1}
  Workers = {w1, w2}
  None = None
  ActiveJobLimit = 2
  MaxTickets = 2
  Operations = {"create"}
  Faults = {"queueDown"}
SPECIFICATION FairSpec
CHECK_DEADLOCK FALSE
INVARIANT OneDeliveryPerJob
PROPERTY ImplementsContract

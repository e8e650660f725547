\* Everything at once on one job: two calls, two workers, all faults.
CONSTANTS
  Keys = {k1}
  Bodies = {b1, b2}
  Handlers = {h1, h2}
  Workers = {w1, w2}
  None = None
  ActiveJobLimit = 1
  MaxTickets = 2
  Operations = {"create", "cancel"}
  Faults = {"queueDown", "replyLost", "apiCrash", "workerCrash", "lateError", "webhookError"}
SPECIFICATION Spec
SYMMETRY Symmetric
CHECK_DEADLOCK FALSE
INVARIANTS
  TypeOK
  InsertNeverConflicts
  NoForeignReplay
  SuccessIsRegisteredOnce
PROPERTY SettledStays

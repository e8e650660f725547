\* Every request of MCPdf, with every way a tool may fail.
CONSTANTS
  l1 = l1
  l2 = l2
  l3 = l3
  Labels = {l1, l2, l3}
  NoLabel = NoLabel
  MaxSections = 2
  MaxPages = 3
  Requests <- AllRequests
  Faults = {"toolError", "short", "broken", "resized", "unread"}
SPECIFICATION Spec
CHECK_DEADLOCK FALSE
INVARIANTS
  TypeOK
  RangesAsWritten
  HonestWorkSucceeds
  SuccessIsWhole
  PacketInOrder
  NoSilentScan

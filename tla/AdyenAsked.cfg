SPECIFICATION Spec
CONSTANTS
  w1 = w1
  w2 = w2
  Workers = {w1, w2}
  Total = 2
  Configs <- StaffCapture
  StaffOperations = {"capture", "refund", "void"}
  Reordering = FALSE
  MaxPayments = 1
  MaxReferences = 4
  MaxCompletions = 2
  MaxRedeliveries <- StaffRedeliveries
  MaxCrashes = 1
CHECK_DEADLOCK FALSE
INVARIANT RefundsWithinCaptured

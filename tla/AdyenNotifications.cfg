SPECIFICATION FairSpec
CONSTANTS
  w1 = w1
  w2 = w2
  Workers = {w1, w2}
  Total = 2
  Configs <- AnyCapture
  StaffOperations = {"capture", "refund", "void"}
  Reordering = FALSE
  MaxPayments = 1
  MaxReferences = 3
  MaxCompletions = 2
  MaxRedeliveries <- Redeliveries
  MaxCrashes = 1
INVARIANT TypeOK
INVARIANT OneOrder
INVARIANT RefundsSettle
CHECK_DEADLOCK FALSE
INVARIANT CapturesSettle
PROPERTY RedeliveryIsIdle
PROPERTY NoticesAccepted

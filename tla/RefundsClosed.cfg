SPECIFICATION FairSpec
CONSTANTS
  l1 = l1
  l2 = l2
  l3 = l3
  w1 = w1
  w2 = w2
  Lines = {l1, l2}
  Unfulfilled = {}
  Workers = {w1, w2}
  StaffStatuses = {"shipped", "cancelled by customer"}
  BrandStatuses = {"cancellation initiated"}
  PostedStatuses = {"return initiated"}
  Jobs = {"refund"}
  MaxUpdates = 2
  MaxLost = 1
CHECK_DEADLOCK FALSE
INVARIANT CollectedIsClosed

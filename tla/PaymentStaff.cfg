SPECIFICATION FairSpec
CONSTANTS
  r1 = r1
  r2 = r2
  Requests = {r1, r2}
  Operations <- StaffOperations
  Total = 2
  Amounts = {0, 1, 2, 3}
  MaxTransactions = 3
  MaxCrashes = 1
  MaxSaves = 1
INVARIANT CapturedWithinTotal
PROPERTY InactiveIsFinal
PROPERTY RequestsEnd

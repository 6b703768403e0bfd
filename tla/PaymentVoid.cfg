SPECIFICATION Spec
CONSTANTS
  r1 = r1
  r2 = r2
  Requests = {r1, r2}
  Operations <- StaffOperations
  Total = 2
  Amounts = {0,1,2,3}
  MaxTransactions = 3
  MaxCrashes = 0
  MaxSaves = 1
PROPERTY VoidOnlyPreAuthorized

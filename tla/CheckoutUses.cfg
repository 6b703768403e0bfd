SPECIFICATION Spec
CONSTANTS
  r1 = r1
  c1 = c1
  c2 = c2
  c3 = c3
  ann = ann
  bob = bob
  Requests = {r1}
  Checkouts = {c1, c2}
  Customer <- Customers
  VoucherCheckouts = {c1, c2}
  UsageLimit = 2
  OncePerCustomer = TRUE
  Price = 0
  Totals = {0}
  Quantities = {2}
  MaxCalls = 4
  MaxPayments = 2
  MaxCrashes = 0
SYMMETRY WorkerSymmetry
INVARIANT UsesAreOrders

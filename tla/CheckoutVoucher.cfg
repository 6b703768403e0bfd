SPECIFICATION Spec
CONSTANTS
  r1 = r1
  r2 = r2
  r3 = r3
  c1 = c1
  c2 = c2
  c3 = c3
  ann = ann
  bob = bob
  Requests = {r1, r2}
  Checkouts = {c1, c2, c3}
  Customer <- Customers
  VoucherCheckouts = {c1, c2, c3}
  UsageLimit = 2
  OncePerCustomer = TRUE
  Price = 2
  Totals = {1, 2}
  Quantities = {2}
  MaxCalls = 6
  MaxPayments = 3
  MaxCrashes = 0
SYMMETRY WorkerSymmetry
INVARIANT PaidForOrder
INVARIANT VoucherCounted
INVARIANT OneOrderPerCustomer

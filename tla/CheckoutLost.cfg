SPECIFICATION Spec
CONSTANTS
  r1 = r1
  r2 = r2
  c1 = c1
  c2 = c2
  c3 = c3
  ann = ann
  bob = bob
  Requests = {r1, r2}
  Checkouts = {c1, c3}
  Customer <- Customers
  VoucherCheckouts = {c1}
  UsageLimit = 1
  OncePerCustomer = FALSE
  Price = 1
  Totals = {1}
  Quantities = {0, 1}
  MaxCalls = 4
  MaxPayments = 2
  MaxCrashes = 0
SYMMETRY WorkerSymmetry
PROPERTY CaptureStaysBooked

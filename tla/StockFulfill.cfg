SPECIFICATION Spec
CONSTANTS
  w1 = w1
  w2 = w2
  l1 = l1
  l2 = l2
  o1 = o1
  o2 = o2
  north = north
  south = south
  Workers = {w1, w2}
  Placers = {w1}
  Orders = {o1, o2}
  Drafts = {}
  Lines = {l1, l2}
  OrderOf <- TwoOrders
  Ordered <- TwoAndOne
  Stocks = {1, 2}
  StocksOf <- BothStocks
  WarehouseOf <- Warehouses
  Initial <- TwoAndOneInStock
  Given = {"placed"}
  Operations = {"checkout", "fulfill", "cancel order"}
  MaxCalls = 5
  MaxFulfillments = 4
CHECK_DEADLOCK FALSE
INVARIANT TypeOK
INVARIANT NoOverAllocation
INVARIANT ShippedFromStock
INVARIANT ReservedUntilShipped
INVARIANT CanceledHoldsNothing

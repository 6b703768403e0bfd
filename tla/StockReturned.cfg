SPECIFICATION Spec
CONSTANTS
  w1 = w1
  w2 = w2
  l1 = l1
  l2 = l2
  o1 = o1
  o2 = o2
  north = north
  south = south
  Workers = {w1, w2}
  Placers = {w1}
  Orders = {o1, o2}
  Drafts = {}
  Lines = {l1, l2}
  OrderOf <- TwoOrders
  Ordered <- OneEach
  Stocks = {1, 2}
  StocksOf <- BothStocks
  WarehouseOf <- Warehouses
  Initial <- OneInEach
  Given = {"placed"}
  Operations = {"checkout", "fulfill", "cancel fulfillment"}
  MaxCalls = 4
  MaxFulfillments = 3
CHECK_DEADLOCK FALSE
INVARIANT ReturnedWereShipped

SPECIFICATION FairSpec
CONSTANTS
  w1 = w1
  w2 = w2
  l1 = l1
  l2 = l2
  o1 = o1
  o2 = o2
  north = north
  south = south
  Workers = {w1, w2}
  Placers = {w1}
  Orders = {o1}
  Drafts = {o1}
  Lines = {l1, l2}
  OrderOf <- OneOrder
  Ordered <- OneEach
  Stocks = {1, 2}
  StocksOf <- OwnStock
  WarehouseOf <- OneWarehouse
  Initial <- OneInEach
  Given = {"placed", "shipped"}
  Operations = {"draft", "fulfill", "cancel order", "cancel fulfillment", "cancel by customer", "update fulfillment"}
  MaxCalls = 3
  MaxFulfillments = 3
CHECK_DEADLOCK FALSE
PROPERTY CallsEnd

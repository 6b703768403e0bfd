SPECIFICATION FairSpec
CONSTANTS
  w1 = w1
  w2 = w2
  Workers = {w1, w2}
  Variants <- TwoVariants
  FeedVariants <- SomeOfEach
  MaxFeedChanges = 2
  MaxOrders = 1
  MaxPublications = 1
  MaxCrashes = 1
INVARIANT TypeOK
INVARIANT InstockRight
INVARIANT InstockCanBeOrdered
PROPERTY StocksSettle
PROPERTY DelistedIsHidden

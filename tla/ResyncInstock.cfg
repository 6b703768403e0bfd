SPECIFICATION Spec
CONSTANTS
  w1 = w1
  w2 = w2
  Workers = {w1, w2}
  Variants <- TwoVariants
  FeedVariants <- UpToTwo
  MaxFeedChanges = 2
  MaxOrders = 0
  MaxPublications = 0
  MaxCrashes = 0
SYMMETRY WorkerSymmetry
INVARIANT InstockFollows

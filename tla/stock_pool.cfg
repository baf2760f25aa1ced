CONSTANTS
  c1 = c1
  c2 = c2
  c3 = c3
  Client = {c1, c2}
  Lot <- MCTwoLots
  ProductOf <- MCOneProduct
  MaxSupply = 1
  MaxQty = 1
  MaxRequests = 3
  PoolSize = 2
SPECIFICATION FairPoolSpec
INVARIANTS OrdersAudited HangsOnlyWhenSpent
PROPERTIES RequestEnds
CHECK_DEADLOCK FALSE

CONSTANTS
  c1 = c1
  c2 = c2
  c3 = c3
  Client = {c1, c2}
  Lot <- MCThreeLots
  ProductOf <- MCTwoProducts
  MaxSupply = 2
  MaxQty = 1
  MaxRequests = 3
SYMMETRY MCSymmetry
SPECIFICATION Spec
INVARIANTS NoOversell OnlyBasketsDeadlock
PROPERTIES StepsOnShelf BasketFifo RefusedForAReason
CHECK_DEADLOCK FALSE

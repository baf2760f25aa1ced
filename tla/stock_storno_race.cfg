CONSTANTS
  c1 = c1
  c2 = c2
  c3 = c3
  Client = {c1, c2}
  Lot <- MCTwoLots
  ProductOf <- MCOneProduct
  MaxSupply = 2
  MaxQty = 1
  MaxRequests = 3
SYMMETRY MCSymmetry
SPECIFICATION Spec
INVARIANTS Conservation
CHECK_DEADLOCK FALSE

CONSTANTS
  c1 = c1
  c2 = c2
  b1 = b1
  b2 = b2
  s1 = s1
  s2 = s2
  o1 = o1
  o2 = o2
  o3 = o3
  o4 = o4
  Client = {c1, c2}
  Order = {o1, o2, o3, o4}
  Buyer = {b1, b2}
  Supplier = {s1, s2}
  BuyerOf <- MCBuyerOf
  SupplierOf <- MCSupplierOf
  MaxInvoices = 3
SYMMETRY MCSymmetry
SPECIFICATION Spec
INVARIANTS LinkedIsCounted
PROPERTIES StepsOnLedger
CHECK_DEADLOCK FALSE

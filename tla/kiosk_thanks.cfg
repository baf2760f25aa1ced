CONSTANTS
  ann = ann
  bob = bob
  Nobody = Nobody
  Customer = {ann, bob}
  Lot <- MCLot
  ProductOf <- MCProductOf
  MaxStock = 2
  MaxSessions = 2
  MaxReloads = 1
  MaxMoves = 1
  MaxGivenUp = 1
SYMMETRY MCSymmetry
SPECIFICATION Spec
INVARIANTS ThankedForPurchase
CHECK_DEADLOCK FALSE

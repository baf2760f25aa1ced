CONSTANTS
  ann = ann
  bob = bob
  Nobody = Nobody
  Customer = {ann}
  Lot <- MCLot
  ProductOf <- MCProductOf
  MaxStock = 2
  MaxSessions = 2
  MaxReloads = 1
  MaxMoves = 1
  MaxGivenUp = 1
SPECIFICATION Spec
INVARIANTS OneAwaited
PROPERTIES SteadyBasketSells PaysOnceWhenTold
CHECK_DEADLOCK FALSE

CONSTANTS
  ann = ann
  bob = bob
  sue = sue
  r1 = r1
  r2 = r2
  r3 = r3
  i1 = i1
  i2 = i2
  i3 = i3
  User = {ann, bob, sue}
  UserOf <- MCUserOf
  BuyerOf <- MCBuyerOf
  SupplierOf <- MCSupplierOf
  Request = {r1, r2, r3}
  Invoice = {i1, i2, i3}
  Disabled = {bob}
  BadMailbox = {sue}
  MaxReminders = 1
  MaxCuts = 1
SPECIFICATION FairSpec
INVARIANTS RemindersCounted
PROPERTIES DecisionHolds PaidIsFrozen OverdueReminded
CHECK_DEADLOCK FALSE

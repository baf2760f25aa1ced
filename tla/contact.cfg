CONSTANTS
  ann = ann
  bob = bob
  ea = ea
  eb = eb
  ex = ex
  ey = ey
  b1 = b1
  b2 = b2
  t1 = t1
  t2 = t2
  t3 = t3
  r1 = r1
  r2 = r2
  None = None
  User = {ann, bob}
  Email = {ea, eb, ex, ey}
  Iban = {b1, b2}
  Token = {t1, t2, t3}
  Request = {r1, r2}
  StartRows <- MCStart
  Trusted <- MCTrusted
  MaxBegun = 3
  MaxLost = 1
SYMMETRY MCSymmetry
SPECIFICATION Spec
INVARIANTS VerifiedIsProven PendingCanBeConfirmed ResetsOnce
PROPERTIES ConfirmsWhatIsPending
CHECK_DEADLOCK FALSE

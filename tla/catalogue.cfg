CONSTANTS
  p1 = p1
  p2 = p2
  p3 = p3
  c1 = c1
  c2 = c2
  a1 = a1
  a2 = a2
  u1 = u1
  r1 = r1
  r2 = r2
  None = None
  Product = {p1, p2, p3}
  Category = {c1, c2}
  Allergen = {a1, a2}
  User = {u1}
  Request = {r1, r2}
  StartLabels = {c1, c2, a1}
  StartCategory = c1
  StartKey <- MCStartKey
  StartMarks <- MCStartMarks
  MaxBegun = 3
  MaxLost = 1
  StartBought <- MCStartBought
  StartStocked = {p1}
  MaxRefresh = 1
  MaxViews = 1
SYMMETRY MCSymmetry
SPECIFICATION Spec
INVARIANTS KeypadNumbersRun RetiredIsUnused CarriesWhatWasDeclared
PROPERTIES ShownIsSafe NothingOnlyWhenNothing
CHECK_DEADLOCK FALSE

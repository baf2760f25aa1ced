CONSTANTS
  u1 = u1
  u2 = u2
  u3 = u3
  u4 = u4
  e1 = e1
  e2 = e2
  e3 = e3
  e4 = e4
  p1 = p1
  p2 = p2
  i1 = i1
  i2 = i2
  r1 = r1
  r2 = r2
  r3 = r3
  None = None
  User = {u1, u2, u3, u4}
  Role = {"customer", "admin"}
  Email = {e1, e2, e3, e4}
  Approved = {e3}
  Person = {p1, p2}
  EmailOf <- MCEmailOf
  Invite = {i1, i2}
  Request = {r1, r2, r3}
  Placeholder = 4
  Start <- MCStart
  Policies = {"invite_only", "domain_auto_approve"}
  Mongo <- MCMongo
  Ids <- MCIds
  MigrationEmail = e4
  Anon = {e2}
  MaxRuns = 2
  MaxBegun = 3
  MaxLost = 1
SYMMETRY MCSymmetry
SPECIFICATION MigrationSpec
INVARIANTS DebtsMigrate RunAgainIsTheSame NumbersFillUp DisabledOwesNothing PersonKeepsAccount
PROPERTIES LastAdminLostLive InvitesStayClosed
CHECK_DEADLOCK FALSE

CONSTANTS
  h1 = h1
  h2 = h2
  Handler = {h1, h2}
  MaxAttempts = 2
  Duration = 1
  MaxClock = 2
  MaxFailures = 4
  root = root
  ann = ann
  new1 = new1
  new2 = new2
  Account = {root, ann, new1, new2}
  Self = ann
  Name = {"admin", "teacher", "carol"}
  Seed <- MCSeed
  NoRow = NoRow
  Gone = Gone
  MaxSecret = 2
  MaxRequests = 5
SPECIFICATION AccountsSpec
INVARIANTS AccountsInv LockInv
PROPERTIES LockEndsByExpiry DeleteKeepsAdmin TokensForActive
SYMMETRY MCSymmetry
CHECK_DEADLOCK FALSE

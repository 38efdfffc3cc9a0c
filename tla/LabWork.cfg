SPECIFICATION MCSpec
CONSTANTS
  Plans <- MCPlans
  MaxGen = 2
  OwnFaults = 2
  Meddling = 2
  BorrowKinds = {"module", "sharing", "license", "baseline"}
  MaxChanges = 2
  MaxEdits = 2
  BorrowFaults = 3
  LateLicense = FALSE
  p1 = p1
  p2 = p2
  Preparers = {p1, p2}
  Registered = 1
  Replacement = 2
  MaxPlans = 2
  InputFaults = 1
  Accounts = {a1, a2}
  Admins = {a2}
  Models = {m1, m2}
  SetupFaults = 2
  UserChanges = 1
INVARIANTS CleanupSafe SettingsSafe InputsSafe SetupOnRecord
PROPERTIES TrustKept LeftoversSettle
CHECK_DEADLOCK FALSE

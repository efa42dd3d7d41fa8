SPECIFICATION Spec
CONSTANTS
  Users = {u1, u2}
  None = None
  MaxAge = 1
  FutureTolerance <- Tolerances
  Boot = boot
  Cancelled = cancelled
  Suspendable = {u2}
  Clicks = {1, 2}
  Skews <- FastOrSlow
  SessionTtl = 1
  MaxTime = 3
  MaxActs <- ActsOfBuilds
  MaxLoads = 1
  MaxFailures = 1
CHECK_DEADLOCK FALSE
INVARIANTS AppTypeOK SessionsAreVouchedFor DashboardIsOfTheSession PersonaMeansSignedOut
PROPERTIES BootingEnds

SPECIFICATION FairSweeperSpec
CONSTANTS
  Users = {u1}
  Requests = {q1, q2}
  Operations = {o1}
  ReservationIds = {r1, r2}
  InitialCredit = 2
  None = None
  Callers = {w1, s1}
  Sweepers = {s1}
  PoolSize = 3
  Catalogue <- OneCredit
  Listings <- NoListings
  BatchLimit = 2
  MaxFaults = 1
INVARIANTS SweeperTypeOK
PROPERTIES CountedIsReleased LeftBehindIsRecovered

SPECIFICATION FairSweeperSpec
CONSTANTS
  Users = {u1, u2}
  Requests = {q1}
  Operations = {o1}
  ReservationIds = {r1, r2}
  InitialCredit = 1
  None = None
  Callers = {w1, s1}
  Sweepers = {s1}
  PoolSize = 3
  Catalogue <- OneCredit
  Listings <- NoListings
  BatchLimit = 1
  MaxFaults = 0
PROPERTIES LeftBehindIsRecovered

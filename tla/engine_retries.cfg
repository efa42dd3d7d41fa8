SPECIFICATION Spec
CONSTANTS
  Users = {u1}
  Requests = {q1, q2}
  Operations = {o1}
  ReservationIds = {r1, r2}
  InitialCredit = 1
  None = None
  Callers = {p1, p2, p3}
  PoolSize = 3
  Catalogue <- OneCredit
  Listings <- NoListings
  Unregistered = o2
SYMMETRY Interchangeable
INVARIANTS
  TypeOK
  LedgerExplainsWallet OneReservationPerRequest PendingWritesAreCurrent DefencesUnused DeadlockNeedsDuplicate
PROPERTIES
  ImplementsAccount ReusedMeansUntouched

SPECIFICATION Spec
CONSTANTS
  Users = {u1}
  Requests = {q1}
  Operations = {o1}
  ReservationIds = {r1}
  InitialCredit = 1
  None = None
  Callers = {p1, p2}
  PoolSize = 2
  Catalogue <- OneCredit
  Listings <- NoListings
  Unregistered = o2
SYMMETRY Interchangeable
INVARIANTS
  DuplicateIsNotInsufficient

SPECIFICATION Spec
CONSTANTS
  Users = {u1, u2}
  Requests = {q1}
  Operations = {o1, o2}
  ReservationIds = {r1}
  InitialCredit = 1
  None = None
  Callers = {p1, p2}
  PoolSize = 2
  Catalogue <- SomeRegistered
  Listings <- PriceChanges
  Unregistered = o2
SYMMETRY Interchangeable
INVARIANTS
  ReservedIsHeld
  TrailMatchesStatus OutcomeIsTrue
PROPERTIES
  SettledIsFinal

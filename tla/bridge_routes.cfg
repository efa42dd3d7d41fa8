SPECIFICATION Spec
CONSTANTS
  fridge = fridge wardrobe = wardrobe
  scan = scan outfit = outfit
  keyA = keyA keyB = keyB unknown = unknown
  k1 = k1 k2 = k2
  t1 = t1 t2 = t2 t3 = t3
  u1 = u1 u2 = u2
  q1 = q1 q2 = q2
  Apps = {fridge, wardrobe}
  Operations = {scan, outfit}
  OperationKeys = {keyA, unknown}
  KeyIds = {k1, k2}
  Tokens = {t1, t2, t3}
  Users = {u1, u2}
  Requests = {q1}
  ReservationIds = {r1, r2}
  Callers = {c1, c2}
  None = None
  InitialCredit = 1
  AppOf <- OneOperationEach
  KeyOf <- OneKey
  CostOf <- OneCredit
  RequestsOf <- SameRequests
  Starts <- AllStarts
SYMMETRY Symmetric
INVARIANTS BridgeTypeOK GrantedWereAllowed AnsweredWithOwn
PROPERTIES CreditsStayInScope

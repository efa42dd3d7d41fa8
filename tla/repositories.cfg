SPECIFICATION Spec
CONSTANTS
  UserIds = {u1, u2}
  Ids = {i1, i2}
  AppIds = {fridge, nowhere}
  Apps = {fridge}
  IdentityProvider = {telegram, max}
  PlatformIds = {p1, p2}
  TokenHashes = {h1, h2}
  KeyIds = {good, bad}
  BadKeyIds = {bad}
  Keys = {q1, q2}
  StartParams = {s1, s2}
  Instants = {0, 1}
  Amounts <- SomeAmounts
  MaxVersion = 2
  Versions = {1}
  None = None
  MaxRows = 4
SYMMETRY Symmetric
VIEW StoreView
INVARIANTS StoreTypeOK ReferencesHold
PROPERTIES ImplementsSchema WrittenStays

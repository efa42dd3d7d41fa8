SPECIFICATION FairSpec
CONSTANTS
  Identities = {i1}
  UserIds = {u1, u2}
  Tokens = {t1, t2, t3}
  Apps = {fridge}
  WelcomeCredit = 1
  None = None
  Clients = {c1, c2, c3}
  Instance <- TwoInstances
  Alone = c1
  PoolSize = 1
CHECK_DEADLOCK FALSE
INVARIANTS ExchangeTypeOK AccountsAreWhole NothingVanishes AnswerOpensSession
PROPERTIES
  ImplementsOpening NewMeansOpened EveryExchangeReturns

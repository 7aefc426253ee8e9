CONSTANTS
  Buyer = buyer
  Sellers = {s1}
  OfferIds = {o1}
  CounterIds = {}
  FirstSeller = s1
  SecondSeller = s1
  FirstOffer = o1
  SecondOffer = o1
  Prices = {1}
  Endpoints = {u1}
  None = None
  Requests = {r1, r2}
  Enforcer = Enforcer
  EnvelopeIds = {e1}
  Rounds = {1}
  ValidUntils = {1}
  Deadlines = {2, 3}
  CosignTimeoutMs = 1
  SettlementWindow = 1
  MaxQueueSize = 1
  MaxOffersPerSession = 1
  MaxOffersPerSeller = 1
  MaxAcceptsPerSession = 1
  MaxAcceptsPerSeller = 1
  MaxTime = 2
  MaxEvents = 6
  MaxCrashes = 1
SPECIFICATION FairSpec
CHECK_DEADLOCK FALSE
INVARIANTS
  TypeOK
  LockIsSound
  CacheIsReplay
  SettledOnce
PROPERTIES
  ImplementsNegotiation
  DeadlineInsideLock
  SessionsEnd
  TerminalSessionIsCleanedUp
  AbandonedCommitmentEnds

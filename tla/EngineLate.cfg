CONSTANTS
  Buyer = buyer
  Sellers = {s1, s2}
  OfferIds = {o1, o2}
  CounterIds = {}
  FirstSeller = s1
  SecondSeller = s2
  FirstOffer = o1
  SecondOffer = o2
  Prices = {1}
  Endpoints = {u1}
  None = None
  Requests = {r1, r2}
  Enforcer = Enforcer
  EnvelopeIds = {e1}
  Rounds = {1}
  ValidUntils = {}
  Deadlines = {3}
  CosignTimeoutMs = 1
  SettlementWindow = 2
  MaxQueueSize = 1
  MaxOffersPerSession = 2
  MaxOffersPerSeller = 1
  MaxAcceptsPerSession = 2
  MaxAcceptsPerSeller = 1
  MaxTime = 3
  MaxEvents = 6
  MaxCrashes = 1
SPECIFICATION FairSpecWithOffers
CHECK_DEADLOCK FALSE
PROPERTY NoCommitmentAfterDeadline

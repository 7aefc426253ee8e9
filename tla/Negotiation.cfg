CONSTANTS
  Buyer = buyer
  Sellers = {s1, s2}
  OfferIds = {o1, o2}
  CounterIds = {c1, c2}
  Prices = {1}
  Endpoints = {u1, u2}
  None = None
  Times = {0}
  Rounds = {1, 2}
  MaxOffersPerSession = 2
  MaxOffersPerSeller = 1
  MaxAcceptsPerSession = 2
  MaxAcceptsPerSeller = 2
SPECIFICATION Spec
SYMMETRY Symmetry
CHECK_DEADLOCK FALSE
INVARIANTS
  TypeOK
  QuoteIsSelectedOffer
  CommitIntegrity
  RollbackIsClean
  OffersAndCountersOrdered
  LimitsHold
PROPERTY DealIsFrozen

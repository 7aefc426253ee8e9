CONSTANTS
  Buyer = buyer
  Sellers = {s1, s2}
  FirstSeller = s1
  OfferIds = {o1, o2, o3, o4, o5}
  CounterIds = {1, 2, 3}
  Prices <- AllPrices
  Endpoints = {u1}
  None = None
  Times = {0}
  Rounds = {1, 2, 3}
  MaxOffersPerSession = 3
  MaxOffersPerSeller = 3
  MaxAcceptsPerSession = 2
  MaxAcceptsPerSeller = 2
  MaxRounds = 3
  RoundDuration = 1
  NearTie = 1
  LlmPrices = {0, 90}
  Anchor = 20
  Soft = 42
  Hard = 50
  Floor = 36
  Target = 44
  BuyerSlots = {b1, b2}
  BuyerSlot = b1
  SellerSlots = {k1, k2}
  SellerSlot = k1
  Scopes <- AllScopes
SPECIFICATION FairSpec
CHECK_DEADLOCK FALSE
INVARIANTS
  AgentsAgreeWithLog
  PriceDecisionsAreSound

  

CONSTANTS
  Buyer = buyer
  Sellers = {s1}
  Seller = s1
  OfferIds = {o1, o2, o3}
  CounterIds = {1, 2}
  Prices <- AllPrices
  Endpoints = {u1}
  None = None
  Times = {0}
  Rounds = {1, 2}
  MaxOffersPerSession = 2
  MaxOffersPerSeller = 2
  MaxAcceptsPerSession = 2
  MaxAcceptsPerSeller = 2
  MaxRounds = 3
  RoundDuration = 1
  NearTie = 1
  LlmPrices = {}
  Hard = 50
  Floor = 34
  Target = 60
  TypedPrices = {24, 72}
  Grains = {8}
  ZkAvailable = TRUE
  Calls = {c1, c2}
  MaxCalls = 3
  MaxFaults = 1
  MaxRestarts = 1
SPECIFICATION Spec
CHECK_DEADLOCK FALSE
SYMMETRY Symmetry
INVARIANTS
  PostsAreBounded
  MemoryAgreesWithLog

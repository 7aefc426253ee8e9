CONSTANTS
  Buyer = buyer
  OfferIds = {}
  CounterIds = {}
  Prices = {}
  Endpoints = {}
  None = None
  Sellers = {s1, s2}
  RfqIds = {r1, r2}
  FirstRfq = r1
  BuyerOf <- OneBuyer
  Scopes <- AllScopes
  Minute = 2
  Buckets = 2
  Hour = 3
  Conns = {c1, c2}
  MaxPublic = 2
  MaxAdmin = 1
  Limit = 2
  Ips = {ip1, ip2}
  SessionMaxAge = 2
  MaxSessions = 2
  LoginWindow = 1
  MaxPerIp = 2
  MaxGlobal = 3
  MaxTracked = 1
  MaxTokens = 3
  MaxFailures = 3
SPECIFICATION Spec
SYMMETRY Symmetry
CHECK_DEADLOCK FALSE
INVARIANTS
  StatisticsMatchLog
  FeedsAreExact
PROPERTIES
  LoginsAreAccounted

CONSTANTS
  Buyer = buyer
  Sellers = {s1, s2}
  OfferIds = {}
  CounterIds = {}
  Prices = {}
  Endpoints = {}
  None = None
  Readers = {rb, r1, r2}
  BuyerReader = rb
  FirstReader = r1
  SecondReader = r2
  FirstSeller = s1
  SecondSeller = s2
  DidOf <- ReaderDids
  Conns = {c1, c2, c3}
  TerminalMessage = TerminalMessage
  EvictedMessage = EvictedMessage
  LimitMessage = LimitMessage
  MaxPerDid = 1
  Scopes <- AllScopes
SPECIFICATION FairSpec
CHECK_DEADLOCK FALSE
INVARIANTS
  DeliveryIsExact
PROPERTIES
  SlotsAreAccounted
  ReadersAreServed

CONSTANTS
  Sellers = {s1, s2}
  Agents = {a1, a2}
  FirstAgent = a1
  ListingIds = {seed, l1, l2}
  SeedId = seed
  SeedSeller = s1
  Procs = {p1, p2}
  MaxListings = 2
  Ttl = 1
  MaxCached = 1
  Scopes <- BothScopes
  None = None
SPECIFICATION Spec
SYMMETRY Symmetry
CHECK_DEADLOCK FALSE
INVARIANTS
  RegistryAnswersAreCurrent
PROPERTIES
  StoreIsSound

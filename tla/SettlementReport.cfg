CONSTANTS
  Requests = {r1, r2}
  TxIds = {t1, t2}
  QuoteIds = {q1, q2}
  FirstQuote = q1
  SecondQuote = q2
  Sellers = {s1, s2}
  Seller = s1
  OtherSeller = s2
  UsdcMint = usdc
  Decimals = 1
  Documents <- AllDocuments
  Payments <- AllPayments
  Scopes <- BothScopes
  None = None
SPECIFICATION Spec
SYMMETRY Symmetry
CHECK_DEADLOCK FALSE
INVARIANT VerifiedQuotesAreSigned

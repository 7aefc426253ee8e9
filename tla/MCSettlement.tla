---------------------------- MODULE MCSettlement ----------------------------
(* Model-checking instance of Settlement: the quote documents clients      *)
(* present, the transactions that get confirmed, and two scopes.           *)
EXTENDS Settlement, TLC

CONSTANTS FirstQuote, SecondQuote, Seller, OtherSeller

\* With one decimal, both prices are one unit: "0.1" and "0.15".
Price == [int |-> <<0>>, frac |-> <<1>>]
FinePrice == [int |-> <<0>>, frac |-> <<1, 5>>]

Doc(id, policy, expires) ==
  [quote_id |-> id, seller |-> Seller, final_price |-> Price, memo_policy |-> policy,
   expires_at |-> expires, nonce_ok |-> TRUE, buyer_signed |-> TRUE, seller_signed |-> TRUE]

\* Two quotes of the same seller and price, one without its seller's signature.
SomeDocuments ==
  {Doc(FirstQuote, "quote_id_required", 1),
   [Doc(FirstQuote, "quote_id_required", 1) EXCEPT !.seller_signed = FALSE],
   Doc(SecondQuote, "quote_id_required", 2)}

\* Documents that differ in every other field the steps look at.
MoreDocuments ==
  {Doc(FirstQuote, "hash_required", 1), Doc(SecondQuote, "quote_id_required", 2),
   [Doc(FirstQuote, "optional", 1) EXCEPT !.buyer_signed = FALSE],
   [Doc(FirstQuote, "optional", 2) EXCEPT !.nonce_ok = FALSE],
   [Doc(SecondQuote, "optional", 2) EXCEPT !.final_price = FinePrice]}

AllDocuments == SomeDocuments \cup MoreDocuments

TransferTo(seller, mint, amount) ==
  [kind |-> "transfer", destination |-> seller, mint |-> mint, amount |-> amount]
MemoOf(text) == [kind |-> "memo", text |-> text]
Payment(instructions) == [failed |-> FALSE, instructions |-> instructions]

\* A good payment of each quote and one that failed.
SomePayments ==
  {Payment(<<TransferTo(Seller, UsdcMint, 1), MemoOf({FirstQuote})>>),
   Payment(<<TransferTo(Seller, UsdcMint, 1), MemoOf({SecondQuote})>>),
   [failed |-> TRUE, instructions |-> <<TransferTo(Seller, UsdcMint, 1), MemoOf({FirstQuote})>>]}

\* Payments that miss in each of the ways the steps tell apart, and good ones; the
\* last names two quotes.
MorePayments ==
  {Payment(<<>>),
   Payment(<<TransferTo(Seller, None, 1)>>),
   Payment(<<TransferTo(Seller, UsdcMint, 15)>>),
   Payment(<<TransferTo(OtherSeller, UsdcMint, 1), TransferTo(Seller, UsdcMint, 1)>>),
   Payment(<<TransferTo(Seller, UsdcMint, 1)>>),
   Payment(<<TransferTo(Seller, UsdcMint, 1), MemoOf({FirstQuote})>>),
   Payment(<<TransferTo(Seller, UsdcMint, 1), MemoOf({Doc(FirstQuote, "hash_required", 1), SecondQuote})>>)}

AllPayments == SomePayments \cup MorePayments

\* Two quotes, two payments and a restart.
RaceScope ==
  [txs |-> 2, modes |-> {"execute"}, documents |-> SomeDocuments,
   payments |-> SomePayments, time |-> 2, restarts |-> 1]

\* Through every check of both functions.
CheckScope ==
  [txs |-> 1, modes |-> {"execute", "verify"}, documents |-> MoreDocuments,
   payments |-> MorePayments, time |-> 2, restarts |-> 0]

BothScopes == {RaceScope, CheckScope}

Symmetry == Permutations(Requests) \cup Permutations(TxIds)

=============================================================================

----------------------------- MODULE Strategies -----------------------------
(***************************************************************************)
(* The negotiation strategies and the privacy sanitizer, as operators: what *)
(* a buyer or a seller strategy may answer to the context its agent hands   *)
(* it.  A rule-based strategy has one answer; a language model may give any *)
(* answer that parseResponse lets through.                                  *)
(*                                                                          *)
(* Prices are integers of a unit in which MIN_PRICE is 1; a quotient that   *)
(* Decimal would carry to twenty digits is rounded to a whole unit.  Rates  *)
(* and factors are percentages.                                             *)
(***************************************************************************)
EXTENDS Integers, Sequences, FiniteSets, FiniteSetsExt

CONSTANTS
  MaxRounds,      \* maxRounds: concession steps
  RoundDuration,  \* assumedRoundDurationMs
  NearTie,        \* NEAR_TIE_THRESHOLD
  LlmPrices       \* the prices a language model comes up with

ASSUME StrategyAssumption ==
  /\ MaxRounds \in Nat \ {0}
  /\ {RoundDuration, NearTie} \subseteq Nat
  /\ LlmPrices \subseteq Int

MinPrice == 1

BuyerKinds == {"linear", "timeWeighted", "competitive", "llm"}
SellerKinds == {"firm", "flexible", "competitive", "llm"}

Wait == [type |-> "wait"]
Cancel == [type |-> "cancel"]
Hold == [type |-> "hold"]
DeclineToOffer == [type |-> "decline"]

-----------------------------------------------------------------------------
(***************************************************************************)
(* Sanitizer: applied to whatever a strategy answers.                      *)
(***************************************************************************)
\* Faulty variant: the counter is not capped.
SanitizeBuyerUncapped(a, priv) ==
  IF a.type = "counter" THEN [a EXCEPT !.price = Max({@, MinPrice})] ELSE a

SanitizeBuyerAction(a, priv) ==
  IF a.type = "counter" THEN [a EXCEPT !.price = Max({Min({@, priv.hard}), MinPrice})] ELSE a

SanitizeSellerAction(a, priv) ==
  IF a.type \in {"respond", "counter"} THEN [a EXCEPT !.price = Max({@, priv.floor})] ELSE a

-----------------------------------------------------------------------------
(***************************************************************************)
(* Ranking of offers.  Sorting is stable, so that among equals the earlier *)
(* offer comes first.                                                      *)
(***************************************************************************)
SelectLowestPricedBuyerOffer(offers) ==
  offers[CHOOSE i \in DOMAIN offers : \A j \in DOMAIN offers :
           \/ offers[i].price < offers[j].price
           \/ offers[i].price = offers[j].price /\ i <= j]

\* compareSignals: the better reputation, then the larger number of feedbacks
\* (-1 for a seller the registry does not know).
BetterSignal(a, b) ==
  a.score > b.score \/ (a.score = b.score /\ a.feedbacks > b.feedbacks)

SelectBestBuyerOffer(offers, registry) ==
  LET lowest == SelectLowestPricedBuyerOffer(offers).price
      nearTies == {i \in DOMAIN offers : offers[i].price - lowest <= NearTie}
      Before(i, j) ==
        LET a == registry[offers[i].seller]
            b == registry[offers[j].seller]
        IN \/ BetterSignal(a, b)
           \/ /\ ~BetterSignal(b, a)
              /\ \/ offers[i].price < offers[j].price
                 \/ offers[i].price = offers[j].price /\ i < j
  IN offers[CHOOSE i \in nearTies : \A j \in nearTies \ {i} : Before(i, j)]

-----------------------------------------------------------------------------
(***************************************************************************)
(* Buyers.  A context has the offers, the registry signals, the round, the *)
(* time remaining, the anchor price and the private soft and hard budget.  *)
(***************************************************************************)
\* The share of a concession step that competition leaves.
CompetitionFactor(offers) ==
  IF Len(offers) >= 3 THEN 50 ELSE IF Len(offers) >= 2 THEN 75 ELSE 100

\* Faulty variant: the urgency is the share of the time that is left.
RelaxedShare(c, range) ==
  (range * c.time) \div Max({c.time + c.round * RoundDuration, 1})

\* Urgency as a fraction: num of every den, at most 1.
UrgentShare(c, range) ==
  LET total == Max({c.time + c.round * RoundDuration, 1})
      den == MaxRounds * total
      num == c.round * total + MaxRounds * (total - c.time)
  IN (range * Min({num, den})) \div den

\* The price of the next counter.
CounterPrice(kind, c) ==
  LET concession ==
        CASE kind = "linear" -> ((c.soft - c.anchor) * c.round) \div MaxRounds
          [] kind = "timeWeighted" -> UrgentShare(c, c.hard - c.anchor)
          [] kind = "competitive" ->
               ((c.soft - c.anchor) * CompetitionFactor(c.offers) * c.round)
                 \div (100 * MaxRounds)
  IN Min({c.anchor + concession, c.hard})

\* Faulty variant: any offer within the hard budget is accepted.
RuleBasedBuyerToHard(kind, c) ==
  LET lowest == SelectLowestPricedBuyerOffer(c.offers)
  IN IF lowest.price <= c.hard
     THEN [type |-> "accept", seller |-> lowest.seller]
     ELSE [type |-> "counter", price |-> CounterPrice(kind, c),
           seller |-> SelectBestBuyerOffer(c.offers, c.registry).seller]

\* onOffersReceived of the three rule-based strategies.
RuleBasedBuyer(kind, c) ==
  LET lowest == SelectLowestPricedBuyerOffer(c.offers)
  IN IF lowest.price <= c.soft
     THEN [type |-> "accept", seller |-> lowest.seller]
     ELSE [type |-> "counter", price |-> CounterPrice(kind, c),
           seller |-> SelectBestBuyerOffer(c.offers, c.registry).seller]

\* LLMBuyerStrategy: accept or counter any seller with an offer, wait, cancel;
\* when the model cannot be reached, the cheapest offer within the soft budget
\* or wait, which are among these.
LlmBuyer(c) ==
  LET known == {c.offers[i].seller : i \in DOMAIN c.offers}
  IN {Wait, Cancel}
       \cup {[type |-> "accept", seller |-> x] : x \in known}
       \cup {[type |-> "counter", price |-> p, seller |-> x] : p \in LlmPrices, x \in known}

OnOffersReceived(kind, c) ==
  IF c.offers = <<>> THEN {Wait}
  ELSE IF kind = "llm" THEN LlmBuyer(c)
  ELSE {RuleBasedBuyer(kind, c)}

-----------------------------------------------------------------------------
(***************************************************************************)
(* Sellers.  A context has the round, the number of competing sellers and  *)
(* the private floor and target price.                                     *)
(***************************************************************************)
SellerPrice(kind, c) ==
  LET range == c.target - c.floor
      concession ==
        CASE kind = "firm" -> (range * 5 * c.round) \div 100
          [] kind = "flexible" -> (range * 25 * c.round) \div 100
          [] kind = "competitive" ->
               (range * (IF c.competing >= 2 THEN 150 ELSE 50) * c.round)
                 \div (100 * MaxRounds)
  IN Max({c.target - concession, c.floor})

\* LLMSellerStrategy.parseResponse.
LlmSeller == {Hold, DeclineToOffer}
               \cup {[type |-> t, price |-> p] : t \in {"respond", "counter"}, p \in LlmPrices}

\* The target price is what an unreachable model falls back to.
OnRfqReceived(kind, c) ==
  {[type |-> "respond", price |-> c.target]} \cup (IF kind = "llm" THEN LlmSeller ELSE {})

OnCounterReceived(kind, c) ==
  IF kind = "llm" THEN LlmSeller ELSE {[type |-> "counter", price |-> SellerPrice(kind, c)]}

=============================================================================

------------------------------ MODULE McpTools ------------------------------
(***************************************************************************)
(* The MCP tools of a buyer and of a seller, each a long-lived server      *)
(* process with private per-RFQ state in memory, called by a language      *)
(* model: any tool, at any time, with any input, several calls at once.    *)
(* A call is a slot with a program counter; every await of its handler is  *)
(* a point at which other calls, the other process and the engine, whose   *)
(* session is that of Negotiation, may take steps.  Tools that only read   *)
(* or that only compute have no action.                                    *)
(*                                                                         *)
(* Prices are integers; a price the caller types has a grain, the weight   *)
(* of its last decimal, which respond_offer prints the offer with.  It is  *)
(* a multiple of that grain; a price limit need not be.                    *)
(***************************************************************************)
EXTENDS Session, Strategies

CONSTANTS
  Times, Rounds, MaxOffersPerSession, MaxOffersPerSeller,
  MaxAcceptsPerSession, MaxAcceptsPerSeller,    \* of Negotiation
  Seller,               \* the seller whose server is modelled
  Hard, Floor, Target,  \* budget_hard; floor_price and target_price
  TypedPrices,          \* prices callers type
  Grains,               \* their grains
  ZkAvailable,          \* hasBudgetProofArtifacts
  Calls,                \* bound: calls of one server under way at a time
  MaxCalls,             \* bound: calls of one server
  MaxFaults, MaxRestarts

\* What the session holds when the requests come from these tools: the counters
\* carry their price and whether they have a proof.
ToolOffer == [offer_id : OfferIds, seller : {Seller}, price : Nat, payment_endpoint : Endpoints,
              valid_until : Nat]

ToolCounter == [counter_id : Nat, round : Nat, from : {Buyer}, to : {Seller}, price : Nat,
                proof : BOOLEAN]

ToolQuote == [quote_id : Nat, buyer : {Buyer}, seller : {Seller}, final_price : Nat,
              payment_endpoint : Endpoints, expires_at : Nat]

ToolSignature == [by : Dids \cup {None}, over : ToolQuote]

ToolSession ==
  [state : States, rfq : Rfq, offers : Seq(ToolOffer), counters : Seq(ToolCounter),
   selectedSeller : Sellers \cup {None}, selectedOfferId : OfferIds \cup {None},
   quoteRevision : Nat, offerCountBySeller : [Sellers -> Nat],
   totalAcceptAttempts : Nat, acceptAttemptsBySeller : [Sellers -> Nat],
   lastEventId : Nat, unsignedQuote : ToolQuote \cup {None},
   buyerSignature : ToolSignature \cup {None}, sellerSignature : ToolSignature \cup {None},
   commitPendingAt : Nat \cup {None}]

ASSUME McpAssumption ==
  /\ Seller \in Sellers /\ Endpoints # {}
  /\ {Hard, Floor, Target} \subseteq Nat /\ MinPrice <= Hard /\ Floor <= Target
  /\ TypedPrices \subseteq Nat \ {0} /\ Grains \subseteq Nat \ {0}
  /\ Times \subseteq Nat /\ MaxOffersPerSession \in Nat
  /\ IsFiniteSet(OfferIds) => Cardinality(OfferIds) > MaxOffersPerSession
  /\ ZkAvailable \in BOOLEAN
  /\ {MaxCalls, MaxFaults, MaxRestarts} \subseteq Nat
  /\ None \notin ToolSession /\ None \notin ToolQuote

VARIABLES
  log, session,      \* the engine's session (Negotiation)
  bs,                \* BuyerSessionState of the RFQ, or None
  ss,                \* SellerSessionState of the RFQ, or None
  listed,            \* the seller's listing: "no", "known" (sellerListingId is set), or
                     \* "forgotten" by the process while the engine has it
  style,             \* sellerNegotiationProfile.style, or None
  attempted,         \* registrationAttempted of the seller
  bcall, scall,      \* the calls under way
  made,              \* calls made, by server
  faults, restarts,
  given              \* does respond_offer get floor_price and target_price?

Api == INSTANCE Negotiation

engineVars == <<log, session>>
buyerVars == <<bs, bcall>>
sellerVars == <<ss, listed, style, attempted, scall>>
vars == <<log, session, bs, ss, listed, style, attempted, bcall, scall, made, faults,
          restarts, given>>

Idle == [pc |-> "idle"]

Init ==
  /\ Api!Init
  /\ bs = None /\ ss = None /\ style = None
  /\ listed = "no"
  /\ attempted = FALSE
  /\ bcall = [c \in Calls |-> Idle]
  /\ scall = [c \in Calls |-> Idle]
  /\ made = [buyer |-> 0, seller |-> 0]
  /\ faults = 0 /\ restarts = 0
  /\ given \in BOOLEAN

Typed == {p \in [value : TypedPrices, grain : Grains] : p.value % p.grain = 0}

\* toFixed, half up.
RoundTo(v, grain) == ((v + grain \div 2) \div grain) * grain

Count(side) ==
  /\ made[side] < MaxCalls
  /\ made' = [made EXCEPT ![side] = @ + 1]
  /\ UNCHANGED <<faults, restarts, given>>

NoCount == UNCHANGED <<made, faults, restarts, given>>

BuyerCall(c, call) == bcall' = [bcall EXCEPT ![c] = call]
SellerCall(c, call) == scall' = [scall EXCEPT ![c] = call]

\* A request the engine refuses: the handler throws.
Refused(possible) == ~possible /\ UNCHANGED engineVars

-----------------------------------------------------------------------------
(***************************************************************************)
(* Buyer tools.                                                            *)
(***************************************************************************)
CallPostRfq(c) ==
  /\ bcall[c] = Idle /\ session = None /\ Count("buyer")
  /\ BuyerCall(c, [pc |-> "posting"])
  /\ UNCHANGED <<engineVars, bs, sellerVars>>

\* The private state is stored once the engine has answered.
ServePostRfq(c) ==
  /\ bcall[c].pc = "posting"
  /\ \/ /\ \E d \in Times : Api!CreateRfq(d)
        /\ bs' = [round |-> 0, selected |-> None]
     \/ Refused(session = None) /\ UNCHANGED bs
  /\ BuyerCall(c, Idle)
  /\ UNCHANGED sellerVars /\ NoCount

\* Faulty variant: the round is that of the counter before.
CounterRoundStale(b) == IF b = None THEN 1 ELSE b.round

\* The round of the next counter: without a session, 1.
CounterRound(b) == IF b = None THEN 1 ELSE b.round + 1

\* Without a session the price is sanitized against itself.
CounterSafePrice(b, price) ==
  SanitizeBuyerAction([type |-> "counter", price |-> price],
                      [hard |-> IF b = None THEN price ELSE Hard]).price

CallCounter(c, price) ==
  /\ bcall[c] = Idle /\ session # None /\ Count("buyer")
  /\ bs' = IF bs = None THEN None ELSE [bs EXCEPT !.round = CounterRound(bs)]
  /\ BuyerCall(c, [pc |-> "countering",
                   counter |-> [counter_id |-> made.buyer, round |-> CounterRound(bs),
                                from |-> Buyer, to |-> Seller,
                                price |-> CounterSafePrice(bs, price),
                                proof |-> bs # None /\ ZkAvailable]])
  /\ UNCHANGED <<engineVars, sellerVars>>

\* An RFQ with a budget commitment takes counters with a proof only.
CounterAtEngine(counter) == (ZkAvailable => counter.proof) /\ Api!SendCounter(counter)

ServeCounter(c) ==
  /\ bcall[c].pc = "countering"
  /\ \/ CounterAtEngine(bcall[c].counter)
     \/ Refused(ENABLED CounterAtEngine(bcall[c].counter))
  /\ BuyerCall(c, Idle)
  /\ UNCHANGED <<bs, sellerVars>> /\ NoCount

\* accept: the revision is read from the event log by the call itself.
CallAccept(c, offerId) ==
  /\ bcall[c] = Idle /\ session # None /\ Count("buyer")
  /\ BuyerCall(c, [pc |-> "accepting", revision |-> session.lastEventId, offer_id |-> offerId])
  /\ UNCHANGED <<engineVars, bs, sellerVars>>

AcceptAtEngine(call) ==
  /\ call.revision = session.lastEventId
  /\ \E i \in DOMAIN session.offers, t \in Times :
       session.offers[i].offer_id = call.offer_id /\ Api!SelectWinner(i, t, t)

ServeAccept(c) ==
  /\ bcall[c].pc = "accepting"
  /\ \/ /\ AcceptAtEngine(bcall[c])
        /\ BuyerCall(c, [pc |-> "signing", quote |-> session'.unsignedQuote,
                         offer_id |-> bcall[c].offer_id])
     \/ /\ Refused(ENABLED AcceptAtEngine(bcall[c]))
        /\ BuyerCall(c, Idle)
  /\ UNCHANGED <<bs, sellerVars>> /\ NoCount

SignAtEngine(call) == session.unsignedQuote = call.quote /\ Api!SignQuote

\* Faulty variant: the state is written although the process has forgotten the RFQ.
SelectUnguarded(b, offerId) ==
  IF b = None THEN [selected |-> offerId] ELSE [b EXCEPT !.selected = offerId]

\* session.selectedOfferId, if there is a session.
Select(b, offerId) == IF b = None THEN None ELSE [b EXCEPT !.selected = offerId]

\* Faulty variant: the selection is noted although signing failed.
ServeSignAnyway(c) ==
  /\ bcall[c].pc = "signing"
  /\ SignAtEngine(bcall[c]) \/ Refused(ENABLED SignAtEngine(bcall[c]))
  /\ bs' = Select(bs, bcall[c].offer_id)
  /\ BuyerCall(c, Idle)
  /\ UNCHANGED sellerVars /\ NoCount

ServeSign(c) ==
  /\ bcall[c].pc = "signing"
  /\ \/ SignAtEngine(bcall[c]) /\ bs' = Select(bs, bcall[c].offer_id)
     \/ Refused(ENABLED SignAtEngine(bcall[c])) /\ UNCHANGED bs
  /\ BuyerCall(c, Idle)
  /\ UNCHANGED sellerVars /\ NoCount

-----------------------------------------------------------------------------
(***************************************************************************)
(* Seller tools.                                                           *)
(***************************************************************************)
\* register_listing: the profile is stored, the floor and target price of the
\* input are not; ensureSellerRegistered tries once in the life of the process.
CallRegisterListing(c, s) ==
  /\ scall[c] = Idle /\ Count("seller")
  /\ style' = s
  /\ attempted' = TRUE
  /\ SellerCall(c, [pc |-> IF attempted THEN "listing" ELSE "registering"])
  /\ UNCHANGED <<engineVars, buyerVars, ss, listed>>

\* registerAgent succeeds or throws, which is caught: the listing is posted anyway.
RegistrationEnds(c) ==
  /\ scall[c].pc = "registering"
  /\ SellerCall(c, [pc |-> "listing"])
  /\ UNCHANGED <<engineVars, buyerVars, ss, listed, style, attempted>> /\ NoCount

ServeListing(c) ==
  /\ scall[c].pc = "listing"
  /\ listed' = "known"
  /\ SellerCall(c, Idle)
  /\ UNCHANGED <<engineVars, buyerVars, ss, style, attempted>> /\ NoCount

\* buildStrategy.
StrategyOf(s) == IF s \in {"firm", "flexible", "competitive"} THEN s ELSE "flexible"

StyleNow == IF ss # None THEN ss.style ELSE IF style # None THEN style ELSE "flexible"

\* floor_price and target_price: of the input, of the session, or the price.
Limits(price) ==
  IF given THEN [floor |-> Floor, target |-> Target]
  ELSE IF ss # None THEN [floor |-> ss.floor, target |-> ss.target]
  ELSE [floor |-> price.value, target |-> price.value]

\* Faulty variant: the typed price is offered as it is.
OfferPriceTyped(price, lim) == price.value

\* A typed price, sanitized and printed with the decimals it was typed with.
OfferPrice(price, lim) ==
  RoundTo(SanitizeSellerAction([type |-> "respond", price |-> price.value], lim).price,
          price.grain)

\* The strategy's first offer.
StrategyOffer(lim) ==
  LET a == CHOOSE x \in OnRfqReceived(StrategyOf(StyleNow), lim) : TRUE
  IN SanitizeSellerAction(a, lim).price

\* respond_offer: a new session object is stored, with round 0, before the offer
\* is posted.  price = None: the strategy decides, which needs limits.  The listing
\* is the one the process knows or one the caller names.
CallRespondOffer(c, price) ==
  LET lim == Limits(price)
  IN /\ scall[c] = Idle /\ session # None /\ Count("seller")
     /\ price = None => given \/ ss # None
     /\ ss' = [id |-> made.seller, floor |-> lim.floor, target |-> lim.target, round |-> 0,
               style |-> StyleNow]
     /\ SellerCall(c, [pc |-> "offering", price |-> IF price = None THEN StrategyOffer(lim)
                                                   ELSE OfferPrice(price, lim)])
     /\ UNCHANGED <<engineVars, buyerVars, listed, style, attempted>>

\* respond_counter: the round is counted first, in the object that calls under
\* way may share; a typed price is sanitized (and not rounded), otherwise the
\* events are fetched.
CallRespondCounter(c, counterId, price) ==
  /\ scall[c] = Idle /\ listed = "known" /\ ss # None /\ Count("seller")
  /\ ss' = [ss EXCEPT !.round = @ + 1]
  /\ scall' = [d \in Calls |->
       IF d = c
       THEN IF price = None
            THEN [pc |-> "reading", counter_id |-> counterId, own |-> ss']
            ELSE [pc |-> "offering",
                  price |-> SanitizeSellerAction([type |-> "counter", price |-> price.value],
                                                 ss).price]
       ELSE IF scall[d].pc = "reading" /\ scall[d].own.id = ss.id
            THEN [scall[d] EXCEPT !.own = ss']
       ELSE scall[d]]
  /\ UNCHANGED <<engineVars, buyerVars, listed, style, attempted>>

\* The strategy concedes if the counter is among the events the seller is
\* served, and holds otherwise or when they cannot be fetched.
ServeReading(c) ==
  LET own == scall[c].own
      found == /\ HasOffer(session, Seller)
               /\ \E i \in DOMAIN session.counters :
                    /\ session.counters[i].counter_id = scall[c].counter_id
                    /\ session.counters[i].to = Seller
      ctx == [round |-> own.round, competing |-> 1, floor |-> own.floor, target |-> own.target]
      price == SanitizeSellerAction([type |-> "counter",
                 price |-> SellerPrice(StrategyOf(own.style), ctx)], own).price
  IN /\ scall[c].pc = "reading"
     /\ SellerCall(c, IF found THEN [pc |-> "offering", price |-> price] ELSE Idle)
     /\ UNCHANGED <<engineVars, buyerVars, ss, listed, style, attempted>> /\ NoCount

NewOffer(price) ==
  [offer_id |-> CHOOSE id \in OfferIds :
                  \A i \in DOMAIN session.offers : session.offers[i].offer_id # id,
   seller |-> Seller, price |-> price, payment_endpoint |-> CHOOSE u \in Endpoints : TRUE,
   valid_until |-> session.rfq.deadline]

\* The engine takes offers under a listing it has.
OfferAtEngine(offer) == listed # "no" /\ Api!SubmitOffer(offer)

ServeOffer(c) ==
  LET offer == NewOffer(scall[c].price)
  IN /\ scall[c].pc = "offering"
     /\ OfferAtEngine(offer) \/ Refused(ENABLED OfferAtEngine(offer))
     /\ SellerCall(c, Idle)
     /\ UNCHANGED <<buyerVars, ss, listed, style, attempted>> /\ NoCount

\* cosign: the quote is fetched and cosigned unless it is not the seller's turn.
CallCosign(c) ==
  /\ scall[c] = Idle /\ Api!InState({"COMMIT_PENDING"}) /\ Count("seller")
  /\ session.selectedSeller = Seller
  /\ session.buyerSignature # None /\ session.sellerSignature = None
  /\ SellerCall(c, [pc |-> "cosigning", quote |-> session.unsignedQuote])
  /\ UNCHANGED <<engineVars, buyerVars, ss, listed, style, attempted>>

CosignAtEngine(call) == session.unsignedQuote = call.quote /\ Api!Cosign

ServeCosign(c) ==
  /\ scall[c].pc = "cosigning"
  /\ CosignAtEngine(scall[c]) \/ Refused(ENABLED CosignAtEngine(scall[c]))
  /\ SellerCall(c, Idle)
  /\ UNCHANGED <<buyerVars, ss, listed, style, attempted>> /\ NoCount

-----------------------------------------------------------------------------
(***************************************************************************)
(* Failures: an answer is lost after the engine has served the request; a  *)
(* server process is restarted and its maps are empty; a quote times out.  *)
(* Nothing is stored at the answer to a counter, an offer or a cosignature:*)
(* that it is lost makes no difference.                                    *)
(***************************************************************************)
AnswerLost(c) ==
  /\ faults < MaxFaults
  /\ \/ bcall[c].pc = "posting" /\ \E d \in Times : Api!CreateRfq(d)
     \/ bcall[c].pc = "accepting" /\ AcceptAtEngine(bcall[c])
     \/ bcall[c].pc = "signing" /\ SignAtEngine(bcall[c])
  /\ faults' = faults + 1
  /\ BuyerCall(c, Idle)
  /\ UNCHANGED <<bs, sellerVars, made, restarts, given>>

ListingAnswerLost(c) ==
  /\ faults < MaxFaults
  /\ scall[c].pc = "listing"
  /\ faults' = faults + 1
  /\ listed' = IF listed = "no" THEN "forgotten" ELSE listed
  /\ SellerCall(c, Idle)
  /\ UNCHANGED <<engineVars, buyerVars, ss, style, attempted, made, restarts, given>>

RestartBuyer ==
  /\ restarts < MaxRestarts
  /\ restarts' = restarts + 1
  /\ bs' = None
  /\ bcall' = [c \in Calls |-> Idle]
  /\ UNCHANGED <<engineVars, sellerVars, made, faults, given>>

RestartSeller ==
  /\ restarts < MaxRestarts
  /\ restarts' = restarts + 1
  /\ ss' = None /\ style' = None
  /\ listed' = IF listed = "no" THEN "no" ELSE "forgotten"
  /\ attempted' = FALSE
  /\ scall' = [c \in Calls |-> Idle]
  /\ UNCHANGED <<engineVars, buyerVars, made, faults, given>>

CosignTimeout == Api!CosignTimeout /\ UNCHANGED <<buyerVars, sellerVars>> /\ NoCount

BuyerTools(c) ==
  \/ CallPostRfq(c) \/ ServePostRfq(c) \/ ServeCounter(c) \/ ServeAccept(c) \/ ServeSign(c)
  \/ \E p \in TypedPrices : CallCounter(c, p)
  \/ \E id \in OfferIds : CallAccept(c, id)

SellerTools(c) ==
  \/ \E s \in {"firm", "deadline-sensitive"} : CallRegisterListing(c, s)
  \/ RegistrationEnds(c) \/ ServeListing(c) \/ ServeReading(c) \/ ServeOffer(c)
  \/ CallCosign(c) \/ ServeCosign(c)
  \/ \E p \in Typed \cup {None} : CallRespondOffer(c, p)
  \/ \E p \in Typed \cup {None}, id \in CounterIds : CallRespondCounter(c, id, p)

Next ==
  \/ \E c \in Calls : BuyerTools(c) \/ SellerTools(c) \/ AnswerLost(c) \/ ListingAnswerLost(c)
  \/ RestartBuyer
  \/ RestartSeller
  \/ CosignTimeout

Spec == Init /\ [][Next]_vars

-----------------------------------------------------------------------------
(***************************************************************************)
(* Properties.                                                             *)
(***************************************************************************)

SellerSession == [id : Nat, floor : Nat, target : Nat, round : Nat,
                  style : {"firm", "flexible", "competitive", "deadline-sensitive"}]

\* The maps hold nothing or a session of the shape of BuyerSessionState and
\* SellerSessionState.
TypeOK ==
  /\ bs = None \/ bs \in [round : Nat, selected : OfferIds \cup {None}]
  /\ ss = None \/ ss \in SellerSession
  /\ listed \in {"no", "known", "forgotten"}
  /\ attempted \in BOOLEAN

\* Where the RFQ carries a budget commitment, no counter above the hard budget
\* gets to the engine, whatever the model asks the tool for and whatever the
\* process has forgotten ("Price is sanitized against budget_hard"): a counter
\* without a session is sanitized against itself only, but has no proof.  Where
\* there is no commitment, nothing stops that counter.
ProvenCountersWithinBudget ==
  ZkAvailable =>
    \A i \in DOMAIN log : log[i].type = "COUNTER_SENT" => log[i].payload.price <= Hard

\* If the floor price comes with the calls, an offer below it is that floor itself,
\* printed with the decimals of a price that was typed; it never comes from a
\* strategy, from the state of another call or from a restart.  So much is left of
\* the tool's "Price is sanitized against floor_price - you can never accidentally
\* underbid" (seller.ts 206-207), as the sanitized price is rounded after the check
\* (seller.ts 243).
OnlyRoundingUnderbids ==
  given => \A i \in DOMAIN log :
             log[i].type = "OFFER_SUBMITTED" =>
               \/ log[i].payload.price >= Floor
               \/ \E g \in Grains : log[i].payload.price = RoundTo(Floor, g)

\* While the server remembers the RFQ, its rounds run ahead of the engine's:
\* a further counter is never refused for its round, however the calls overlap
\* and fail (the round is counted before the first await).
RoundsStayAhead ==
  bs # None =>
    /\ \A i \in DOMAIN session.counters : session.counters[i].round <= bs.round
    /\ \A c, d \in Calls :
         (c # d /\ bcall[c].pc = "countering" /\ bcall[d].pc = "countering")
           => bcall[c].counter.round # bcall[d].counter.round

\* The offer the server believes it has selected, and will send feedback for,
\* is one whose quote the engine has the buyer's signature on.
SelectionWasSigned ==
  (bs # None /\ bs.selected # None) =>
    \E i, j \in DOMAIN log :
      /\ log[i].type = "WINNER_SELECTED" /\ log[j].type = "QUOTE_SIGNED"
      /\ log[i].payload.offer_id = bs.selected
      /\ log[j].payload.buyer_signature.over = log[i].payload.quote

\* What the private limits of both servers bound in the engine's log.
PostsAreBounded == TypeOK /\ ProvenCountersWithinBudget /\ OnlyRoundingUnderbids

\* What the buyer's server remembers agrees with the engine: its rounds are ahead
\* and its selection is signed.
MemoryAgreesWithLog == RoundsStayAhead /\ SelectionWasSigned

(***************************************************************************)
(* The inductive strengthening.                                            *)
(***************************************************************************)
EngineIsTyped ==
  /\ session \in ToolSession \cup {None}
  /\ log \in Seq({log[i] : i \in DOMAIN log})

CountsAreTyped ==
  /\ made \in [{"buyer", "seller"} -> Nat]
  /\ given \in BOOLEAN
  /\ style \in {None, "firm", "deadline-sensitive"}

\* The engine selected the offer with this quote, and has the buyer's signature on it.
SelectedIn(lg, offerId, quote) ==
  \E i \in DOMAIN lg :
    /\ lg[i].type = "WINNER_SELECTED"
    /\ lg[i].payload.offer_id = offerId /\ lg[i].payload.quote = quote

SignedIn(lg, quote) ==
  \E j \in DOMAIN lg :
    /\ lg[j].type = "QUOTE_SIGNED"
    /\ lg[j].payload.buyer_signature.over = quote

\* What a call of the buyer carries: a counter with a proof is within the budget,
\* and what is to be signed is the quote of a selection that was made.
SoundBuyerCall(lg, k) ==
  /\ k.pc = "countering" =>
       /\ k.counter \in ToolCounter
       /\ k.counter.proof => k.counter.price <= Hard
  /\ k.pc = "accepting" => k.offer_id \in OfferIds
  /\ k.pc = "signing" => k.offer_id \in OfferIds /\ SelectedIn(lg, k.offer_id, k.quote)

BuyerCallsAreSound ==
  /\ DOMAIN bcall = Calls
  /\ \A c \in Calls : SoundBuyerCall(log, bcall[c])

\* What an offer under way may cost, g: the floor comes with the calls.
IsFairPrice(g, price) ==
  /\ price \in Nat
  /\ g => price >= Floor \/ \E h \in Grains : price = RoundTo(Floor, h)

\* The floor given with a call is that of the session, also of one that a call
\* under way has kept.
SoundSellerCall(g, k) ==
  /\ k.pc = "offering" => IsFairPrice(g, k.price)
  /\ k.pc = "reading" =>
       /\ k \in [pc : {"reading"}, counter_id : CounterIds, own : SellerSession]
       /\ g => k.own.floor = Floor

SellerCallsAreSound ==
  /\ DOMAIN scall = Calls
  /\ given /\ ss # None => ss.floor = Floor
  /\ \A c \in Calls : SoundSellerCall(given, scall[c])

\* Counters on their way count too; and there are none before the RFQ.
RoundsAreCounted ==
  /\ session = None => bs = None /\ \A c \in Calls : bcall[c].pc # "countering"
  /\ bs # None => \A c \in Calls : bcall[c].pc = "countering" => bcall[c].counter.round <= bs.round

McpInv ==
  /\ PostsAreBounded
  /\ MemoryAgreesWithLog
  /\ EngineIsTyped
  /\ CountsAreTyped
  /\ BuyerCallsAreSound
  /\ SellerCallsAreSound
  /\ RoundsAreCounted

=============================================================================

------------------------------ MODULE Session ------------------------------
(***************************************************************************)
(* The event-sourced negotiation session: the transition table of          *)
(* state-machine.ts and the reducer deriveState of session.ts, as pure     *)
(* operators.  An event log is a sequence of events; a session is what     *)
(* deriveState returns for it.                                             *)
(*                                                                         *)
(* Data abstraction.  DIDs, offer ids, prices and endpoints are elements   *)
(* of small sets; a UUID is the natural number of the event or quote that  *)
(* drew it (fresh by construction); a signature is the pair of its signer  *)
(* and the quote it covers; times are naturals.  Only WINNER_SELECTED      *)
(* keeps its timestamp: the reducer reads no other one.                    *)
(***************************************************************************)
EXTENDS Naturals, Sequences

CONSTANTS
  Buyer,       \* the DID that may post the RFQ
  Sellers,     \* the DIDs of the sellers
  OfferIds,    \* ids sellers put on offers
  CounterIds,  \* ids the buyer puts on counters
  Prices,      \* offered prices
  Endpoints,   \* payment endpoints of listings
  None         \* null

Dids == {Buyer} \cup Sellers

\* The engine's own actors ("engine/deadline-enforcer", "system:settlement-verifier").
Engine == "engine"

States == {"OPEN", "NEGOTIATING", "COMMIT_PENDING", "COMMITTED", "EXPIRED", "CANCELLED"}

TerminalStates == {"COMMITTED", "EXPIRED", "CANCELLED"}

EventTypes == {"RFQ_CREATED", "OFFER_SUBMITTED", "COUNTER_SENT", "WINNER_SELECTED",
               "COMMIT_PENDING", "QUOTE_SIGNED", "QUOTE_COMMITTED", "COSIGN_DECLINED",
               "COSIGN_TIMEOUT", "NEGOTIATION_EXPIRED", "NEGOTIATION_CANCELLED",
               "SETTLEMENT_CONFIRMED"}

(***************************************************************************)
(* What the events and the session carry.                                  *)
(***************************************************************************)
Rfq == [buyer : {Buyer}, deadline : Nat]

Offer == [offer_id : OfferIds, seller : Sellers, price : Prices,
          payment_endpoint : Endpoints, valid_until : Nat]

Counter == [counter_id : CounterIds, round : Nat, from : Dids, to : Sellers]

Quote == [quote_id : Nat, buyer : Dids, seller : Sellers, final_price : Prices,
          payment_endpoint : Endpoints, expires_at : Nat]

Signature == [by : Dids, over : Quote]

\* Payloads by event type; the unlisted types carry nothing the model needs.
WinnerPayload == [seller : Sellers, offer_id : OfferIds, quote : Quote, timestamp : Nat]
SellerPayload == [seller : Sellers]
SignedPayload == [seller : Sellers, buyer_signature : Signature]
CommittedPayload == [seller : Sellers, seller_signature : Signature]
SettlementPayload == [quote_id : Nat]
EmptyPayload == [none : {None}]

Event ==
  [event_id : Nat, type : EventTypes, actor : Dids \cup {Engine},
   payload : Rfq \cup Offer \cup Counter \cup WinnerPayload \cup SellerPayload
             \cup SignedPayload \cup CommittedPayload \cup SettlementPayload
             \cup EmptyPayload]

DerivedSession ==
  [state : States, rfq : Rfq,
   offers : Seq(Offer), counters : Seq(Counter),
   selectedSeller : Sellers \cup {None}, selectedOfferId : OfferIds \cup {None},
   quoteRevision : Nat,
   offerCountBySeller : [Sellers -> Nat],
   totalAcceptAttempts : Nat, acceptAttemptsBySeller : [Sellers -> Nat],
   lastEventId : Nat,
   unsignedQuote : Quote \cup {None},
   buyerSignature : Signature \cup {None}, sellerSignature : Signature \cup {None},
   commitPendingAt : Nat \cup {None}]

\* null is none of the values it stands in for.
ASSUME NoneAssumption ==
  /\ None \notin Sellers \cup OfferIds \cup Nat
  /\ None \notin Quote
  /\ None \notin Signature
  /\ None \notin DerivedSession

(***************************************************************************)
(* TRANSITION_RULES[state][type], a partial map: the entries that exist.   *)
(***************************************************************************)
TransitionRules ==
  [OPEN           |-> [OFFER_SUBMITTED       |-> "NEGOTIATING",
                       NEGOTIATION_EXPIRED   |-> "EXPIRED",
                       NEGOTIATION_CANCELLED |-> "CANCELLED"],
   NEGOTIATING    |-> [OFFER_SUBMITTED       |-> "NEGOTIATING",
                       COUNTER_SENT          |-> "NEGOTIATING",
                       WINNER_SELECTED       |-> "COMMIT_PENDING",
                       NEGOTIATION_EXPIRED   |-> "EXPIRED",
                       NEGOTIATION_CANCELLED |-> "CANCELLED"],
   COMMIT_PENDING |-> [COMMIT_PENDING        |-> "COMMIT_PENDING",
                       QUOTE_SIGNED          |-> "COMMIT_PENDING",
                       QUOTE_COMMITTED       |-> "COMMITTED",
                       COSIGN_DECLINED       |-> "NEGOTIATING",
                       COSIGN_TIMEOUT        |-> "NEGOTIATING",
                       NEGOTIATION_EXPIRED   |-> "EXPIRED"],
   COMMITTED      |-> [SETTLEMENT_CONFIRMED  |-> "COMMITTED"],
   EXPIRED        |-> <<>>,
   CANCELLED      |-> <<>>]

IsValidTransition(state, type) == type \in DOMAIN TransitionRules[state]

(***************************************************************************)
(* offers.some(o => o.seller === d), and offers.find(o => o.offer_id ===   *)
(* id), which is the first match.                                          *)
(***************************************************************************)
HasOffer(s, seller) == \E i \in DOMAIN s.offers : s.offers[i].seller = seller

IsFound(s, id, i) ==
  /\ i \in DOMAIN s.offers
  /\ s.offers[i].offer_id = id
  /\ \A j \in DOMAIN s.offers : s.offers[j].offer_id = id => i <= j

(***************************************************************************)
(* The session RFQ_CREATED initializes.                                    *)
(***************************************************************************)
NewSession(e) ==
  [state |-> "OPEN", rfq |-> e.payload,
   offers |-> <<>>, counters |-> <<>>,
   selectedSeller |-> None, selectedOfferId |-> None, quoteRevision |-> 0,
   offerCountBySeller |-> [x \in Sellers |-> 0],
   totalAcceptAttempts |-> 0, acceptAttemptsBySeller |-> [x \in Sellers |-> 0],
   lastEventId |-> e.event_id,
   unsignedQuote |-> None, buyerSignature |-> None, sellerSignature |-> None,
   commitPendingAt |-> None]

(***************************************************************************)
(* The invariants of an event against the session it is applied to; the    *)
(* reducer throws when one does not hold.                                  *)
(***************************************************************************)
PayloadInvariant(s, e) ==
  CASE e.type = "OFFER_SUBMITTED" -> e.actor = e.payload.seller
    [] e.type = "COUNTER_SENT" ->
         /\ e.actor = e.payload.from
         /\ e.payload.from = s.rfq.buyer
         /\ HasOffer(s, e.payload.to)
    [] e.type = "WINNER_SELECTED" ->
         /\ e.actor = s.rfq.buyer
         /\ \E i \in DOMAIN s.offers :
              /\ IsFound(s, e.payload.offer_id, i)
              /\ s.offers[i].seller = e.payload.seller
    [] e.type = "COSIGN_DECLINED" ->
         e.payload.seller = s.selectedSeller /\ e.actor = s.selectedSeller
    [] e.type = "COSIGN_TIMEOUT" -> e.payload.seller = s.selectedSeller
    [] e.type = "QUOTE_SIGNED" ->
         e.payload.seller = s.selectedSeller /\ e.actor = s.rfq.buyer
    [] e.type = "QUOTE_COMMITTED" ->
         e.payload.seller = s.selectedSeller /\ e.actor = s.selectedSeller
    [] OTHER -> TRUE

\* The reducer does not throw at event e.
Accepts(s, e) ==
  IF s = None THEN e.type = "RFQ_CREATED"
  ELSE IsValidTransition(s.state, e.type) /\ PayloadInvariant(s, e)

(***************************************************************************)
(* One iteration of the reducer's loop, for an event it accepts.           *)
(***************************************************************************)
\* Faulty variant: the buyer's signature survives the rollback.
RollbackKeepsSignature(s) ==
  [s EXCEPT !.selectedSeller = None, !.selectedOfferId = None, !.unsignedQuote = None,
            !.sellerSignature = None, !.commitPendingAt = None]

\* Faulty variant: a rollback gives the accept attempt back.
RollbackForgetsAttempt(s) ==
  [s EXCEPT !.selectedSeller = None, !.selectedOfferId = None, !.unsignedQuote = None,
            !.buyerSignature = None, !.sellerSignature = None, !.commitPendingAt = None,
            !.totalAcceptAttempts = @ - 1]

Rollback(s) ==
  [s EXCEPT !.selectedSeller = None, !.selectedOfferId = None, !.unsignedQuote = None,
            !.buyerSignature = None, !.sellerSignature = None, !.commitPendingAt = None]

Winner(s, e) ==
  [s EXCEPT !.selectedSeller = e.payload.seller,
            !.selectedOfferId = e.payload.offer_id,
            !.quoteRevision = @ + 1,
            !.totalAcceptAttempts = @ + 1,
            !.acceptAttemptsBySeller[e.payload.seller] = @ + 1,
            !.unsignedQuote = e.payload.quote,
            !.commitPendingAt = e.payload.timestamp,
            !.buyerSignature = None,
            !.sellerSignature = None]

ApplyPayload(s, e) ==
  CASE e.type = "OFFER_SUBMITTED" ->
         [s EXCEPT !.offers = Append(@, e.payload),
                   !.offerCountBySeller[e.payload.seller] = @ + 1]
    [] e.type = "COUNTER_SENT" -> [s EXCEPT !.counters = Append(@, e.payload)]
    [] e.type = "WINNER_SELECTED" -> Winner(s, e)
    [] e.type \in {"COSIGN_DECLINED", "COSIGN_TIMEOUT"} -> Rollback(s)
    [] e.type = "QUOTE_SIGNED" -> [s EXCEPT !.buyerSignature = e.payload.buyer_signature]
    [] e.type = "QUOTE_COMMITTED" -> [s EXCEPT !.sellerSignature = e.payload.seller_signature]
    [] OTHER -> s

\* Faulty variant: a confirmed settlement clears the commitment.
ApplyClearsSettled(s, e) ==
  IF s = None THEN NewSession(e)
  ELSE [(IF e.type = "SETTLEMENT_CONFIRMED" THEN Rollback(s) ELSE ApplyPayload(s, e))
          EXCEPT !.state = TransitionRules[s.state][e.type], !.lastEventId = e.event_id]

Apply(s, e) ==
  IF s = None THEN NewSession(e)
  ELSE [ApplyPayload(s, e) EXCEPT !.state = TransitionRules[s.state][e.type],
                                  !.lastEventId = e.event_id]

\* An event as the routes build it; event_id is the position it is drawn for.
MkEvent(id, type, actor, payload) ==
  [event_id |-> id, type |-> type, actor |-> actor, payload |-> payload]

(***************************************************************************)
(* deriveState: the reducer over the first n events of a log.  The engine  *)
(* only stores logs whose every event is accepted.                         *)
(***************************************************************************)
DeriveState(log) ==
  LET derived[n \in 0..Len(log)] ==
        IF n = 0 THEN None ELSE Apply(derived[n - 1], log[n])
  IN derived[Len(log)]

(***************************************************************************)
(* Role-scoped visibility.  Of an event it takes its type and the seller   *)
(* it concerns.                                                            *)
(***************************************************************************)
\* Event types every seller sees.
BroadcastTypes == {"RFQ_CREATED", "NEGOTIATION_EXPIRED", "NEGOTIATION_CANCELLED"}

\* isEventVisibleTo: a seller sees broadcasts and the events about itself.
IsEventVisibleTo(e, did) == did = Buyer \/ e.type \in BroadcastTypes \/ e.seller = did

=============================================================================

---------------------------- MODULE Negotiation ----------------------------
(***************************************************************************)
(* What the engine promises about one negotiation session: every route is  *)
(* one atomic step that reads the current session, checks its conditions   *)
(* and appends at most one event.  There are no locks, no requests in      *)
(* flight, no caches, no crashes and no clock here; the module NegotiationEngine  *)
(* has them and is shown to implement this one.                            *)
(*                                                                         *)
(* Since there is no clock, expiry and timeout may happen at any moment    *)
(* and the times written into offers and quotes are arbitrary.             *)
(***************************************************************************)
EXTENDS Session, FiniteSets

CONSTANTS
  Times,                 \* the times offers, quotes and the RFQ may carry
  Rounds,                \* the rounds a counter may carry
  MaxOffersPerSession, MaxOffersPerSeller,
  MaxAcceptsPerSession, MaxAcceptsPerSeller

ASSUME TimesAssumption == Times \subseteq Nat
ASSUME RoundsAssumption == Rounds \subseteq Nat
ASSUME LimitsAssumption ==
  /\ MaxOffersPerSession \in Nat
  /\ MaxOffersPerSeller \in Nat
  /\ MaxAcceptsPerSession \in Nat
  /\ MaxAcceptsPerSeller \in Nat

VARIABLES
  log,       \* the append-only event log of the session
  session    \* deriveState(log)

vars == <<log, session>>

Init == log = <<>> /\ session = None

(***************************************************************************)
(* SessionManager.appendEvent: the candidate log is replayed first, and    *)
(* the event is stored only if the reducer accepts it.                     *)
(***************************************************************************)
AppendEvent(type, actor, payload) ==
  LET e == MkEvent(Len(log) + 1, type, actor, payload)
  IN /\ Accepts(session, e)
     /\ log' = Append(log, e)
     /\ session' = Apply(session, e)

InState(S) == session # None /\ session.state \in S

(***************************************************************************)
(* The routes.                                                             *)
(***************************************************************************)
CreateRfq(deadline) ==
  /\ session = None
  /\ AppendEvent("RFQ_CREATED", Buyer, [buyer |-> Buyer, deadline |-> deadline])

SubmitOffer(o) ==
  /\ InState({"OPEN", "NEGOTIATING"})
  /\ \A i \in DOMAIN session.offers : session.offers[i].offer_id # o.offer_id
  /\ Len(session.offers) < MaxOffersPerSession
  /\ session.offerCountBySeller[o.seller] < MaxOffersPerSeller
  /\ AppendEvent("OFFER_SUBMITTED", o.seller, o)

\* Faulty variant: a counter may repeat the last round.
SendCounterSameRound(c) ==
  /\ InState({"NEGOTIATING"})
  /\ HasOffer(session, c.to)
  /\ \A i \in DOMAIN session.counters :
       /\ session.counters[i].counter_id # c.counter_id
       /\ session.counters[i].round <= c.round
  /\ AppendEvent("COUNTER_SENT", c.from, c)

SendCounter(c) ==
  /\ InState({"NEGOTIATING"})
  /\ HasOffer(session, c.to)
  /\ \A i \in DOMAIN session.counters :
       /\ session.counters[i].counter_id # c.counter_id
       /\ session.counters[i].round < c.round
  /\ c.round > 0
  /\ AppendEvent("COUNTER_SENT", c.from, c)

\* Faulty variant: the terms are those of the first offer of the session.
BuildQuoteOfFirstOffer(s, i, expires) ==
  [quote_id |-> s.quoteRevision + 1, buyer |-> s.rfq.buyer, seller |-> s.offers[i].seller,
   final_price |-> s.offers[1].price, payment_endpoint |-> s.offers[1].payment_endpoint,
   expires_at |-> expires]

\* Faulty variant: the seller is read from the session before the event sets it.
BuildQuoteTooEarly(s, i, expires) ==
  [quote_id |-> s.quoteRevision + 1, buyer |-> s.rfq.buyer, seller |-> s.selectedSeller,
   final_price |-> s.offers[i].price, payment_endpoint |-> s.offers[i].payment_endpoint,
   expires_at |-> expires]

\* The quote of offer i of the session, with a fresh id.
BuildQuote(s, i, expires) ==
  [quote_id |-> s.quoteRevision + 1, buyer |-> s.rfq.buyer, seller |-> s.offers[i].seller,
   final_price |-> s.offers[i].price, payment_endpoint |-> s.offers[i].payment_endpoint,
   expires_at |-> expires]

SelectWinner(i, t, expires) ==
  /\ InState({"NEGOTIATING"})
  /\ IsFound(session, session.offers[i].offer_id, i)
  /\ session.totalAcceptAttempts < MaxAcceptsPerSession
  /\ session.acceptAttemptsBySeller[session.offers[i].seller] < MaxAcceptsPerSeller
  /\ AppendEvent("WINNER_SELECTED", session.rfq.buyer,
       [seller |-> session.offers[i].seller, offer_id |-> session.offers[i].offer_id,
        quote |-> BuildQuote(session, i, expires), timestamp |-> t])

SignQuote ==
  /\ InState({"COMMIT_PENDING"})
  /\ session.unsignedQuote # None
  /\ session.buyerSignature = None
  /\ AppendEvent("QUOTE_SIGNED", session.rfq.buyer,
       [seller |-> session.selectedSeller,
        buyer_signature |-> [by |-> session.rfq.buyer, over |-> session.unsignedQuote]])

\* Faulty variant: the seller may cosign what the buyer has not signed.
CosignUnsigned ==
  /\ InState({"COMMIT_PENDING"})
  /\ session.unsignedQuote # None
  /\ AppendEvent("QUOTE_COMMITTED", session.selectedSeller,
       [seller |-> session.selectedSeller,
        seller_signature |-> [by |-> session.selectedSeller, over |-> session.unsignedQuote]])

Cosign ==
  /\ InState({"COMMIT_PENDING"})
  /\ session.unsignedQuote # None
  /\ session.buyerSignature # None
  /\ AppendEvent("QUOTE_COMMITTED", session.selectedSeller,
       [seller |-> session.selectedSeller,
        seller_signature |-> [by |-> session.selectedSeller, over |-> session.unsignedQuote]])

Decline ==
  /\ InState({"COMMIT_PENDING"})
  /\ session.selectedSeller # None
  /\ AppendEvent("COSIGN_DECLINED", session.selectedSeller,
       [seller |-> session.selectedSeller])

CosignTimeout ==
  /\ InState({"COMMIT_PENDING"})
  /\ session.selectedSeller # None
  /\ AppendEvent("COSIGN_TIMEOUT", Engine, [seller |-> session.selectedSeller])

Expire ==
  /\ InState({"OPEN", "NEGOTIATING", "COMMIT_PENDING"})
  /\ AppendEvent("NEGOTIATION_EXPIRED", Engine, [none |-> None])

ConfirmSettlement ==
  /\ InState({"COMMITTED"})
  /\ \A i \in DOMAIN log : log[i].type # "SETTLEMENT_CONFIRMED"
  /\ AppendEvent("SETTLEMENT_CONFIRMED", Engine, [quote_id |-> session.unsignedQuote.quote_id])

Next ==
  \/ \E d \in Times : CreateRfq(d)
  \/ \E id \in OfferIds, x \in Sellers, p \in Prices, u \in Endpoints, v \in Times :
       SubmitOffer([offer_id |-> id, seller |-> x, price |-> p,
                    payment_endpoint |-> u, valid_until |-> v])
  \/ \E id \in CounterIds, r \in Rounds, x \in Sellers :
       SendCounter([counter_id |-> id, round |-> r, from |-> Buyer, to |-> x])
  \/ \E t, x \in Times : session # None /\ \E i \in DOMAIN session.offers : SelectWinner(i, t, x)
  \/ SignQuote
  \/ Cosign
  \/ Decline
  \/ CosignTimeout
  \/ Expire
  \/ ConfirmSettlement

Spec == Init /\ [][Next]_vars

-----------------------------------------------------------------------------
(***************************************************************************)
(* Properties.                                                             *)
(***************************************************************************)

\* The log holds events, and the session, once created, has every field
\* deriveState returns.
TypeOK ==
  /\ log \in Seq(Event)
  /\ session \in DerivedSession \cup {None}

\* The quote a session holds is the quote of the offer it selected: that
\* offer's seller, price and payment endpoint as recorded when the offer was
\* submitted (buildQuoteFromSession).
QuoteIsSelectedOffer ==
  (session # None /\ session.unsignedQuote # None) =>
     \E i \in DOMAIN session.offers :
        /\ session.offers[i].offer_id = session.selectedOfferId
        /\ session.offers[i].seller = session.selectedSeller
        /\ session.unsignedQuote.seller = session.selectedSeller
        /\ session.unsignedQuote.buyer = session.rfq.buyer
        /\ session.unsignedQuote.final_price = session.offers[i].price
        /\ session.unsignedQuote.payment_endpoint = session.offers[i].payment_endpoint

\* A committed session carries both signatures, each made by the right party
\* and over the quote the session holds, never over the quote of an earlier
\* accept attempt (quote-sign.ts, cosign.ts and the reducer's rollback).
CommitIntegrity ==
  (session # None /\ session.state = "COMMITTED") =>
     /\ session.unsignedQuote # None
     /\ session.buyerSignature = [by |-> session.rfq.buyer, over |-> session.unsignedQuote]
     /\ session.sellerSignature = [by |-> session.selectedSeller, over |-> session.unsignedQuote]

\* After a decline or a timeout nothing of the abandoned commitment is left:
\* a session open for offers has no selection, quote, signature or start of
\* the cosign window (the CRITICAL comment of the reducer).
RollbackIsClean ==
  (session # None /\ session.state \in {"OPEN", "NEGOTIATING"}) =>
     /\ session.selectedSeller = None
     /\ session.selectedOfferId = None
     /\ session.unsignedQuote = None
     /\ session.buyerSignature = None
     /\ session.sellerSignature = None
     /\ session.commitPendingAt = None

\* Offers keep distinct ids and counters strictly increasing rounds over the
\* whole session, across any number of accept attempts (offers.ts, counters.ts).
OffersAndCountersOrdered ==
  session # None =>
    /\ \A i, j \in DOMAIN session.offers :
         i # j => session.offers[i].offer_id # session.offers[j].offer_id
    /\ \A i, j \in DOMAIN session.counters :
         i < j => session.counters[i].round < session.counters[j].round

EventsOfType(type) == {i \in DOMAIN log : log[i].type = type}

EventsOfSeller(type, x) == {i \in EventsOfType(type) : log[i].payload.seller = x}

\* No run of declines, timeouts and new accepts gets past the anti-griefing
\* limits of accept.ts, and no seller past the admission limits of offers.ts:
\* the log itself never holds more accepts or offers than that, in all and of
\* one seller, whatever the counters of the session say.
LimitsHold ==
  /\ Cardinality(EventsOfType("WINNER_SELECTED")) <= MaxAcceptsPerSession
  /\ Cardinality(EventsOfType("OFFER_SUBMITTED")) <= MaxOffersPerSession
  /\ \A x \in Sellers :
       /\ Cardinality(EventsOfSeller("WINNER_SELECTED", x)) <= MaxAcceptsPerSeller
       /\ Cardinality(EventsOfSeller("OFFER_SUBMITTED", x)) <= MaxOffersPerSeller

\* A deal that is committed stays as it was signed; settlement adds an event
\* and changes nothing else, and no other event follows a terminal state.
DealIsFrozen ==
  [][InState(TerminalStates) =>
       session' = [session EXCEPT !.lastEventId = session'.lastEventId]]_vars

(***************************************************************************)
(* The inductive strengthening of the integrity properties: a session on   *)
(* its way to a commitment has a quote, and a buyer signature it carries   *)
(* is the buyer's, over that quote.                                        *)
(***************************************************************************)
PendingHasQuote ==
  (session # None /\ session.state \in {"COMMIT_PENDING", "COMMITTED"}) =>
     session.unsignedQuote # None /\ session.selectedSeller # None

BuyerSignedTheQuote ==
  (session # None /\ session.buyerSignature # None) =>
     /\ session.unsignedQuote # None
     /\ session.buyerSignature = [by |-> session.rfq.buyer, over |-> session.unsignedQuote]

IntegrityInv ==
  /\ TypeOK
  /\ RollbackIsClean
  /\ PendingHasQuote
  /\ QuoteIsSelectedOffer
  /\ BuyerSignedTheQuote
  /\ CommitIntegrity

(***************************************************************************)
(* The strengthening of the limits: the counters deriveState keeps in the  *)
(* session are the numbers of events in the log, and within the limits.    *)
(***************************************************************************)
CountersMatchLog ==
  /\ session = None => log = <<>>
  /\ session # None =>
       /\ session.totalAcceptAttempts = Cardinality(EventsOfType("WINNER_SELECTED"))
       /\ Len(session.offers) = Cardinality(EventsOfType("OFFER_SUBMITTED"))
       /\ \A x \in Sellers :
            /\ session.acceptAttemptsBySeller[x] =
                 Cardinality(EventsOfSeller("WINNER_SELECTED", x))
            /\ session.offerCountBySeller[x] =
                 Cardinality(EventsOfSeller("OFFER_SUBMITTED", x))

=============================================================================

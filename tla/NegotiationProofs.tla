------------------------- MODULE NegotiationProofs -------------------------
(***************************************************************************)
(* Proofs about Negotiation, for all sellers, limits, rounds and times.    *)
(* First the reducer, one lemma per event type; then the steps of the      *)
(* specification in terms of the session; then the theorems.               *)
(***************************************************************************)
EXTENDS Negotiation, FiniteSetTheorems, TLAPS

(***************************************************************************)
(* The reducer.                                                            *)
(***************************************************************************)

\* Where each event type is valid and where it leads (TRANSITION_RULES).
LEMMA Transitions ==
  ASSUME NEW st \in States
  PROVE  /\ IsValidTransition(st, "OFFER_SUBMITTED") =>
              /\ st \in {"OPEN", "NEGOTIATING"}
              /\ TransitionRules[st]["OFFER_SUBMITTED"] = "NEGOTIATING"
         /\ IsValidTransition(st, "COUNTER_SENT") =>
              st = "NEGOTIATING" /\ TransitionRules[st]["COUNTER_SENT"] = "NEGOTIATING"
         /\ IsValidTransition(st, "WINNER_SELECTED") =>
              st = "NEGOTIATING" /\ TransitionRules[st]["WINNER_SELECTED"] = "COMMIT_PENDING"
         /\ IsValidTransition(st, "QUOTE_SIGNED") =>
              st = "COMMIT_PENDING" /\ TransitionRules[st]["QUOTE_SIGNED"] = "COMMIT_PENDING"
         /\ IsValidTransition(st, "QUOTE_COMMITTED") =>
              st = "COMMIT_PENDING" /\ TransitionRules[st]["QUOTE_COMMITTED"] = "COMMITTED"
         /\ IsValidTransition(st, "COSIGN_DECLINED") =>
              st = "COMMIT_PENDING" /\ TransitionRules[st]["COSIGN_DECLINED"] = "NEGOTIATING"
         /\ IsValidTransition(st, "COSIGN_TIMEOUT") =>
              st = "COMMIT_PENDING" /\ TransitionRules[st]["COSIGN_TIMEOUT"] = "NEGOTIATING"
         /\ IsValidTransition(st, "NEGOTIATION_EXPIRED") =>
              /\ st \in {"OPEN", "NEGOTIATING", "COMMIT_PENDING"}
              /\ TransitionRules[st]["NEGOTIATION_EXPIRED"] = "EXPIRED"
         /\ IsValidTransition(st, "SETTLEMENT_CONFIRMED") =>
              st = "COMMITTED" /\ TransitionRules[st]["SETTLEMENT_CONFIRMED"] = "COMMITTED"
  BY DEF States, IsValidTransition, TransitionRules

\* A derived session is not null.
LEMMA SessionNotNone ==
  ASSUME NEW s \in DerivedSession
  PROVE  s # None
  BY NoneAssumption

\* An accepted event of a live session makes a valid transition.
LEMMA AcceptedIsValid ==
  ASSUME NEW s \in DerivedSession, NEW e, Accepts(s, e)
  PROVE  s.state \in States /\ IsValidTransition(s.state, e.type)
  BY SessionNotNone DEF Accepts, DerivedSession

\* RFQ_CREATED yields a well-formed open session.
LEMMA NewSessionType ==
  ASSUME NEW e, e.event_id \in Nat, e.payload \in Rfq
  PROVE  NewSession(e) \in DerivedSession
  BY DEF NewSession, DerivedSession, States

\* OFFER_SUBMITTED appends the offer and counts it.
LEMMA ApplyOffer ==
  ASSUME NEW s \in DerivedSession, NEW e, e.type = "OFFER_SUBMITTED",
         e.event_id \in Nat, e.payload \in Offer, Accepts(s, e)
  PROVE  /\ Apply(s, e) \in DerivedSession
         /\ Apply(s, e) =
              [s EXCEPT !.state = "NEGOTIATING", !.lastEventId = e.event_id,
                        !.offers = Append(s.offers, e.payload),
                        !.offerCountBySeller =
                           [s.offerCountBySeller EXCEPT ![e.payload.seller] = @ + 1]]
<1>1. s # None /\ TransitionRules[s.state]["OFFER_SUBMITTED"] = "NEGOTIATING"
  BY SessionNotNone, AcceptedIsValid, Transitions
<1>2. Apply(s, e) = [[s EXCEPT !.offers = Append(@, e.payload),
                               !.offerCountBySeller[e.payload.seller] = @ + 1]
                        EXCEPT !.state = "NEGOTIATING", !.lastEventId = e.event_id]
  BY <1>1 DEF Apply, ApplyPayload
<1>3. /\ Append(s.offers, e.payload) \in Seq(Offer)
      /\ [s.offerCountBySeller EXCEPT ![e.payload.seller] = @ + 1] \in [Sellers -> Nat]
  BY DEF DerivedSession, Offer
<1>4. Apply(s, e) = [s EXCEPT !.state = "NEGOTIATING", !.lastEventId = e.event_id,
                              !.offers = Append(s.offers, e.payload),
                              !.offerCountBySeller =
                                 [s.offerCountBySeller EXCEPT ![e.payload.seller] = @ + 1]]
  BY <1>2 DEF DerivedSession
<1>. QED BY <1>3, <1>4 DEF DerivedSession, States

\* COUNTER_SENT appends the counter.
LEMMA ApplyCounter ==
  ASSUME NEW s \in DerivedSession, NEW e, e.type = "COUNTER_SENT",
         e.event_id \in Nat, e.payload \in Counter, Accepts(s, e)
  PROVE  /\ Apply(s, e) \in DerivedSession
         /\ Apply(s, e) = [s EXCEPT !.state = "NEGOTIATING", !.lastEventId = e.event_id,
                                    !.counters = Append(s.counters, e.payload)]
<1>1. s # None /\ TransitionRules[s.state]["COUNTER_SENT"] = "NEGOTIATING"
  BY SessionNotNone, AcceptedIsValid, Transitions
<1>2. Apply(s, e) = [s EXCEPT !.state = "NEGOTIATING", !.lastEventId = e.event_id,
                              !.counters = Append(s.counters, e.payload)]
  BY <1>1 DEF Apply, ApplyPayload, DerivedSession
<1>3. Append(s.counters, e.payload) \in Seq(Counter)
  BY DEF DerivedSession
<1>. QED BY <1>2, <1>3 DEF DerivedSession, States

\* WINNER_SELECTED starts an accept attempt with a new quote and no signature.
LEMMA ApplyWinner ==
  ASSUME NEW s \in DerivedSession, NEW e, e.type = "WINNER_SELECTED",
         e.event_id \in Nat, e.payload \in WinnerPayload, Accepts(s, e)
  PROVE  /\ Apply(s, e) \in DerivedSession
         /\ Apply(s, e) =
              [s EXCEPT !.state = "COMMIT_PENDING", !.lastEventId = e.event_id,
                        !.selectedSeller = e.payload.seller,
                        !.selectedOfferId = e.payload.offer_id,
                        !.quoteRevision = s.quoteRevision + 1,
                        !.totalAcceptAttempts = s.totalAcceptAttempts + 1,
                        !.acceptAttemptsBySeller =
                           [s.acceptAttemptsBySeller EXCEPT ![e.payload.seller] = @ + 1],
                        !.unsignedQuote = e.payload.quote,
                        !.commitPendingAt = e.payload.timestamp,
                        !.buyerSignature = None, !.sellerSignature = None]
<1>1. s # None /\ TransitionRules[s.state]["WINNER_SELECTED"] = "COMMIT_PENDING"
  BY SessionNotNone, AcceptedIsValid, Transitions
<1>2. Apply(s, e) = [Winner(s, e) EXCEPT !.state = "COMMIT_PENDING",
                                         !.lastEventId = e.event_id]
  BY <1>1 DEF Apply, ApplyPayload
<1>3. Apply(s, e) =
        [s EXCEPT !.state = "COMMIT_PENDING", !.lastEventId = e.event_id,
                  !.selectedSeller = e.payload.seller,
                  !.selectedOfferId = e.payload.offer_id,
                  !.quoteRevision = s.quoteRevision + 1,
                  !.totalAcceptAttempts = s.totalAcceptAttempts + 1,
                  !.acceptAttemptsBySeller =
                     [s.acceptAttemptsBySeller EXCEPT ![e.payload.seller] = @ + 1],
                  !.unsignedQuote = e.payload.quote,
                  !.commitPendingAt = e.payload.timestamp,
                  !.buyerSignature = None, !.sellerSignature = None]
  BY <1>2 DEF Winner, DerivedSession
<1>4. /\ e.payload.seller \in Sellers /\ e.payload.offer_id \in OfferIds
      /\ e.payload.quote \in Quote /\ e.payload.timestamp \in Nat
  BY DEF WinnerPayload
<1>5. /\ s.acceptAttemptsBySeller \in [Sellers -> Nat]
      /\ s.quoteRevision \in Nat /\ s.totalAcceptAttempts \in Nat
  BY DEF DerivedSession
<1>6. [s.acceptAttemptsBySeller EXCEPT ![e.payload.seller] = @ + 1] \in [Sellers -> Nat]
  BY <1>4, <1>5
<1>7. Apply(s, e) \in DerivedSession
  <2> DEFINE f == [s.acceptAttemptsBySeller EXCEPT ![e.payload.seller] = @ + 1]
             n == s.quoteRevision + 1
             m == s.totalAcceptAttempts + 1
  <2>1. n \in Nat /\ m \in Nat /\ f \in [Sellers -> Nat]
    BY <1>5, <1>6
  <2>2. Apply(s, e) =
          [s EXCEPT !.state = "COMMIT_PENDING", !.lastEventId = e.event_id,
                    !.selectedSeller = e.payload.seller, !.selectedOfferId = e.payload.offer_id,
                    !.quoteRevision = n, !.totalAcceptAttempts = m,
                    !.acceptAttemptsBySeller = f,
                    !.unsignedQuote = e.payload.quote, !.commitPendingAt = e.payload.timestamp,
                    !.buyerSignature = None, !.sellerSignature = None]
    BY <1>3
  <2> HIDE DEF f, n, m
  <2>. QED BY <1>4, <2>1, <2>2, ZenonT(60) DEF DerivedSession, States
<1>. QED BY <1>3, <1>7

\* COSIGN_DECLINED and COSIGN_TIMEOUT roll the attempt back.
LEMMA ApplyRollback ==
  ASSUME NEW s \in DerivedSession, NEW e, e.type = "COSIGN_DECLINED" \/ e.type = "COSIGN_TIMEOUT",
         e.event_id \in Nat, Accepts(s, e)
  PROVE  /\ Apply(s, e) \in DerivedSession
         /\ Apply(s, e) =
              [s EXCEPT !.state = "NEGOTIATING", !.lastEventId = e.event_id,
                        !.selectedSeller = None, !.selectedOfferId = None,
                        !.unsignedQuote = None, !.buyerSignature = None,
                        !.sellerSignature = None, !.commitPendingAt = None]
<1>1. s # None /\ TransitionRules[s.state][e.type] = "NEGOTIATING"
  BY SessionNotNone, AcceptedIsValid, Transitions
<1>2. Apply(s, e) = [Rollback(s) EXCEPT !.state = "NEGOTIATING", !.lastEventId = e.event_id]
  BY <1>1 DEF Apply, ApplyPayload
<1>3. Apply(s, e) = [s EXCEPT !.state = "NEGOTIATING", !.lastEventId = e.event_id,
                              !.selectedSeller = None, !.selectedOfferId = None,
                              !.unsignedQuote = None, !.buyerSignature = None,
                              !.sellerSignature = None, !.commitPendingAt = None]
  BY <1>2 DEF Rollback, DerivedSession
<1>. QED BY <1>3 DEF DerivedSession, States

\* QUOTE_SIGNED records the buyer's signature.
LEMMA ApplySigned ==
  ASSUME NEW s \in DerivedSession, NEW e, e.type = "QUOTE_SIGNED",
         e.event_id \in Nat, e.payload \in SignedPayload, Accepts(s, e)
  PROVE  /\ Apply(s, e) \in DerivedSession
         /\ Apply(s, e) = [s EXCEPT !.state = "COMMIT_PENDING", !.lastEventId = e.event_id,
                                    !.buyerSignature = e.payload.buyer_signature]
<1>1. s # None /\ TransitionRules[s.state]["QUOTE_SIGNED"] = "COMMIT_PENDING"
  BY SessionNotNone, AcceptedIsValid, Transitions
<1>2. Apply(s, e) = [s EXCEPT !.state = "COMMIT_PENDING", !.lastEventId = e.event_id,
                              !.buyerSignature = e.payload.buyer_signature]
  BY <1>1 DEF Apply, ApplyPayload, DerivedSession
<1>. QED BY <1>2 DEF DerivedSession, States, SignedPayload

\* QUOTE_COMMITTED records the seller's signature.
LEMMA ApplyCommitted ==
  ASSUME NEW s \in DerivedSession, NEW e, e.type = "QUOTE_COMMITTED",
         e.event_id \in Nat, e.payload \in CommittedPayload, Accepts(s, e)
  PROVE  /\ Apply(s, e) \in DerivedSession
         /\ Apply(s, e) = [s EXCEPT !.state = "COMMITTED", !.lastEventId = e.event_id,
                                    !.sellerSignature = e.payload.seller_signature]
<1>1. s # None /\ TransitionRules[s.state]["QUOTE_COMMITTED"] = "COMMITTED"
  BY SessionNotNone, AcceptedIsValid, Transitions
<1>2. Apply(s, e) = [s EXCEPT !.state = "COMMITTED", !.lastEventId = e.event_id,
                              !.sellerSignature = e.payload.seller_signature]
  BY <1>1 DEF Apply, ApplyPayload, DerivedSession
<1>. QED BY <1>2 DEF DerivedSession, States, CommittedPayload

\* NEGOTIATION_EXPIRED changes the state only.
LEMMA ApplyExpired ==
  ASSUME NEW s \in DerivedSession, NEW e, e.type = "NEGOTIATION_EXPIRED",
         e.event_id \in Nat, Accepts(s, e)
  PROVE  /\ Apply(s, e) \in DerivedSession
         /\ Apply(s, e) = [s EXCEPT !.state = "EXPIRED", !.lastEventId = e.event_id]
<1>1. s # None /\ TransitionRules[s.state]["NEGOTIATION_EXPIRED"] = "EXPIRED"
  BY SessionNotNone, AcceptedIsValid, Transitions
<1>2. Apply(s, e) = [s EXCEPT !.state = "EXPIRED", !.lastEventId = e.event_id]
  BY <1>1 DEF Apply, ApplyPayload
<1>. QED BY <1>2 DEF DerivedSession, States

\* SETTLEMENT_CONFIRMED records the event and keeps the committed state.
LEMMA ApplySettled ==
  ASSUME NEW s \in DerivedSession, NEW e, e.type = "SETTLEMENT_CONFIRMED",
         e.event_id \in Nat, Accepts(s, e)
  PROVE  /\ Apply(s, e) \in DerivedSession
         /\ Apply(s, e) = [s EXCEPT !.state = "COMMITTED", !.lastEventId = e.event_id]
<1>1. s # None /\ TransitionRules[s.state]["SETTLEMENT_CONFIRMED"] = "COMMITTED"
  BY SessionNotNone, AcceptedIsValid, Transitions
<1>2. Apply(s, e) = [s EXCEPT !.state = "COMMITTED", !.lastEventId = e.event_id]
  BY <1>1 DEF Apply, ApplyPayload
<1>. QED BY <1>2 DEF DerivedSession, States

(***************************************************************************)
(* The steps of the specification, as the session sees them.               *)
(***************************************************************************)

\* What the routes put into the log.
Payloads ==
  Rfq \cup Offer \cup Counter \cup WinnerPayload \cup SellerPayload
    \cup SignedPayload \cup CommittedPayload \cup SettlementPayload \cup EmptyPayload

\* appendEvent stores one accepted event, numbered by its place in the log.
LEMMA Appended ==
  ASSUME TypeOK, NEW type \in EventTypes, NEW actor \in Dids \cup {Engine},
         NEW payload \in Payloads, AppendEvent(type, actor, payload)
  PROVE  /\ log' \in Seq(Event)
         /\ \E e : /\ e.type = type /\ e.actor = actor /\ e.payload = payload
                  /\ e.event_id \in Nat
                  /\ Accepts(session, e)
                  /\ session' = Apply(session, e)
<1> DEFINE e == MkEvent(Len(log) + 1, type, actor, payload)
<1>1. e.type = type /\ e.actor = actor /\ e.payload = payload
  BY DEF MkEvent
<1>2. e.event_id \in Nat
  BY DEF MkEvent, TypeOK
<1>3. e \in Event
  BY <1>2 DEF MkEvent, Event, Payloads
<1>4. Accepts(session, e) /\ session' = Apply(session, e) /\ log' = Append(log, e)
  BY DEF AppendEvent
<1>5. log' \in Seq(Event)
  BY <1>3, <1>4 DEF TypeOK
<1> HIDE DEF e
<1>. QED BY <1>1, <1>2, <1>4, <1>5

\* A session that a route finds is well formed.
LEMMA FoundSession ==
  ASSUME TypeOK, session # None
  PROVE  session \in DerivedSession
  BY DEF TypeOK

\* POST /rfqs opens the session.
LEMMA CreateRfqStep ==
  ASSUME TypeOK, NEW d \in Times, CreateRfq(d)
  PROVE  /\ log' \in Seq(Event)
         /\ session' \in DerivedSession
         /\ \E id : session' = NewSession([event_id |-> id,
                                          payload |-> [buyer |-> Buyer, deadline |-> d]])
<1> DEFINE r == [buyer |-> Buyer, deadline |-> d]
<1>1. r \in Rfq
  BY TimesAssumption DEF Rfq
<1>2. "RFQ_CREATED" \in EventTypes /\ Buyer \in Dids \cup {Engine} /\ r \in Payloads
  BY <1>1 DEF EventTypes, Dids, Payloads
<1>3. AppendEvent("RFQ_CREATED", Buyer, r) /\ session = None
  BY DEF CreateRfq
<1> HIDE DEF r
<1>4. /\ log' \in Seq(Event)
      /\ \E e : /\ e.type = "RFQ_CREATED" /\ e.actor = Buyer /\ e.payload = r
               /\ e.event_id \in Nat /\ Accepts(session, e) /\ session' = Apply(session, e)
  BY <1>2, <1>3, Appended
<1>5. PICK e : e.payload = r /\ e.event_id \in Nat /\ session' = Apply(session, e)
  BY <1>4
<1>6. session' = NewSession(e)
  BY <1>3, <1>5 DEF Apply
<1>7. session' = NewSession([event_id |-> e.event_id, payload |-> r])
  BY <1>5, <1>6 DEF NewSession
<1>. QED BY <1>1, <1>4, <1>5, <1>6, <1>7, NewSessionType DEF r

\* POST .../offers appends the offer.
LEMMA SubmitOfferStep ==
  ASSUME TypeOK, NEW o \in Offer, SubmitOffer(o)
  PROVE  /\ log' \in Seq(Event)
         /\ session \in DerivedSession /\ session' \in DerivedSession
         /\ \E id : session' =
              [session EXCEPT !.state = "NEGOTIATING", !.lastEventId = id,
                        !.offers = Append(session.offers, o),
                        !.offerCountBySeller =
                           [session.offerCountBySeller EXCEPT ![o.seller] = @ + 1]]
<1>1. session \in DerivedSession
  BY FoundSession DEF SubmitOffer, InState
<1> DEFINE p == o
<1>2. p \in Offer
  OBVIOUS
<1>3. "OFFER_SUBMITTED" \in EventTypes /\ o.seller \in Dids \cup {Engine} /\ p \in Payloads
  BY <1>1, <1>2 DEF EventTypes, Dids, Payloads, DerivedSession, Offer
<1>4. AppendEvent("OFFER_SUBMITTED", o.seller, p)
  BY DEF SubmitOffer
<1> HIDE DEF p
<1>5. /\ log' \in Seq(Event)
      /\ \E e : /\ e.type = "OFFER_SUBMITTED" /\ e.actor = o.seller /\ e.payload = p
               /\ e.event_id \in Nat /\ Accepts(session, e) /\ session' = Apply(session, e)
  BY <1>3, <1>4, Appended
<1>6. PICK e : /\ e.type = "OFFER_SUBMITTED" /\ e.payload = p
               /\ e.event_id \in Nat /\ Accepts(session, e) /\ session' = Apply(session, e)
  BY <1>5
<1>7. /\ session' \in DerivedSession
      /\ session' = [session EXCEPT !.state = "NEGOTIATING", !.lastEventId = e.event_id,
                                    !.offers = Append(session.offers, p),
                                    !.offerCountBySeller =
                           [session.offerCountBySeller EXCEPT ![p.seller] = @ + 1]]
  BY <1>1, <1>2, <1>6, ApplyOffer
<1>. QED BY <1>1, <1>5, <1>7 DEF p

\* POST .../counter appends the counter.
LEMMA SendCounterStep ==
  ASSUME TypeOK, NEW c \in Counter, SendCounter(c)
  PROVE  /\ log' \in Seq(Event)
         /\ session \in DerivedSession /\ session' \in DerivedSession
         /\ \E id : session' =
              [session EXCEPT !.state = "NEGOTIATING", !.lastEventId = id,
                        !.counters = Append(session.counters, c)]
<1>1. session \in DerivedSession
  BY FoundSession DEF SendCounter, InState
<1> DEFINE p == c
<1>2. p \in Counter
  OBVIOUS
<1>3. "COUNTER_SENT" \in EventTypes /\ c.from \in Dids \cup {Engine} /\ p \in Payloads
  BY <1>1, <1>2 DEF EventTypes, Dids, Payloads, DerivedSession, Counter
<1>4. AppendEvent("COUNTER_SENT", c.from, p)
  BY DEF SendCounter
<1> HIDE DEF p
<1>5. /\ log' \in Seq(Event)
      /\ \E e : /\ e.type = "COUNTER_SENT" /\ e.actor = c.from /\ e.payload = p
               /\ e.event_id \in Nat /\ Accepts(session, e) /\ session' = Apply(session, e)
  BY <1>3, <1>4, Appended
<1>6. PICK e : /\ e.type = "COUNTER_SENT" /\ e.payload = p
               /\ e.event_id \in Nat /\ Accepts(session, e) /\ session' = Apply(session, e)
  BY <1>5
<1>7. /\ session' \in DerivedSession
      /\ session' = [session EXCEPT !.state = "NEGOTIATING", !.lastEventId = e.event_id,
                                    !.counters = Append(session.counters, p)]
  BY <1>1, <1>2, <1>6, ApplyCounter
<1>. QED BY <1>1, <1>5, <1>7 DEF p

\* POST .../accept selects offer i and its quote.
LEMMA SelectWinnerStep ==
  ASSUME TypeOK, session # None, NEW i \in DOMAIN session.offers,
         NEW tm \in Times, NEW x \in Times, SelectWinner(i, tm, x)
  PROVE  /\ log' \in Seq(Event)
         /\ session \in DerivedSession /\ session' \in DerivedSession
         /\ session.offers[i].seller \in Sellers
         /\ BuildQuote(session, i, x) \in Quote
         /\ session'.state = "COMMIT_PENDING"
         /\ session'.rfq = session.rfq
         /\ session'.offers = session.offers
         /\ session'.counters = session.counters
         /\ session'.offerCountBySeller = session.offerCountBySeller
         /\ session'.selectedSeller = session.offers[i].seller
         /\ session'.selectedOfferId = session.offers[i].offer_id
         /\ session'.totalAcceptAttempts = session.totalAcceptAttempts + 1
         /\ session'.acceptAttemptsBySeller =
              [session.acceptAttemptsBySeller EXCEPT ![session.offers[i].seller] = @ + 1]
         /\ session'.unsignedQuote = BuildQuote(session, i, x)
         /\ session'.buyerSignature = None
<1>1. session \in DerivedSession
  BY FoundSession DEF SelectWinner, InState
<1>0. session.offers[i] \in Offer
  BY <1>1 DEF DerivedSession
<1> DEFINE p == [seller |-> session.offers[i].seller, offer_id |-> session.offers[i].offer_id,
                quote |-> BuildQuote(session, i, x), timestamp |-> tm]
<1>2. p \in WinnerPayload
  <2>1. /\ session.offers[i].seller \in Sellers /\ session.offers[i].offer_id \in OfferIds
        /\ session.offers[i].price \in Prices
        /\ session.offers[i].payment_endpoint \in Endpoints
    BY <1>0 DEF Offer
  <2>2. session.rfq.buyer \in Dids /\ session.quoteRevision + 1 \in Nat
    BY <1>1 DEF DerivedSession, Rfq, Dids
  <2>3. x \in Nat /\ tm \in Nat
    BY TimesAssumption
  <2>4. BuildQuote(session, i, x) \in Quote
    BY <2>1, <2>2, <2>3 DEF BuildQuote, Quote
  <2>. QED BY <2>1, <2>3, <2>4 DEF WinnerPayload
<1>3. "WINNER_SELECTED" \in EventTypes /\ session.rfq.buyer \in Dids \cup {Engine} /\ p \in Payloads
  BY <1>1, <1>2 DEF EventTypes, Dids, Payloads, DerivedSession, Rfq
<1>4. AppendEvent("WINNER_SELECTED", session.rfq.buyer, p)
  BY DEF SelectWinner
<1> HIDE DEF p
<1>5. /\ log' \in Seq(Event)
      /\ \E e : /\ e.type = "WINNER_SELECTED" /\ e.actor = session.rfq.buyer /\ e.payload = p
               /\ e.event_id \in Nat /\ Accepts(session, e) /\ session' = Apply(session, e)
  BY <1>3, <1>4, Appended
<1>6. PICK e : /\ e.type = "WINNER_SELECTED" /\ e.payload = p
               /\ e.event_id \in Nat /\ Accepts(session, e) /\ session' = Apply(session, e)
  BY <1>5
<1>7. /\ session' \in DerivedSession
      /\ session' =
           [session EXCEPT !.state = "COMMIT_PENDING", !.lastEventId = e.event_id,
                     !.selectedSeller = p.seller, !.selectedOfferId = p.offer_id,
                     !.quoteRevision = session.quoteRevision + 1,
                     !.totalAcceptAttempts = session.totalAcceptAttempts + 1,
                     !.acceptAttemptsBySeller =
                        [session.acceptAttemptsBySeller EXCEPT ![p.seller] = @ + 1],
                     !.unsignedQuote = p.quote, !.commitPendingAt = p.timestamp,
                     !.buyerSignature = None, !.sellerSignature = None]
  BY <1>1, <1>2, <1>6, ApplyWinner
<1>8. /\ session'.state = "COMMIT_PENDING"
      /\ session'.rfq = session.rfq
      /\ session'.offers = session.offers
      /\ session'.counters = session.counters
      /\ session'.offerCountBySeller = session.offerCountBySeller
      /\ session'.selectedSeller = p.seller
      /\ session'.selectedOfferId = p.offer_id
      /\ session'.totalAcceptAttempts = session.totalAcceptAttempts + 1
      /\ session'.acceptAttemptsBySeller =
           [session.acceptAttemptsBySeller EXCEPT ![p.seller] = @ + 1]
      /\ session'.unsignedQuote = p.quote
      /\ session'.buyerSignature = None
  BY <1>1, <1>7 DEF DerivedSession
<1>9. p.seller \in Sellers /\ p.quote \in Quote
  BY <1>2 DEF WinnerPayload
<1>10. /\ p.seller = session.offers[i].seller /\ p.offer_id = session.offers[i].offer_id
       /\ p.quote = BuildQuote(session, i, x)
  BY DEF p
<1>. QED BY <1>1, <1>5, <1>7, <1>8, <1>9, <1>10

\* PUT .../quote/sign records the buyer's signature of the quote.
LEMMA SignQuoteStep ==
  ASSUME TypeOK, PendingHasQuote, SignQuote
  PROVE  /\ log' \in Seq(Event)
         /\ session \in DerivedSession /\ session' \in DerivedSession
         /\ session.state = "COMMIT_PENDING" /\ session.unsignedQuote # None
         /\ \E id : session' =
              [session EXCEPT !.state = "COMMIT_PENDING", !.lastEventId = id,
                        !.buyerSignature =
                           [by |-> session.rfq.buyer, over |-> session.unsignedQuote]]
<1>1. session \in DerivedSession
  BY FoundSession DEF SignQuote, InState
<1>0. /\ session.unsignedQuote # None /\ session.state = "COMMIT_PENDING"
      /\ session.selectedSeller # None
  BY DEF SignQuote, InState, PendingHasQuote
<1> DEFINE p == [seller |-> session.selectedSeller,
                buyer_signature |-> [by |-> session.rfq.buyer, over |-> session.unsignedQuote]]
<1>2. p \in SignedPayload
  BY <1>1, <1>0 DEF SignedPayload, Signature, DerivedSession, Rfq, Dids
<1>3. "QUOTE_SIGNED" \in EventTypes /\ session.rfq.buyer \in Dids \cup {Engine} /\ p \in Payloads
  BY <1>1, <1>2, <1>0 DEF EventTypes, Dids, Payloads, DerivedSession, Rfq
<1>4. AppendEvent("QUOTE_SIGNED", session.rfq.buyer, p)
  BY DEF SignQuote
<1> HIDE DEF p
<1>5. /\ log' \in Seq(Event)
      /\ \E e : /\ e.type = "QUOTE_SIGNED" /\ e.actor = session.rfq.buyer /\ e.payload = p
               /\ e.event_id \in Nat /\ Accepts(session, e) /\ session' = Apply(session, e)
  BY <1>3, <1>4, Appended
<1>6. PICK e : /\ e.type = "QUOTE_SIGNED" /\ e.payload = p
               /\ e.event_id \in Nat /\ Accepts(session, e) /\ session' = Apply(session, e)
  BY <1>5
<1>7. /\ session' \in DerivedSession
      /\ session' = [session EXCEPT !.state = "COMMIT_PENDING", !.lastEventId = e.event_id,
                                    !.buyerSignature = p.buyer_signature]
  BY <1>1, <1>2, <1>6, ApplySigned
<1>. QED BY <1>0, <1>1, <1>5, <1>7 DEF p, SignQuote

\* PUT .../cosign records the selected seller's signature.
LEMMA CosignStep ==
  ASSUME TypeOK, PendingHasQuote, Cosign
  PROVE  /\ log' \in Seq(Event)
         /\ session \in DerivedSession /\ session' \in DerivedSession
         /\ session.state = "COMMIT_PENDING" /\ session.unsignedQuote # None
         /\ session.buyerSignature # None
         /\ \E id : session' =
              [session EXCEPT !.state = "COMMITTED", !.lastEventId = id,
                        !.sellerSignature =
                           [by |-> session.selectedSeller, over |-> session.unsignedQuote]]
<1>1. session \in DerivedSession
  BY FoundSession DEF Cosign, InState
<1>0. /\ session.unsignedQuote # None /\ session.state = "COMMIT_PENDING"
      /\ session.selectedSeller # None
  BY DEF Cosign, InState, PendingHasQuote
<1> DEFINE p == [seller |-> session.selectedSeller,
                seller_signature |-> [by |-> session.selectedSeller, over |-> session.unsignedQuote]]
<1>2. p \in CommittedPayload
  BY <1>1, <1>0 DEF CommittedPayload, Signature, DerivedSession, Rfq, Dids
<1>3. "QUOTE_COMMITTED" \in EventTypes /\ session.selectedSeller \in Dids \cup {Engine} /\ p \in Payloads
  BY <1>1, <1>2, <1>0 DEF EventTypes, Dids, Payloads, DerivedSession, Rfq
<1>4. AppendEvent("QUOTE_COMMITTED", session.selectedSeller, p)
  BY DEF Cosign
<1> HIDE DEF p
<1>5. /\ log' \in Seq(Event)
      /\ \E e : /\ e.type = "QUOTE_COMMITTED" /\ e.actor = session.selectedSeller /\ e.payload = p
               /\ e.event_id \in Nat /\ Accepts(session, e) /\ session' = Apply(session, e)
  BY <1>3, <1>4, Appended
<1>6. PICK e : /\ e.type = "QUOTE_COMMITTED" /\ e.payload = p
               /\ e.event_id \in Nat /\ Accepts(session, e) /\ session' = Apply(session, e)
  BY <1>5
<1>7. /\ session' \in DerivedSession
      /\ session' = [session EXCEPT !.state = "COMMITTED", !.lastEventId = e.event_id,
                                    !.sellerSignature = p.seller_signature]
  BY <1>1, <1>2, <1>6, ApplyCommitted
<1>. QED BY <1>0, <1>1, <1>5, <1>7 DEF p, Cosign

\* PUT .../decline undoes the attempt.
LEMMA DeclineStep ==
  ASSUME TypeOK, Decline
  PROVE  /\ log' \in Seq(Event)
         /\ session \in DerivedSession /\ session' \in DerivedSession
         /\ session.state = "COMMIT_PENDING"
         /\ \E id : session' =
              [session EXCEPT !.state = "NEGOTIATING", !.lastEventId = id,
                        !.selectedSeller = None, !.selectedOfferId = None,
                        !.unsignedQuote = None, !.buyerSignature = None,
                        !.sellerSignature = None, !.commitPendingAt = None]
<1>1. session \in DerivedSession
  BY FoundSession DEF Decline, InState
<1>0. session.selectedSeller # None /\ session.state = "COMMIT_PENDING"
  BY DEF Decline, InState
<1> DEFINE p == [seller |-> session.selectedSeller]
<1>2. p \in SellerPayload
  BY <1>1, <1>0 DEF SellerPayload, DerivedSession
<1>3. "COSIGN_DECLINED" \in EventTypes /\ session.selectedSeller \in Dids \cup {Engine} /\ p \in Payloads
  BY <1>1, <1>2, <1>0 DEF EventTypes, Dids, Payloads, DerivedSession, Rfq
<1>4. AppendEvent("COSIGN_DECLINED", session.selectedSeller, p)
  BY DEF Decline
<1> HIDE DEF p
<1>5. /\ log' \in Seq(Event)
      /\ \E e : /\ e.type = "COSIGN_DECLINED" /\ e.actor = session.selectedSeller /\ e.payload = p
               /\ e.event_id \in Nat /\ Accepts(session, e) /\ session' = Apply(session, e)
  BY <1>3, <1>4, Appended
<1>6. PICK e : /\ (e.type = "COSIGN_DECLINED" \/ e.type = "COSIGN_TIMEOUT") /\ e.payload = p
               /\ e.event_id \in Nat /\ Accepts(session, e) /\ session' = Apply(session, e)
  BY <1>5
<1>7. /\ session' \in DerivedSession
      /\ session' =
           [session EXCEPT !.state = "NEGOTIATING", !.lastEventId = e.event_id,
                     !.selectedSeller = None, !.selectedOfferId = None,
                     !.unsignedQuote = None, !.buyerSignature = None,
                     !.sellerSignature = None, !.commitPendingAt = None]
  BY <1>1, <1>2, <1>6, ApplyRollback
<1>. QED BY <1>0, <1>1, <1>5, <1>7

\* The enforcer's cosign timeout undoes the attempt.
LEMMA CosignTimeoutStep ==
  ASSUME TypeOK, CosignTimeout
  PROVE  /\ log' \in Seq(Event)
         /\ session \in DerivedSession /\ session' \in DerivedSession
         /\ session.state = "COMMIT_PENDING"
         /\ \E id : session' =
              [session EXCEPT !.state = "NEGOTIATING", !.lastEventId = id,
                        !.selectedSeller = None, !.selectedOfferId = None,
                        !.unsignedQuote = None, !.buyerSignature = None,
                        !.sellerSignature = None, !.commitPendingAt = None]
<1>1. session \in DerivedSession
  BY FoundSession DEF CosignTimeout, InState
<1>0. session.selectedSeller # None /\ session.state = "COMMIT_PENDING"
  BY DEF CosignTimeout, InState
<1> DEFINE p == [seller |-> session.selectedSeller]
<1>2. p \in SellerPayload
  BY <1>1, <1>0 DEF SellerPayload, DerivedSession
<1>3. "COSIGN_TIMEOUT" \in EventTypes /\ Engine \in Dids \cup {Engine} /\ p \in Payloads
  BY <1>1, <1>2, <1>0 DEF EventTypes, Dids, Payloads, DerivedSession, Rfq
<1>4. AppendEvent("COSIGN_TIMEOUT", Engine, p)
  BY DEF CosignTimeout
<1> HIDE DEF p
<1>5. /\ log' \in Seq(Event)
      /\ \E e : /\ e.type = "COSIGN_TIMEOUT" /\ e.actor = Engine /\ e.payload = p
               /\ e.event_id \in Nat /\ Accepts(session, e) /\ session' = Apply(session, e)
  BY <1>3, <1>4, Appended
<1>6. PICK e : /\ (e.type = "COSIGN_DECLINED" \/ e.type = "COSIGN_TIMEOUT") /\ e.payload = p
               /\ e.event_id \in Nat /\ Accepts(session, e) /\ session' = Apply(session, e)
  BY <1>5
<1>7. /\ session' \in DerivedSession
      /\ session' =
           [session EXCEPT !.state = "NEGOTIATING", !.lastEventId = e.event_id,
                     !.selectedSeller = None, !.selectedOfferId = None,
                     !.unsignedQuote = None, !.buyerSignature = None,
                     !.sellerSignature = None, !.commitPendingAt = None]
  BY <1>1, <1>2, <1>6, ApplyRollback
<1>. QED BY <1>0, <1>1, <1>5, <1>7

\* The enforcer expires a live session.
LEMMA ExpireStep ==
  ASSUME TypeOK, Expire
  PROVE  /\ log' \in Seq(Event)
         /\ session \in DerivedSession /\ session' \in DerivedSession
         /\ session.state \in {"OPEN", "NEGOTIATING", "COMMIT_PENDING"}
         /\ \E id : session' = [session EXCEPT !.state = "EXPIRED", !.lastEventId = id]
<1>1. session \in DerivedSession
  BY FoundSession DEF Expire, InState
<1> DEFINE p == [none |-> None]
<1>2. p \in EmptyPayload
  BY <1>1 DEF EmptyPayload
<1>3. "NEGOTIATION_EXPIRED" \in EventTypes /\ Engine \in Dids \cup {Engine} /\ p \in Payloads
  BY <1>1, <1>2 DEF EventTypes, Dids, Payloads, DerivedSession, Rfq
<1>4. AppendEvent("NEGOTIATION_EXPIRED", Engine, p)
  BY DEF Expire
<1> HIDE DEF p
<1>5. /\ log' \in Seq(Event)
      /\ \E e : /\ e.type = "NEGOTIATION_EXPIRED" /\ e.actor = Engine /\ e.payload = p
               /\ e.event_id \in Nat /\ Accepts(session, e) /\ session' = Apply(session, e)
  BY <1>3, <1>4, Appended
<1>6. PICK e : /\ e.type = "NEGOTIATION_EXPIRED" /\ e.payload = p
               /\ e.event_id \in Nat /\ Accepts(session, e) /\ session' = Apply(session, e)
  BY <1>5
<1>7. /\ session' \in DerivedSession
      /\ session' = [session EXCEPT !.state = "EXPIRED", !.lastEventId = e.event_id]
  BY <1>1, <1>2, <1>6, ApplyExpired
<1>. QED BY <1>1, <1>5, <1>7 DEF Expire, InState

\* A verified settlement is recorded.
LEMMA ConfirmSettlementStep ==
  ASSUME TypeOK, PendingHasQuote, ConfirmSettlement
  PROVE  /\ log' \in Seq(Event)
         /\ session \in DerivedSession /\ session' \in DerivedSession
         /\ session.state = "COMMITTED"
         /\ \E id : session' = [session EXCEPT !.state = "COMMITTED", !.lastEventId = id]
<1>1. session \in DerivedSession
  BY FoundSession DEF ConfirmSettlement, InState
<1>0. session.unsignedQuote # None /\ session.state = "COMMITTED"
  BY DEF ConfirmSettlement, InState, PendingHasQuote
<1> DEFINE p == [quote_id |-> session.unsignedQuote.quote_id]
<1>2. p \in SettlementPayload
  BY <1>1, <1>0 DEF SettlementPayload, DerivedSession, Quote
<1>3. "SETTLEMENT_CONFIRMED" \in EventTypes /\ Engine \in Dids \cup {Engine} /\ p \in Payloads
  BY <1>1, <1>2 DEF EventTypes, Dids, Payloads, DerivedSession, Rfq
<1>4. AppendEvent("SETTLEMENT_CONFIRMED", Engine, p)
  BY DEF ConfirmSettlement
<1> HIDE DEF p
<1>5. /\ log' \in Seq(Event)
      /\ \E e : /\ e.type = "SETTLEMENT_CONFIRMED" /\ e.actor = Engine /\ e.payload = p
               /\ e.event_id \in Nat /\ Accepts(session, e) /\ session' = Apply(session, e)
  BY <1>3, <1>4, Appended
<1>6. PICK e : /\ e.type = "SETTLEMENT_CONFIRMED" /\ e.payload = p
               /\ e.event_id \in Nat /\ Accepts(session, e) /\ session' = Apply(session, e)
  BY <1>5
<1>7. /\ session' \in DerivedSession
      /\ session' = [session EXCEPT !.state = "COMMITTED", !.lastEventId = e.event_id]
  BY <1>1, <1>2, <1>6, ApplySettled
<1>. QED BY <1>0, <1>1, <1>5, <1>7

(***************************************************************************)
(* The theorems.                                                           *)
(***************************************************************************)

\* The specification starts in a state of the invariant: there is no session.
LEMMA IntegrityInit == Init => IntegrityInv
  BY DEF Init, IntegrityInv, TypeOK, RollbackIsClean, PendingHasQuote, QuoteIsSelectedOffer, BuyerSignedTheQuote, CommitIntegrity

\* The invariant over the fields of a session, as the step lemmas give them.
Sound(s) ==
  /\ s.state \in {"OPEN", "NEGOTIATING"} =>
       /\ s.selectedSeller = None /\ s.selectedOfferId = None /\ s.unsignedQuote = None
       /\ s.buyerSignature = None /\ s.sellerSignature = None /\ s.commitPendingAt = None
  /\ s.state \in {"COMMIT_PENDING", "COMMITTED"} =>
       s.unsignedQuote # None /\ s.selectedSeller # None
  /\ s.unsignedQuote # None =>
       \E i \in DOMAIN s.offers :
          /\ s.offers[i].offer_id = s.selectedOfferId
          /\ s.offers[i].seller = s.selectedSeller
          /\ s.unsignedQuote.seller = s.selectedSeller
          /\ s.unsignedQuote.buyer = s.rfq.buyer
          /\ s.unsignedQuote.final_price = s.offers[i].price
          /\ s.unsignedQuote.payment_endpoint = s.offers[i].payment_endpoint
  /\ s.buyerSignature # None =>
       /\ s.unsignedQuote # None
       /\ s.buyerSignature = [by |-> s.rfq.buyer, over |-> s.unsignedQuote]
  /\ s.state = "COMMITTED" =>
       /\ s.unsignedQuote # None
       /\ s.buyerSignature = [by |-> s.rfq.buyer, over |-> s.unsignedQuote]
       /\ s.sellerSignature = [by |-> s.selectedSeller, over |-> s.unsignedQuote]

\* For a session that exists, IntegrityInv says no more than Sound.
LEMMA SoundIsInv == (TypeOK /\ session # None) => (IntegrityInv <=> Sound(session))
<1> SUFFICES ASSUME TypeOK, session # None
             PROVE  IntegrityInv <=> Sound(session)
  OBVIOUS
<1>. QED BY DEF IntegrityInv, Sound, RollbackIsClean, PendingHasQuote,
                QuoteIsSelectedOffer, BuyerSignedTheQuote, CommitIntegrity

\* The disjuncts of Next, with the offers and counters they range over typed.
LEMMA NextCases ==
  ASSUME Next
  PROVE  \/ \E d \in Times : CreateRfq(d)
         \/ \E o \in Offer : SubmitOffer(o)
         \/ \E c \in Counter : SendCounter(c)
         \/ session # None /\ \E tm, x \in Times : \E i \in DOMAIN session.offers :
              SelectWinner(i, tm, x)
         \/ SignQuote \/ Cosign \/ Decline \/ CosignTimeout \/ Expire \/ ConfirmSettlement
<1>1. ASSUME NEW id \in OfferIds, NEW x \in Sellers, NEW p \in Prices, NEW u \in Endpoints,
             NEW v \in Times
      PROVE  [offer_id |-> id, seller |-> x, price |-> p,
              payment_endpoint |-> u, valid_until |-> v] \in Offer
  BY TimesAssumption DEF Offer
<1>2. ASSUME NEW id \in CounterIds, NEW r \in Rounds, NEW x \in Sellers
      PROVE  [counter_id |-> id, round |-> r, from |-> Buyer, to |-> x] \in Counter
  BY RoundsAssumption DEF Counter, Dids
<1>. QED BY <1>1, <1>2, Zenon DEF Next

\* Every step of the routes and of the enforcer keeps a session sound.
LEMMA SoundStep ==
  ASSUME TypeOK, session # None, Sound(session), Next
  PROVE  log' \in Seq(Event) /\ session' \in DerivedSession /\ Sound(session')
<1>0. session \in DerivedSession /\ PendingHasQuote
  BY FoundSession DEF Sound, PendingHasQuote
<1>1. ASSUME NEW d \in Times, CreateRfq(d)
      PROVE  FALSE
  BY <1>1 DEF CreateRfq
<1>2. ASSUME NEW o \in Offer, SubmitOffer(o)
      PROVE  log' \in Seq(Event) /\ session' \in DerivedSession /\ Sound(session')
  <2>1. /\ session.state \in {"OPEN", "NEGOTIATING"}
        /\ session'.state = "NEGOTIATING"
        /\ session'.offers = Append(session.offers, o)
        /\ session'.selectedSeller = session.selectedSeller
        /\ session'.selectedOfferId = session.selectedOfferId
        /\ session'.unsignedQuote = session.unsignedQuote
        /\ session'.buyerSignature = session.buyerSignature
        /\ session'.sellerSignature = session.sellerSignature
        /\ session'.commitPendingAt = session.commitPendingAt
    BY <1>0, <1>2, SubmitOfferStep DEF DerivedSession, SubmitOffer, InState
  <2>2. Sound(session')
    BY <2>1 DEF Sound
  <2>. QED BY <1>0, <1>2, <2>2, SubmitOfferStep
<1>3. ASSUME NEW c \in Counter, SendCounter(c)
      PROVE  log' \in Seq(Event) /\ session' \in DerivedSession /\ Sound(session')
  <2>1. /\ session.state = "NEGOTIATING"
        /\ session'.state = "NEGOTIATING"
        /\ session'.selectedSeller = session.selectedSeller
        /\ session'.selectedOfferId = session.selectedOfferId
        /\ session'.unsignedQuote = session.unsignedQuote
        /\ session'.buyerSignature = session.buyerSignature
        /\ session'.sellerSignature = session.sellerSignature
        /\ session'.commitPendingAt = session.commitPendingAt
    BY <1>0, <1>3, SendCounterStep DEF DerivedSession, SendCounter, InState
  <2>2. Sound(session')
    BY <2>1 DEF Sound
  <2>. QED BY <1>0, <1>3, <2>2, SendCounterStep
<1>4. ASSUME NEW i \in DOMAIN session.offers, NEW tm \in Times, NEW x \in Times,
             SelectWinner(i, tm, x)
      PROVE  log' \in Seq(Event) /\ session' \in DerivedSession /\ Sound(session')
  <2> DEFINE q == BuildQuote(session, i, x)
  <2>1. /\ session'.state = "COMMIT_PENDING"
        /\ session'.rfq = session.rfq
        /\ session'.offers = session.offers
        /\ session'.selectedSeller = session.offers[i].seller
        /\ session'.selectedOfferId = session.offers[i].offer_id
        /\ session'.unsignedQuote = q
        /\ session'.buyerSignature = None
        /\ session' \in DerivedSession /\ q \in Quote /\ session.offers[i].seller \in Sellers
    BY <1>4, SelectWinnerStep
  <2>2. /\ q.seller = session.offers[i].seller
        /\ q.buyer = session.rfq.buyer
        /\ q.final_price = session.offers[i].price
        /\ q.payment_endpoint = session.offers[i].payment_endpoint
    BY DEF BuildQuote
  <2>3. q # None /\ session.offers[i].seller # None
    BY <2>1, NoneAssumption
  <2> HIDE DEF q
  <2>4. Sound(session')
    BY <2>1, <2>2, <2>3 DEF Sound
  <2>. QED BY <1>4, <2>1, <2>4, SelectWinnerStep
<1>5. ASSUME SignQuote
      PROVE  log' \in Seq(Event) /\ session' \in DerivedSession /\ Sound(session')
  <2>1. /\ session.state = "COMMIT_PENDING" /\ session'.state = "COMMIT_PENDING"
        /\ session'.rfq = session.rfq
        /\ session'.offers = session.offers
        /\ session'.selectedSeller = session.selectedSeller
        /\ session'.selectedOfferId = session.selectedOfferId
        /\ session'.unsignedQuote = session.unsignedQuote
        /\ session'.buyerSignature = [by |-> session.rfq.buyer, over |-> session.unsignedQuote]
    BY <1>0, <1>5, SignQuoteStep DEF DerivedSession
  <2>2. Sound(session')
    BY <2>1 DEF Sound
  <2>. QED BY <1>0, <1>5, <2>2, SignQuoteStep
<1>6. ASSUME Cosign
      PROVE  log' \in Seq(Event) /\ session' \in DerivedSession /\ Sound(session')
  <2>1. /\ session.state = "COMMIT_PENDING" /\ session'.state = "COMMITTED"
        /\ session.buyerSignature # None
        /\ session'.rfq = session.rfq
        /\ session'.offers = session.offers
        /\ session'.selectedSeller = session.selectedSeller
        /\ session'.selectedOfferId = session.selectedOfferId
        /\ session'.unsignedQuote = session.unsignedQuote
        /\ session'.buyerSignature = session.buyerSignature
        /\ session'.sellerSignature =
             [by |-> session.selectedSeller, over |-> session.unsignedQuote]
    BY <1>0, <1>6, CosignStep DEF DerivedSession
  <2>2. Sound(session')
    BY <2>1 DEF Sound
  <2>. QED BY <1>0, <1>6, <2>2, CosignStep
<1>7. ASSUME Decline \/ CosignTimeout
      PROVE  log' \in Seq(Event) /\ session' \in DerivedSession /\ Sound(session')
  <2>1. /\ log' \in Seq(Event) /\ session' \in DerivedSession
        /\ \E id : session' =
              [session EXCEPT !.state = "NEGOTIATING", !.lastEventId = id,
                        !.selectedSeller = None, !.selectedOfferId = None,
                        !.unsignedQuote = None, !.buyerSignature = None,
                        !.sellerSignature = None, !.commitPendingAt = None]
    BY <1>7, DeclineStep, CosignTimeoutStep
  <2>2. /\ session'.state = "NEGOTIATING"
        /\ session'.selectedSeller = None /\ session'.selectedOfferId = None
        /\ session'.unsignedQuote = None /\ session'.buyerSignature = None
        /\ session'.sellerSignature = None /\ session'.commitPendingAt = None
    BY <1>0, <2>1 DEF DerivedSession
  <2>. QED BY <2>1, <2>2 DEF Sound
<1>8. ASSUME Expire
      PROVE  log' \in Seq(Event) /\ session' \in DerivedSession /\ Sound(session')
  <2>1. /\ session'.state = "EXPIRED"
        /\ session'.rfq = session.rfq
        /\ session'.offers = session.offers
        /\ session'.selectedSeller = session.selectedSeller
        /\ session'.selectedOfferId = session.selectedOfferId
        /\ session'.unsignedQuote = session.unsignedQuote
        /\ session'.buyerSignature = session.buyerSignature
    BY <1>0, <1>8, ExpireStep DEF DerivedSession
  <2>2. Sound(session')
    BY <2>1 DEF Sound
  <2>. QED BY <1>0, <1>8, <2>2, ExpireStep
<1>9. ASSUME ConfirmSettlement
      PROVE  log' \in Seq(Event) /\ session' \in DerivedSession /\ Sound(session')
  <2>1. /\ session.state = "COMMITTED" /\ session'.state = "COMMITTED"
        /\ session'.rfq = session.rfq
        /\ session'.offers = session.offers
        /\ session'.selectedSeller = session.selectedSeller
        /\ session'.selectedOfferId = session.selectedOfferId
        /\ session'.unsignedQuote = session.unsignedQuote
        /\ session'.buyerSignature = session.buyerSignature
        /\ session'.sellerSignature = session.sellerSignature
    BY <1>0, <1>9, ConfirmSettlementStep DEF DerivedSession
  <2>2. Sound(session')
    BY <2>1 DEF Sound
  <2>. QED BY <1>0, <1>9, <2>2, ConfirmSettlementStep
<1>. QED BY <1>1, <1>2, <1>3, <1>4, <1>5, <1>6, <1>7, <1>8, <1>9, NextCases

\* The integrity invariant is inductive.
LEMMA IntegrityStep == IntegrityInv /\ [Next]_vars => IntegrityInv'
<1> SUFFICES ASSUME IntegrityInv, [Next]_vars
             PROVE  IntegrityInv'
  OBVIOUS
<1>1. CASE UNCHANGED vars
  BY <1>1 DEF vars, IntegrityInv, TypeOK, RollbackIsClean, PendingHasQuote,
              QuoteIsSelectedOffer, BuyerSignedTheQuote, CommitIntegrity
<1>2. CASE Next
  <2>1. TypeOK
    BY DEF IntegrityInv
  <2>2. log' \in Seq(Event) /\ session' \in DerivedSession /\ Sound(session')
    <3>1. CASE session = None
      <4>1. PICK d \in Times : CreateRfq(d)
        BY <1>2, <3>1, NextCases
             DEF SubmitOffer, SendCounter, SelectWinner, SignQuote, Cosign, Decline,
                 CosignTimeout, Expire, ConfirmSettlement, InState
      <4>2. PICK id : session' = NewSession([event_id |-> id,
                                             payload |-> [buyer |-> Buyer, deadline |-> d]])
        BY <2>1, <4>1, CreateRfqStep
      <4>3. Sound(session')
        BY <4>2 DEF Sound, NewSession
      <4>. QED BY <2>1, <4>1, <4>3, CreateRfqStep
    <3>2. CASE session # None
      <4>1. Sound(session)
        BY <2>1, <3>2, SoundIsInv
      <4>. QED BY <1>2, <2>1, <3>2, <4>1, SoundStep
    <3>. QED BY <3>1, <3>2
  <2>3. TypeOK' /\ session' # None
    BY <2>2, NoneAssumption DEF TypeOK
  <2>4. ((TypeOK /\ session # None) => (IntegrityInv <=> Sound(session)))'
    BY SoundIsInv, PTL
  <2>. QED BY <2>2, <2>3, <2>4
<1>. QED BY <1>1, <1>2

\* Every reachable log holds well-formed events and every reachable session has
\* the fields and types deriveState declares, whatever the limits and the times.
THEOREM TypeCorrect == Spec => []TypeOK
<1>1. IntegrityInv => TypeOK
  BY DEF IntegrityInv
<1>. QED BY <1>1, IntegrityInit, IntegrityStep, PTL DEF Spec

\* A committed session carries the buyer's and the selected seller's signatures
\* over the very quote it holds (quote-sign.ts, cosign.ts, deriveState).
THEOREM CommittedDealsAreSigned == Spec => []CommitIntegrity
<1>1. IntegrityInv => CommitIntegrity
  BY DEF IntegrityInv
<1>. QED BY <1>1, IntegrityInit, IntegrityStep, PTL DEF Spec

\* The quote of a session repeats the terms of the offer it selected, however many
\* attempts were made and rolled back before (buildQuoteFromSession).
THEOREM QuotesMatchOffers == Spec => []QuoteIsSelectedOffer
<1>1. IntegrityInv => QuoteIsSelectedOffer
  BY DEF IntegrityInv
<1>. QED BY <1>1, IntegrityInit, IntegrityStep, PTL DEF Spec

\* A session open for offers carries nothing of an abandoned commitment (the
\* rollback of deriveState).
THEOREM RollbacksAreClean == Spec => []RollbackIsClean
<1>1. IntegrityInv => RollbackIsClean
  BY DEF IntegrityInv
<1>. QED BY <1>1, IntegrityInit, IntegrityStep, PTL DEF Spec

\* What every step but those of offers, counters and accepts leaves alone.
LEMMA BooksUnchanged ==
  ASSUME IntegrityInv, session # None,
         SignQuote \/ Cosign \/ Decline \/ CosignTimeout \/ Expire \/ ConfirmSettlement
  PROVE  /\ session'.offers = session.offers
         /\ session'.counters = session.counters
         /\ session'.offerCountBySeller = session.offerCountBySeller
         /\ session'.totalAcceptAttempts = session.totalAcceptAttempts
         /\ session'.acceptAttemptsBySeller = session.acceptAttemptsBySeller
<1>1. TypeOK /\ PendingHasQuote /\ session \in DerivedSession
  BY FoundSession DEF IntegrityInv
<1>2. CASE SignQuote
  BY <1>1, <1>2, SignQuoteStep DEF DerivedSession
<1>3. CASE Cosign
  BY <1>1, <1>3, CosignStep DEF DerivedSession
<1>4. CASE Decline \/ CosignTimeout
  <2>1. PICK id : session' =
          [session EXCEPT !.state = "NEGOTIATING", !.lastEventId = id,
                    !.selectedSeller = None, !.selectedOfferId = None,
                    !.unsignedQuote = None, !.buyerSignature = None,
                    !.sellerSignature = None, !.commitPendingAt = None]
    BY <1>1, <1>4, DeclineStep, CosignTimeoutStep
  <2>. QED BY <1>1, <2>1 DEF DerivedSession
<1>5. CASE Expire
  BY <1>1, <1>5, ExpireStep DEF DerivedSession
<1>6. CASE ConfirmSettlement
  BY <1>1, <1>6, ConfirmSettlementStep DEF DerivedSession
<1>. QED BY <1>2, <1>3, <1>4, <1>5, <1>6

\* Offer ids stay distinct and rounds increasing by every step.
LEMMA OrderStep ==
  ASSUME IntegrityInv, OffersAndCountersOrdered, [Next]_vars
  PROVE  OffersAndCountersOrdered'
<1>0. TypeOK
  BY DEF IntegrityInv
<1>1. CASE UNCHANGED vars
  BY <1>1 DEF vars, OffersAndCountersOrdered
<1>2. ASSUME NEW d \in Times, CreateRfq(d)
      PROVE  OffersAndCountersOrdered'
  <2>1. PICK id : session' = NewSession([event_id |-> id,
                                         payload |-> [buyer |-> Buyer, deadline |-> d]])
    BY <1>0, <1>2, CreateRfqStep
  <2>2. session'.offers = <<>> /\ session'.counters = <<>>
    BY <2>1 DEF NewSession
  <2>. QED BY <2>2 DEF OffersAndCountersOrdered
<1>3. ASSUME NEW o \in Offer, SubmitOffer(o)
      PROVE  OffersAndCountersOrdered'
  <2>1. /\ session \in DerivedSession /\ session # None
        /\ session'.offers = Append(session.offers, o)
        /\ session'.counters = session.counters
    BY <1>0, <1>3, SubmitOfferStep, NoneAssumption DEF DerivedSession
  <2>2. session.offers \in Seq(Offer)
    BY <2>1 DEF DerivedSession
  <2>3. \A i \in DOMAIN session.offers : session.offers[i].offer_id # o.offer_id
    BY <1>3 DEF SubmitOffer
  <2>. QED BY <2>1, <2>2, <2>3 DEF OffersAndCountersOrdered
<1>4. ASSUME NEW c \in Counter, SendCounter(c)
      PROVE  OffersAndCountersOrdered'
  <2>1. /\ session \in DerivedSession /\ session # None
        /\ session'.offers = session.offers
        /\ session'.counters = Append(session.counters, c)
    BY <1>0, <1>4, SendCounterStep, NoneAssumption DEF DerivedSession
  <2>2. session.counters \in Seq(Counter)
    BY <2>1 DEF DerivedSession
  <2>3. \A i \in DOMAIN session.counters : session.counters[i].round < c.round
    BY <1>4 DEF SendCounter
  <2>. QED BY <2>1, <2>2, <2>3 DEF OffersAndCountersOrdered
<1>5. ASSUME session # None, NEW i \in DOMAIN session.offers, NEW tm \in Times,
             NEW x \in Times, SelectWinner(i, tm, x)
      PROVE  OffersAndCountersOrdered'
  <2>1. session'.offers = session.offers /\ session'.counters = session.counters
    BY <1>0, <1>5, SelectWinnerStep
  <2>. QED BY <1>5, <2>1 DEF OffersAndCountersOrdered
<1>6. ASSUME SignQuote \/ Cosign \/ Decline \/ CosignTimeout \/ Expire \/ ConfirmSettlement
      PROVE  OffersAndCountersOrdered'
  <2>1. session # None
    BY <1>6 DEF SignQuote, Cosign, Decline, CosignTimeout, Expire, ConfirmSettlement, InState
  <2>. QED BY <1>6, <2>1, BooksUnchanged DEF OffersAndCountersOrdered
<1>. QED BY <1>1, <1>2, <1>3, <1>4, <1>5, <1>6, NextCases, Zenon

\* Offer ids stay distinct and counter rounds strictly increasing over the whole
\* session (the in-lock checks of offers.ts and counters.ts).
THEOREM OrdersAreKept == Spec => []OffersAndCountersOrdered
<1>1. Init => OffersAndCountersOrdered
  BY DEF Init, OffersAndCountersOrdered
<1>2. IntegrityInv /\ OffersAndCountersOrdered /\ [Next]_vars => OffersAndCountersOrdered'
  BY OrderStep
<1>. QED BY <1>1, <1>2, IntegrityInit, IntegrityStep, PTL DEF Spec

\* An appended event adds one to the number of events of its type, in all and of
\* its seller, and nothing to the other types.
LEMMA Counted ==
  ASSUME TypeOK, NEW type \in EventTypes, NEW actor \in Dids \cup {Engine},
         NEW payload \in Payloads, AppendEvent(type, actor, payload)
  PROVE  /\ Cardinality(EventsOfType(type))' = Cardinality(EventsOfType(type)) + 1
         /\ \A x : Cardinality(EventsOfSeller(type, x))' =
                     IF payload.seller = x THEN Cardinality(EventsOfSeller(type, x)) + 1
                     ELSE Cardinality(EventsOfSeller(type, x))
         /\ \A ty : ty # type =>
              /\ Cardinality(EventsOfType(ty))' = Cardinality(EventsOfType(ty))
              /\ \A x : Cardinality(EventsOfSeller(ty, x))' = Cardinality(EventsOfSeller(ty, x))
<1> DEFINE n == Len(log) + 1
           e == MkEvent(n, type, actor, payload)
<1>1. log \in Seq(Event) /\ n \in Nat /\ n \notin DOMAIN log
  BY DEF TypeOK
<1>2. log' = Append(log, e)
  BY DEF AppendEvent
<1>3. e.type = type /\ e.payload = payload
  BY DEF MkEvent
<1> HIDE DEF e
<1>4. /\ DOMAIN log' = DOMAIN log \cup {n}
      /\ \A i \in DOMAIN log : log'[i] = log[i]
      /\ log'[n] = e
  BY <1>1, <1>2
<1>5. IsFiniteSet(DOMAIN log)
  BY <1>1, FS_Interval
<1> HIDE DEF n
<1>6. ASSUME NEW A \in SUBSET DOMAIN log
      PROVE  /\ Cardinality(A) \in Nat
             /\ Cardinality(A \cup {n}) = Cardinality(A) + 1
  <2>1. IsFiniteSet(A) /\ n \notin A
    BY <1>1, <1>5, FS_Subset
  <2>. QED BY <2>1, FS_CardinalityType, FS_AddElement
<1>7. /\ EventsOfType(type)' = EventsOfType(type) \cup {n}
      /\ \A ty : ty # type => EventsOfType(ty)' = EventsOfType(ty)
  BY <1>1, <1>3, <1>4 DEF EventsOfType
<1>8. /\ \A x : EventsOfSeller(type, x)' =
                  IF payload.seller = x THEN EventsOfSeller(type, x) \cup {n}
                  ELSE EventsOfSeller(type, x)
      /\ \A ty, x : ty # type => EventsOfSeller(ty, x)' = EventsOfSeller(ty, x)
  BY <1>1, <1>3, <1>4, <1>7 DEF EventsOfSeller, EventsOfType
<1>9. /\ EventsOfType(type) \in SUBSET DOMAIN log
      /\ \A x : EventsOfSeller(type, x) \in SUBSET DOMAIN log
  BY DEF EventsOfType, EventsOfSeller
<1>. QED BY <1>6, <1>7, <1>8, <1>9

\* The steps of a commitment append neither an accept nor an offer.
LEMMA Unlisted ==
  ASSUME TypeOK, PendingHasQuote, session # None,
         SignQuote \/ Cosign \/ Decline \/ CosignTimeout \/ Expire \/ ConfirmSettlement
  PROVE  \E type \in EventTypes \ {"WINNER_SELECTED", "OFFER_SUBMITTED"},
            actor \in Dids \cup {Engine}, payload \in Payloads :
            AppendEvent(type, actor, payload)
<1>0. session \in DerivedSession
  BY FoundSession
<1>1. /\ {"QUOTE_SIGNED", "QUOTE_COMMITTED", "COSIGN_DECLINED", "COSIGN_TIMEOUT",
          "NEGOTIATION_EXPIRED", "SETTLEMENT_CONFIRMED"}
           \subseteq EventTypes \ {"WINNER_SELECTED", "OFFER_SUBMITTED"}
      /\ session.rfq.buyer \in Dids \cup {Engine} /\ Engine \in Dids \cup {Engine}
      /\ session.selectedSeller # None => session.selectedSeller \in Dids \cup {Engine}
  BY <1>0 DEF EventTypes, Dids, DerivedSession, Rfq
<1>2. CASE SignQuote \/ Cosign
  <2>1. session.unsignedQuote \in Quote /\ session.selectedSeller \in Sellers
        /\ session.rfq.buyer \in Dids
    BY <1>0, <1>2 DEF SignQuote, Cosign, InState, PendingHasQuote, DerivedSession, Rfq, Dids
  <2>2. /\ [by |-> session.rfq.buyer, over |-> session.unsignedQuote] \in Signature
        /\ [by |-> session.selectedSeller, over |-> session.unsignedQuote] \in Signature
    BY <2>1 DEF Signature, Dids
  <2>3. /\ [seller |-> session.selectedSeller,
            buyer_signature |-> [by |-> session.rfq.buyer, over |-> session.unsignedQuote]]
              \in Payloads
        /\ [seller |-> session.selectedSeller,
            seller_signature |-> [by |-> session.selectedSeller,
                                  over |-> session.unsignedQuote]] \in Payloads
    BY <2>1, <2>2 DEF Payloads, SignedPayload, CommittedPayload
  <2>4. session.selectedSeller \in Dids \cup {Engine}
    BY <2>1 DEF Dids
  <2>. QED BY <1>1, <1>2, <2>3, <2>4, Zenon DEF SignQuote, Cosign
<1>3. CASE Decline \/ CosignTimeout
  <2>1. [seller |-> session.selectedSeller] \in Payloads /\ session.selectedSeller # None
    BY <1>0, <1>3 DEF Decline, CosignTimeout, DerivedSession, Payloads, SellerPayload
  <2>. QED BY <1>1, <1>3, <2>1, Zenon DEF Decline, CosignTimeout
<1>4. CASE Expire
  <2>1. [none |-> None] \in Payloads
    BY DEF Payloads, EmptyPayload
  <2>. QED BY <1>1, <1>4, <2>1, Zenon DEF Expire
<1>5. CASE ConfirmSettlement
  <2>1. [quote_id |-> session.unsignedQuote.quote_id] \in Payloads
    <3>1. session.unsignedQuote \in Quote
      BY <1>0, <1>5 DEF ConfirmSettlement, InState, PendingHasQuote, DerivedSession
    <3>. QED BY <3>1 DEF Quote, Payloads, SettlementPayload
  <2>. QED BY <1>1, <1>5, <2>1, Zenon DEF ConfirmSettlement
<1>. QED BY <1>2, <1>3, <1>4, <1>5

\* The counters within the limits: what the routes check before they append.
WithinLimits ==
  session # None =>
    /\ session.totalAcceptAttempts <= MaxAcceptsPerSession
    /\ Len(session.offers) <= MaxOffersPerSession
    /\ \A x \in Sellers :
         /\ session.acceptAttemptsBySeller[x] <= MaxAcceptsPerSeller
         /\ session.offerCountBySeller[x] <= MaxOffersPerSeller

\* The counters of the session keep up with the log.
LEMMA CountersStep ==
  ASSUME IntegrityInv, CountersMatchLog, Next
  PROVE  CountersMatchLog'
<1> DEFINE A == Cardinality(EventsOfType("WINNER_SELECTED"))
           O == Cardinality(EventsOfType("OFFER_SUBMITTED"))
           AS(x) == Cardinality(EventsOfSeller("WINNER_SELECTED", x))
           OS(x) == Cardinality(EventsOfSeller("OFFER_SUBMITTED", x))
           Same == A' = A /\ O' = O /\ (\A x : AS(x)' = AS(x) /\ OS(x)' = OS(x))
<1>0. /\ TypeOK /\ PendingHasQuote
      /\ session # None => session \in DerivedSession
  BY FoundSession DEF IntegrityInv
<1>1. ASSUME NEW d \in Times, CreateRfq(d)
      PROVE  CountersMatchLog'
  <2> DEFINE r == [buyer |-> Buyer, deadline |-> d]
  <2>1. PICK id : session' = NewSession([event_id |-> id, payload |-> r])
    BY <1>0, <1>1, CreateRfqStep
  <2>2. /\ session' # None
        /\ session'.offers = <<>> /\ session'.totalAcceptAttempts = 0
        /\ session'.offerCountBySeller = [x \in Sellers |-> 0]
        /\ session'.acceptAttemptsBySeller = [x \in Sellers |-> 0]
    <3>1. session' # None
      BY <1>0, <1>1, CreateRfqStep, NoneAssumption
    <3>. QED BY <2>1, <3>1 DEF NewSession
  <2>3. /\ "RFQ_CREATED" \in EventTypes
        /\ Buyer \in Dids \cup {Engine} /\ r \in Payloads
    BY TimesAssumption DEF EventTypes, Dids, Payloads, Rfq
  <2>4. AppendEvent("RFQ_CREATED", Buyer, r) /\ session = None
    BY <1>1 DEF CreateRfq
  <2> HIDE DEF r
  <2>5. Same
    BY <1>0, <2>3, <2>4, Counted
  <2>6. log = <<>>
    BY <2>4 DEF CountersMatchLog
  <2>7. /\ EventsOfType("WINNER_SELECTED") = {} /\ EventsOfType("OFFER_SUBMITTED") = {}
        /\ \A x : /\ EventsOfSeller("WINNER_SELECTED", x) = {}
                  /\ EventsOfSeller("OFFER_SUBMITTED", x) = {}
    BY <2>6 DEF EventsOfType, EventsOfSeller
  <2>8. A = 0 /\ O = 0 /\ \A x : AS(x) = 0 /\ OS(x) = 0
    BY <2>7, FS_EmptySet
  <2>. QED BY <2>2, <2>5, <2>8 DEF CountersMatchLog
<1>2. ASSUME NEW o \in Offer, SubmitOffer(o)
      PROVE  CountersMatchLog'
  <2>1. /\ session \in DerivedSession /\ session # None
        /\ session' \in DerivedSession /\ session' # None
        /\ session'.offers = Append(session.offers, o)
        /\ session'.offerCountBySeller =
              [session.offerCountBySeller EXCEPT ![o.seller] = @ + 1]
        /\ session'.totalAcceptAttempts = session.totalAcceptAttempts
        /\ session'.acceptAttemptsBySeller = session.acceptAttemptsBySeller
    <3>1. session \in DerivedSession /\ session' \in DerivedSession
      BY <1>0, <1>2, SubmitOfferStep
    <3>2. PICK id : session' =
            [session EXCEPT !.state = "NEGOTIATING", !.lastEventId = id,
                      !.offers = Append(session.offers, o),
                      !.offerCountBySeller =
                         [session.offerCountBySeller EXCEPT ![o.seller] = @ + 1]]
      BY <1>0, <1>2, SubmitOfferStep
    <3>3. session # None /\ session' # None
      BY <3>1, NoneAssumption
    <3>. QED BY <3>1, <3>2, <3>3 DEF DerivedSession
  <2>2. /\ "OFFER_SUBMITTED" \in EventTypes /\ o.seller \in Dids \cup {Engine}
        /\ o \in Payloads /\ AppendEvent("OFFER_SUBMITTED", o.seller, o)
    BY <1>2 DEF EventTypes, Dids, Payloads, Offer, SubmitOffer
  <2>3. O' = O + 1 /\ \A x : OS(x)' = IF o.seller = x THEN OS(x) + 1 ELSE OS(x)
    BY <1>0, <2>2, Counted
  <2>4. A' = A /\ \A x : AS(x)' = AS(x)
    BY <1>0, <2>2, Counted
  <2>5. /\ session.offers \in Seq(Offer)
        /\ session.offerCountBySeller \in [Sellers -> Nat] /\ o.seller \in Sellers
    BY <2>1 DEF DerivedSession, Offer
  <2> HIDE DEF A, O, AS, OS
  <2>6. /\ session.totalAcceptAttempts = A /\ Len(session.offers) = O
        /\ \A x \in Sellers : /\ session.acceptAttemptsBySeller[x] = AS(x)
                               /\ session.offerCountBySeller[x] = OS(x)
    BY <2>1 DEF CountersMatchLog, A, O, AS, OS
  <2>7. /\ session'.totalAcceptAttempts = A' /\ Len(session'.offers) = O'
        /\ \A x \in Sellers : /\ session'.acceptAttemptsBySeller[x] = AS(x)'
                               /\ session'.offerCountBySeller[x] = OS(x)'
    BY <2>1, <2>3, <2>4, <2>5, <2>6
  <2>. QED BY <2>1, <2>7 DEF CountersMatchLog, A, O, AS, OS
<1>3. ASSUME session # None, NEW i \in DOMAIN session.offers, NEW tm \in Times,
             NEW y \in Times, SelectWinner(i, tm, y)
      PROVE  CountersMatchLog'
  <2> DEFINE w == session.offers[i].seller
             p == [seller |-> w, offer_id |-> session.offers[i].offer_id,
                   quote |-> BuildQuote(session, i, y), timestamp |-> tm]
  <2>1. /\ session' \in DerivedSession /\ session' # None /\ session \in DerivedSession
        /\ w \in Sellers /\ BuildQuote(session, i, y) \in Quote
        /\ session'.offers = session.offers
        /\ session'.offerCountBySeller = session.offerCountBySeller
        /\ session'.totalAcceptAttempts = session.totalAcceptAttempts + 1
        /\ session'.acceptAttemptsBySeller =
              [session.acceptAttemptsBySeller EXCEPT ![w] = @ + 1]
    BY <1>0, <1>3, SelectWinnerStep, NoneAssumption
  <2>2. p \in Payloads /\ p.seller = w
    <3>0. session.offers[i] \in Offer
      BY <2>1 DEF DerivedSession
    <3>1. session.offers[i].offer_id \in OfferIds
      BY <3>0 DEF Offer
    <3>2. p \in WinnerPayload
      BY <2>1, <3>1, TimesAssumption DEF WinnerPayload
    <3>. QED BY <3>2 DEF Payloads
  <2>3. /\ "WINNER_SELECTED" \in EventTypes /\ session.rfq.buyer \in Dids \cup {Engine}
        /\ AppendEvent("WINNER_SELECTED", session.rfq.buyer, p)
    BY <1>3, <2>1 DEF EventTypes, Dids, SelectWinner, DerivedSession, Rfq
  <2> HIDE DEF p, w
  <2>4. A' = A + 1 /\ \A x : AS(x)' = IF w = x THEN AS(x) + 1 ELSE AS(x)
    BY <1>0, <2>2, <2>3, Counted
  <2>5. O' = O /\ \A x : OS(x)' = OS(x)
    BY <1>0, <2>2, <2>3, Counted
  <2>6. session.acceptAttemptsBySeller \in [Sellers -> Nat]
    BY <2>1 DEF DerivedSession
  <2> HIDE DEF A, O, AS, OS
  <2>7. /\ session.totalAcceptAttempts = A /\ Len(session.offers) = O
        /\ \A x \in Sellers : /\ session.acceptAttemptsBySeller[x] = AS(x)
                               /\ session.offerCountBySeller[x] = OS(x)
    BY <1>3 DEF CountersMatchLog, A, O, AS, OS
  <2>8. /\ session'.totalAcceptAttempts = A' /\ Len(session'.offers) = O'
        /\ \A x \in Sellers : /\ session'.acceptAttemptsBySeller[x] = AS(x)'
                               /\ session'.offerCountBySeller[x] = OS(x)'
    BY <2>1, <2>4, <2>5, <2>6, <2>7
  <2>. QED BY <2>1, <2>8 DEF CountersMatchLog, A, O, AS, OS
<1>4. ASSUME session # None, session' \in DerivedSession, Same,
             session'.offers = session.offers,
             session'.offerCountBySeller = session.offerCountBySeller,
             session'.totalAcceptAttempts = session.totalAcceptAttempts,
             session'.acceptAttemptsBySeller = session.acceptAttemptsBySeller
      PROVE  CountersMatchLog'
  BY <1>4, NoneAssumption DEF CountersMatchLog
<1>5. ASSUME NEW c \in Counter, SendCounter(c)
      PROVE  CountersMatchLog'
  <2>1. /\ session # None /\ session' \in DerivedSession
        /\ session'.offers = session.offers
        /\ session'.offerCountBySeller = session.offerCountBySeller
        /\ session'.totalAcceptAttempts = session.totalAcceptAttempts
        /\ session'.acceptAttemptsBySeller = session.acceptAttemptsBySeller
    BY <1>0, <1>5, SendCounterStep, NoneAssumption DEF DerivedSession
  <2>2. /\ "COUNTER_SENT" \in EventTypes
        /\ c.from \in Dids \cup {Engine} /\ c \in Payloads
        /\ AppendEvent("COUNTER_SENT", c.from, c)
    BY <1>5 DEF EventTypes, Dids, Payloads, Counter, SendCounter
  <2>3. Same
    BY <1>0, <2>2, Counted
  <2>. QED BY <1>4, <2>1, <2>3
<1>6. ASSUME SignQuote \/ Cosign \/ Decline \/ CosignTimeout \/ Expire \/ ConfirmSettlement
      PROVE  CountersMatchLog'
  <2>1. session # None /\ session \in DerivedSession
    BY <1>0, <1>6 DEF SignQuote, Cosign, Decline, CosignTimeout, Expire, ConfirmSettlement,
                      InState
  <2>2. session' \in DerivedSession
    BY <1>0, <1>6, SignQuoteStep, CosignStep, DeclineStep, CosignTimeoutStep, ExpireStep,
       ConfirmSettlementStep
  <2>3. PICK type \in EventTypes \ {"WINNER_SELECTED", "OFFER_SUBMITTED"},
             actor \in Dids \cup {Engine}, payload \in Payloads :
          AppendEvent(type, actor, payload)
    BY <1>0, <1>6, <2>1, Unlisted
  <2>4. Same
    BY <1>0, <2>3, Counted
  <2>. QED BY <1>4, <1>6, <2>1, <2>2, <2>4, BooksUnchanged
<1>. QED BY <1>1, <1>2, <1>3, <1>5, <1>6, NextCases, Zenon

\* No step takes a counter past its limit.
LEMMA LimitsStep ==
  ASSUME IntegrityInv, WithinLimits, [Next]_vars
  PROVE  WithinLimits'
<1>0. TypeOK
  BY DEF IntegrityInv
<1>1. CASE UNCHANGED vars
  BY <1>1 DEF vars, WithinLimits
<1>2. ASSUME NEW d \in Times, CreateRfq(d)
      PROVE  WithinLimits'
  <2>1. PICK id : session' = NewSession([event_id |-> id,
                                         payload |-> [buyer |-> Buyer, deadline |-> d]])
    BY <1>0, <1>2, CreateRfqStep
  <2>2. /\ session'.offers = <<>>
        /\ session'.offerCountBySeller = [x \in Sellers |-> 0]
        /\ session'.totalAcceptAttempts = 0
        /\ session'.acceptAttemptsBySeller = [x \in Sellers |-> 0]
    BY <2>1 DEF NewSession
  <2>. QED BY <2>2, LimitsAssumption DEF WithinLimits
<1>3. ASSUME NEW o \in Offer, SubmitOffer(o)
      PROVE  WithinLimits'
  <2>1. /\ session \in DerivedSession /\ session # None
        /\ session'.offers = Append(session.offers, o)
        /\ session'.offerCountBySeller =
              [session.offerCountBySeller EXCEPT ![o.seller] = @ + 1]
        /\ session'.totalAcceptAttempts = session.totalAcceptAttempts
        /\ session'.acceptAttemptsBySeller = session.acceptAttemptsBySeller
    BY <1>0, <1>3, SubmitOfferStep, NoneAssumption DEF DerivedSession
  <2>2. /\ session.offers \in Seq(Offer)
        /\ session.offerCountBySeller \in [Sellers -> Nat]
        /\ o.seller \in Sellers
    BY <2>1 DEF DerivedSession, Offer
  <2>3. /\ Len(session.offers) < MaxOffersPerSession
        /\ session.offerCountBySeller[o.seller] < MaxOffersPerSeller
    BY <1>3 DEF SubmitOffer
  <2>. QED BY <2>1, <2>2, <2>3, LimitsAssumption DEF WithinLimits
<1>4. ASSUME NEW c \in Counter, SendCounter(c)
      PROVE  WithinLimits'
  <2>1. /\ session # None
        /\ session'.offers = session.offers
        /\ session'.offerCountBySeller = session.offerCountBySeller
        /\ session'.totalAcceptAttempts = session.totalAcceptAttempts
        /\ session'.acceptAttemptsBySeller = session.acceptAttemptsBySeller
    BY <1>0, <1>4, SendCounterStep, NoneAssumption DEF DerivedSession
  <2>. QED BY <2>1 DEF WithinLimits
<1>5. ASSUME session # None, NEW i \in DOMAIN session.offers, NEW tm \in Times,
             NEW x \in Times, SelectWinner(i, tm, x)
      PROVE  WithinLimits'
  <2> DEFINE w == session.offers[i].seller
  <2>1. /\ session \in DerivedSession /\ w \in Sellers
        /\ session'.offers = session.offers
        /\ session'.offerCountBySeller = session.offerCountBySeller
        /\ session'.totalAcceptAttempts = session.totalAcceptAttempts + 1
        /\ session'.acceptAttemptsBySeller =
              [session.acceptAttemptsBySeller EXCEPT ![w] = @ + 1]
    BY <1>0, <1>5, SelectWinnerStep
  <2>2. /\ session.acceptAttemptsBySeller \in [Sellers -> Nat]
        /\ session.totalAcceptAttempts \in Nat
    BY <2>1 DEF DerivedSession
  <2>3. /\ session.totalAcceptAttempts < MaxAcceptsPerSession
        /\ session.acceptAttemptsBySeller[w] < MaxAcceptsPerSeller
    BY <1>5 DEF SelectWinner
  <2> HIDE DEF w
  <2>. QED BY <1>5, <2>1, <2>2, <2>3, LimitsAssumption DEF WithinLimits
<1>6. ASSUME SignQuote \/ Cosign \/ Decline \/ CosignTimeout \/ Expire \/ ConfirmSettlement
      PROVE  WithinLimits'
  <2>1. session # None
    BY <1>6 DEF SignQuote, Cosign, Decline, CosignTimeout, Expire, ConfirmSettlement, InState
  <2>. QED BY <1>6, <2>1, BooksUnchanged DEF WithinLimits
<1>. QED BY <1>1, <1>2, <1>3, <1>4, <1>5, <1>6, NextCases, Zenon

\* No sequence of offers, accepts, declines and timeouts gets more of them into the
\* log than the admission limits of offers.ts and the anti-griefing limits of
\* accept.ts allow, in all or for one seller.
THEOREM LimitsAreKept == Spec => []LimitsHold
<1>1. Init => CountersMatchLog /\ WithinLimits
  BY DEF Init, CountersMatchLog, WithinLimits
<1>2. IntegrityInv /\ CountersMatchLog /\ [Next]_vars => CountersMatchLog'
  <2>1. ASSUME CountersMatchLog, UNCHANGED vars
        PROVE  CountersMatchLog'
    <3>1. \A ty : /\ EventsOfType(ty)' = EventsOfType(ty)
                 /\ \A x : EventsOfSeller(ty, x)' = EventsOfSeller(ty, x)
      BY <2>1 DEF vars, EventsOfType, EventsOfSeller
    <3>. QED BY <2>1, <3>1 DEF vars, CountersMatchLog
  <2>. QED BY <2>1, CountersStep
<1>3. IntegrityInv /\ WithinLimits /\ [Next]_vars => WithinLimits'
  BY LimitsStep
<1>4. CountersMatchLog /\ WithinLimits => LimitsHold
  <2>1. ASSUME session = None, log = <<>>
        PROVE  LimitsHold
    <3>1. /\ EventsOfType("WINNER_SELECTED") = {} /\ EventsOfType("OFFER_SUBMITTED") = {}
          /\ \A x : /\ EventsOfSeller("WINNER_SELECTED", x) = {}
                    /\ EventsOfSeller("OFFER_SUBMITTED", x) = {}
      BY <2>1 DEF EventsOfType, EventsOfSeller
    <3>. QED BY <3>1, FS_EmptySet, LimitsAssumption DEF LimitsHold
  <2>. QED BY <2>1 DEF CountersMatchLog, WithinLimits, LimitsHold
<1>. QED BY <1>1, <1>2, <1>3, <1>4, IntegrityInit, IntegrityStep, PTL DEF Spec

\* Once a session is terminal no step changes it, but for the number of the last
\* event when the settlement of a committed deal is recorded.
THEOREM TerminalSessionsAreFrozen == Spec => DealIsFrozen
<1> DEFINE Frozen == InState(TerminalStates) =>
                       session' = [session EXCEPT !.lastEventId = session'.lastEventId]
<1>1. IntegrityInv /\ [Next]_vars => [Frozen]_vars
  <2> SUFFICES ASSUME IntegrityInv, Next, InState(TerminalStates)
               PROVE  session' = [session EXCEPT !.lastEventId = session'.lastEventId]
    BY DEF vars
  <2>1. TypeOK /\ PendingHasQuote /\ session # None /\ session \in DerivedSession
    BY FoundSession DEF IntegrityInv, InState
  <2>2. session.state \in {"COMMITTED", "EXPIRED", "CANCELLED"}
    BY DEF InState, TerminalStates
  <2>3. ConfirmSettlement
    BY <2>1, <2>2, NextCases
         DEF CreateRfq, SubmitOffer, SendCounter, SelectWinner, SignQuote, Cosign, Decline,
             CosignTimeout, Expire, InState
  <2>4. PICK id : session' = [session EXCEPT !.state = "COMMITTED", !.lastEventId = id]
    BY <2>1, <2>3, ConfirmSettlementStep
  <2>5. session.state = "COMMITTED"
    BY <2>1, <2>3, ConfirmSettlementStep
  <2>6. session' = [session EXCEPT !.lastEventId = id]
    BY <2>1, <2>4, <2>5 DEF DerivedSession
  <2>7. session'.lastEventId = id
    BY <2>1, <2>6 DEF DerivedSession
  <2>. QED BY <2>6, <2>7
<1>. QED BY <1>1, IntegrityInit, IntegrityStep, PTL DEF Spec, DealIsFrozen

=============================================================================

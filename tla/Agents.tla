------------------------------- MODULE Agents -------------------------------
(***************************************************************************)
(* A buyer agent and seller agents negotiating one RFQ through the engine: *)
(* BuyerAgent and SellerAgent with their polling loops, driven by the      *)
(* strategies of Strategies, against the session of Negotiation.           *)
(*                                                                         *)
(* startPolling starts a poll at every tick of a timer without waiting for *)
(* the previous one, so that an agent has several polls under way; each is *)
(* a slot with a program counter, and every await of poll() is a point at  *)
(* which other polls, the other agents and the engine may take steps.  A   *)
(* request is served in one step and its answer used in the next; that of  *)
(* getEvents is served when the cursor is read.  A poll that fetches       *)
(* nothing, for lack of news or because the fetch fails, has no effect.    *)
(*                                                                         *)
(* A poll whose request is refused or lost throws and is over.  The        *)
(* rejected promise is left to the host; the model goes on polling.        *)
(***************************************************************************)
EXTENDS Session, Strategies, SequencesExt

CONSTANTS
  Times, Rounds, MaxOffersPerSession, MaxOffersPerSeller,
  MaxAcceptsPerSession, MaxAcceptsPerSeller,    \* of Negotiation
  Anchor, Soft, Hard,          \* anchor_price, budget_soft, budget_hard
  Floor, Target,               \* floor_price, target_price
  BuyerSlots, SellerSlots,     \* polls of one agent under way at a time
  Scopes                       \* the strategies and bounds explored: see scope

ASSUME AgentsAssumption ==
  /\ MinPrice <= Hard /\ Floor <= Target
  /\ \A s \in Scopes : /\ s.buyer \in BuyerKinds /\ s.seller \in SellerKinds
                       /\ s.sellers \subseteq Sellers
                       /\ s.bslots \subseteq BuyerSlots /\ s.sslots \subseteq SellerSlots
                       /\ {s.time, s.counters, s.faults} \subseteq Nat

VARIABLES
  log, session,   \* the engine's session (Negotiation)
  buyer,          \* BuyerAgentSession
  seller,         \* SellerAgentSession of each seller that has one
  bpoll, spoll,   \* the polls under way
  time,           \* time to the deadline of the RFQ, as the agents reckon it
  faults,
  scope           \* of this behaviour: the strategies of the buyer and the sellers,
                  \* the sellers and the polls of an agent at a time, the
                  \* time_remaining_ms when the RFQ is posted, what of
                  \* "deadline" and "timeout" may happen, and bounds on the counters
                  \* of the buyer (further ones are dropped) and on lost
                  \* requests and answers

Api == INSTANCE Negotiation

engineVars == <<log, session>>
vars == <<log, session, buyer, seller, bpoll, spoll, time, faults, scope>>

Idle == [pc |-> "idle"]

\* events is kept as the set of ids it holds; quote as the id of the quote.
BuyerSession == [cursor : Nat, seen : SUBSET Nat, offers : Seq(Offer), round : Nat,
                 quote : Nat \cup {None}, stopped : BOOLEAN]

SellerSession == [joined : BOOLEAN, cursor : Nat, seen : SUBSET Nat, round : Nat,
                  stopped : BOOLEAN]

Init ==
  /\ scope \in Scopes
  /\ Api!Init
  /\ buyer = [cursor |-> 0, seen |-> {}, offers |-> <<>>, round |-> 0, quote |-> None,
              stopped |-> FALSE]
  /\ seller = [x \in Sellers |-> [joined |-> FALSE, cursor |-> 0, seen |-> {}, round |-> 0,
                                  stopped |-> FALSE]]
  /\ bpoll = [k \in BuyerSlots |-> Idle]
  /\ spoll = [x \in Sellers |-> [k \in SellerSlots |-> Idle]]
  /\ time = scope.time
  /\ faults = 0

-----------------------------------------------------------------------------
(***************************************************************************)
(* EngineClient: the events a caller is served.                            *)
(***************************************************************************)
\* The seller an event concerns.
Concerns(e) ==
  CASE e.type = "COUNTER_SENT" -> e.payload.to
    [] e.type \in {"RFQ_CREATED", "NEGOTIATION_EXPIRED", "NEGOTIATION_CANCELLED"} -> None
    [] OTHER -> e.payload.seller

VisibleTo(i, did) ==
  IsEventVisibleTo([type |-> log[i].type, seller |-> Concerns(log[i])], did)

\* getEvents(rfqId, after): ids of the visible events after the cursor.
GetEvents(did, after) ==
  SelectSeq([i \in 1..Len(log) |-> i], LAMBDA i : i > after /\ VisibleTo(i, did))

\* EVENT_TYPE_MAP, for the types the agents look at.
NormalizedType(e) ==
  CASE e.type = "OFFER_SUBMITTED" -> "offer"
    [] e.type = "COUNTER_SENT" -> "counter"
    [] e.type = "WINNER_SELECTED" -> "quote_ready"
    [] e.type = "QUOTE_SIGNED" -> "buyer_signed"
    [] e.type = "QUOTE_COMMITTED" -> "quote_committed"
    [] OTHER -> "other"

EventsOf(ids, type) == SelectSeq(ids, LAMBDA i : NormalizedType(log[i]) = type)

-----------------------------------------------------------------------------
(***************************************************************************)
(* Buyer agent.                                                            *)
(***************************************************************************)
BuyerPoll(k, p) == bpoll' = [bpoll EXCEPT ![k] = p]

BuyerOnly(k, p) ==
  BuyerPoll(k, p) /\ UNCHANGED <<log, session, seller, spoll, time, faults, scope>>

PostRfq ==
  /\ \E d \in Times : Api!CreateRfq(d)
  /\ UNCHANGED <<buyer, seller, bpoll, spoll, time, faults, scope>>

\* poll: the events after the cursor are fetched; without new ones it returns.
BuyerPolls(k) ==
  LET ids == GetEvents(Buyer, buyer.cursor)
  IN /\ session # None /\ ~buyer.stopped
     /\ bpoll[k] = Idle
     /\ ids # <<>>
     /\ BuyerOnly(k, [pc |-> "served", ids |-> ids])
     /\ UNCHANGED buyer

\* The offers among the events, but those whose id is known already.
MergeOffers(offers, ids) ==
  FoldLeft(LAMBDA acc, i :
             IF \E j \in DOMAIN acc : acc[j].offer_id = log[i].payload.offer_id
             THEN acc ELSE Append(acc, log[i].payload),
           offers, EventsOf(ids, "offer"))

\* Faulty variant: the cursor is moved to the end of the log as it is by now.
BuyerAfterJumps(ids) ==
  [buyer EXCEPT !.cursor = Len(log), !.seen = @ \cup ToSet(ids),
                !.offers = MergeOffers(@, ids),
                !.quote = IF EventsOf(ids, "quote_committed") = <<>> THEN @
                          ELSE session.quoteRevision]

\* Faulty variant: the cursor is moved past the last event.
BuyerAfterPast(ids) ==
  [buyer EXCEPT !.cursor = Last(ids) + 1, !.seen = @ \cup ToSet(ids),
                !.offers = MergeOffers(@, ids),
                !.quote = IF EventsOf(ids, "quote_committed") = <<>> THEN @
                          ELSE session.quoteRevision]

\* The loop over the new events; quote_committed comes with the quote.
BuyerAfter(ids) ==
  [buyer EXCEPT !.cursor = Last(ids), !.seen = @ \cup ToSet(ids),
                !.offers = MergeOffers(@, ids),
                !.quote = IF EventsOf(ids, "quote_committed") = <<>> THEN @
                          ELSE session.quoteRevision]

BuyerContext(b) ==
  [offers |-> b.offers, registry |-> [x \in Sellers |-> [score |-> -1, feedbacks |-> -1]],
   round |-> b.round, time |-> time, anchor |-> Anchor, soft |-> Soft, hard |-> Hard]

\* The events are processed and the strategy is asked; late is the guard of
\* half a second before the deadline, reckoned here.
BuyerProcesses(k) ==
  /\ bpoll[k].pc = "served"
  /\ buyer' = BuyerAfter(bpoll[k].ids)
  /\ IF buyer'.offers = <<>> \/ buyer'.quote # None
     THEN BuyerOnly(k, Idle)
     ELSE \E a \in OnOffersReceived(scope.buyer, BuyerContext(buyer')) :
            BuyerOnly(k, [pc |-> "decided", late |-> time = 0,
                          act |-> SanitizeBuyerAction(a, [soft |-> Soft, hard |-> Hard])])

\* offers.find((o) => o.seller === seller).
TargetOffer(x) ==
  buyer.offers[CHOOSE i \in DOMAIN buyer.offers :
                 /\ buyer.offers[i].seller = x
                 /\ \A j \in 1..(i - 1) : buyer.offers[j].seller # x]

BuyerActs(k) ==
  LET p == bpoll[k]
  IN /\ p.pc = "decided"
     /\ \/ /\ p.act.type = "counter" /\ ~p.late /\ buyer.round < scope.counters
           /\ buyer' = [buyer EXCEPT !.round = @ + 1]
           /\ BuyerOnly(k, [pc |-> "countering",
                            counter |-> [counter_id |-> buyer'.round, round |-> buyer'.round,
                                         from |-> Buyer, to |-> p.act.seller,
                                         price |-> p.act.price]])
        \/ /\ p.act.type = "accept"
           /\ BuyerOnly(k, [pc |-> "accepting", revision |-> buyer.cursor,
                            offer_id |-> TargetOffer(p.act.seller).offer_id])
           /\ UNCHANGED buyer
        \/ /\ p.act.type = "cancel"
           /\ buyer' = [buyer EXCEPT !.stopped = TRUE]
           /\ BuyerOnly(k, Idle)
        \/ /\ p.act.type = "wait" \/ (p.act.type = "counter" /\ (p.late \/ buyer.round = scope.counters))
           /\ BuyerOnly(k, Idle)
           /\ UNCHANGED buyer

\* What the engine does with the accept: compare-and-swap on the revision,
\* then the winner is selected.
AcceptAtEngine(p) ==
  /\ p.revision = session.lastEventId
  /\ \E i \in DOMAIN session.offers, t \in Times :
       session.offers[i].offer_id = p.offer_id /\ Api!SelectWinner(i, t, t)

\* The signature verifies against the quote the session holds.
SignAtEngine(p) == session.unsignedQuote = p.quote /\ Api!SignQuote

\* A request the engine refuses: the poll throws.
Refused(A) == ~A /\ UNCHANGED engineVars

BuyerPostsCounter(k) ==
  /\ bpoll[k].pc = "countering"
  /\ \/ Api!SendCounter(bpoll[k].counter)
     \/ Refused(ENABLED Api!SendCounter(bpoll[k].counter))
  /\ BuyerPoll(k, Idle)
  /\ UNCHANGED <<buyer, seller, spoll, time, faults, scope>>

BuyerPostsAccept(k) ==
  /\ bpoll[k].pc = "accepting"
  /\ \/ /\ AcceptAtEngine(bpoll[k])
        /\ BuyerPoll(k, [pc |-> "signing", quote |-> session'.unsignedQuote])
     \/ /\ Refused(ENABLED AcceptAtEngine(bpoll[k]))
        /\ BuyerPoll(k, Idle)
  /\ UNCHANGED <<buyer, seller, spoll, time, faults, scope>>

\* Faulty variant: the quote is noted whether or not the engine took it.
BuyerSignsAnyway(k) ==
  /\ bpoll[k].pc = "signing"
  /\ buyer' = [buyer EXCEPT !.quote = bpoll[k].quote.quote_id]
  /\ \/ SignAtEngine(bpoll[k])
     \/ Refused(ENABLED SignAtEngine(bpoll[k]))
  /\ BuyerPoll(k, Idle)
  /\ UNCHANGED <<seller, spoll, time, faults, scope>>

BuyerSigns(k) ==
  /\ bpoll[k].pc = "signing"
  /\ \/ /\ SignAtEngine(bpoll[k])
        /\ buyer' = [buyer EXCEPT !.quote = bpoll[k].quote.quote_id]
     \/ /\ Refused(ENABLED SignAtEngine(bpoll[k]))
        /\ UNCHANGED buyer
  /\ BuyerPoll(k, Idle)
  /\ UNCHANGED <<seller, spoll, time, faults, scope>>

\* fetch rejects: the request did not arrive, or was served and the answer
\* was lost.
BuyerFetchFails(k) ==
  /\ faults < scope.faults
  /\ faults' = faults + 1
  /\ \/ bpoll[k].pc \in {"countering", "accepting", "signing"} /\ UNCHANGED engineVars
     \/ bpoll[k].pc = "accepting" /\ AcceptAtEngine(bpoll[k])
     \/ bpoll[k].pc = "signing" /\ SignAtEngine(bpoll[k])
  /\ BuyerPoll(k, Idle)
  /\ UNCHANGED <<buyer, seller, spoll, time, scope>>

-----------------------------------------------------------------------------
(***************************************************************************)
(* Seller agents.                                                          *)
(***************************************************************************)
SellerPoll(x, k, p) == spoll' = [spoll EXCEPT ![x][k] = p]

SellerOnly(x, k, p) ==
  SellerPoll(x, k, p) /\ UNCHANGED <<log, session, buyer, bpoll, time, faults, scope>>

\* The rest of the loop over the events of this poll.
Continue(rest) == IF rest = <<>> THEN Idle ELSE [pc |-> "handling", rest |-> rest]

\* buildContext: offers by others among the events seen count as competitors.
SellerContext(x) ==
  [round |-> seller'[x].round, floor |-> Floor, target |-> Target,
   competing |-> Cardinality({log[i].actor : i \in {j \in seller'[x].seen :
                    NormalizedType(log[j]) = "offer" /\ log[j].actor # x}})]

\* The poll once the strategy has answered: "respond" and "counter" are one
\* case of the switch.
Decided(a, rest) ==
  LET safe == SanitizeSellerAction(a, [floor |-> Floor])
  IN [pc |-> "decided", rest |-> rest,
      act |-> IF safe.type = "counter" THEN [safe EXCEPT !.type = "respond"] ELSE safe]

RespondToRfq(x, k) ==
  /\ session # None /\ ~seller[x].joined
  /\ seller' = [seller EXCEPT ![x].joined = TRUE]
  /\ \E a \in OnRfqReceived(scope.seller, SellerContext(x)) :
       SellerOnly(x, k, Decided(IF a.type = "counter" THEN Hold ELSE a, <<>>))

\* Only participants may read: without an offer the request is refused.
SellerPolls(x, k) ==
  LET ids == GetEvents(x, seller[x].cursor)
  IN /\ seller[x].joined /\ ~seller[x].stopped
     /\ spoll[x][k] = Idle
     /\ HasOffer(session, x)
     /\ ids # <<>>
     /\ SellerOnly(x, k, [pc |-> "handling", rest |-> ids])
     /\ UNCHANGED seller

\* Faulty variant: the quote is looked at when it is made, not when it is signed.
AwaitsQuoteOnly(i) == NormalizedType(log[i]) \in {"counter", "quote_ready"}

\* Events at which the loop awaits something.
Awaits(i) == NormalizedType(log[i]) \in {"counter", "quote_ready", "buyer_signed"}

\* The loop up to and including the first event that awaits something, which
\* is begun, or to its end.
SellerHandles(x, k) ==
  LET ids == spoll[x][k].rest
      n == CHOOSE i \in DOMAIN ids :
             /\ Awaits(ids[i]) \/ i = Len(ids)
             /\ \A j \in 1..(i - 1) : ~Awaits(ids[j])
      rest == SubSeq(ids, n + 1, Len(ids))
      isCounter == NormalizedType(log[ids[n]]) = "counter"
  IN /\ spoll[x][k].pc = "handling"
     /\ seller' = [seller EXCEPT ![x].cursor = ids[n],
                                 ![x].seen = @ \cup {ids[j] : j \in 1..n},
                                 ![x].round = IF isCounter THEN @ + 1 ELSE @]
     /\ IF isCounter
        THEN \E a \in OnCounterReceived(scope.seller, SellerContext(x)) :
               SellerOnly(x, k, Decided(a, rest))
        ELSE SellerOnly(x, k, IF Awaits(ids[n]) THEN [pc |-> "reading", rest |-> rest] ELSE Idle)

\* sendOffer's offer, with a fresh id.
NewOffer(x, price) ==
  [offer_id |-> CHOOSE id \in OfferIds :
                  \A i \in DOMAIN session.offers : session.offers[i].offer_id # id,
   seller |-> x, price |-> price, payment_endpoint |-> CHOOSE u \in Endpoints : TRUE,
   valid_until |-> session.rfq.deadline]

SellerActs(x, k) ==
  LET p == spoll[x][k]
      offer == NewOffer(x, p.act.price)
  IN /\ p.pc = "decided"
     /\ \/ /\ p.act.type = "respond"
           /\ \/ Api!SubmitOffer(offer) /\ SellerPoll(x, k, Continue(p.rest))
              \/ Refused(ENABLED Api!SubmitOffer(offer)) /\ SellerPoll(x, k, Idle)
           /\ UNCHANGED seller
        \/ /\ p.act.type \in {"decline", "hold"}
           /\ seller' = [seller EXCEPT ![x].stopped = @ \/ p.act.type = "decline"]
           /\ SellerPoll(x, k, Continue(p.rest))
           /\ UNCHANGED engineVars
     /\ UNCHANGED <<buyer, bpoll, time, faults, scope>>

\* getQuote: for the selected seller; cosigned only if it is the buyer's turn
\* no more and not yet done.  What getQuote throws is caught.
SellerReads(x, k) ==
  LET rest == spoll[x][k].rest
  IN /\ spoll[x][k].pc = "reading"
     /\ IF /\ session.state \in {"COMMIT_PENDING", "COMMITTED"}
           /\ session.selectedSeller = x
           /\ session.buyerSignature # None
           /\ session.sellerSignature = None
        THEN SellerOnly(x, k, [pc |-> "cosigning", quote |-> session.unsignedQuote,
                               rest |-> rest])
        ELSE SellerOnly(x, k, Continue(rest))
     /\ UNCHANGED seller

CosignAtEngine(p) == session.unsignedQuote = p.quote /\ Api!Cosign

SellerCosigns(x, k) ==
  /\ spoll[x][k].pc = "cosigning"
  /\ CosignAtEngine(spoll[x][k]) \/ Refused(ENABLED CosignAtEngine(spoll[x][k]))
  /\ SellerPoll(x, k, Continue(spoll[x][k].rest))
  /\ UNCHANGED <<buyer, seller, bpoll, time, faults, scope>>

\* fetch rejects, before or after the engine served the request: in the quote's
\* try block that is caught and the loop goes on, anywhere else the poll throws.
SellerFetchFails(x, k) ==
  LET p == spoll[x][k]
  IN /\ faults < scope.faults
     /\ faults' = faults + 1
     /\ \/ /\ p.pc = "decided" /\ p.act.type = "respond"
           /\ UNCHANGED engineVars \/ Api!SubmitOffer(NewOffer(x, p.act.price))
           /\ SellerPoll(x, k, Idle)
        \/ /\ p.pc \in {"reading", "cosigning"}
           /\ UNCHANGED engineVars \/ (p.pc = "cosigning" /\ CosignAtEngine(p))
           /\ SellerPoll(x, k, Continue(p.rest))
     /\ UNCHANGED <<buyer, seller, bpoll, time, scope>>

-----------------------------------------------------------------------------
(***************************************************************************)
(* The engine's own steps.                                                 *)
(***************************************************************************)
AgentsUnchanged == UNCHANGED <<buyer, seller, bpoll, spoll, faults, scope>>

TimePasses ==
  /\ "deadline" \in scope.disturbances
  /\ time > 0 /\ time' = time - 1
  /\ UNCHANGED engineVars /\ AgentsUnchanged

Enforce ==
  /\ \/ "timeout" \in scope.disturbances /\ Api!CosignTimeout
     \/ time = 0 /\ Api!Expire
  /\ UNCHANGED time /\ AgentsUnchanged

BuyerSteps(k) ==
  \/ BuyerPolls(k) \/ BuyerProcesses(k) \/ BuyerActs(k)
  \/ BuyerPostsCounter(k) \/ BuyerPostsAccept(k) \/ BuyerSigns(k)

SellerSteps(x, k) ==
  \/ RespondToRfq(x, k) \/ SellerPolls(x, k) \/ SellerHandles(x, k)
  \/ SellerActs(x, k) \/ SellerReads(x, k) \/ SellerCosigns(x, k)

Next ==
  \/ PostRfq
  \/ \E k \in scope.bslots : BuyerSteps(k) \/ BuyerFetchFails(k)
  \/ \E x \in scope.sellers, k \in scope.sslots : SellerSteps(x, k) \/ SellerFetchFails(x, k)
  \/ TimePasses
  \/ Enforce

Spec == Init /\ [][Next]_vars

\* Timers fire, the network and the engine answer, and the event loop goes on:
\* every poll takes its next step in the end.
FairSpec ==
  /\ Spec
  /\ WF_vars(PostRfq)
  /\ \A k \in BuyerSlots : WF_vars(k \in scope.bslots /\ BuyerSteps(k))
  /\ \A x \in Sellers, k \in SellerSlots :
       WF_vars(x \in scope.sellers /\ k \in scope.sslots /\ SellerSteps(x, k))

-----------------------------------------------------------------------------
(***************************************************************************)
(* Properties.                                                             *)
(***************************************************************************)

\* The agents' sessions have the fields of BuyerAgentSession and
\* SellerAgentSession; cursors and the events seen are events of the log.
TypeOK ==
  /\ buyer \in BuyerSession
  /\ seller \in [Sellers -> SellerSession]
  /\ buyer.seen \cup {buyer.cursor} \subseteq 0..Len(log)
  /\ \A x \in Sellers : seller[x].seen \cup {seller[x].cursor} \subseteq 0..Len(log)

\* No event is lost to an agent, however its polls overlap and fail: every
\* event the engine shows it up to its cursor is among those it has seen
\* (lastEventId in both poll loops).
NoEventSkipped ==
  /\ 1..buyer.cursor \subseteq buyer.seen
  /\ \A x \in Sellers :
       {i \in 1..seller[x].cursor : VisibleTo(i, x)} \subseteq seller[x].seen

\* Whatever the strategies come up with, no counter above the buyer's hard budget
\* and no offer below the seller's floor price is posted (the sanitizer, applied
\* before every post; it does not look at the price of an accept).
PostedPricesWithinLimits ==
  \A i \in DOMAIN log :
    /\ log[i].type = "COUNTER_SENT" => log[i].payload.price <= Hard
    /\ log[i].type = "OFFER_SUBMITTED" => log[i].payload.price >= Floor

\* A rule-based buyer selects a seller only when that seller has made an offer
\* within the soft budget, whatever polls decided on older events.  That need not
\* be the offer it selects: the agent takes the oldest it holds of that seller,
\* where the comment next to it says "Find the best offer from the target seller"
\* (buyer-agent.ts 234-235), so that the price of the deal has no such bound.
SelectionsHaveGrounds ==
  scope.buyer # "llm" =>
    \A i \in DOMAIN log : log[i].type = "WINNER_SELECTED" =>
      \E j \in 1..(i - 1) :
        /\ log[j].type = "OFFER_SUBMITTED"
        /\ log[j].payload.seller = log[i].payload.seller
        /\ log[j].payload.price <= Soft

\* A quote the buyer agent holds, and because of which it stops negotiating,
\* is one the engine has the buyer's signature for (session.quote).
HeldQuoteWasSigned ==
  buyer.quote # None =>
    \E i \in DOMAIN log :
      /\ log[i].type = "QUOTE_SIGNED"
      /\ log[i].payload.buyer_signature.over.quote_id = buyer.quote

\* A seller that still takes part does not let a quote lie that the buyer has
\* signed: the signing event is ahead of its cursor or in a poll under way, or
\* a poll is about to read or to cosign the quote.  The catch block of the
\* poll loop says of a quote it could not cosign "will retry on next poll";
\* it does not, so that no request may be lost.
CosignIsPending ==
  (faults = 0 /\ session # None /\ session.state = "COMMIT_PENDING" /\ session.buyerSignature # None) =>
    LET x == session.selectedSeller
        signed == {i \in DOMAIN log : log[i].type = "QUOTE_SIGNED"}
    IN \/ seller[x].stopped
       \/ Max(signed) > seller[x].cursor
       \/ \E k \in SellerSlots :
            \/ spoll[x][k].pc \in {"reading", "cosigning"}
            \/ spoll[x][k].pc # "idle" /\ Max(signed) \in ToSet(spoll[x][k].rest)

PricesOf(type, x) ==
  LET of == SelectSeq(log, LAMBDA e : e.type = type /\ Concerns(e) = x)
  IN [i \in DOMAIN of |-> of[i].payload.price]

\* Without overlapping polls no rule-based agent takes a concession back: as
\* rounds and time pass and offers come in, the buyer's counters to a seller
\* never fall and the seller's offers never rise.  (CompetitiveBuyer is made to
\* concede less when more offers are in.)
ConcessionsOnlyGrow ==
  \A x \in Sellers :
    LET counters == PricesOf("COUNTER_SENT", x)
        offers == PricesOf("OFFER_SUBMITTED", x)
    IN /\ scope.buyer \in {"linear", "timeWeighted"} /\ Cardinality(scope.bslots) = 1
         => \A i, j \in DOMAIN counters : i < j => counters[i] <= counters[j]
       /\ scope.seller # "llm" /\ Cardinality(scope.sslots) = 1
         => \A i, j \in DOMAIN offers : i < j => offers[i] >= offers[j]


\* What the agents remember agrees with the engine's log: no event passed over, no
\* quote held that was not signed, no signed quote left lying.
AgentsAgreeWithLog == TypeOK /\ NoEventSkipped /\ HeldQuoteWasSigned /\ CosignIsPending

\* Price decisions leave their trace in the log: posts within the private limits,
\* selections with grounds, no concession taken back.
PriceDecisionsAreSound ==
  PostedPricesWithinLimits /\ SelectionsHaveGrounds /\ ConcessionsOnlyGrow

=============================================================================

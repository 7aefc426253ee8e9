--------------------------- MODULE McpToolsProofs ---------------------------
(***************************************************************************)
(* Proofs about McpTools: for any number of calls, prices, grains, offers, *)
(* rounds, lost answers and restarts.                                      *)
(***************************************************************************)
EXTENDS McpTools, FiniteSetTheorems, TLAPS

(***************************************************************************)
(* Prices.                                                                 *)
(***************************************************************************)
LEMMA MaxOfTwo ==
  ASSUME NEW a \in Int, NEW b \in Int
  PROVE  Max({a, b}) = (IF a >= b THEN a ELSE b) /\ Min({a, b}) = (IF a <= b THEN a ELSE b)
<1>1. Max({a, b}) = IF a >= b THEN a ELSE b
  <2> DEFINE m == IF a >= b THEN a ELSE b
  <2>1. m \in {a, b} /\ \A y \in {a, b} : m >= y
    OBVIOUS
  <2>2. \A x \in {a, b} : (\A y \in {a, b} : x >= y) => x = m
    OBVIOUS
  <2> HIDE DEF m
  <2>3. Max({a, b}) = m
    BY <2>1, <2>2 DEF Max
  <2>. QED BY <2>3 DEF m
<1>2. Min({a, b}) = IF a <= b THEN a ELSE b
  <2> DEFINE m == IF a <= b THEN a ELSE b
  <2>1. m \in {a, b} /\ \A y \in {a, b} : m <= y
    OBVIOUS
  <2>2. \A x \in {a, b} : (\A y \in {a, b} : x <= y) => x = m
    OBVIOUS
  <2> HIDE DEF m
  <2>3. Min({a, b}) = m
    BY <2>1, <2>2 DEF Min
  <2>. QED BY <2>3 DEF m
<1>. QED BY <1>1, <1>2

\* Typed prices and their grains.
LEMMA TypedAreNumbers ==
  /\ \A v \in TypedPrices : v \in Nat
  /\ \A g \in Grains : g \in Nat /\ g > 0
BY McpAssumption

\* toFixed prints a number.
LEMMA RoundToIsNat ==
  ASSUME NEW v \in Nat, NEW g \in Nat, g > 0
  PROVE  RoundTo(v, g) \in Nat
<1> DEFINE x == v + g \div 2
           q == x \div g
<1>1. x \in Nat
  OBVIOUS
<1> HIDE DEF x
<1>2. q \in Nat
  BY <1>1
<1>3. RoundTo(v, g) = q * g
  BY DEF RoundTo, q, x
<1> HIDE DEF q
<1>. QED BY <1>2, <1>3

\* toFixed leaves alone what has no more decimals.
LEMMA RoundToKeeps ==
  ASSUME NEW k \in Nat, NEW g \in Nat, g > 0
  PROVE  RoundTo(k * g, g) = k * g
<1> DEFINE h == g \div 2
           x == k * g + h
           q == x \div g
<1>1. h \in Nat /\ h < g /\ k * g \in Nat
  OBVIOUS
<1>2. x \in Nat /\ k * g <= x /\ x < k * g + g
  BY <1>1
<1>3. RoundTo(k * g, g) = q * g
  BY DEF RoundTo, q, x, h
<1> HIDE DEF h, x
<1>4. q \in Nat /\ q * g <= x /\ x < q * g + g
  BY <1>2
<1> HIDE DEF q
<1>5. k * g < (q + 1) * g /\ q * g < (k + 1) * g
  BY <1>2, <1>4
<1>6. k < q + 1 /\ q < k + 1
  BY <1>4, <1>5
<1>. QED BY <1>3, <1>4, <1>6

\* What respond_offer makes of a typed price: the price itself, which has no more
\* decimals than it was typed with, or the floor rounded to them.
LEMMA OfferPriceIsFair ==
  ASSUME NEW p \in Typed, NEW lim, lim.floor \in Nat, given => lim.floor = Floor
  PROVE  IsFairPrice(given, OfferPrice(p, lim))
<1> DEFINE v == Max({p.value, lim.floor})
           g == p.grain
<1>1. p.value \in Nat /\ p.value % g = 0 /\ g \in Grains /\ g \in Nat /\ g > 0
  <2>1. p \in [value : TypedPrices, grain : Grains] /\ p.value % p.grain = 0
    BY DEF Typed
  <2>2. p.value \in TypedPrices /\ p.grain \in Grains
    BY <2>1
  <2>3. p.value \in Nat /\ p.grain \in Nat /\ p.grain > 0
    BY <2>2, TypedAreNumbers
  <2>. QED BY <2>1, <2>2, <2>3, Zenon
<1>2. v \in Nat /\ v = IF p.value >= lim.floor THEN p.value ELSE lim.floor
  BY <1>1, MaxOfTwo
<1>3. OfferPrice(p, lim) = RoundTo(v, g)
  BY DEF OfferPrice, SanitizeSellerAction
<1> HIDE DEF v, g
<1>4. RoundTo(v, g) \in Nat
  BY <1>1, <1>2, RoundToIsNat
<1>5. CASE p.value >= lim.floor
  <2> DEFINE k == p.value \div g
  <2>1. k \in Nat /\ p.value = k * g
    BY <1>1
  <2> HIDE DEF k
  <2>2. RoundTo(v, g) = v
    BY <1>1, <1>2, <1>5, <2>1, RoundToKeeps
  <2>. QED BY <1>2, <1>3, <1>4, <1>5, <2>2 DEF IsFairPrice
<1>6. CASE ~(p.value >= lim.floor)
  BY <1>1, <1>2, <1>3, <1>4, <1>6 DEF IsFairPrice
<1>. QED BY <1>5, <1>6

\* A price that is not rounded is fair if it is not below the floor.
LEMMA PriceAboveFloor ==
  ASSUME NEW v \in Nat, given => v >= Floor
  PROVE  IsFairPrice(given, v)
BY McpAssumption DEF IsFairPrice

\* What the sanitizer lets a seller ask.
LEMMA SanitizedIsFair ==
  ASSUME NEW t \in {"respond", "counter"}, NEW p \in Int, NEW lim, lim.floor \in Nat,
         given => lim.floor = Floor
  PROVE  IsFairPrice(given, SanitizeSellerAction([type |-> t, price |-> p], lim).price)
<1> DEFINE v == Max({p, lim.floor})
<1>1. v \in Nat /\ v >= lim.floor
  BY MaxOfTwo
<1>2. SanitizeSellerAction([type |-> t, price |-> p], lim).price = v
  BY DEF SanitizeSellerAction
<1> HIDE DEF v
<1>. QED BY <1>1, <1>2, PriceAboveFloor

\* A concession is a number.
LEMMA SellerPriceType ==
  ASSUME NEW kind \in {"firm", "flexible", "competitive"}, NEW c, c.round \in Nat, c.target \in Nat, c.floor \in Nat,
         c.competing = 1
  PROVE  SellerPrice(kind, c) \in Int
<1> DEFINE range == c.target - c.floor
           firm == (range * 5 * c.round) \div 100
           flexible == (range * 25 * c.round) \div 100
           competitive == (range * 50 * c.round) \div (100 * MaxRounds)
<1>1. firm \in Int /\ flexible \in Int
  OBVIOUS
<1>2. competitive \in Int
  <2>1. 100 * MaxRounds \in Nat /\ 100 * MaxRounds > 0
    BY StrategyAssumption
  <2>2. range * 50 * c.round \in Int
    OBVIOUS
  <2>. QED BY <2>1, <2>2
<1> DEFINE k == CASE kind = "firm" -> firm [] kind = "flexible" -> flexible [] kind = "competitive" -> competitive
<1>3. k \in Int
  <2> HIDE DEF firm, flexible, competitive
  <2>. QED BY <1>1, <1>2
<1>4. SellerPrice(kind, c) = Max({c.target - k, c.floor})
  BY DEF SellerPrice
<1> HIDE DEF k
<1>5. c.target - k \in Int
  BY <1>3
<1>. QED BY <1>4, <1>5, MaxOfTwo

-----------------------------------------------------------------------------
(***************************************************************************)
(* The engine's steps, as these tools cause them.                          *)
(***************************************************************************)
\* The log has grown by one event.
Grown(type, payload) ==
  /\ EngineIsTyped' /\ session' # None
  /\ \A i \in DOMAIN log : i \in DOMAIN log' /\ log'[i] = log[i]
  /\ \A i \in DOMAIN log' : i \in DOMAIN log \/ (log'[i].type = type /\ log'[i].payload = payload)
  /\ \E i \in DOMAIN log' : log'[i].type = type /\ log'[i].payload = payload

LEMMA AppendGrows ==
  ASSUME NEW R, NEW s \in Seq(R), NEW e
  PROVE  LET t == Append(s, e)
         IN /\ t \in Seq({t[i] : i \in DOMAIN t})
            /\ \A i \in DOMAIN s : i \in DOMAIN t /\ t[i] = s[i]
            /\ \A i \in DOMAIN t : i \in DOMAIN s \/ t[i] = e
            /\ \E i \in DOMAIN t : t[i] = e
<1> DEFINE t == Append(s, e)
           T == {t[i] : i \in DOMAIN t}
<1>1. Len(s) \in Nat /\ DOMAIN s = 1..Len(s) /\ DOMAIN t = 1..(Len(s) + 1) /\ t \in Seq(R \cup {e}) /\ Len(t) = Len(s) + 1
  OBVIOUS
<1>2. t[Len(s) + 1] = e /\ \A i \in 1..Len(s) : t[i] = s[i]
  OBVIOUS
<1> HIDE DEF t
<1>3. \A i \in 1..Len(t) : t[i] \in T
  BY <1>1
<1>4. t \in Seq(T)
  <2> HIDE DEF T
  <2>. QED BY <1>1, <1>3
<1>5. \A i \in DOMAIN s : i \in DOMAIN t /\ t[i] = s[i]
  BY <1>1, <1>2
<1>6. \A i \in DOMAIN t : i \in DOMAIN s \/ i = Len(s) + 1
  BY <1>1
<1>7. Len(s) + 1 \in DOMAIN t
  BY <1>1
<1>. QED BY <1>2, <1>4, <1>5, <1>6, <1>7 DEF t

\* appendEvent: what it leaves to be shown of the new session.
LEMMA EventAppended ==
  ASSUME EngineIsTyped, NEW type, NEW actor, NEW payload, Api!AppendEvent(type, actor, payload)
  PROVE  \E e : /\ e.type = type /\ e.payload = payload /\ e.event_id \in Nat
                /\ Api!Accepts(session, e) /\ session' = Api!Apply(session, e)
                /\ session' \in ToolSession => Grown(type, payload)
<1> DEFINE e == Api!MkEvent(Len(log) + 1, type, actor, payload)
<1>0. log \in Seq({log[i] : i \in DOMAIN log})
  BY DEF EngineIsTyped
<1>1. Len(log) + 1 \in Nat
  BY <1>0
<1>2. e.type = type /\ e.payload = payload /\ e.event_id \in Nat
  BY <1>1 DEF Api!MkEvent
<1>3. Api!Accepts(session, e) /\ session' = Api!Apply(session, e) /\ log' = Append(log, e)
  BY DEF Api!AppendEvent
<1> HIDE DEF e
<1>4. ASSUME session' \in ToolSession PROVE Grown(type, payload)
  <2>1. /\ Append(log, e) \in Seq({Append(log, e)[i] : i \in DOMAIN Append(log, e)})
        /\ \A i \in DOMAIN log : i \in DOMAIN Append(log, e) /\ Append(log, e)[i] = log[i]
        /\ \A i \in DOMAIN Append(log, e) : i \in DOMAIN log \/ Append(log, e)[i] = e
        /\ \E i \in DOMAIN Append(log, e) : Append(log, e)[i] = e
    BY <1>0, AppendGrows
  <2>2. /\ log' \in Seq({log'[i] : i \in DOMAIN log'})
        /\ \A i \in DOMAIN log : i \in DOMAIN log' /\ log'[i] = log[i]
        /\ \A i \in DOMAIN log' : i \in DOMAIN log \/ log'[i] = e
        /\ \E i \in DOMAIN log' : log'[i] = e
    BY <1>3, <2>1
  <2>3. session' # None /\ EngineIsTyped'
    BY <1>4, <2>2, McpAssumption DEF EngineIsTyped
  <2>. QED BY <1>2, <2>2, <2>3 DEF Grown
<1>. QED BY <1>2, <1>3, <1>4

\* A valid transition leads to a state.
LEMMA StatesFollow ==
  ASSUME NEW s \in ToolSession, NEW e, Api!Accepts(s, e),
         e.type \in {"OFFER_SUBMITTED", "COUNTER_SENT", "WINNER_SELECTED", "QUOTE_SIGNED",
                     "QUOTE_COMMITTED", "COSIGN_TIMEOUT"}
  PROVE  s # None /\ Api!TransitionRules[s.state][e.type] \in States
<1>1. s # None /\ s.state \in States
  BY McpAssumption DEF ToolSession
<1>2. Api!IsValidTransition(s.state, e.type)
  BY <1>1 DEF Api!Accepts
<1>3. ASSUME NEW st \in States, NEW t \in {"OFFER_SUBMITTED", "COUNTER_SENT", "WINNER_SELECTED", "QUOTE_SIGNED",
                     "QUOTE_COMMITTED", "COSIGN_TIMEOUT"}, Api!IsValidTransition(st, t)
      PROVE  Api!TransitionRules[st][t] \in States
  BY <1>3 DEF Api!IsValidTransition, Api!TransitionRules, States
<1>. QED BY <1>1, <1>2, <1>3

LEMMA RfqPosted ==
  ASSUME EngineIsTyped, NEW d \in Times, Api!CreateRfq(d)
  PROVE  /\ session = None /\ session'.counters = <<>>
         /\ Grown("RFQ_CREATED", [buyer |-> Buyer, deadline |-> d])
<1> DEFINE p == [buyer |-> Buyer, deadline |-> d]
<1>1. session = None /\ Api!AppendEvent("RFQ_CREATED", Buyer, p)
  BY DEF Api!CreateRfq
<1>2. p \in Rfq
  BY McpAssumption DEF Rfq
<1> HIDE DEF p
<1>3. PICK e : /\ e.payload = p /\ e.event_id \in Nat /\ session' = Api!Apply(session, e)
               /\ session' \in ToolSession => Grown("RFQ_CREATED", p)
  BY <1>1, EventAppended
<1>4. session' = Api!NewSession(e)
  BY <1>1, <1>3 DEF Api!Apply
<1>5. session' \in ToolSession /\ session'.counters = <<>>
  BY <1>2, <1>3, <1>4 DEF Api!NewSession, ToolSession, States
<1>. QED BY <1>1, <1>3, <1>5 DEF p

LEMMA OfferPosted ==
  ASSUME EngineIsTyped, NEW o \in ToolOffer, Api!SubmitOffer(o)
  PROVE  session # None /\ session'.counters = session.counters /\ Grown("OFFER_SUBMITTED", o)
<1>1. session # None /\ Api!AppendEvent("OFFER_SUBMITTED", o.seller, o)
  BY DEF Api!SubmitOffer, Api!InState
<1> DEFINE s == session
<1>2. s \in ToolSession
  BY <1>1 DEF EngineIsTyped
<1>3. PICK e : /\ e.type = "OFFER_SUBMITTED" /\ e.payload = o /\ e.event_id \in Nat
               /\ Api!Accepts(s, e) /\ session' = Api!Apply(s, e)
               /\ session' \in ToolSession => Grown("OFFER_SUBMITTED", o)
  BY <1>1, EventAppended
<1>4. s # None /\ Api!TransitionRules[s.state][e.type] \in States
  BY <1>2, <1>3, StatesFollow
<1> DEFINE st == Api!TransitionRules[s.state][e.type]
           os == Append(s.offers, o)
           cs == [s.offerCountBySeller EXCEPT ![o.seller] = @ + 1]
<1>5. os \in Seq(ToolOffer) /\ cs \in [Sellers -> Nat]
  <2>1. s.offers \in Seq(ToolOffer) /\ s.offerCountBySeller \in [Sellers -> Nat]
    BY <1>2 DEF ToolSession
  <2>2. o.seller \in Sellers
    BY McpAssumption DEF ToolOffer
  <2> HIDE DEF s
  <2>. QED BY <2>1, <2>2
<1>6. session' = [[s EXCEPT !.offers = os, !.offerCountBySeller = cs]
                    EXCEPT !.state = st, !.lastEventId = e.event_id]
  BY <1>3, <1>4 DEF Api!Apply, Api!ApplyPayload
<1> HIDE DEF s, st, os, cs
<1>7. session' = [s EXCEPT !.offers = os, !.offerCountBySeller = cs, !.state = st, !.lastEventId = e.event_id]
  BY <1>2, <1>6 DEF ToolSession
<1>8. session' \in ToolSession /\ session'.counters = s.counters
  BY <1>2, <1>3, <1>4, <1>5, <1>7 DEF ToolSession, st
<1>. QED BY <1>1, <1>3, <1>8 DEF s

LEMMA CounterPosted ==
  ASSUME EngineIsTyped, NEW k \in ToolCounter, Api!SendCounter(k)
  PROVE  /\ session # None /\ session.counters \in Seq(ToolCounter)
         /\ session'.counters = Append(session.counters, k) /\ Grown("COUNTER_SENT", k)
<1>1. session # None /\ Api!AppendEvent("COUNTER_SENT", k.from, k)
  BY DEF Api!SendCounter, Api!InState
<1> DEFINE s == session
<1>2. s \in ToolSession
  BY <1>1 DEF EngineIsTyped
<1>3. PICK e : /\ e.type = "COUNTER_SENT" /\ e.payload = k /\ e.event_id \in Nat
               /\ Api!Accepts(s, e) /\ session' = Api!Apply(s, e)
               /\ session' \in ToolSession => Grown("COUNTER_SENT", k)
  BY <1>1, EventAppended
<1>4. s # None /\ Api!TransitionRules[s.state][e.type] \in States
  BY <1>2, <1>3, StatesFollow
<1> DEFINE st == Api!TransitionRules[s.state][e.type]
           cs == Append(s.counters, k)
<1>5. s.counters \in Seq(ToolCounter) /\ cs \in Seq(ToolCounter)
  BY <1>2 DEF ToolSession
<1>6. session' = [[s EXCEPT !.counters = cs] EXCEPT !.state = st, !.lastEventId = e.event_id]
  BY <1>3, <1>4 DEF Api!Apply, Api!ApplyPayload
<1> HIDE DEF s, st, cs
<1>7. session' \in ToolSession /\ session'.counters = cs
  BY <1>2, <1>3, <1>4, <1>5, <1>6 DEF ToolSession, st
<1>. QED BY <1>1, <1>3, <1>5, <1>7 DEF s, cs

LEMMA WinnerSelected ==
  ASSUME EngineIsTyped, session # None, NEW i \in DOMAIN session.offers, NEW t \in Times,
         Api!SelectWinner(i, t, t)
  PROVE  /\ session'.counters = session.counters
         /\ \E p : /\ p.offer_id = session.offers[i].offer_id /\ p.quote = session'.unsignedQuote
                   /\ Grown("WINNER_SELECTED", p)
<1> DEFINE s == session
           o == s.offers[i]
           q == Api!BuildQuote(s, i, t)
           p == [seller |-> o.seller, offer_id |-> o.offer_id, quote |-> q, timestamp |-> t]
<1>1. Api!AppendEvent("WINNER_SELECTED", s.rfq.buyer, p)
  BY DEF Api!SelectWinner
<1>2. s \in ToolSession
  BY DEF EngineIsTyped
<1>3. /\ s.offers \in Seq(ToolOffer) /\ s.acceptAttemptsBySeller \in [Sellers -> Nat]
      /\ s.quoteRevision \in Nat /\ s.totalAcceptAttempts \in Nat /\ s.rfq \in Rfq
  BY <1>2 DEF ToolSession
<1>4. o \in ToolOffer /\ t \in Nat /\ s.rfq.buyer = Buyer
  <2>1. o \in ToolOffer
    <3> HIDE DEF s
    <3>1. i \in DOMAIN s.offers
      BY DEF s
    <3>. QED BY <1>3, <3>1
  <2>2. s.rfq.buyer = Buyer
    BY <1>3 DEF Rfq
  <2>. QED BY <2>1, <2>2, McpAssumption
<1>5. q \in ToolQuote
  <2>1. q = [quote_id |-> s.quoteRevision + 1, buyer |-> s.rfq.buyer, seller |-> o.seller,
             final_price |-> o.price, payment_endpoint |-> o.payment_endpoint, expires_at |-> t]
    BY DEF Api!BuildQuote
  <2>2. s.quoteRevision + 1 \in Nat
    BY <1>3
  <2> HIDE DEF q, o, s
  <2>. QED BY <1>4, <2>1, <2>2 DEF ToolQuote, ToolOffer
<1> HIDE DEF q
<1>6. PICK e : /\ e.type = "WINNER_SELECTED" /\ e.payload = p /\ e.event_id \in Nat
               /\ Api!Accepts(s, e) /\ session' = Api!Apply(s, e)
               /\ session' \in ToolSession => Grown("WINNER_SELECTED", p)
  <2> HIDE DEF p
  <2>. QED BY <1>1, EventAppended
<1>7. s # None /\ Api!TransitionRules[s.state][e.type] \in States
  BY <1>2, <1>6, StatesFollow
<1> DEFINE st == Api!TransitionRules[s.state][e.type]
           as == [s.acceptAttemptsBySeller EXCEPT ![o.seller] = @ + 1]
           n == s.quoteRevision + 1
           m == s.totalAcceptAttempts + 1
           id == o.offer_id
           x == o.seller
<1>8. as \in [Sellers -> Nat] /\ n \in Nat /\ m \in Nat /\ id \in OfferIds /\ x \in Sellers
  <2>1. id \in OfferIds /\ x \in Sellers
    <3> HIDE DEF o
    <3>. QED BY <1>4, McpAssumption DEF ToolOffer
  <2> HIDE DEF s, o
  <2>. QED BY <1>3, <2>1
<1>9. session' = [[s EXCEPT !.selectedSeller = x, !.selectedOfferId = id, !.quoteRevision = n,
                            !.totalAcceptAttempts = m, !.acceptAttemptsBySeller = as,
                            !.unsignedQuote = q, !.commitPendingAt = t,
                            !.buyerSignature = None, !.sellerSignature = None]
                    EXCEPT !.state = st, !.lastEventId = e.event_id]
  <2>1. p.seller = x /\ p.offer_id = id /\ p.quote = q /\ p.timestamp = t
    OBVIOUS
  <2>2. session' = [Api!Winner(s, e) EXCEPT !.state = st, !.lastEventId = e.event_id]
    BY <1>6, <1>7 DEF Api!Apply, Api!ApplyPayload
  <2>3. Api!Winner(s, e) =
          [s EXCEPT !.selectedSeller = x, !.selectedOfferId = id, !.quoteRevision = @ + 1,
                    !.totalAcceptAttempts = @ + 1, !.acceptAttemptsBySeller[x] = @ + 1,
                    !.unsignedQuote = q, !.commitPendingAt = t,
                    !.buyerSignature = None, !.sellerSignature = None]
    BY <1>6, <2>1 DEF Api!Winner
  <2>. QED BY <2>2, <2>3
<1> HIDE DEF s, o, p, st, as, n, m, id, x
<1>10. session' = [s EXCEPT !.selectedSeller = x, !.selectedOfferId = id, !.quoteRevision = n,
                            !.totalAcceptAttempts = m, !.acceptAttemptsBySeller = as,
                            !.unsignedQuote = q, !.commitPendingAt = t,
                            !.buyerSignature = None, !.sellerSignature = None,
                            !.state = st, !.lastEventId = e.event_id]
  BY <1>2, <1>9 DEF ToolSession
<1>11. session' \in ToolSession
  BY <1>2, <1>4, <1>5, <1>6, <1>7, <1>8, <1>10, ZenonT(60) DEF ToolSession, st
<1>12. session'.counters = s.counters /\ session'.unsignedQuote = q
  BY <1>2, <1>10 DEF ToolSession
<1>13. p.offer_id = o.offer_id /\ p.quote = q
  BY DEF p
<1>. QED BY <1>6, <1>11, <1>12, <1>13 DEF s, o

LEMMA QuoteSigned ==
  ASSUME EngineIsTyped, Api!SignQuote
  PROVE  /\ session # None /\ session'.counters = session.counters
         /\ \E p : p.buyer_signature.over = session.unsignedQuote /\ Grown("QUOTE_SIGNED", p)
<1> DEFINE s == session
           g == [by |-> s.rfq.buyer, over |-> s.unsignedQuote]
           p == [seller |-> s.selectedSeller, buyer_signature |-> g]
<1>1. s # None /\ s.unsignedQuote # None /\ Api!AppendEvent("QUOTE_SIGNED", s.rfq.buyer, p)
  BY DEF Api!SignQuote, Api!InState
<1>2. s \in ToolSession
  BY <1>1 DEF EngineIsTyped
<1>3. g \in ToolSignature
  <2>1. s.unsignedQuote \in ToolQuote /\ s.rfq \in Rfq
    BY <1>1, <1>2 DEF ToolSession
  <2> HIDE DEF s
  <2>. QED BY <2>1 DEF ToolSignature, Rfq, Dids
<1> HIDE DEF s, g
<1>4. PICK e : /\ e.type = "QUOTE_SIGNED" /\ e.payload = p /\ e.event_id \in Nat
               /\ Api!Accepts(s, e) /\ session' = Api!Apply(s, e)
               /\ session' \in ToolSession => Grown("QUOTE_SIGNED", p)
  <2> HIDE DEF p
  <2>. QED BY <1>1, EventAppended DEF s
<1>5. s # None /\ Api!TransitionRules[s.state][e.type] \in States
  BY <1>2, <1>4, StatesFollow
<1> DEFINE st == Api!TransitionRules[s.state][e.type]
<1>6. session' = [[s EXCEPT !.buyerSignature = g] EXCEPT !.state = st, !.lastEventId = e.event_id]
  BY <1>4, <1>5 DEF Api!Apply, Api!ApplyPayload
<1> HIDE DEF st
<1>7. session' \in ToolSession /\ session'.counters = s.counters
  BY <1>2, <1>3, <1>4, <1>5, <1>6 DEF ToolSession, st
<1>8. p.buyer_signature.over = s.unsignedQuote
  BY DEF g
<1> HIDE DEF p
<1>. QED BY <1>1, <1>4, <1>7, <1>8 DEF s

LEMMA QuoteCosigned ==
  ASSUME EngineIsTyped, Api!Cosign
  PROVE  session # None /\ session'.counters = session.counters /\ \E p : Grown("QUOTE_COMMITTED", p)
<1> DEFINE s == session
           g == [by |-> s.selectedSeller, over |-> s.unsignedQuote]
           p == [seller |-> s.selectedSeller, seller_signature |-> g]
<1>1. s # None /\ s.unsignedQuote # None /\ Api!AppendEvent("QUOTE_COMMITTED", s.selectedSeller, p)
  BY DEF Api!Cosign, Api!InState
<1>2. s \in ToolSession
  BY <1>1 DEF EngineIsTyped
<1>3. g \in ToolSignature
  <2>1. s.unsignedQuote \in ToolQuote /\ s.selectedSeller \in Sellers \cup {None}
    BY <1>1, <1>2 DEF ToolSession
  <2> HIDE DEF s
  <2>. QED BY <2>1 DEF ToolSignature, Dids
<1> HIDE DEF s, g
<1>4. PICK e : /\ e.type = "QUOTE_COMMITTED" /\ e.payload = p /\ e.event_id \in Nat
               /\ Api!Accepts(s, e) /\ session' = Api!Apply(s, e)
               /\ session' \in ToolSession => Grown("QUOTE_COMMITTED", p)
  <2> HIDE DEF p
  <2>. QED BY <1>1, EventAppended DEF s
<1>5. s # None /\ Api!TransitionRules[s.state][e.type] \in States
  BY <1>2, <1>4, StatesFollow
<1> DEFINE st == Api!TransitionRules[s.state][e.type]
<1>6. session' = [[s EXCEPT !.sellerSignature = g] EXCEPT !.state = st, !.lastEventId = e.event_id]
  BY <1>4, <1>5 DEF Api!Apply, Api!ApplyPayload
<1> HIDE DEF st, p
<1>7. session' \in ToolSession /\ session'.counters = s.counters
  BY <1>2, <1>3, <1>4, <1>5, <1>6 DEF ToolSession, st
<1>. QED BY <1>1, <1>4, <1>7 DEF s

LEMMA CommitmentTimedOut ==
  ASSUME EngineIsTyped, Api!CosignTimeout
  PROVE  session # None /\ session'.counters = session.counters /\ \E p : Grown("COSIGN_TIMEOUT", p)
<1> DEFINE s == session
           p == [seller |-> s.selectedSeller]
<1>1. s # None /\ Api!AppendEvent("COSIGN_TIMEOUT", Api!Engine, p)
  BY DEF Api!CosignTimeout, Api!InState
<1>2. s \in ToolSession
  BY <1>1 DEF EngineIsTyped
<1> HIDE DEF s, p
<1>4. PICK e : /\ e.type = "COSIGN_TIMEOUT" /\ e.payload = p /\ e.event_id \in Nat
               /\ Api!Accepts(s, e) /\ session' = Api!Apply(s, e)
               /\ session' \in ToolSession => Grown("COSIGN_TIMEOUT", p)
  BY <1>1, EventAppended DEF s
<1>5. s # None /\ Api!TransitionRules[s.state][e.type] \in States
  BY <1>2, <1>4, StatesFollow
<1> DEFINE st == Api!TransitionRules[s.state][e.type]
<1>6. session' = [[s EXCEPT !.selectedSeller = None, !.selectedOfferId = None, !.unsignedQuote = None,
                            !.buyerSignature = None, !.sellerSignature = None, !.commitPendingAt = None]
                    EXCEPT !.state = st, !.lastEventId = e.event_id]
  BY <1>4, <1>5 DEF Api!Apply, Api!ApplyPayload, Api!Rollback
<1> HIDE DEF st
<1>7. session' = [s EXCEPT !.selectedSeller = None, !.selectedOfferId = None, !.unsignedQuote = None,
                           !.buyerSignature = None, !.sellerSignature = None, !.commitPendingAt = None,
                           !.state = st, !.lastEventId = e.event_id]
  BY <1>2, <1>6 DEF ToolSession
<1>8. session' \in ToolSession /\ session'.counters = s.counters
  BY <1>2, <1>4, <1>5, <1>7 DEF ToolSession, st
<1>. QED BY <1>1, <1>4, <1>8 DEF s

\* The id NewOffer puts on an offer the engine takes is one of OfferIds: the
\* session holds fewer offers than there are ids.
LEMMA FreshOffer ==
  ASSUME EngineIsTyped, NEW price \in Nat, Api!SubmitOffer(NewOffer(price))
  PROVE  NewOffer(price) \in ToolOffer
<1> DEFINE s == session
           used == {s.offers[i].offer_id : i \in 1..Len(s.offers)}
<1>1. s # None /\ Len(s.offers) < MaxOffersPerSession
  BY DEF Api!SubmitOffer, Api!InState
<1>2. s \in ToolSession
  BY <1>1 DEF EngineIsTyped
<1>3. s.offers \in Seq(ToolOffer) /\ s.rfq.deadline \in Nat /\ Len(s.offers) \in Nat
      /\ DOMAIN s.offers = 1..Len(s.offers)
  BY <1>2 DEF ToolSession, Rfq
<1>4. \E id \in OfferIds : \A i \in DOMAIN s.offers : s.offers[i].offer_id # id
  <2> SUFFICES ASSUME \A id \in OfferIds : \E i \in DOMAIN s.offers : s.offers[i].offer_id = id
               PROVE  FALSE
    OBVIOUS
  <2> HIDE DEF s
  <2>1. IsFiniteSet(1..Len(s.offers)) /\ Cardinality(1..Len(s.offers)) = Len(s.offers)
    BY <1>3, FS_Interval
  <2>2. IsFiniteSet(used) /\ Cardinality(used) <= Cardinality(1..Len(s.offers))
    <3> DEFINE f == [i \in 1..Len(s.offers) |-> s.offers[i].offer_id]
    <3>1. f \in Surjection(1..Len(s.offers), used)
      BY DEF Surjection
    <3> HIDE DEF f, used
    <3>. QED BY <2>1, <3>1, FS_Surjection
  <2>3. OfferIds \subseteq used
    BY <1>3
  <2> HIDE DEF used
  <2>4. IsFiniteSet(OfferIds) /\ Cardinality(OfferIds) <= Cardinality(used)
    BY <2>2, <2>3, FS_Subset
  <2>5. Cardinality(OfferIds) > MaxOffersPerSession /\ MaxOffersPerSession \in Nat
    BY <2>4, McpAssumption
  <2>6. Cardinality(OfferIds) \in Nat /\ Cardinality(used) \in Nat
    BY <2>2, <2>4, FS_CardinalityType
  <2>. QED BY <1>1, <1>3, <2>1, <2>2, <2>4, <2>5, <2>6 DEF s
<1> DEFINE id == CHOOSE x \in OfferIds : \A i \in DOMAIN s.offers : s.offers[i].offer_id # x
           u == CHOOSE x \in Endpoints : TRUE
<1>5. id \in OfferIds
  BY <1>4
<1>6. u \in Endpoints
  BY McpAssumption
<1>7. NewOffer(price) = [offer_id |-> id, seller |-> Seller, price |-> price, payment_endpoint |-> u,
                         valid_until |-> s.rfq.deadline]
  BY DEF NewOffer
<1> HIDE DEF id, u
<1>. QED BY <1>3, <1>5, <1>6, <1>7 DEF ToolOffer

-----------------------------------------------------------------------------
(***************************************************************************)
(* What a step leaves behind, part by part.                                *)
(***************************************************************************)
\* The engine has taken a step these tools may cause, or none.
EngineMoved ==
  /\ EngineIsTyped' /\ ProvenCountersWithinBudget' /\ OnlyRoundingUnderbids'
  /\ \A o, q : SelectedIn(log, o, q) => SelectedIn(log', o, q)
  /\ \A q : SignedIn(log, q) => SignedIn(log', q)
  /\ session # None => session' # None

\* An event that respects the limits.
LEMMA EngineGrows ==
  ASSUME McpInv, NEW type, NEW payload, Grown(type, payload), given' = given,
         type = "COUNTER_SENT" /\ ZkAvailable => payload.price <= Hard,
         type = "OFFER_SUBMITTED" => IsFairPrice(given, payload.price)
  PROVE  EngineMoved
<1>1. ProvenCountersWithinBudget /\ OnlyRoundingUnderbids
  BY DEF McpInv, PostsAreBounded
<1>2. /\ EngineIsTyped' /\ session' # None
      /\ \A i \in DOMAIN log : i \in DOMAIN log' /\ log'[i] = log[i]
      /\ \A i \in DOMAIN log' : i \in DOMAIN log \/ (log'[i].type = type /\ log'[i].payload = payload)
  BY DEF Grown
<1>3. ProvenCountersWithinBudget'
  BY <1>1, <1>2 DEF ProvenCountersWithinBudget
<1>4. OnlyRoundingUnderbids'
  BY <1>1, <1>2 DEF OnlyRoundingUnderbids, IsFairPrice
<1>5. \A o, q : SelectedIn(log, o, q) => SelectedIn(log', o, q)
  BY <1>2 DEF SelectedIn
<1>6. \A q : SignedIn(log, q) => SignedIn(log', q)
  BY <1>2 DEF SignedIn
<1>. QED BY <1>2, <1>3, <1>4, <1>5, <1>6 DEF EngineMoved

LEMMA EngineStays ==
  ASSUME McpInv, UNCHANGED engineVars, given' = given
  PROVE  EngineMoved /\ session' = session
<1>1. log' = log /\ session' = session
  BY DEF engineVars
<1>2. ProvenCountersWithinBudget /\ OnlyRoundingUnderbids /\ EngineIsTyped
  BY DEF McpInv, PostsAreBounded
<1>. QED BY <1>1, <1>2 DEF EngineMoved, ProvenCountersWithinBudget, OnlyRoundingUnderbids, EngineIsTyped

\* What was selected and signed is remembered in two events.
LEMMA SignedSelection ==
  SelectionWasSigned <=>
    (bs # None /\ bs.selected # None => \E q : SelectedIn(log, bs.selected, q) /\ SignedIn(log, q))
BY DEF SelectionWasSigned, SelectedIn, SignedIn

\* The buyer's calls: all but one are what they were, or idle.
LEMMA BuyerCallsKept ==
  ASSUME McpInv, EngineMoved, DOMAIN bcall' = Calls,
         \A d \in Calls : bcall'[d] \in {bcall[d], Idle} \/ SoundBuyerCall(log', bcall'[d])
  PROVE  BuyerCallsAreSound'
<1>1. BuyerCallsAreSound
  BY DEF McpInv
<1>2. \A k : SoundBuyerCall(log, k) => SoundBuyerCall(log', k)
  BY DEF EngineMoved, SoundBuyerCall
<1>3. SoundBuyerCall(log', Idle)
  BY DEF SoundBuyerCall, Idle
<1>. QED BY <1>1, <1>2, <1>3 DEF BuyerCallsAreSound

\* The rounds, in a step that counts none.
LEMMA RoundsKept ==
  ASSUME McpInv, bs' # None => bs # None /\ bs'.round = bs.round,
         session # None => session' # None /\ session'.counters = session.counters,
         \A d \in Calls : bcall'[d].pc = "countering" => bcall'[d] = bcall[d]
  PROVE  RoundsStayAhead' /\ RoundsAreCounted'
<1>1. RoundsStayAhead /\ RoundsAreCounted
  BY DEF McpInv, MemoryAgreesWithLog
<1>2. bs' # None => session # None
  BY <1>1 DEF RoundsAreCounted
<1>3. RoundsStayAhead'
  BY <1>1, <1>2 DEF RoundsStayAhead
<1>4. RoundsAreCounted'
  BY <1>1, <1>2 DEF RoundsAreCounted
<1>. QED BY <1>3, <1>4

\* The selection, in a step that makes none.
LEMMA SelectionKept ==
  ASSUME McpInv, EngineMoved, bs' # None /\ bs'.selected # None => bs # None /\ bs'.selected = bs.selected
  PROVE  SelectionWasSigned'
<1>1. SelectionWasSigned
  BY DEF McpInv, MemoryAgreesWithLog
<1>2. SelectionWasSigned' <=>
        (bs' # None /\ bs'.selected # None => \E q : SelectedIn(log', bs'.selected, q) /\ SignedIn(log', q))
  BY DEF SelectionWasSigned, SelectedIn, SignedIn
<1>. QED BY <1>1, <1>2, SignedSelection DEF EngineMoved

\* The seller's calls.
LEMMA SellerCallsKept ==
  ASSUME McpInv, given' = given, DOMAIN scall' = Calls,
         given /\ ss' # None => ss'.floor = Floor,
         \A d \in Calls : scall'[d] \in {scall[d], Idle} \/ SoundSellerCall(given, scall'[d])
  PROVE  SellerCallsAreSound'
<1>1. SellerCallsAreSound
  BY DEF McpInv
<1>2. SoundSellerCall(given, Idle)
  BY DEF SoundSellerCall, Idle
<1>. QED BY <1>1, <1>2 DEF SellerCallsAreSound

\* The invariant, side by side.
BuyerSide ==
  /\ bs = None \/ bs \in [round : Nat, selected : OfferIds \cup {None}]
  /\ BuyerCallsAreSound /\ MemoryAgreesWithLog /\ RoundsAreCounted

SellerSide ==
  /\ ss = None \/ ss \in SellerSession
  /\ attempted \in BOOLEAN /\ listed \in {"no", "known", "forgotten"}
  /\ style \in {None, "firm", "deadline-sensitive"}
  /\ SellerCallsAreSound

LEMMA Sides ==
  ASSUME McpInv
  PROVE  BuyerSide /\ SellerSide /\ EngineIsTyped /\ made \in [{"buyer", "seller"} -> Nat] /\ given \in BOOLEAN
BY DEF McpInv, PostsAreBounded, TypeOK, CountsAreTyped, BuyerSide, SellerSide

LEMMA Assembled ==
  ASSUME McpInv, EngineMoved, BuyerSide', SellerSide', made' \in [{"buyer", "seller"} -> Nat],
         given' = given
  PROVE  McpInv'
BY DEF McpInv, PostsAreBounded, TypeOK, CountsAreTyped, BuyerSide, SellerSide, EngineMoved

LEMMA Counted ==
  ASSUME McpInv, NEW side \in {"buyer", "seller"}, Count(side)
  PROVE  made[side] \in Nat /\ made' \in [{"buyer", "seller"} -> Nat] /\ given' = given
<1>1. made \in [{"buyer", "seller"} -> Nat]
  BY Sides
<1>2. made' = [made EXCEPT ![side] = @ + 1] /\ given' = given
  BY DEF Count
<1>3. made[side] \in Nat /\ made[side] + 1 \in Nat
  BY <1>1
<1>. QED BY <1>1, <1>2, <1>3

LEMMA NotCounted ==
  ASSUME McpInv, NoCount
  PROVE  made' \in [{"buyer", "seller"} -> Nat] /\ given' = given
BY Sides DEF NoCount

LEMMA OneBuyerCall ==
  ASSUME McpInv, NEW c \in Calls, NEW k, BuyerCall(c, k)
  PROVE  DOMAIN bcall' = Calls /\ bcall'[c] = k /\ \A d \in Calls : d # c => bcall'[d] = bcall[d]
<1>1. DOMAIN bcall = Calls
  BY DEF McpInv, BuyerCallsAreSound
<1>. QED BY <1>1 DEF BuyerCall

LEMMA OneSellerCall ==
  ASSUME McpInv, NEW c \in Calls, NEW k, SellerCall(c, k)
  PROVE  DOMAIN scall' = Calls /\ scall'[c] = k /\ \A d \in Calls : d # c => scall'[d] = scall[d]
<1>1. DOMAIN scall = Calls
  BY DEF McpInv, SellerCallsAreSound
<1>. QED BY <1>1 DEF SellerCall

\* A step in which the buyer's server has no part.
LEMMA BuyerUntouched ==
  ASSUME McpInv, EngineMoved, UNCHANGED buyerVars,
         session # None => session'.counters = session.counters
  PROVE  BuyerSide'
<1>1. bs' = bs /\ bcall' = bcall
  BY DEF buyerVars
<1>2. BuyerSide /\ DOMAIN bcall = Calls
  BY Sides DEF McpInv, BuyerCallsAreSound
<1>3. BuyerCallsAreSound'
  BY <1>1, <1>2, BuyerCallsKept
<1>4. RoundsStayAhead' /\ RoundsAreCounted'
  BY <1>1, RoundsKept DEF EngineMoved
<1>5. SelectionWasSigned'
  BY <1>1, SelectionKept
<1>. QED BY <1>1, <1>2, <1>3, <1>4, <1>5 DEF BuyerSide, MemoryAgreesWithLog

\* A step in which only a call of the buyer changes, and is not to send a counter.
LEMMA BuyerCallMoves ==
  ASSUME McpInv, EngineMoved, NEW c \in Calls, NEW k, BuyerCall(c, k), bs' = bs,
         k.pc # "countering", SoundBuyerCall(log', k),
         session # None => session'.counters = session.counters
  PROVE  BuyerSide'
<1>1. DOMAIN bcall' = Calls /\ bcall'[c] = k /\ \A d \in Calls : d # c => bcall'[d] = bcall[d]
  BY OneBuyerCall
<1>2. BuyerSide
  BY Sides
<1>3. BuyerCallsAreSound'
  BY <1>1, BuyerCallsKept
<1>4. RoundsStayAhead' /\ RoundsAreCounted'
  BY <1>1, RoundsKept DEF EngineMoved
<1>5. SelectionWasSigned'
  BY SelectionKept
<1>. QED BY <1>2, <1>3, <1>4, <1>5 DEF BuyerSide, MemoryAgreesWithLog

\* An idle call is sound, whatever the log.
LEMMA IdleIsSound ==
  /\ Idle.pc # "countering"
  /\ \A lg : SoundBuyerCall(lg, Idle)
  /\ \A g : SoundSellerCall(g, Idle)
BY DEF Idle, SoundBuyerCall, SoundSellerCall

\* A step in which the seller's server has no part.
LEMMA SellerUntouched ==
  ASSUME McpInv, UNCHANGED sellerVars, given' = given
  PROVE  SellerSide'
<1>1. ss' = ss /\ style' = style /\ attempted' = attempted /\ listed' = listed /\ scall' = scall
  BY DEF sellerVars
<1>2. SellerSide
  BY Sides
<1>3. SellerCallsAreSound'
  BY <1>1, <1>2 DEF SellerSide, SellerCallsAreSound
<1>. QED BY <1>1, <1>2, <1>3 DEF SellerSide

\* A step in which only a call of the seller changes.
LEMMA SellerCallMoves ==
  ASSUME McpInv, NEW c \in Calls, NEW k, SellerCall(c, k), SoundSellerCall(given, k),
         ss' = ss, given' = given
  PROVE  SellerCallsAreSound'
<1>1. DOMAIN scall' = Calls /\ scall'[c] = k /\ \A d \in Calls : d # c => scall'[d] = scall[d]
  BY OneSellerCall
<1>2. given /\ ss' # None => ss'.floor = Floor
  BY DEF McpInv, SellerCallsAreSound
<1>. QED BY <1>1, <1>2, SellerCallsKept

-----------------------------------------------------------------------------
(***************************************************************************)
(* The steps of the buyer's tools.                                         *)
(***************************************************************************)
LEMMA CallPostRfqKeeps ==
  ASSUME McpInv, NEW c \in Calls, CallPostRfq(c)
  PROVE  McpInv'
<1> DEFINE k == [pc |-> "posting"]
<1>1. Count("buyer") /\ BuyerCall(c, k) /\ UNCHANGED engineVars /\ UNCHANGED sellerVars /\ bs' = bs
  BY DEF CallPostRfq, engineVars, sellerVars
<1>2. made' \in [{"buyer", "seller"} -> Nat] /\ given' = given
  BY <1>1, Counted
<1>3. EngineMoved /\ session' = session
  BY <1>1, <1>2, EngineStays
<1>4. SellerSide'
  BY <1>1, <1>2, SellerUntouched
<1>5. k.pc # "countering" /\ SoundBuyerCall(log', k)
  BY DEF SoundBuyerCall
<1> HIDE DEF k
<1>6. BuyerSide'
  BY <1>1, <1>3, <1>5, BuyerCallMoves
<1>. QED BY <1>2, <1>3, <1>4, <1>6, Assembled

\* The engine takes the RFQ: the counters start.
LEMMA ServePostRfqKeeps ==
  ASSUME McpInv, NEW c \in Calls, ServePostRfq(c)
  PROVE  McpInv'
<1>1. BuyerCall(c, Idle) /\ UNCHANGED sellerVars /\ NoCount
  BY DEF ServePostRfq
<1>2. made' \in [{"buyer", "seller"} -> Nat] /\ given' = given
  BY <1>1, NotCounted
<1>3. SellerSide'
  BY <1>1, <1>2, SellerUntouched
<1>4. CASE UNCHANGED engineVars /\ bs' = bs
  <2>1. EngineMoved /\ session' = session
    BY <1>2, <1>4, EngineStays
  <2>2. BuyerSide'
    BY <1>1, <1>4, <2>1, BuyerCallMoves, IdleIsSound
  <2>. QED BY <1>2, <1>3, <2>1, <2>2, Assembled
<1>5. ASSUME NEW d \in Times, Api!CreateRfq(d), bs' = [round |-> 0, selected |-> None]
      PROVE  McpInv'
  <2>1. session = None /\ session'.counters = <<>> /\ Grown("RFQ_CREATED", [buyer |-> Buyer, deadline |-> d])
    BY <1>5, Sides, RfqPosted
  <2>2. EngineMoved
    BY <1>2, <2>1, EngineGrows
  <2>3. /\ DOMAIN bcall' = Calls /\ bcall'[c] = Idle
        /\ \A e \in Calls : e # c => bcall'[e] = bcall[e]
    BY <1>1, OneBuyerCall
  <2>4. BuyerCallsAreSound'
    BY <2>2, <2>3, BuyerCallsKept
  <2>5. \A e \in Calls : bcall'[e].pc # "countering"
    <3>1. \A e \in Calls : bcall[e].pc # "countering"
      BY <2>1 DEF McpInv, RoundsAreCounted
    <3>. QED BY <2>3, <3>1, IdleIsSound
  <2>6. RoundsStayAhead' /\ RoundsAreCounted'
    <3>1. session' # None
      BY <2>1 DEF Grown
    <3>. QED BY <2>1, <2>5, <3>1 DEF RoundsStayAhead, RoundsAreCounted
  <2>7. SelectionWasSigned'
    BY <1>5, <2>2, SelectionKept
  <2>8. BuyerSide'
    BY <1>5, <2>4, <2>6, <2>7 DEF BuyerSide, MemoryAgreesWithLog
  <2>. QED BY <1>2, <1>3, <2>2, <2>8, Assembled
<1>. QED BY <1>4, <1>5 DEF ServePostRfq, Refused

\* What the sanitizer lets a buyer offer.
LEMMA CounterPriceIsSafe ==
  ASSUME NEW b, NEW p \in TypedPrices
  PROVE  /\ CounterSafePrice(b, p) \in Nat
         /\ b # None => CounterSafePrice(b, p) <= Hard
<1> DEFINE h == IF b = None THEN p ELSE Hard
           low == Min({p, h})
<1>1. p \in Nat /\ p > 0 /\ h \in Nat /\ 1 <= Hard /\ Hard \in Nat
  BY McpAssumption DEF MinPrice
<1>2. low = (IF p <= h THEN p ELSE h)
  BY <1>1, MaxOfTwo
<1>3. CounterSafePrice(b, p) = Max({low, 1})
  BY DEF CounterSafePrice, SanitizeBuyerAction, MinPrice
<1>4. low \in Nat /\ (b # None => low <= Hard)
  BY <1>1, <1>2
<1> HIDE DEF low
<1>5. Max({low, 1}) = (IF low >= 1 THEN low ELSE 1)
  BY <1>4, MaxOfTwo
<1>. QED BY <1>1, <1>3, <1>4, <1>5

\* The round is counted before the counter leaves.
LEMMA CallCounterKeeps ==
  ASSUME McpInv, NEW c \in Calls, NEW p \in TypedPrices, CallCounter(c, p)
  PROVE  McpInv'
<1> DEFINE r == CounterRound(bs)
           price == CounterSafePrice(bs, p)
           n == [counter_id |-> made.buyer, round |-> r, from |-> Buyer, to |-> Seller,
                 price |-> price, proof |-> bs # None /\ ZkAvailable]
           k == [pc |-> "countering", counter |-> n]
<1>1. /\ session # None /\ Count("buyer") /\ BuyerCall(c, k) /\ UNCHANGED engineVars
      /\ UNCHANGED sellerVars
      /\ bs' = IF bs = None THEN None ELSE [bs EXCEPT !.round = r]
  BY DEF CallCounter, engineVars, sellerVars
<1>2. made.buyer \in Nat /\ made' \in [{"buyer", "seller"} -> Nat] /\ given' = given
  BY <1>1, Counted
<1>3. EngineMoved /\ session' = session
  BY <1>1, <1>2, EngineStays
<1>4. SellerSide'
  BY <1>1, <1>2, SellerUntouched
<1>5. BuyerSide
  BY Sides
<1>6. r \in Nat /\ (bs # None => bs.round \in Nat /\ r = bs.round + 1)
  BY <1>5 DEF BuyerSide, CounterRound
<1>7. price \in Nat /\ (bs # None => price <= Hard)
  BY CounterPriceIsSafe
<1> HIDE DEF r, price
<1>8. n \in ToolCounter /\ (n.proof => n.price <= Hard)
  BY <1>2, <1>6, <1>7, McpAssumption DEF ToolCounter
<1>9. n.round = r /\ k.pc = "countering" /\ k.counter = n
  OBVIOUS
<1> HIDE DEF n
<1>10. SoundBuyerCall(log', k)
  BY <1>8 DEF SoundBuyerCall
<1> HIDE DEF k
<1>11. DOMAIN bcall' = Calls /\ bcall'[c] = k /\ \A d \in Calls : d # c => bcall'[d] = bcall[d]
  BY <1>1, OneBuyerCall
<1>12. BuyerCallsAreSound'
  BY <1>3, <1>10, <1>11, BuyerCallsKept
<1>13. /\ bs' # None => bs # None /\ bs'.round = r /\ bs'.selected = bs.selected
       /\ bs' = None \/ bs' \in [round : Nat, selected : OfferIds \cup {None}]
  BY <1>1, <1>5, <1>6 DEF BuyerSide
<1>14. SelectionWasSigned'
  BY <1>3, <1>13, SelectionKept
<1>15. /\ RoundsStayAhead /\ RoundsAreCounted
  BY DEF McpInv, MemoryAgreesWithLog
<1>16. ASSUME bs' # None
       PROVE  /\ \A i \in DOMAIN session.counters : session.counters[i].round <= r
              /\ \A d \in Calls : d # c /\ bcall[d].pc = "countering" => bcall[d].counter.round < r
  <2>1. bs # None /\ bs.round \in Nat /\ r = bs.round + 1
    BY <1>6, <1>13, <1>16
  <2>2. ASSUME NEW i \in DOMAIN session.counters PROVE session.counters[i].round <= r
    <3>1. session.counters[i].round <= bs.round
      BY <1>15, <2>1 DEF RoundsStayAhead
    <3>2. session.counters[i].round \in Nat
      <4>1. session.counters \in Seq(ToolCounter)
        BY <1>1 DEF McpInv, EngineIsTyped, ToolSession
      <4>2. session.counters[i] \in ToolCounter
        BY <4>1
      <4>. QED BY <4>2 DEF ToolCounter
    <3>. QED BY <2>1, <3>1, <3>2
  <2>3. ASSUME NEW d \in Calls, bcall[d].pc = "countering" PROVE bcall[d].counter.round < r
    <3>1. bcall[d].counter.round <= bs.round
      BY <1>15, <2>1, <2>3 DEF RoundsAreCounted
    <3>2. bcall[d].counter.round \in Nat
      BY <2>3 DEF McpInv, BuyerCallsAreSound, SoundBuyerCall, ToolCounter
    <3>. QED BY <2>1, <3>1, <3>2
  <2>. QED BY <2>2, <2>3
<1>17. ASSUME NEW d \in Calls, d # c, bcall[d].pc = "countering" PROVE bcall[d].counter.round \in Nat
  BY <1>17 DEF McpInv, BuyerCallsAreSound, SoundBuyerCall, ToolCounter
<1>18. RoundsStayAhead'
  <2> SUFFICES ASSUME bs' # None PROVE RoundsStayAhead'
    BY DEF RoundsStayAhead
  <2>1. \A i \in DOMAIN session'.counters : session'.counters[i].round <= bs'.round
    BY <1>3, <1>13, <1>16
  <2>2. ASSUME NEW x \in Calls, NEW y \in Calls, x # y, bcall'[x].pc = "countering", bcall'[y].pc = "countering"
        PROVE  bcall'[x].counter.round # bcall'[y].counter.round
    <3>1. CASE x = c
      <4>1. bcall'[y] = bcall[y] /\ bcall'[x].counter.round = r
        BY <1>9, <1>11, <2>2, <3>1
      <4>2. bcall[y].counter.round < r /\ bcall[y].counter.round \in Nat
        BY <1>16, <1>17, <2>2, <3>1, <4>1
      <4>. QED BY <1>6, <4>1, <4>2
    <3>2. CASE y = c
      <4>1. bcall'[x] = bcall[x] /\ bcall'[y].counter.round = r
        BY <1>9, <1>11, <2>2, <3>2
      <4>2. bcall[x].counter.round < r /\ bcall[x].counter.round \in Nat
        BY <1>16, <1>17, <2>2, <3>2, <4>1
      <4>. QED BY <1>6, <4>1, <4>2
    <3>3. CASE x # c /\ y # c
      BY <1>11, <1>13, <1>15, <2>2, <3>3 DEF RoundsStayAhead
    <3>. QED BY <3>1, <3>2, <3>3
  <2>. QED BY <2>1, <2>2 DEF RoundsStayAhead
<1>19. RoundsAreCounted'
  <2>1. ASSUME bs' # None, NEW d \in Calls, bcall'[d].pc = "countering"
        PROVE  bcall'[d].counter.round <= bs'.round
    <3>1. CASE d = c
      BY <1>6, <1>9, <1>11, <1>13, <2>1, <3>1
    <3>2. CASE d # c
      BY <1>6, <1>11, <1>13, <1>16, <1>17, <2>1, <3>2
    <3>. QED BY <3>1, <3>2
  <2>. QED BY <1>1, <1>3, <2>1 DEF RoundsAreCounted
<1>20. BuyerSide'
  BY <1>12, <1>13, <1>14, <1>18, <1>19 DEF BuyerSide, MemoryAgreesWithLog
<1>. QED BY <1>2, <1>3, <1>4, <1>20, Assembled

\* A counter the engine takes was within the budget, and its round was counted.
LEMMA ServeCounterKeeps ==
  ASSUME McpInv, NEW c \in Calls, ServeCounter(c)
  PROVE  McpInv'
<1> DEFINE n == bcall[c].counter
<1>1. /\ bcall[c].pc = "countering" /\ BuyerCall(c, Idle) /\ bs' = bs /\ UNCHANGED sellerVars /\ NoCount
      /\ CounterAtEngine(n) \/ UNCHANGED engineVars
  BY DEF ServeCounter, Refused, sellerVars
<1>2. made' \in [{"buyer", "seller"} -> Nat] /\ given' = given
  BY <1>1, NotCounted
<1>3. SellerSide'
  BY <1>1, <1>2, SellerUntouched
<1>4. CASE UNCHANGED engineVars
  <2>1. EngineMoved /\ session' = session
    BY <1>2, <1>4, EngineStays
  <2>2. BuyerSide'
    BY <1>1, <2>1, BuyerCallMoves, IdleIsSound
  <2>. QED BY <1>2, <1>3, <2>1, <2>2, Assembled
<1>5. CASE CounterAtEngine(n)
  <2>1. n \in ToolCounter /\ (n.proof => n.price <= Hard)
    BY <1>1 DEF McpInv, BuyerCallsAreSound, SoundBuyerCall
  <2>2. (ZkAvailable => n.proof) /\ Api!SendCounter(n)
    BY <1>5 DEF CounterAtEngine
  <2>3. bs # None => n.round <= bs.round
    BY <1>1 DEF McpInv, RoundsAreCounted
  <2> HIDE DEF n
  <2>4. /\ session # None /\ session.counters \in Seq(ToolCounter)
        /\ session'.counters = Append(session.counters, n) /\ Grown("COUNTER_SENT", n)
    BY <2>1, <2>2, Sides, CounterPosted
  <2>5. EngineMoved
    BY <1>2, <2>1, <2>2, <2>4, EngineGrows
  <2>6. DOMAIN bcall' = Calls /\ bcall'[c] = Idle /\ \A d \in Calls : d # c => bcall'[d] = bcall[d]
    BY <1>1, OneBuyerCall
  <2>7. BuyerCallsAreSound'
    BY <2>5, <2>6, BuyerCallsKept
  <2>8. SelectionWasSigned'
    BY <1>1, <2>5, SelectionKept
  <2>9. RoundsStayAhead /\ RoundsAreCounted
    BY DEF McpInv, MemoryAgreesWithLog
  <2>10. \A d \in Calls : bcall'[d].pc = "countering" => bcall'[d] = bcall[d]
    BY <2>6, IdleIsSound
  <2>11. ASSUME bs # None PROVE \A i \in DOMAIN session'.counters : session'.counters[i].round <= bs.round
    <3>1. \A i \in DOMAIN session.counters : session.counters[i].round <= bs.round
      BY <2>9, <2>11 DEF RoundsStayAhead
    <3>2. \A i \in DOMAIN session'.counters :
             \/ i \in DOMAIN session.counters /\ session'.counters[i] = session.counters[i]
             \/ session'.counters[i] = n
      BY <2>1, <2>4, AppendGrows
    <3>. QED BY <2>3, <2>11, <3>1, <3>2
  <2>12. RoundsStayAhead'
    BY <1>1, <2>9, <2>10, <2>11 DEF RoundsStayAhead
  <2>13. RoundsAreCounted'
    BY <1>1, <2>4, <2>9, <2>10 DEF RoundsAreCounted, Grown
  <2>14. BuyerSide'
    BY <1>1, <2>7, <2>8, <2>12, <2>13, Sides DEF BuyerSide, MemoryAgreesWithLog
  <2>. QED BY <1>2, <1>3, <2>5, <2>14, Assembled
<1>. QED BY <1>1, <1>4, <1>5

LEMMA CallAcceptKeeps ==
  ASSUME McpInv, NEW c \in Calls, NEW id \in OfferIds, CallAccept(c, id)
  PROVE  McpInv'
<1> DEFINE k == [pc |-> "accepting", revision |-> session.lastEventId, offer_id |-> id]
<1>1. Count("buyer") /\ BuyerCall(c, k) /\ UNCHANGED engineVars /\ UNCHANGED sellerVars /\ bs' = bs
  BY DEF CallAccept, engineVars, sellerVars
<1>2. made' \in [{"buyer", "seller"} -> Nat] /\ given' = given
  BY <1>1, Counted
<1>3. EngineMoved /\ session' = session
  BY <1>1, <1>2, EngineStays
<1>4. SellerSide'
  BY <1>1, <1>2, SellerUntouched
<1>5. k.pc # "countering" /\ SoundBuyerCall(log', k)
  BY DEF SoundBuyerCall
<1> HIDE DEF k
<1>6. BuyerSide'
  BY <1>1, <1>3, <1>5, BuyerCallMoves
<1>. QED BY <1>2, <1>3, <1>4, <1>6, Assembled

\* The engine selects the offer the call names.
LEMMA AcceptSelects ==
  ASSUME McpInv, NEW call, AcceptAtEngine(call), given' = given
  PROVE  /\ EngineMoved /\ session # None /\ session'.counters = session.counters
         /\ SelectedIn(log', call.offer_id, session'.unsignedQuote)
<1>1. PICK i \in DOMAIN session.offers, t \in Times :
        session.offers[i].offer_id = call.offer_id /\ Api!SelectWinner(i, t, t)
  BY DEF AcceptAtEngine
<1>2. session # None
  BY <1>1 DEF Api!SelectWinner, Api!InState
<1>3. session'.counters = session.counters
  BY <1>1, <1>2, Sides, WinnerSelected
<1>4. PICK p : /\ p.offer_id = session.offers[i].offer_id /\ p.quote = session'.unsignedQuote
               /\ Grown("WINNER_SELECTED", p)
  BY <1>1, <1>2, Sides, WinnerSelected
<1>5. EngineMoved
  BY <1>4, EngineGrows
<1>6. SelectedIn(log', call.offer_id, session'.unsignedQuote)
  BY <1>1, <1>4 DEF SelectedIn, Grown
<1>. QED BY <1>2, <1>3, <1>5, <1>6

LEMMA ServeAcceptKeeps ==
  ASSUME McpInv, NEW c \in Calls, ServeAccept(c)
  PROVE  McpInv'
<1>1. bcall[c].pc = "accepting" /\ bs' = bs /\ UNCHANGED sellerVars /\ NoCount
  BY DEF ServeAccept, sellerVars
<1>2. made' \in [{"buyer", "seller"} -> Nat] /\ given' = given
  BY <1>1, NotCounted
<1>3. SellerSide'
  BY <1>1, <1>2, SellerUntouched
<1>4. CASE UNCHANGED engineVars /\ BuyerCall(c, Idle)
  <2>1. EngineMoved /\ session' = session
    BY <1>2, <1>4, EngineStays
  <2>2. BuyerSide'
    BY <1>1, <1>4, <2>1, BuyerCallMoves, IdleIsSound
  <2>. QED BY <1>2, <1>3, <2>1, <2>2, Assembled
<1> DEFINE k == [pc |-> "signing", quote |-> session'.unsignedQuote, offer_id |-> bcall[c].offer_id]
<1>5. CASE AcceptAtEngine(bcall[c]) /\ BuyerCall(c, k)
  <2>1. /\ EngineMoved /\ session'.counters = session.counters
        /\ SelectedIn(log', bcall[c].offer_id, session'.unsignedQuote)
    BY <1>2, <1>5, AcceptSelects
  <2>2. bcall[c].offer_id \in OfferIds
    BY <1>1 DEF McpInv, BuyerCallsAreSound, SoundBuyerCall
  <2>3. k.pc # "countering" /\ SoundBuyerCall(log', k)
    BY <2>1, <2>2 DEF SoundBuyerCall
  <2> HIDE DEF k
  <2>4. BuyerSide'
    BY <1>1, <1>5, <2>1, <2>3, BuyerCallMoves
  <2>. QED BY <1>2, <1>3, <2>1, <2>4, Assembled
<1>. QED BY <1>4, <1>5 DEF ServeAccept, Refused

\* The engine takes the buyer's signature on the quote of the call.
LEMMA SignSigns ==
  ASSUME McpInv, NEW call, SignAtEngine(call), given' = given
  PROVE  EngineMoved /\ session # None /\ session'.counters = session.counters /\ SignedIn(log', call.quote)
<1>1. session.unsignedQuote = call.quote /\ Api!SignQuote
  BY DEF SignAtEngine
<1>2. session # None /\ session'.counters = session.counters
  BY <1>1, Sides, QuoteSigned
<1>3. PICK p : p.buyer_signature.over = session.unsignedQuote /\ Grown("QUOTE_SIGNED", p)
  BY <1>1, Sides, QuoteSigned
<1>4. EngineMoved
  BY <1>3, EngineGrows
<1>5. SignedIn(log', call.quote)
  BY <1>1, <1>3 DEF SignedIn, Grown
<1>. QED BY <1>2, <1>4, <1>5

\* The selection is noted once the signature is in.
LEMMA ServeSignKeeps ==
  ASSUME McpInv, NEW c \in Calls, ServeSign(c)
  PROVE  McpInv'
<1> DEFINE o == bcall[c].offer_id
<1>1. bcall[c].pc = "signing" /\ BuyerCall(c, Idle) /\ UNCHANGED sellerVars /\ NoCount
  BY DEF ServeSign
<1>2. made' \in [{"buyer", "seller"} -> Nat] /\ given' = given
  BY <1>1, NotCounted
<1>3. SellerSide'
  BY <1>1, <1>2, SellerUntouched
<1>4. CASE UNCHANGED engineVars /\ bs' = bs
  <2>1. EngineMoved /\ session' = session
    BY <1>2, <1>4, EngineStays
  <2>2. BuyerSide'
    BY <1>1, <1>4, <2>1, BuyerCallMoves, IdleIsSound
  <2>. QED BY <1>2, <1>3, <2>1, <2>2, Assembled
<1>5. CASE SignAtEngine(bcall[c]) /\ bs' = Select(bs, o)
  <2>1. EngineMoved /\ session # None /\ session'.counters = session.counters /\ SignedIn(log', bcall[c].quote)
    BY <1>2, <1>5, SignSigns
  <2>2. o \in OfferIds /\ SelectedIn(log, o, bcall[c].quote)
    BY <1>1 DEF McpInv, BuyerCallsAreSound, SoundBuyerCall
  <2>3. SelectedIn(log', o, bcall[c].quote)
    BY <2>1, <2>2 DEF EngineMoved
  <2> HIDE DEF o
  <2>4. BuyerSide
    BY Sides
  <2>5. /\ bs' # None => bs # None /\ bs'.round = bs.round /\ bs'.selected = o
        /\ bs' = None \/ bs' \in [round : Nat, selected : OfferIds \cup {None}]
    BY <1>5, <2>2, <2>4 DEF BuyerSide, Select
  <2>6. DOMAIN bcall' = Calls /\ bcall'[c] = Idle /\ \A d \in Calls : d # c => bcall'[d] = bcall[d]
    BY <1>1, OneBuyerCall
  <2>7. BuyerCallsAreSound'
    BY <2>1, <2>6, BuyerCallsKept
  <2>8. RoundsStayAhead' /\ RoundsAreCounted'
    <3>1. \A d \in Calls : bcall'[d].pc = "countering" => bcall'[d] = bcall[d]
      BY <2>6, IdleIsSound
    <3>. QED BY <2>1, <2>5, <3>1, RoundsKept DEF EngineMoved
  <2>9. SelectionWasSigned'
    <3>1. SelectionWasSigned' <=>
            (bs' # None /\ bs'.selected # None => \E q : SelectedIn(log', bs'.selected, q) /\ SignedIn(log', q))
      BY DEF SelectionWasSigned, SelectedIn, SignedIn
    <3>. QED BY <2>1, <2>3, <2>5, <3>1
  <2>10. BuyerSide'
    BY <2>5, <2>7, <2>8, <2>9 DEF BuyerSide, MemoryAgreesWithLog
  <2>. QED BY <1>2, <1>3, <2>1, <2>10, Assembled
<1>. QED BY <1>4, <1>5 DEF ServeSign, Refused

\* The engine has served the request and the caller does not learn of it.
LEMMA AnswerLostKeeps ==
  ASSUME McpInv, NEW c \in Calls, AnswerLost(c)
  PROVE  McpInv'
<1>1. BuyerCall(c, Idle) /\ bs' = bs /\ UNCHANGED sellerVars /\ made' = made /\ given' = given
  BY DEF AnswerLost, sellerVars
<1>2. SellerSide'
  BY <1>1, SellerUntouched
<1>3. made' \in [{"buyer", "seller"} -> Nat]
  BY <1>1, Sides
<1>4. EngineMoved /\ (session # None => session'.counters = session.counters)
  <2>1. ASSUME NEW d \in Times, Api!CreateRfq(d) PROVE EngineMoved /\ session = None
    <3>1. session = None /\ Grown("RFQ_CREATED", [buyer |-> Buyer, deadline |-> d])
      BY <2>1, Sides, RfqPosted
    <3>. QED BY <1>1, <3>1, EngineGrows
  <2>2. CASE AcceptAtEngine(bcall[c])
    BY <1>1, <2>2, AcceptSelects
  <2>3. CASE SignAtEngine(bcall[c])
    BY <1>1, <2>3, SignSigns
  <2>. QED BY <2>1, <2>2, <2>3 DEF AnswerLost
<1>5. BuyerSide'
  BY <1>1, <1>4, BuyerCallMoves, IdleIsSound
<1>. QED BY <1>1, <1>2, <1>3, <1>4, <1>5, Assembled

LEMMA RestartBuyerKeeps ==
  ASSUME McpInv, RestartBuyer
  PROVE  McpInv'
<1>1. /\ bs' = None /\ bcall' = [c \in Calls |-> Idle] /\ UNCHANGED engineVars /\ UNCHANGED sellerVars
      /\ made' = made /\ given' = given
  BY DEF RestartBuyer, engineVars, sellerVars
<1>2. EngineMoved /\ session' = session
  BY <1>1, EngineStays
<1>3. SellerSide'
  BY <1>1, SellerUntouched
<1>4. DOMAIN bcall' = Calls /\ \A c \in Calls : bcall'[c] = Idle
  BY <1>1
<1>5. BuyerCallsAreSound'
  BY <1>2, <1>4, BuyerCallsKept
<1>6. RoundsStayAhead' /\ RoundsAreCounted'
  BY <1>1, <1>2, <1>4, RoundsKept, IdleIsSound
<1>7. SelectionWasSigned'
  BY <1>1, <1>2, SelectionKept
<1>8. BuyerSide'
  BY <1>1, <1>5, <1>6, <1>7 DEF BuyerSide, MemoryAgreesWithLog
<1>. QED BY <1>1, <1>2, <1>3, <1>8, Sides, Assembled

LEMMA CosignTimeoutKeeps ==
  ASSUME McpInv, CosignTimeout
  PROVE  McpInv'
<1>1. Api!CosignTimeout /\ UNCHANGED buyerVars /\ UNCHANGED sellerVars /\ NoCount
  BY DEF CosignTimeout, buyerVars, sellerVars
<1>2. made' \in [{"buyer", "seller"} -> Nat] /\ given' = given
  BY <1>1, NotCounted
<1>3. session'.counters = session.counters
  BY <1>1, Sides, CommitmentTimedOut
<1>4. PICK p : Grown("COSIGN_TIMEOUT", p)
  BY <1>1, Sides, CommitmentTimedOut
<1>5. EngineMoved
  BY <1>2, <1>4, EngineGrows
<1>6. BuyerSide' /\ SellerSide'
  BY <1>1, <1>2, <1>3, <1>5, BuyerUntouched, SellerUntouched
<1>. QED BY <1>2, <1>5, <1>6, Assembled

-----------------------------------------------------------------------------
(***************************************************************************)
(* The steps of the seller's tools.                                        *)
(***************************************************************************)
\* A step of the seller's server that the engine sees nothing of.
LEMMA SellerAlone ==
  ASSUME McpInv, UNCHANGED engineVars, UNCHANGED buyerVars, SellerSide',
         made' \in [{"buyer", "seller"} -> Nat], given' = given
  PROVE  McpInv'
<1>1. EngineMoved /\ session' = session
  BY EngineStays
<1>2. BuyerSide'
  BY <1>1, BuyerUntouched
<1>. QED BY <1>1, <1>2, Assembled

LEMMA CallRegisterListingKeeps ==
  ASSUME McpInv, NEW c \in Calls, NEW s \in {"firm", "deadline-sensitive"}, CallRegisterListing(c, s)
  PROVE  McpInv'
<1> DEFINE k == [pc |-> IF attempted THEN "listing" ELSE "registering"]
<1>1. /\ Count("seller") /\ style' = s /\ attempted' = TRUE /\ listed' = listed
      /\ SellerCall(c, k) /\ UNCHANGED engineVars /\ UNCHANGED buyerVars /\ ss' = ss
  BY DEF CallRegisterListing, engineVars, buyerVars
<1>2. made' \in [{"buyer", "seller"} -> Nat] /\ given' = given
  BY <1>1, Counted
<1>3. SoundSellerCall(given, k)
  BY DEF SoundSellerCall
<1> HIDE DEF k
<1>4. SellerCallsAreSound'
  BY <1>1, <1>2, <1>3, SellerCallMoves
<1>5. SellerSide'
  BY <1>1, <1>4, Sides DEF SellerSide
<1>. QED BY <1>1, <1>2, <1>5, SellerAlone

LEMMA RegistrationEndsKeeps ==
  ASSUME McpInv, NEW c \in Calls, RegistrationEnds(c)
  PROVE  McpInv'
<1> DEFINE k == [pc |-> "listing"]
<1>1. /\ SellerCall(c, k) /\ UNCHANGED engineVars /\ UNCHANGED buyerVars /\ ss' = ss
      /\ style' = style /\ attempted' = attempted /\ listed' = listed /\ NoCount
  BY DEF RegistrationEnds, engineVars, buyerVars
<1>2. made' \in [{"buyer", "seller"} -> Nat] /\ given' = given
  BY <1>1, NotCounted
<1>3. SoundSellerCall(given, k)
  BY DEF SoundSellerCall
<1> HIDE DEF k
<1>4. SellerCallsAreSound'
  BY <1>1, <1>2, <1>3, SellerCallMoves
<1>5. SellerSide'
  BY <1>1, <1>4, Sides DEF SellerSide
<1>. QED BY <1>1, <1>2, <1>5, SellerAlone

LEMMA ServeListingKeeps ==
  ASSUME McpInv, NEW c \in Calls, ServeListing(c)
  PROVE  McpInv'
<1>1. /\ SellerCall(c, Idle) /\ UNCHANGED engineVars /\ UNCHANGED buyerVars /\ ss' = ss
      /\ style' = style /\ attempted' = attempted /\ listed' = "known" /\ NoCount
  BY DEF ServeListing, engineVars, buyerVars
<1>2. made' \in [{"buyer", "seller"} -> Nat] /\ given' = given
  BY <1>1, NotCounted
<1>3. SellerCallsAreSound'
  BY <1>1, <1>2, IdleIsSound, SellerCallMoves
<1>4. SellerSide'
  BY <1>1, <1>3, Sides DEF SellerSide
<1>. QED BY <1>1, <1>2, <1>4, SellerAlone

LEMMA ListingAnswerLostKeeps ==
  ASSUME McpInv, NEW c \in Calls, ListingAnswerLost(c)
  PROVE  McpInv'
<1>1. /\ SellerCall(c, Idle) /\ UNCHANGED engineVars /\ UNCHANGED buyerVars /\ ss' = ss
      /\ style' = style /\ attempted' = attempted /\ made' = made /\ given' = given
      /\ listed' \in {listed, "forgotten"}
  BY DEF ListingAnswerLost, engineVars, buyerVars
<1>2. made' \in [{"buyer", "seller"} -> Nat]
  BY <1>1, Sides
<1>3. SellerCallsAreSound'
  BY <1>1, IdleIsSound, SellerCallMoves
<1>4. SellerSide'
  BY <1>1, <1>3, Sides DEF SellerSide
<1>. QED BY <1>1, <1>2, <1>4, SellerAlone

Styles == {"firm", "flexible", "competitive", "deadline-sensitive"}

\* The limits a first offer is made with: with a floor in the input, that floor.
LEMMA LimitsAreFair ==
  ASSUME McpInv, NEW price \in Typed \cup {None}, price = None => given \/ ss # None
  PROVE  /\ Limits(price).floor \in Nat /\ Limits(price).target \in Nat
         /\ given => Limits(price).floor = Floor
         /\ StyleNow \in Styles /\ StrategyOf(StyleNow) \in {"firm", "flexible", "competitive"}
<1>1. SellerSide
  BY Sides
<1>2. ss # None => ss.floor \in Nat /\ ss.target \in Nat /\ ss.style \in Styles
  BY <1>1 DEF SellerSide, SellerSession, Styles
<1>3. price # None => price.value \in Nat
  BY McpAssumption DEF Typed
<1>4. Floor \in Nat /\ Target \in Nat
  BY McpAssumption
<1>5. Limits(price).floor \in Nat /\ Limits(price).target \in Nat /\ (given => Limits(price).floor = Floor)
  BY <1>2, <1>3, <1>4 DEF Limits
<1>6. StyleNow \in Styles
  BY <1>1, <1>2 DEF StyleNow, SellerSide, Styles
<1>7. StrategyOf(StyleNow) \in {"firm", "flexible", "competitive"}
  BY <1>6 DEF StrategyOf, Styles
<1>. QED BY <1>5, <1>6, <1>7

\* The session object is replaced; the offer carries the limits of this call.
LEMMA CallRespondOfferKeeps ==
  ASSUME McpInv, NEW c \in Calls, NEW price \in Typed \cup {None}, CallRespondOffer(c, price)
  PROVE  McpInv'
<1> DEFINE lim == Limits(price)
           x == IF price = None THEN StrategyOffer(lim) ELSE OfferPrice(price, lim)
           k == [pc |-> "offering", price |-> x]
<1>1. /\ Count("seller") /\ (price = None => given \/ ss # None)
      /\ ss' = [id |-> made.seller, floor |-> lim.floor, target |-> lim.target, round |-> 0,
                style |-> StyleNow]
      /\ SellerCall(c, k) /\ UNCHANGED engineVars /\ UNCHANGED buyerVars
      /\ style' = style /\ attempted' = attempted /\ listed' = listed
  BY DEF CallRespondOffer, engineVars, buyerVars
<1>2. made.seller \in Nat /\ made' \in [{"buyer", "seller"} -> Nat] /\ given' = given
  BY <1>1, Counted
<1>3. /\ lim.floor \in Nat /\ lim.target \in Nat /\ (given => lim.floor = Floor)
      /\ StyleNow \in Styles /\ StrategyOf(StyleNow) \in {"firm", "flexible", "competitive"}
  BY <1>1, LimitsAreFair
<1> HIDE DEF lim
<1>4. IsFairPrice(given, x)
  <2>1. CASE price = None
    <3> DEFINE a == [type |-> "respond", price |-> lim.target]
    <3>1. OnRfqReceived(StrategyOf(StyleNow), lim) = {a}
      BY <1>3 DEF OnRfqReceived
    <3>2. (CHOOSE z \in OnRfqReceived(StrategyOf(StyleNow), lim) : TRUE) = a
      BY <3>1
    <3>3. StrategyOffer(lim) = SanitizeSellerAction(a, lim).price
      BY <3>2 DEF StrategyOffer
    <3>4. IsFairPrice(given, SanitizeSellerAction(a, lim).price)
      BY <1>3, SanitizedIsFair
    <3>. QED BY <2>1, <3>3, <3>4
  <2>2. CASE price # None
    BY <1>3, <2>2, OfferPriceIsFair
  <2>. QED BY <2>1, <2>2
<1> HIDE DEF x
<1>5. SoundSellerCall(given, k)
  BY <1>4 DEF SoundSellerCall
<1> HIDE DEF k
<1>6. ss' \in SellerSession /\ (given => ss'.floor = Floor)
  BY <1>1, <1>2, <1>3 DEF SellerSession, Styles
<1>7. DOMAIN scall' = Calls /\ scall'[c] = k /\ \A d \in Calls : d # c => scall'[d] = scall[d]
  BY <1>1, OneSellerCall
<1>8. SellerCallsAreSound'
  BY <1>2, <1>5, <1>6, <1>7, SellerCallsKept
<1>9. SellerSide'
  BY <1>1, <1>6, <1>8, Sides DEF SellerSide
<1>. QED BY <1>1, <1>2, <1>9, SellerAlone

\* The round is counted in the object the calls under way share.
LEMMA CallRespondCounterKeeps ==
  ASSUME McpInv, NEW c \in Calls, NEW id \in CounterIds, NEW price \in Typed \cup {None},
         CallRespondCounter(c, id, price)
  PROVE  McpInv'
<1> DEFINE kr == [pc |-> "reading", counter_id |-> id, own |-> ss']
           x == SanitizeSellerAction([type |-> "counter", price |-> price.value], ss).price
           ko == [pc |-> "offering", price |-> x]
<1>1. /\ ss # None /\ Count("seller") /\ ss' = [ss EXCEPT !.round = @ + 1]
      /\ DOMAIN scall' = Calls
      /\ scall'[c] = IF price = None THEN kr ELSE ko
      /\ \A d \in Calls : d # c =>
           scall'[d] = IF scall[d].pc = "reading" /\ scall[d].own.id = ss.id
                       THEN [scall[d] EXCEPT !.own = ss'] ELSE scall[d]
      /\ UNCHANGED engineVars /\ UNCHANGED buyerVars /\ style' = style /\ attempted' = attempted /\ listed' = listed
  BY DEF CallRespondCounter, engineVars, buyerVars
<1>2. made' \in [{"buyer", "seller"} -> Nat] /\ given' = given
  BY <1>1, Counted
<1>3. ss \in SellerSession /\ (given => ss.floor = Floor)
  BY <1>1, Sides DEF SellerSide, SellerCallsAreSound
<1>4. ss' \in SellerSession /\ (given => ss'.floor = Floor)
  BY <1>1, <1>3 DEF SellerSession
<1>5. SoundSellerCall(given, scall'[c])
  <2>1. CASE price = None
    <3>1. scall'[c] = kr
      BY <1>1, <2>1
    <3>2. /\ kr.pc = "reading" /\ kr.own = ss'
          /\ kr \in [pc : {"reading"}, counter_id : CounterIds, own : SellerSession]
      BY <1>4
    <3> HIDE DEF kr
    <3>3. SoundSellerCall(given, kr)
      BY <1>4, <3>2 DEF SoundSellerCall
    <3>. QED BY <3>1, <3>3
  <2>2. CASE price # None
    <3>0. price \in Typed
      BY <2>2
    <3>1. price.value \in Int
      <4>1. price.value \in TypedPrices
        BY <3>0 DEF Typed
      <4>2. TypedPrices \subseteq Nat
        BY McpAssumption
      <4>3. price.value \in Nat
        BY ONLY <4>1, <4>2
      <4>4. \A v \in Nat : v \in Int
        OBVIOUS
      <4>. QED BY ONLY <4>3, <4>4
    <3>2. ss.floor \in Nat
      BY <1>3 DEF SellerSession
    <3>3. IsFairPrice(given, x)
      BY <1>3, <3>1, <3>2, SanitizedIsFair
    <3> HIDE DEF x
    <3>4. SoundSellerCall(given, ko)
      BY <3>3 DEF SoundSellerCall
    <3>. QED BY <1>1, <2>2, <3>4
  <2>. QED BY <2>1, <2>2
<1> HIDE DEF kr, x, ko
<1>6. ASSUME NEW d \in Calls, d # c
      PROVE  SoundSellerCall(given, scall'[d])
  <2>1. SoundSellerCall(given, scall[d])
    BY DEF McpInv, SellerCallsAreSound
  <2>2. CASE scall[d].pc = "reading" /\ scall[d].own.id = ss.id
    <3> DEFINE k == scall[d]
               n == [k EXCEPT !.own = ss']
    <3>1. scall'[d] = n
      BY <1>1, <1>6, <2>2
    <3>2. k \in [pc : {"reading"}, counter_id : CounterIds, own : SellerSession]
      BY <2>1, <2>2 DEF SoundSellerCall
    <3> HIDE DEF k
    <3>3. n \in [pc : {"reading"}, counter_id : CounterIds, own : SellerSession] /\ n.own = ss' /\ n.pc = "reading"
      BY <1>4, <3>2
    <3> HIDE DEF n
    <3>4. SoundSellerCall(given, n)
      BY <1>4, <3>3 DEF SoundSellerCall
    <3>. QED BY <3>1, <3>4
  <2>3. CASE ~(scall[d].pc = "reading" /\ scall[d].own.id = ss.id)
    BY <1>1, <1>6, <2>1, <2>3
  <2>. QED BY <2>2, <2>3
<1>7. SellerCallsAreSound'
  BY <1>1, <1>2, <1>4, <1>5, <1>6, SellerCallsKept
<1>8. SellerSide'
  BY <1>1, <1>4, <1>7, Sides DEF SellerSide
<1>. QED BY <1>1, <1>2, <1>8, SellerAlone

\* A concession goes out with the limits of the session object the call has kept.
LEMMA ServeReadingKeeps ==
  ASSUME McpInv, NEW c \in Calls, ServeReading(c)
  PROVE  McpInv'
<1> DEFINE own == scall[c].own
           kind == StrategyOf(own.style)
           ctx == [round |-> own.round, competing |-> 1, floor |-> own.floor, target |-> own.target]
           x == SanitizeSellerAction([type |-> "counter", price |-> SellerPrice(kind, ctx)], own).price
           k == [pc |-> "offering", price |-> x]
<1>1. /\ scall[c].pc = "reading" /\ (SellerCall(c, k) \/ SellerCall(c, Idle))
      /\ UNCHANGED engineVars /\ UNCHANGED buyerVars /\ ss' = ss /\ style' = style
      /\ attempted' = attempted /\ listed' = listed /\ NoCount
  BY DEF ServeReading, engineVars, buyerVars
<1>2. made' \in [{"buyer", "seller"} -> Nat] /\ given' = given
  BY <1>1, NotCounted
<1>3. own \in SellerSession /\ (given => own.floor = Floor)
  BY <1>1 DEF McpInv, SellerCallsAreSound, SoundSellerCall
<1> HIDE DEF own
<1>4. own.round \in Nat /\ own.floor \in Nat /\ own.target \in Nat
  BY <1>3 DEF SellerSession
<1>5. kind \in {"firm", "flexible", "competitive"}
  BY <1>3 DEF SellerSession, StrategyOf
<1> HIDE DEF kind
<1>6. SellerPrice(kind, ctx) \in Int
  <2>1. ctx.round \in Nat /\ ctx.target \in Nat /\ ctx.floor \in Nat /\ ctx.competing = 1
    BY <1>4
  <2> HIDE DEF ctx
  <2>. QED BY <1>5, <2>1, SellerPriceType
<1> HIDE DEF ctx
<1>7. IsFairPrice(given, x)
  BY <1>3, <1>4, <1>6, SanitizedIsFair
<1> HIDE DEF x
<1>8. SoundSellerCall(given, k)
  BY <1>7 DEF SoundSellerCall
<1> HIDE DEF k
<1>9. SellerCallsAreSound'
  BY <1>1, <1>2, <1>8, IdleIsSound, SellerCallMoves
<1>10. SellerSide'
  BY <1>1, <1>9, Sides DEF SellerSide
<1>. QED BY <1>1, <1>2, <1>10, SellerAlone

\* An offer the engine takes has a fair price.
LEMMA ServeOfferKeeps ==
  ASSUME McpInv, NEW c \in Calls, ServeOffer(c)
  PROVE  McpInv'
<1> DEFINE p == scall[c].price
           o == NewOffer(p)
<1>1. /\ scall[c].pc = "offering" /\ (Api!SubmitOffer(o) \/ UNCHANGED engineVars)
      /\ SellerCall(c, Idle) /\ UNCHANGED buyerVars /\ ss' = ss /\ style' = style
      /\ attempted' = attempted /\ listed' = listed /\ NoCount
  BY DEF ServeOffer, OfferAtEngine, Refused, buyerVars
<1>2. made' \in [{"buyer", "seller"} -> Nat] /\ given' = given
  BY <1>1, NotCounted
<1>3. IsFairPrice(given, p) /\ p \in Nat
  BY <1>1 DEF McpInv, SellerCallsAreSound, SoundSellerCall, IsFairPrice
<1> HIDE DEF p
<1>4. SellerCallsAreSound'
  BY <1>1, <1>2, IdleIsSound, SellerCallMoves
<1>5. SellerSide'
  BY <1>1, <1>4, Sides DEF SellerSide
<1>6. CASE UNCHANGED engineVars
  BY <1>1, <1>2, <1>5, <1>6, SellerAlone
<1>7. CASE Api!SubmitOffer(o)
  <2>1. o \in ToolOffer
    BY <1>3, <1>7, Sides, FreshOffer
  <2>2. o.price = p
    BY DEF NewOffer
  <2> HIDE DEF o
  <2>3. session # None /\ session'.counters = session.counters /\ Grown("OFFER_SUBMITTED", o)
    BY <1>7, <2>1, Sides, OfferPosted
  <2>4. EngineMoved
    BY <1>2, <1>3, <2>2, <2>3, EngineGrows
  <2>5. BuyerSide'
    BY <1>1, <2>3, <2>4, BuyerUntouched
  <2>. QED BY <1>2, <1>5, <2>4, <2>5, Assembled
<1>. QED BY <1>1, <1>6, <1>7

LEMMA CallCosignKeeps ==
  ASSUME McpInv, NEW c \in Calls, CallCosign(c)
  PROVE  McpInv'
<1> DEFINE k == [pc |-> "cosigning", quote |-> session.unsignedQuote]
<1>1. /\ Count("seller") /\ SellerCall(c, k) /\ UNCHANGED engineVars /\ UNCHANGED buyerVars
      /\ ss' = ss /\ style' = style /\ attempted' = attempted /\ listed' = listed
  BY DEF CallCosign, engineVars, buyerVars
<1>2. made' \in [{"buyer", "seller"} -> Nat] /\ given' = given
  BY <1>1, Counted
<1>3. SoundSellerCall(given, k)
  BY DEF SoundSellerCall
<1> HIDE DEF k
<1>4. SellerCallsAreSound'
  BY <1>1, <1>2, <1>3, SellerCallMoves
<1>5. SellerSide'
  BY <1>1, <1>4, Sides DEF SellerSide
<1>. QED BY <1>1, <1>2, <1>5, SellerAlone

LEMMA ServeCosignKeeps ==
  ASSUME McpInv, NEW c \in Calls, ServeCosign(c)
  PROVE  McpInv'
<1>1. /\ CosignAtEngine(scall[c]) \/ UNCHANGED engineVars
      /\ SellerCall(c, Idle) /\ UNCHANGED buyerVars /\ ss' = ss /\ style' = style
      /\ attempted' = attempted /\ listed' = listed /\ NoCount
  BY DEF ServeCosign, Refused, buyerVars
<1>2. made' \in [{"buyer", "seller"} -> Nat] /\ given' = given
  BY <1>1, NotCounted
<1>3. SellerCallsAreSound'
  BY <1>1, <1>2, IdleIsSound, SellerCallMoves
<1>4. SellerSide'
  BY <1>1, <1>3, Sides DEF SellerSide
<1>5. CASE UNCHANGED engineVars
  BY <1>1, <1>2, <1>4, <1>5, SellerAlone
<1>6. CASE CosignAtEngine(scall[c])
  <2>1. Api!Cosign
    BY <1>6 DEF CosignAtEngine
  <2>2. session'.counters = session.counters
    BY <2>1, Sides, QuoteCosigned
  <2>3. PICK p : Grown("QUOTE_COMMITTED", p)
    BY <2>1, Sides, QuoteCosigned
  <2>4. EngineMoved
    BY <1>2, <2>3, EngineGrows
  <2>5. BuyerSide'
    BY <1>1, <2>2, <2>4, BuyerUntouched
  <2>. QED BY <1>2, <1>4, <2>4, <2>5, Assembled
<1>. QED BY <1>1, <1>5, <1>6

LEMMA RestartSellerKeeps ==
  ASSUME McpInv, RestartSeller
  PROVE  McpInv'
<1>1. /\ ss' = None /\ style' = None /\ attempted' = FALSE
      /\ listed' = (IF listed = "no" THEN "no" ELSE "forgotten") /\ scall' = [c \in Calls |-> Idle]
      /\ UNCHANGED engineVars /\ UNCHANGED buyerVars /\ made' = made /\ given' = given
  BY DEF RestartSeller, engineVars, buyerVars
<1>2. DOMAIN scall' = Calls /\ \A c \in Calls : scall'[c] = Idle
  BY <1>1
<1>3. SellerCallsAreSound'
  BY <1>1, <1>2, SellerCallsKept
<1>4. SellerSide'
  BY <1>1, <1>3 DEF SellerSide
<1>. QED BY <1>1, <1>4, Sides, SellerAlone

-----------------------------------------------------------------------------
(***************************************************************************)
(* The invariant.                                                          *)
(***************************************************************************)
LEMMA McpInvInitially ==
  ASSUME Init
  PROVE  McpInv
<1>1. /\ log = <<>> /\ session = None /\ bs = None /\ ss = None /\ style = None /\ attempted = FALSE /\ listed = "no"
      /\ bcall = [c \in Calls |-> Idle] /\ scall = [c \in Calls |-> Idle]
      /\ made = [buyer |-> 0, seller |-> 0] /\ given \in BOOLEAN
  BY DEF Init, Api!Init
<1>2. DOMAIN log = {} /\ log \in Seq({log[i] : i \in DOMAIN log})
  <2>1. DOMAIN log = {} /\ log \in Seq({})
    BY <1>1
  <2>2. {log[i] : i \in DOMAIN log} = {}
    BY <2>1
  <2>. QED BY <2>1, <2>2
<1>3. TypeOK /\ ProvenCountersWithinBudget /\ OnlyRoundingUnderbids
  BY <1>1, <1>2 DEF TypeOK, ProvenCountersWithinBudget, OnlyRoundingUnderbids
<1>4. RoundsStayAhead /\ SelectionWasSigned /\ RoundsAreCounted
  BY <1>1, IdleIsSound DEF RoundsStayAhead, SelectionWasSigned, RoundsAreCounted
<1>5. EngineIsTyped
  BY <1>1, <1>2 DEF EngineIsTyped
<1>6. CountsAreTyped
  BY <1>1 DEF CountsAreTyped
<1>7. BuyerCallsAreSound /\ SellerCallsAreSound
  BY <1>1, IdleIsSound DEF BuyerCallsAreSound, SellerCallsAreSound
<1>. QED BY <1>3, <1>4, <1>5, <1>6, <1>7 DEF McpInv, PostsAreBounded, MemoryAgreesWithLog

LEMMA McpInvStep ==
  ASSUME McpInv, [Next]_vars
  PROVE  McpInv'
<1>1. CASE UNCHANGED vars
  <2>1. /\ log' = log /\ session' = session /\ given' = given /\ made' = made
        /\ UNCHANGED engineVars /\ UNCHANGED buyerVars /\ UNCHANGED sellerVars
    BY <1>1 DEF vars, engineVars, buyerVars, sellerVars
  <2>. QED BY <2>1, Sides, SellerUntouched, SellerAlone
<1>2. ASSUME NEW c \in Calls, BuyerTools(c) PROVE McpInv'
  BY <1>2, CallPostRfqKeeps, ServePostRfqKeeps, CallCounterKeeps, ServeCounterKeeps, CallAcceptKeeps,
     ServeAcceptKeeps, ServeSignKeeps DEF BuyerTools
<1>3. ASSUME NEW c \in Calls, SellerTools(c) PROVE McpInv'
  BY <1>3, CallRegisterListingKeeps, RegistrationEndsKeeps, ServeListingKeeps, CallRespondOfferKeeps,
     CallRespondCounterKeeps, ServeReadingKeeps, ServeOfferKeeps, CallCosignKeeps, ServeCosignKeeps
     DEF SellerTools
<1>4. ASSUME NEW c \in Calls, AnswerLost(c) \/ ListingAnswerLost(c) PROVE McpInv'
  BY <1>4, AnswerLostKeeps, ListingAnswerLostKeeps
<1>5. CASE RestartBuyer \/ RestartSeller \/ CosignTimeout
  BY <1>5, RestartBuyerKeeps, RestartSellerKeeps, CosignTimeoutKeeps
<1>. QED BY <1>1, <1>2, <1>3, <1>4, <1>5 DEF Next

\* The strengthening holds in every reachable state of the tools of
\* mcp/src/tools/buyer.ts and seller.ts, whatever they are called with.
THEOREM McpInvHolds == Spec => []McpInv
<1>1. Init => McpInv
  BY McpInvInitially
<1>2. McpInv /\ [Next]_vars => McpInv'
  BY McpInvStep
<1>. QED BY <1>1, <1>2, PTL DEF Spec

\* No counter above budget_hard and no offer below floor_price (but for the
\* rounding of its last place) reaches the engine, whatever the tools are
\* called with, in whatever order the calls interleave, fail and restart.
THEOREM PostsAreBoundedHolds == Spec => []PostsAreBounded
<1>1. McpInv => PostsAreBounded
  BY DEF McpInv
<1>. QED BY <1>1, McpInvHolds, PTL

\* What the buyer's server keeps in memory agrees with the engine's log: a counter
\* it sends is never refused for its round, and the offer it holds selected is one
\* the buyer has signed for.
THEOREM MemoryAgreesWithLogHolds == Spec => []MemoryAgreesWithLog
<1>1. McpInv => MemoryAgreesWithLog
  BY DEF McpInv
<1>. QED BY <1>1, McpInvHolds, PTL

=============================================================================

---------------------------- MODULE MCDashboard ----------------------------
(* Model-checking instance of Dashboard: five scopes, each with what one   *)
(* part is sensitive to.                                                   *)
EXTENDS Dashboard

CONSTANTS FirstRfq

Scope(events, time, rfqs, sellers, types, conns, ips, nfaults) ==
  [events |-> events, time |-> time, faults |-> nfaults, rfqs |-> rfqs,
   sellers |-> sellers, types |-> types, conns |-> conns, ips |-> ips]

OneSeller == {CHOOSE s \in Sellers : TRUE}
Lifecycle == EventTypes \ {"QUOTE_SIGNED", "COUNTER_SENT", "SETTLEMENT_CONFIRMED"}
ToADeal == {"RFQ_CREATED", "OFFER_SUBMITTED", "WINNER_SELECTED", "QUOTE_COMMITTED"}

\* Counters: two sessions to every kind of ending, a restart anywhere.
CounterScope == Scope(5, 1, RfqIds, Sellers, EventTypes, {}, {}, 1)

\* Rates: one session to its deal, over more than an hour of the model.
RateScope == Scope(4, 5, {FirstRfq}, OneSeller, ToADeal, {}, {}, 1)

\* Pauses: a long clock, on which the ring is left alone for longer than its length
\* and catches up again.
PauseScope == Scope(3, 9, {FirstRfq}, OneSeller, ToADeal, {}, {}, 1)

\* Streams: two sessions, two connections, a client that goes away or a restart.
StreamScope == Scope(4, 1, RfqIds, OneSeller, Lifecycle, Conns, {}, 1)

\* Logins: no events; a restart anywhere.
LoginScope == Scope(0, 3, {}, {}, {}, {}, Ips, 1)

AllScopes == {CounterScope, RateScope, PauseScope, StreamScope, LoginScope}

\* One buyer posts all the RFQs.
OneBuyer == [r \in RfqIds |-> Buyer]

Symmetry == Permutations(Conns) \cup Permutations(Ips)

=============================================================================

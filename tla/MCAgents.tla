------------------------------ MODULE MCAgents ------------------------------
(* Model-checking instance of Agents: strategies and bounds, scope by      *)
(* scope.                                                                  *)
EXTENDS Agents

CONSTANTS FirstSeller, BuyerSlot, SellerSlot

AllPrices == 0..100

\* Language models that come up with anything, a lost request and the deadline.
LlmScope ==
  [buyer |-> "llm", seller |-> "llm", sellers |-> {FirstSeller},
   bslots |-> {BuyerSlot}, sslots |-> {SellerSlot},
   time |-> 1, disturbances |-> {"deadline"}, counters |-> 1, faults |-> 1]

\* Rule-based agents of every kind while the deadline nears.
RuleScopes ==
  {[buyer |-> b, seller |-> s, sellers |-> {FirstSeller},
    bslots |-> {BuyerSlot}, sslots |-> {SellerSlot},
    time |-> 2, disturbances |-> {"deadline"}, counters |-> 2, faults |-> 0] :
   b \in BuyerKinds \ {"llm"}, s \in SellerKinds \ {"llm"}}

\* Two sellers that compete for one buyer.
RivalScope ==
  [buyer |-> "competitive", seller |-> "flexible", sellers |-> Sellers,
   bslots |-> {BuyerSlot}, sslots |-> {SellerSlot},
   time |-> 1, disturbances |-> {}, counters |-> 1, faults |-> 0]

\* Overlapping polls of the buyer, and a cosign timeout.
OverlapScope ==
  [buyer |-> "linear", seller |-> "flexible", sellers |-> {FirstSeller},
   bslots |-> BuyerSlots, sslots |-> {SellerSlot},
   time |-> 1, disturbances |-> {"timeout"}, counters |-> 1, faults |-> 0]

\* Overlapping polls of the seller, and nothing that gets in the way.
DealScope ==
  [buyer |-> "linear", seller |-> "flexible", sellers |-> {FirstSeller},
   bslots |-> {BuyerSlot}, sslots |-> SellerSlots,
   time |-> 1, disturbances |-> {}, counters |-> 1, faults |-> 0]

\* Overlapping polls of the buyer, and nothing that gets in the way.
BuyerDealScope == [OverlapScope EXCEPT !.disturbances = {}]

AllScopes == RuleScopes \cup {LlmScope, RivalScope, OverlapScope, DealScope, BuyerDealScope}

=============================================================================

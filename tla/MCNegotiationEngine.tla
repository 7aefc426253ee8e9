------------------------ MODULE MCNegotiationEngine ------------------------
(* Model-checking instances of NegotiationEngine.  Requests are            *)
(* interchangeable, and so are envelope ids.                               *)
EXTENDS NegotiationEngine, TLC

CONSTANTS FirstSeller, SecondSeller, FirstOffer, SecondOffer

Symmetry == Permutations(Requests) \cup Permutations(EnvelopeIds)

(***************************************************************************)
(* Later starting points: processes restarted on a log with an RFQ and its *)
(* offers.                                                                 *)
(***************************************************************************)
OfferOf(seller, id) ==
  [offer_id |-> id, seller |-> seller, price |-> 1,
   payment_endpoint |-> CHOOSE u \in Endpoints : TRUE, valid_until |-> MaxTime]

RestartedOn(l) ==
  /\ log = l
  /\ session = DeriveState(l)
  /\ listings = Sellers \X Endpoints
  /\ cache = None
  /\ Lock!LockInit
  /\ req = [r \in Requests |-> Idle]
  /\ enforcing = "nothing"
  /\ cleanedUp = FALSE
  /\ envelopes = [id \in EnvelopeIds |-> None]
  /\ tombstones = {}
  /\ effects = [id \in EnvelopeIds |-> {}]
  /\ now = 0
  /\ crashes = 0

\* Two sellers have offered: for the runs about repeated accept attempts.
LogWithOffers ==
  << MkEvent(1, "RFQ_CREATED", Buyer, [buyer |-> Buyer, deadline |-> CHOOSE d \in Deadlines : TRUE]),
     MkEvent(2, "OFFER_SUBMITTED", FirstSeller, OfferOf(FirstSeller, FirstOffer)),
     MkEvent(3, "OFFER_SUBMITTED", SecondSeller, OfferOf(SecondSeller, SecondOffer)) >>

SpecWithOffers == RestartedOn(LogWithOffers) /\ [][Next]_vars

FairSpecWithOffers ==
  /\ SpecWithOffers
  /\ WF_vars(Tick)
  /\ \A r \in Requests : WF_vars(RequestStep(r))
  /\ WF_vars(EnforcerStep)

=============================================================================

--------------------------- MODULE MCEventStream ---------------------------
(* Model-checking instance of EventStream: a reader of the buyer and one   *)
(* of each of two sellers, in three scopes.                                *)
EXTENDS EventStream

CONSTANTS BuyerReader, FirstReader, SecondReader, FirstSeller, SecondSeller

ReaderDids ==
  [r \in Readers |-> CASE r = BuyerReader -> Buyer
                       [] r = FirstReader -> FirstSeller
                       [] r = SecondReader -> SecondSeller]

\* Starting points: a new session, and one in which the first of two sellers
\* was selected and the buyer has signed.
LogOpen == << [type |-> "RFQ_CREATED", seller |-> None] >>

LogSigned ==
  << [type |-> "RFQ_CREATED", seller |-> None],
     [type |-> "OFFER_SUBMITTED", seller |-> FirstSeller],
     [type |-> "OFFER_SUBMITTED", seller |-> SecondSeller],
     [type |-> "WINNER_SELECTED", seller |-> FirstSeller],
     [type |-> "QUOTE_SIGNED", seller |-> FirstSeller] >>

\* A session from its beginning: the buyer and one seller compete for one place.
OpenScope ==
  [log |-> LogOpen, state |-> "OPEN", readers |-> {BuyerReader, FirstReader},
   perSession |-> 1, events |-> 4, faults |-> 1]

\* The end of a session for its winner and for the seller that lost.
OutcomeScope ==
  [log |-> LogSigned, state |-> "COMMIT_PENDING", readers |-> {FirstReader, SecondReader},
   perSession |-> 2, events |-> 7, faults |-> 1]

\* Three readers for two places.
CrowdScope ==
  [log |-> LogSigned, state |-> "COMMIT_PENDING", readers |-> Readers,
   perSession |-> 2, events |-> 6, faults |-> 0]

AllScopes == {OpenScope, OutcomeScope, CrowdScope}

=============================================================================

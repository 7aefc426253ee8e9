--------------------------- MODULE MCNegotiation ---------------------------
(* Model-checking instance of Negotiation: the constants are given by the  *)
(* configuration; sellers and offer ids are interchangeable.               *)
EXTENDS Negotiation, TLC

Symmetry == Permutations(Sellers) \cup Permutations(OfferIds)

=============================================================================

----------------------------- MODULE MCListings -----------------------------
(* Model-checking instance of Listings: two scopes.                        *)
EXTENDS Listings, TLC

CONSTANTS FirstAgent

\* One agent whose owner changes while lookups overlap and the cache answers.
OwnerScope == [time |-> 2, changes |-> 2, restarts |-> 0, ids |-> {SeedId},
               sellers |-> Sellers, agents |-> {FirstAgent}]

\* The store and the cache at their limits, and restarts.
StoreScope == [time |-> 0, changes |-> 0, restarts |-> 1, ids |-> ListingIds,
               sellers |-> {SeedSeller}, agents |-> Agents]

BothScopes == {OwnerScope, StoreScope}

\* Requests are interchangeable.
Symmetry == Permutations(Procs)

=============================================================================

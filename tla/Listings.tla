------------------------------ MODULE Listings ------------------------------
(***************************************************************************)
(* Seller listings: POST /listings with its registry binding, GET with its *)
(* registry enrichment, the listing store (SQLite: it survives a restart), *)
(* the cached lookups of the on-chain agent registry and the seed listings *)
(* inserted at every start of the engine.                                  *)
(*                                                                         *)
(* A request runs up to its registry lookup and from the lookup's answer   *)
(* on without giving way; lookups of several requests overlap, and the     *)
(* chain may change meanwhile.  A listing is its seller and the registry   *)
(* agent it is bound to; of an agent the model keeps the owner's DID.  The *)
(* checks of a request's shape and signature precede all shared state and  *)
(* are left to the choice of the requests that pass them.                  *)
(***************************************************************************)
EXTENDS Integers, FiniteSets, Sequences

CONSTANTS
  Sellers,      \* DIDs that register listings
  Agents,       \* agent ids of the registry
  ListingIds,   \* ids of listings
  SeedId,       \* the listing a start of the engine seeds, and
  SeedSeller,   \* its seller
  Procs,        \* requests in progress
  None,         \* null
  MaxListings,  \* MAX_LISTINGS
  Ttl,          \* REGISTRY_CACHE_TTL_MS
  MaxCached,    \* entries of registryCache (1024)
  Scopes        \* bounds: the clock, changes of owner on the chain, restarts, and
                \* the listing ids, sellers and agents that occur

ASSUME ListingsAssumption ==
  /\ SeedId \in ListingIds /\ SeedSeller \in Sellers
  /\ {MaxListings, Ttl, MaxCached} \subseteq Nat \ {0}
  /\ \A s \in Scopes : /\ {s.time, s.changes, s.restarts} \subseteq Nat
                       /\ s.ids \subseteq ListingIds
                       /\ s.sellers \subseteq Sellers
                       /\ s.agents \subseteq Agents
  /\ None \notin Sellers \cup Agents

VARIABLES
  listings,   \* the store: the listing of each listing_id, None where there is none
  shown,      \* StatsCollector.listingCount
  cache,      \* registryCache in the order of insertion
  owner,      \* the chain: the DID that owns each agent, None where it is unknown
  seen,       \* for every tick so far, the owners each agent had during it
  proc,       \* what each request waits for
  answer,     \* the last enriched listing served: whose, and from when to when
  up,         \* the engine has started
  changes, restarts,
  scope       \* the bounds of this behaviour

now == Len(seen)

vars == <<listings, shown, cache, owner, seen, proc, answer, up, changes, restarts, scope>>

Idle == [pc |-> "idle"]

Init ==
  /\ listings = [id \in ListingIds |-> None]
  /\ shown = 0
  /\ cache = <<>>
  /\ scope \in Scopes
  /\ owner \in [Agents -> scope.sellers \cup {None}]
  /\ \A a \in Agents \ scope.agents : owner[a] = None
  /\ seen = <<[a \in Agents |-> {owner[a]}]>>
  /\ proc = [p \in Procs |-> Idle]
  /\ answer = None
  /\ up = FALSE
  /\ changes = 0
  /\ restarts = 0

(***************************************************************************)
(* The listing store.                                                      *)
(***************************************************************************)
Stored(id) == listings[id] # None

StoredIds == {id \in ListingIds : Stored(id)}

\* ListingStore.count.
Count == Cardinality(StoredIds)

\* Faulty variant: INSERT OR REPLACE.
CanAddOrReplace(id) == Count < MaxListings

\* ListingStore.add does not throw: capacity, then duplicates.
CanAdd(id) == Count < MaxListings /\ ~Stored(id)

\* Faulty variant: the dashboard is not told.
RegisterUncounted(id, seller, agent, confirmed) ==
  /\ listings' = IF CanAdd(id)
                  THEN [listings EXCEPT ![id] =
                          [seller |-> seller, registry_agent_id |-> agent,
                           from |-> confirmed, at |-> now]]
                  ELSE listings
  /\ UNCHANGED shown

\* The end of a registration: add, and onListingAdded; or the store's error.
\* confirmed is the time from which on the registry was asked.
Register(id, seller, agent, confirmed) ==
  IF CanAdd(id)
  THEN /\ listings' = [listings EXCEPT ![id] =
                         [seller |-> seller, registry_agent_id |-> agent,
                          from |-> confirmed, at |-> now]]
       /\ shown' = Count'
  ELSE UNCHANGED <<listings, shown>>

(***************************************************************************)
(* The registry cache.                                                     *)
(***************************************************************************)
\* Faulty variant: entries never expire.
CachedForever(agent) == {i \in DOMAIN cache : cache[i].agent = agent}

Cached(agent) == {i \in DOMAIN cache : cache[i].agent = agent /\ cache[i].expiresAt > now}

\* The cache with an entry set: a known key keeps its place.
CacheSet(entry) ==
  IF \E i \in DOMAIN cache : cache[i].agent = entry.agent
  THEN [i \in DOMAIN cache |-> IF cache[i].agent = entry.agent THEN entry ELSE cache[i]]
  ELSE Append(cache, entry)

\* What of the entries s had not expired at time t.
Unexpired(s, t) ==
  LET alive[i \in 0..Len(s)] ==
        IF i = 0 THEN <<>>
        ELSE IF s[i].expiresAt > t THEN Append(alive[i - 1], s[i])
        ELSE alive[i - 1]
  IN alive[Len(s)]

\* The latest entries of s, no more than fit.
Latest(s) == IF Len(s) > MaxCached THEN SubSeq(s, Len(s) - MaxCached + 1, Len(s)) ELSE s

\* Faulty variant: the time to live starts when the answer arrives.
CacheAfterArrival(agent, value, t) ==
  Latest(CacheSet([agent |-> agent, value |-> value, expiresAt |-> now + Ttl]))

\* Faulty variant: expired entries are dropped, the oldest are not.
CacheUnbounded(agent, value, t) ==
  LET set == CacheSet([agent |-> agent, value |-> value, expiresAt |-> t + Ttl])
  IN IF Len(set) > MaxCached THEN Unexpired(set, t) ELSE set

\* The rest of discoverRegistryAgent after a lookup that began at time t: above the
\* bound what had expired at t goes, then the oldest entries.
CacheAfter(agent, value, t) ==
  LET set == CacheSet([agent |-> agent, value |-> value, expiresAt |-> t + Ttl])
  IN IF Len(set) > MaxCached THEN Latest(Unexpired(set, t)) ELSE set

(***************************************************************************)
(* POST /listings, GET /listings and GET /listings/:id.                    *)
(***************************************************************************)
\* Faulty variant: any owner will do.
IsBoundToSomeone(value, seller) == value # None

\* The checks of verifyRegistryAgentBinding and enrichListing on a lookup.
IsBound(value, seller) == value = seller

\* What a request does with the owner a lookup that began at time t returned.
Finish(job, value, t) ==
  IF ~IsBound(value, job.seller) THEN UNCHANGED <<listings, shown, answer>>
  ELSE IF job.op = "register"
  THEN Register(job.id, job.seller, job.agent, t) /\ UNCHANGED answer
  ELSE /\ answer' = [seller |-> job.seller, agent |-> job.agent, from |-> t, at |-> now]
       /\ UNCHANGED <<listings, shown>>

\* discoverRegistryAgent up to its await: a fresh entry answers at once.
Lookup(p, job) ==
  LET hit == Cached(job.agent)
  IN IF hit # {}
     THEN /\ Finish(job, cache[CHOOSE i \in hit : TRUE].value, now)
          /\ UNCHANGED proc
     ELSE /\ proc' = [proc EXCEPT ![p] = [pc |-> "asking", job |-> job, began |-> now]]
          /\ UNCHANGED <<listings, shown, answer>>

PostListing(p, id, seller, agent) ==
  /\ up /\ proc[p] = Idle
  /\ IF agent = None
     THEN Register(id, seller, None, now) /\ UNCHANGED <<proc, answer>>
     ELSE Lookup(p, [op |-> "register", id |-> id, seller |-> seller, agent |-> agent])
  /\ UNCHANGED <<cache, owner, seen, up, changes, restarts, scope>>

\* Of the listings read, those without a binding are returned as they are.
GetListing(p, id) ==
  /\ up /\ proc[p] = Idle
  /\ Stored(id) /\ listings[id].registry_agent_id # None
  /\ Lookup(p, [op |-> "read", id |-> id, seller |-> listings[id].seller,
                agent |-> listings[id].registry_agent_id])
  /\ UNCHANGED <<cache, owner, seen, up, changes, restarts, scope>>

\* discoverAgent: the chain is read; the answer, with the reputation that is
\* fetched next, is still under way.
ChainIsRead(p) ==
  /\ proc[p].pc = "asking"
  /\ proc' = [proc EXCEPT ![p] = [pc |-> "answered", job |-> @.job, began |-> @.began,
                                   value |-> owner[@.job.agent]]]
  /\ UNCHANGED <<listings, shown, cache, owner, seen, answer, up, changes, restarts, scope>>

\* The lookup returns; a missing agent (None) is cached like an owner.
Answered(p) ==
  /\ proc[p].pc = "answered"
  /\ cache' = CacheAfter(proc[p].job.agent, proc[p].value, proc[p].began)
  /\ Finish(proc[p].job, proc[p].value, proc[p].began)
  /\ proc' = [proc EXCEPT ![p] = Idle]
  /\ UNCHANGED <<owner, seen, up, changes, restarts, scope>>

\* The RPC fails: a registration is refused with 503, a read is not enriched.
LookupFails(p) ==
  /\ proc[p].pc \in {"asking", "answered"}
  /\ proc' = [proc EXCEPT ![p] = Idle]
  /\ UNCHANGED <<listings, shown, cache, owner, seen, answer, up, changes, restarts, scope>>

(***************************************************************************)
(* The chain, the clock, and starts of the engine.                         *)
(***************************************************************************)
ChangeOwner(a, did) ==
  /\ changes < scope.changes /\ owner[a] # did
  /\ changes' = changes + 1
  /\ owner' = [owner EXCEPT ![a] = did]
  /\ seen' = [seen EXCEPT ![now][a] = @ \cup {did}]
  /\ UNCHANGED <<listings, shown, cache, proc, answer, up, restarts, scope>>

Tick ==
  /\ now <= scope.time
  /\ seen' = Append(seen, [a \in Agents |-> {owner[a]}])
  /\ UNCHANGED <<listings, shown, cache, owner, proc, answer, up, changes, restarts, scope>>

\* server.ts from the listing store on: seedListingsIfMissing inserts what is not
\* there, and lets the error of a full store end the start.
Start(seeding) ==
  /\ ~up
  /\ IF seeding /\ ~Stored(SeedId)
     THEN IF CanAdd(SeedId)
          THEN /\ Register(SeedId, SeedSeller, None, now)
               /\ up' = TRUE
          ELSE UNCHANGED <<listings, shown, up>>
     ELSE /\ shown' = Count
          /\ up' = TRUE
          /\ UNCHANGED listings
  /\ UNCHANGED <<cache, owner, seen, proc, answer, changes, restarts, scope>>

\* The process ends; requests, cache and counters are lost.
Crash ==
  /\ up /\ restarts < scope.restarts
  /\ restarts' = restarts + 1
  /\ up' = FALSE
  /\ cache' = <<>>
  /\ proc' = [p \in Procs |-> Idle]
  /\ shown' = 0
  /\ UNCHANGED <<listings, owner, seen, answer, changes, scope>>

Next ==
  \/ \E p \in Procs : \/ ChainIsRead(p) \/ Answered(p) \/ LookupFails(p)
                      \/ \E id \in scope.ids : GetListing(p, id)
                      \/ \E id \in scope.ids, seller \in scope.sellers, agent \in scope.agents \cup {None} :
                           PostListing(p, id, seller, agent)
  \/ \E a \in scope.agents, did \in scope.sellers \cup {None} : ChangeOwner(a, did)
  \/ \E seeding \in BOOLEAN : Start(seeding)
  \/ Crash
  \/ Tick

Spec == Init /\ [][Next]_vars

-----------------------------------------------------------------------------
(***************************************************************************)
(* Properties.                                                             *)
(***************************************************************************)
Owners == Sellers \cup {None}

Listing == [seller : Sellers, registry_agent_id : Agents \cup {None}, from : Nat, at : Nat]

CacheEntry == [agent : Agents, value : Owners, expiresAt : Nat]

Job == [op : {"register", "read"}, id : ListingIds, seller : Sellers, agent : Agents]

Process ==
  [pc : {"asking"}, job : Job, began : Nat]
    \cup [pc : {"answered"}, job : Job, began : Nat, value : Owners]

\* Types of the store, the cache, the chain and the requests.
TypeOK ==
  /\ listings \in [ListingIds -> Listing \cup {None}]
  /\ shown \in Nat
  /\ cache \in Seq(CacheEntry)
  /\ owner \in [Agents -> Owners]
  /\ seen \in Seq([Agents -> SUBSET Owners]) /\ seen # <<>>
  /\ proc \in [Procs -> Process \cup {Idle}]
  /\ answer \in [seller : Sellers, agent : Agents, from : Nat, at : Nat] \cup {None}
  /\ up \in BOOLEAN
  /\ scope \in Scopes

\* The store is within its capacity and the cache a bounded map, however many
\* registrations and lookups were under way at once (listing-store.ts 81,
\* server.ts 146-157).
WithinBounds ==
  /\ Count <= MaxListings
  /\ Len(cache) <= MaxCached
  /\ \A i, j \in DOMAIN cache : cache[i].agent = cache[j].agent => i = j

\* Agent a had this owner at some time after t and not after u.
WasOwner(did, a, t, u) == \E i \in DOMAIN seen : i > t /\ i <= u /\ did \in seen[i][a]

\* A listing is stored bound to a registry agent only if the registry gave that
\* agent to its seller while the request was looked up or at most a time to live
\* before, although the owner may change, the cache answer and other lookups end
\* in between (listings.ts 178-191, registry-binding.ts 36-50).
BindingsWereConfirmed ==
  \A id \in StoredIds :
    LET l == listings[id]
    IN l.registry_agent_id # None => WasOwner(l.seller, l.registry_agent_id, l.from - Ttl, l.at)

\* Registry data is shown with a listing only if the agent was its seller's within
\* the time to live before the lookup, or during it: a sold agent stops lending
\* its reputation (listing-enricher.ts 77-81).
EnrichmentIsCurrent ==
  answer # None => WasOwner(answer.seller, answer.agent, answer.from - Ttl, answer.at)

\* No entry of the cache that may still answer is older than the time to live,
\* however long its lookup took and whatever finished before it (server.ts
\* 133-144).
CacheIsFresh ==
  \A i \in DOMAIN cache :
    cache[i].expiresAt > now => WasOwner(cache[i].value, cache[i].agent, now - Ttl, now)

\* No registration, seed or restart changes or removes a listing that is stored
\* (listing-store.ts 80-89, sqlite-listing-store.ts 73-93, listing-bootstrap.ts).
ListingsAreKept ==
  [][\A id \in StoredIds : listings'[id] = listings[id]]_vars

\* The dashboard's number of listings is the store's (server.ts 162, 230, 274).
ShownCountIsRight == up => shown = Count

\* Whatever is decided or shown on the word of the registry was true within the
\* time to live of its cache.
RegistryAnswersAreCurrent == BindingsWereConfirmed /\ EnrichmentIsCurrent /\ CacheIsFresh

\* The store keeps what it has, within its capacity, and the dashboard counts it.
StoreIsSound == [](TypeOK /\ WithinBounds /\ ShownCountIsRight) /\ ListingsAreKept

(***************************************************************************)
(* The inductive strengthening: the chain's owners are on record, a        *)
(* lookup's answer was read while it was under way, and a cache entry,     *)
(* expired or not, was true since its time to live began.                  *)
(***************************************************************************)
OwnersAreOnRecord == \A a \in Agents : owner[a] \in seen[now][a]

AnswersWereRead ==
  \A p \in Procs :
    /\ proc[p] # Idle => proc[p].began \in 1..now
    /\ proc[p].pc = "answered" => WasOwner(proc[p].value, proc[p].job.agent, proc[p].began - 1, now)

EntriesWereTrue ==
  \A i \in DOMAIN cache :
    WasOwner(cache[i].value, cache[i].agent, (cache[i].expiresAt - Ttl) - 1, now)

ListingsInv ==
  /\ TypeOK
  /\ WithinBounds
  /\ IsFiniteSet(StoredIds)
  /\ ShownCountIsRight
  /\ OwnersAreOnRecord
  /\ AnswersWereRead
  /\ EntriesWereTrue
  /\ BindingsWereConfirmed
  /\ EnrichmentIsCurrent

=============================================================================

--------------------------- MODULE ListingsProofs ---------------------------
(***************************************************************************)
(* Proofs about Listings: the store keeps its listings within its capacity *)
(* and what is decided on the registry's word was true within the time to  *)
(* live, for any number of sellers, agents, requests and changes of owner. *)
(***************************************************************************)
EXTENDS Listings, DataInduction, FiniteSetTheorems

\* What the assumptions say of the numbers.
LEMMA Bounds == MaxListings \in Nat /\ Ttl \in Nat /\ Ttl >= 1 /\ MaxCached \in Nat /\ MaxCached >= 1
BY ListingsAssumption

-----------------------------------------------------------------------------
(***************************************************************************)
(* The cache as a sequence: what is dropped from it leaves a part of it.   *)
(***************************************************************************)
\* No two entries are of the same agent.
Distinct(s) == \A i, j \in DOMAIN s : s[i].agent = s[j].agent => i = j

\* r holds only entries of s, of different agents.
PartOf(r, s) ==
  /\ r \in Seq(CacheEntry)
  /\ \A i \in DOMAIN r : \E j \in DOMAIN s : r[i] = s[j]
  /\ Distinct(r)

\* Is r what remains of the first k entries of s after a sweep at time t?
Remains(r, s, k) ==
  /\ r \in Seq(CacheEntry)
  /\ \A i \in DOMAIN r : \E j \in 1..k : r[i] = s[j]
  /\ Distinct(r)

\* The sweep, as it goes along the entries.
IsSweep(f, s, t, k) ==
  f = [i \in 0..k |-> IF i = 0 THEN <<>>
                      ELSE IF s[i].expiresAt > t THEN Append(f[i - 1], s[i])
                      ELSE f[i - 1]]

\* There is such a sweep.
LEMMA SweepExists ==
  ASSUME NEW s \in Seq(CacheEntry), NEW t
  PROVE  \E f : IsSweep(f, s, t, Len(s))
<1> DEFINE V == Seq(CacheEntry)
           step == [i \in 1..Len(s) |-> [r \in V |-> IF s[i].expiresAt > t THEN Append(r, s[i]) ELSE r]]
<1>1. Len(s) \in Nat /\ <<>> \in V
  OBVIOUS
<1>2. \A i \in 1..Len(s), r \in V : (IF s[i].expiresAt > t THEN Append(r, s[i]) ELSE r) \in V
  OBVIOUS
<1>3. step \in StepFunctions(Len(s), V)
  <2> HIDE DEF V
  <2>. QED BY <1>2 DEF StepFunctions
<1>4. \A i \in 1..Len(s), r \in V : step[i][r] = IF s[i].expiresAt > t THEN Append(r, s[i]) ELSE r
  <2> HIDE DEF V
  <2>. QED OBVIOUS
<1> HIDE DEF step, V
<1>5. PICK f : IsRecursive(f, Len(s), V, <<>>, step)
  BY <1>1, <1>3, Recursion
<1>6. \A i \in 1..Len(s) : f[i] = IF s[i].expiresAt > t THEN Append(f[i - 1], s[i]) ELSE f[i - 1]
  <2>1. \A i \in 1..Len(s) : i - 1 \in 0..Len(s)
    BY <1>1
  <2>. QED BY <1>4, <1>5, <2>1 DEF IsRecursive
<1>7. f \in [0..Len(s) -> V] /\ f[0] = <<>>
  BY <1>5 DEF IsRecursive
<1>8. \A i \in 0..Len(s) : f[i] = IF i = 0 THEN <<>>
                                 ELSE IF s[i].expiresAt > t THEN Append(f[i - 1], s[i])
                                 ELSE f[i - 1]
  <2>1. \A i \in 0..Len(s) : i = 0 \/ i \in 1..Len(s)
    BY <1>1
  <2>. QED BY <1>6, <1>7, <2>1
<1>9. f = [i \in 0..Len(s) |-> f[i]]
  BY <1>7
<1>10. IsSweep(f, s, t, Len(s))
  BY <1>8, <1>9 DEF IsSweep
<1>. QED BY <1>10

\* A sweep leaves a part of the cache.
LEMMA UnexpiredIsPart ==
  ASSUME NEW s \in Seq(CacheEntry), NEW t, Distinct(s)
  PROVE  PartOf(Unexpired(s, t), s)
<1> DEFINE f == CHOOSE g : IsSweep(g, s, t, Len(s))
<1>1. Unexpired(s, t) = f[Len(s)]
  BY DEF Unexpired, IsSweep
<1>2. IsSweep(f, s, t, Len(s))
  BY SweepExists
<1> HIDE DEF f
<1>3. Len(s) \in Nat
  OBVIOUS
<1>4. /\ f[0] = <<>>
      /\ \A i \in 1..Len(s) : f[i] = IF s[i].expiresAt > t THEN Append(f[i - 1], s[i]) ELSE f[i - 1]
  <2>1. \A i \in 0..Len(s) : f[i] = IF i = 0 THEN <<>>
                                   ELSE IF s[i].expiresAt > t THEN Append(f[i - 1], s[i])
                                   ELSE f[i - 1]
    BY <1>2 DEF IsSweep
  <2>2. 0 \in 0..Len(s) /\ \A i \in 1..Len(s) : i \in 0..Len(s) /\ i # 0
    BY <1>3
  <2>. QED BY <2>1, <2>2
<1> DEFINE S == {k \in 0..Len(s) : Remains(f[k], s, k)}
<1>5. 0 \in S
  <2>1. <<>> \in Seq(CacheEntry) /\ DOMAIN <<>> = {}
    OBVIOUS
  <2>2. Remains(<<>>, s, 0)
    BY <2>1 DEF Remains, Distinct
  <2>. QED BY <1>3, <1>4, <2>2
<1>6. ASSUME NEW k \in 1..Len(s), k - 1 \in S
      PROVE  k \in S
  <2> DEFINE r == f[k - 1]
  <2>1. Remains(r, s, k - 1)
    BY <1>6
  <2>2. f[k] = IF s[k].expiresAt > t THEN Append(r, s[k]) ELSE r
    BY <1>4
  <2>3. k \in DOMAIN s /\ s[k] \in CacheEntry
    OBVIOUS
  <2> HIDE DEF r
  <2>4. Remains(r, s, k)
    BY <2>1 DEF Remains
  <2>5. Remains(Append(r, s[k]), s, k)
    <3> DEFINE q == Append(r, s[k])
    <3>1. r \in Seq(CacheEntry) /\ \A i \in DOMAIN r : \E j \in 1..(k - 1) : r[i] = s[j]
      BY <2>1 DEF Remains
    <3>2. /\ q \in Seq(CacheEntry) /\ DOMAIN q = 1..(Len(r) + 1)
          /\ q[Len(r) + 1] = s[k] /\ \A i \in 1..Len(r) : q[i] = r[i]
          /\ Len(r) \in Nat /\ DOMAIN r = 1..Len(r)
      BY <2>3, <3>1
    <3> HIDE DEF q
    <3>3. ASSUME NEW i \in 1..Len(r)
          PROVE  r[i].agent # s[k].agent
      <4>1. PICK j \in 1..(k - 1) : r[i] = s[j]
        BY <3>1, <3>2
      <4>2. j \in DOMAIN s /\ j # k
        OBVIOUS
      <4>. QED BY <2>3, <4>1, <4>2 DEF Distinct
    <3>4. Distinct(q)
      BY <2>1, <3>2, <3>3 DEF Distinct, Remains
    <3>5. \A i \in DOMAIN q : \E j \in 1..k : q[i] = s[j]
      <4> SUFFICES ASSUME NEW i \in DOMAIN q PROVE \E j \in 1..k : q[i] = s[j]
        OBVIOUS
      <4>1. CASE i = Len(r) + 1
        BY <3>2, <4>1
      <4>2. CASE i \in 1..Len(r)
        BY <3>1, <3>2, <4>2
      <4>. QED BY <3>2, <4>1, <4>2
    <3>. QED BY <3>2, <3>4, <3>5 DEF Remains, q
  <2>. QED BY <2>2, <2>4, <2>5
<1>7. Len(s) \in S
  <2> HIDE DEF S
  <2>1. 0..Len(s) \subseteq S
    BY <1>3, <1>5, <1>6, IntervalInduction
  <2>. QED BY <1>3, <2>1
<1>8. Remains(f[Len(s)], s, Len(s))
  BY <1>7
<1>. QED BY <1>1, <1>3, <1>8 DEF Remains, PartOf

\* So does dropping the oldest entries, and then no more are left than fit.
LEMMA LatestIsPart ==
  ASSUME NEW s \in Seq(CacheEntry), Distinct(s)
  PROVE  PartOf(Latest(s), s) /\ Len(Latest(s)) <= MaxCached
<1>1. MaxCached \in Nat /\ Len(s) \in Nat
  BY Bounds
<1>2. CASE Len(s) > MaxCached
  <2> DEFINE d == Len(s) - MaxCached
             r == SubSeq(s, d + 1, Len(s))
  <2>1. Latest(s) = r
    BY <1>2 DEF Latest
  <2>2. /\ r \in Seq(CacheEntry) /\ Len(r) = MaxCached
        /\ \A i \in 1..MaxCached : i + d \in 1..Len(s) /\ r[i] = s[i + d]
    BY <1>1, <1>2
  <2>3. DOMAIN r = 1..MaxCached /\ DOMAIN s = 1..Len(s) /\ d \in Nat
    BY <1>1, <1>2, <2>2
  <2> HIDE DEF r, d
  <2>4. Distinct(r)
    <3> SUFFICES ASSUME NEW i \in 1..MaxCached, NEW j \in 1..MaxCached, r[i].agent = r[j].agent
                 PROVE  i = j
      BY <2>3 DEF Distinct
    <3>1. i + d \in DOMAIN s /\ j + d \in DOMAIN s /\ s[i + d].agent = s[j + d].agent
      BY <2>2, <2>3
    <3>2. i + d = j + d
      BY <3>1 DEF Distinct
    <3>. QED BY <1>1, <2>3, <3>2
  <2>5. \A i \in DOMAIN r : \E j \in DOMAIN s : r[i] = s[j]
    BY <2>2, <2>3
  <2>. QED BY <1>1, <2>1, <2>2, <2>4, <2>5 DEF PartOf
<1>3. CASE ~(Len(s) > MaxCached)
  <2>1. Latest(s) = s
    BY <1>3 DEF Latest
  <2>. QED BY <1>1, <1>3, <2>1 DEF PartOf
<1>. QED BY <1>2, <1>3

\* The entry a lookup that began at time t leaves for its answer.
EntryOf(agent, value, t) == [agent |-> agent, value |-> value, expiresAt |-> t + Ttl]

\* r may follow the cache: a bounded map of entries the cache had, or of this one.
Follows(r, entry) ==
  /\ r \in Seq(CacheEntry)
  /\ Distinct(r)
  /\ \A i \in DOMAIN r : r[i] = entry \/ \E j \in DOMAIN cache : r[i] = cache[j]

\* Setting an entry leaves one entry to an agent.
LEMMA CacheSetFollows ==
  ASSUME cache \in Seq(CacheEntry), Distinct(cache), NEW entry \in CacheEntry
  PROVE  Follows(CacheSet(entry), entry)
<1>1. DOMAIN cache = 1..Len(cache) /\ Len(cache) \in Nat
  OBVIOUS
<1>2. CASE \E i \in DOMAIN cache : cache[i].agent = entry.agent
  <2> DEFINE r == [i \in DOMAIN cache |-> IF cache[i].agent = entry.agent THEN entry ELSE cache[i]]
  <2>1. CacheSet(entry) = r
    BY <1>2 DEF CacheSet
  <2>2. \A i \in DOMAIN cache : cache[i] \in CacheEntry
    OBVIOUS
  <2>3. /\ DOMAIN r = DOMAIN cache
        /\ \A i \in DOMAIN cache : /\ r[i] \in CacheEntry
                                   /\ r[i].agent = cache[i].agent
                                   /\ r[i] = entry \/ r[i] = cache[i]
    BY <2>2
  <2>4. r \in Seq(CacheEntry)
    BY <1>1, <2>2
  <2> HIDE DEF r
  <2>5. Distinct(r)
    BY <2>3 DEF Distinct
  <2>. QED BY <2>1, <2>3, <2>4, <2>5 DEF Follows
<1>3. CASE ~ \E i \in DOMAIN cache : cache[i].agent = entry.agent
  <2> DEFINE r == Append(cache, entry)
  <2>1. CacheSet(entry) = r
    BY <1>3 DEF CacheSet
  <2>2. /\ r \in Seq(CacheEntry) /\ DOMAIN r = 1..(Len(cache) + 1)
        /\ r[Len(cache) + 1] = entry /\ \A i \in 1..Len(cache) : r[i] = cache[i]
    OBVIOUS
  <2> HIDE DEF r
  <2>3. \A i \in DOMAIN r : i = Len(cache) + 1 \/ i \in DOMAIN cache
    BY <1>1, <2>2
  <2>4. Distinct(r)
    BY <1>1, <1>3, <2>2, <2>3 DEF Distinct
  <2>5. \A i \in DOMAIN r : r[i] = entry \/ \E j \in DOMAIN cache : r[i] = cache[j]
    BY <1>1, <2>2, <2>3
  <2>. QED BY <2>1, <2>2, <2>4, <2>5 DEF Follows
<1>. QED BY <1>2, <1>3

\* A part of what may follow the cache may follow it.
LEMMA PartFollows ==
  ASSUME NEW r, NEW s, NEW entry, Follows(s, entry), PartOf(r, s)
  PROVE  Follows(r, entry)
<1> SUFFICES ASSUME NEW i \in DOMAIN r
             PROVE  r[i] = entry \/ \E j \in DOMAIN cache : r[i] = cache[j]
  BY DEF Follows, PartOf
<1>1. PICK k \in DOMAIN s : r[i] = s[k]
  BY DEF PartOf
<1>. QED BY <1>1 DEF Follows

\* The cache after a lookup is a bounded map of old entries and the lookup's.
LEMMA CacheAfterFollows ==
  ASSUME cache \in Seq(CacheEntry), Distinct(cache),
         NEW agent \in Agents, NEW value \in Owners, NEW t \in Nat
  PROVE  /\ Follows(CacheAfter(agent, value, t), EntryOf(agent, value, t))
         /\ Len(CacheAfter(agent, value, t)) <= MaxCached
<1> DEFINE entry == EntryOf(agent, value, t)
           set == CacheSet(entry)
           alive == Unexpired(set, t)
<1>1. entry \in CacheEntry
  <2>1. t + Ttl \in Nat
    BY Bounds
  <2>. QED BY <2>1 DEF EntryOf, CacheEntry
<1>2. CacheAfter(agent, value, t) = IF Len(set) > MaxCached THEN Latest(alive) ELSE set
  BY DEF CacheAfter, EntryOf
<1> HIDE DEF entry
<1>3. Follows(set, entry)
  BY <1>1, CacheSetFollows
<1> HIDE DEF set
<1>4. PartOf(alive, set)
  BY <1>3, UnexpiredIsPart DEF Follows
<1>5. Follows(alive, entry)
  BY <1>3, <1>4, PartFollows
<1> HIDE DEF alive
<1>6. PartOf(Latest(alive), alive) /\ Len(Latest(alive)) <= MaxCached
  BY <1>5, LatestIsPart DEF Follows
<1>7. Follows(Latest(alive), entry)
  BY <1>5, <1>6, PartFollows
<1>8. ~(Len(set) > MaxCached) => Len(set) <= MaxCached
  <2>1. Len(set) \in Nat
    BY <1>3 DEF Follows
  <2>. QED BY <2>1, Bounds
<1>. QED BY <1>2, <1>3, <1>6, <1>7, <1>8 DEF entry

-----------------------------------------------------------------------------
(***************************************************************************)
(* The record of owners only grows.                                        *)
(***************************************************************************)
Recorded ==
  /\ Len(seen) \in Nat /\ Len(seen') \in Nat /\ Len(seen) <= Len(seen')
  /\ DOMAIN seen \subseteq DOMAIN seen'
  /\ \A i \in DOMAIN seen, a \in Agents : seen[i][a] \subseteq seen'[i][a]

\* An owner on record after a time was on record after any earlier one.
LEMMA WasOwnerWeaker ==
  ASSUME NEW did, NEW a, NEW t \in Int, NEW t2 \in Int, t2 <= t, NEW u,
         WasOwner(did, a, t, u), seen \in Seq([Agents -> SUBSET Owners])
  PROVE  WasOwner(did, a, t2, u)
<1>1. PICK i \in DOMAIN seen : i > t /\ i <= u /\ did \in seen[i][a]
  BY DEF WasOwner
<1>2. i > t2
  <2>1. i \in Int
    OBVIOUS
  <2>. QED BY <1>1, <2>1
<1>. QED BY <1>1, <1>2 DEF WasOwner

\* The present owner of an agent is on record now.
LEMMA OwnerIsOnRecord ==
  ASSUME ListingsInv, NEW a \in Agents, NEW t \in Int, t < now
  PROVE  WasOwner(owner[a], a, t, now)
<1>1. Len(seen) \in Nat /\ Len(seen) \in DOMAIN seen
  BY DEF ListingsInv, TypeOK
<1>. QED BY <1>1 DEF ListingsInv, OwnersAreOnRecord, WasOwner, now

-----------------------------------------------------------------------------
(***************************************************************************)
(* The invariant by the part of the state it speaks of.                    *)
(***************************************************************************)
StoreOK ==
  /\ listings \in [ListingIds -> Listing \cup {None}]
  /\ shown \in Nat
  /\ IsFiniteSet(StoredIds)
  /\ Count <= MaxListings
  /\ BindingsWereConfirmed

AnswerOK ==
  /\ answer \in [seller : Sellers, agent : Agents, from : Nat, at : Nat] \cup {None}
  /\ EnrichmentIsCurrent

RequestsOK ==
  /\ proc \in [Procs -> Process \cup {Idle}]
  /\ AnswersWereRead

CacheOK ==
  /\ cache \in Seq(CacheEntry)
  /\ Distinct(cache)
  /\ Len(cache) <= MaxCached
  /\ EntriesWereTrue

ChainOK ==
  /\ owner \in [Agents -> Owners]
  /\ seen \in Seq([Agents -> SUBSET Owners]) /\ seen # <<>>
  /\ OwnersAreOnRecord

\* The parts make up the invariant.
LEMMA Parts ==
  ListingsInv <=> /\ StoreOK /\ AnswerOK /\ RequestsOK /\ CacheOK /\ ChainOK
                  /\ up \in BOOLEAN /\ scope \in Scopes /\ ShownCountIsRight
BY DEF ListingsInv, TypeOK, WithinBounds, StoreOK, AnswerOK, RequestsOK, CacheOK, ChainOK, Distinct

\* The parts after a step: they make up the invariant there too.
LEMMA PartsNext ==
  ASSUME StoreOK', AnswerOK', RequestsOK', CacheOK', ChainOK',
         up' \in BOOLEAN, scope' \in Scopes, ShownCountIsRight'
  PROVE  ListingsInv'
BY DEF ListingsInv, TypeOK, WithinBounds, StoreOK, AnswerOK, RequestsOK, CacheOK, ChainOK, Distinct

\* A part a step does not touch is kept.
LEMMA PartsKept ==
  ASSUME ListingsInv, UNCHANGED seen
  PROVE  /\ UNCHANGED <<listings, shown>> => StoreOK'
         /\ UNCHANGED answer => AnswerOK'
         /\ UNCHANGED proc => RequestsOK'
         /\ UNCHANGED cache => CacheOK'
         /\ UNCHANGED owner => ChainOK'
         /\ UNCHANGED <<listings, shown, up>> => ShownCountIsRight'
<1> USE Parts
<1>1. ASSUME UNCHANGED <<listings, shown>> PROVE StoreOK'
  BY <1>1 DEF StoreOK, BindingsWereConfirmed, StoredIds, Stored, Count, WasOwner
<1>2. ASSUME UNCHANGED answer PROVE AnswerOK'
  BY <1>2 DEF AnswerOK, EnrichmentIsCurrent, WasOwner
<1>3. ASSUME UNCHANGED proc PROVE RequestsOK'
  BY <1>3 DEF RequestsOK, AnswersWereRead, WasOwner, now
<1>4. ASSUME UNCHANGED cache PROVE CacheOK'
  BY <1>4 DEF CacheOK, Distinct, EntriesWereTrue, WasOwner, now
<1>5. ASSUME UNCHANGED owner PROVE ChainOK'
  BY <1>5 DEF ChainOK, OwnersAreOnRecord, now
<1>6. ASSUME UNCHANGED <<listings, shown, up>> PROVE ShownCountIsRight'
  BY <1>6 DEF ShownCountIsRight, Count, StoredIds, Stored
<1>. QED BY <1>1, <1>2, <1>3, <1>4, <1>5, <1>6

\* What a step may do to the store.
KeepsListings == \A id \in StoredIds : listings'[id] = listings[id]

\* A step that leaves the store alone keeps it.
LEMMA SameListings == ASSUME UNCHANGED listings PROVE KeepsListings
BY DEF KeepsListings

-----------------------------------------------------------------------------
(***************************************************************************)
(* The steps.                                                              *)
(***************************************************************************)
\* The end of a registration whose binding, if it has one, was confirmed.
LEMMA RegisterStep ==
  ASSUME ListingsInv, UNCHANGED seen,
         NEW id \in ListingIds, NEW seller \in Sellers, NEW agent \in Agents \cup {None},
         NEW t \in Nat,
         agent # None => WasOwner(seller, agent, t - Ttl, now),
         Register(id, seller, agent, t)
  PROVE  /\ StoreOK' /\ KeepsListings
         /\ UNCHANGED <<listings, shown>> \/ shown' = Count'
         /\ CanAdd(id) => shown' = Count'
<1> USE Parts
<1>1. CASE ~CanAdd(id)
  <2>1. UNCHANGED <<listings, shown>>
    BY <1>1 DEF Register
  <2>. QED BY <1>1, <2>1, PartsKept, SameListings
<1>2. CASE CanAdd(id)
  <2> DEFINE l == [seller |-> seller, registry_agent_id |-> agent, from |-> t, at |-> now]
  <2>1. listings' = [listings EXCEPT ![id] = l] /\ shown' = Count'
    BY <1>2 DEF Register
  <2>2. Len(seen) \in Nat
    BY DEF ChainOK
  <2>3. l \in Listing
    BY <2>2 DEF Listing, now
  <2>4. l.seller = seller /\ l.registry_agent_id = agent /\ l.from = t /\ l.at = now
    OBVIOUS
  <2> HIDE DEF l
  <2>5. listings \in [ListingIds -> Listing \cup {None}]
    BY DEF StoreOK
  <2>6. listings' \in [ListingIds -> Listing \cup {None}]
    BY <2>1, <2>3, <2>5
  <2>7. StoredIds' \subseteq StoredIds \cup {id}
    BY <2>1, <2>5 DEF StoredIds, Stored
  <2>8. /\ IsFiniteSet(StoredIds \cup {id})
        /\ Cardinality(StoredIds \cup {id}) <= MaxListings
    <3>1. IsFiniteSet(StoredIds) /\ Count < MaxListings /\ id \notin StoredIds
      BY <1>2 DEF StoreOK, CanAdd, StoredIds
    <3>2. Count \in Nat
      BY <3>1, FS_CardinalityType DEF Count
    <3>3. IsFiniteSet(StoredIds \cup {id}) /\ Cardinality(StoredIds \cup {id}) = Count + 1
      BY <3>1, FS_AddElement DEF Count
    <3>. QED BY <3>1, <3>2, <3>3, Bounds
  <2>9. IsFiniteSet(StoredIds') /\ Cardinality(StoredIds') <= Cardinality(StoredIds \cup {id})
    BY <2>7, <2>8, FS_Subset
  <2>10. Count' \in Nat /\ Count' <= MaxListings
    <3>1. Cardinality(StoredIds') \in Nat /\ Cardinality(StoredIds \cup {id}) \in Nat
      BY <2>8, <2>9, FS_CardinalityType
    <3>. QED BY <2>8, <2>9, <3>1, Bounds DEF Count
  <2>11. KeepsListings
    <3>1. id \notin StoredIds
      BY <1>2 DEF CanAdd, StoredIds
    <3>. QED BY <2>1, <2>5, <3>1 DEF KeepsListings, StoredIds
  <2>12. BindingsWereConfirmed'
    <3> SUFFICES ASSUME NEW k \in StoredIds', listings'[k].registry_agent_id # None
                 PROVE  WasOwner(listings'[k].seller, listings'[k].registry_agent_id,
                                 listings'[k].from - Ttl, listings'[k].at)
      BY DEF BindingsWereConfirmed, WasOwner
    <3>1. CASE k = id
      <4>1. listings'[k] = l
        BY <2>1, <2>5, <3>1
      <4>. QED BY <2>4, <4>1
    <3>2. CASE k # id
      <4>1. k \in StoredIds /\ listings'[k] = listings[k]
        BY <2>1, <2>5, <2>7, <3>2 DEF StoredIds
      <4>2. WasOwner(listings[k].seller, listings[k].registry_agent_id,
                     listings[k].from - Ttl, listings[k].at)
        BY <4>1 DEF StoreOK, BindingsWereConfirmed
      <4>. QED BY <4>1, <4>2
    <3>. QED BY <3>1, <3>2
  <2>. QED BY <2>1, <2>6, <2>9, <2>10, <2>11, <2>12 DEF StoreOK
<1>. QED BY <1>1, <1>2

\* The end of a request whose lookup's answer was true within the time to live.
LEMMA FinishStep ==
  ASSUME ListingsInv, UNCHANGED seen, NEW job \in Job, NEW value, NEW t \in Nat,
         WasOwner(value, job.agent, t - Ttl, now),
         Finish(job, value, t)
  PROVE  /\ StoreOK' /\ KeepsListings /\ AnswerOK'
         /\ UNCHANGED <<listings, shown>> \/ shown' = Count'
<1> USE Parts
<1>1. job.id \in ListingIds /\ job.seller \in Sellers /\ job.agent \in Agents
  BY DEF Job
<1>2. CASE ~IsBound(value, job.seller)
  BY <1>2, PartsKept, SameListings DEF Finish
<1>3. CASE IsBound(value, job.seller)
  <2>1. WasOwner(job.seller, job.agent, t - Ttl, now)
    BY <1>3 DEF IsBound
  <2>2. CASE job.op = "register"
    <3>1. Register(job.id, job.seller, job.agent, t) /\ UNCHANGED answer
      BY <1>3, <2>2 DEF Finish
    <3>. QED BY <1>1, <2>1, <3>1, PartsKept, RegisterStep
  <2>3. CASE job.op # "register"
    <3>1. /\ answer' = [seller |-> job.seller, agent |-> job.agent, from |-> t, at |-> now]
          /\ UNCHANGED <<listings, shown>>
      BY <1>3, <2>3 DEF Finish
    <3>2. Len(seen) \in Nat
      BY DEF ChainOK
    <3>3. answer' \in [seller : Sellers, agent : Agents, from : Nat, at : Nat]
      BY <1>1, <3>1, <3>2 DEF now
    <3>4. EnrichmentIsCurrent'
      BY <2>1, <3>1 DEF EnrichmentIsCurrent, WasOwner
    <3>. QED BY <3>1, <3>3, <3>4, PartsKept, SameListings DEF AnswerOK
  <2>. QED BY <2>2, <2>3
<1>. QED BY <1>2, <1>3

\* A lookup, up to its await or, from the cache, to its end.
LEMMA LookupStep ==
  ASSUME ListingsInv, UNCHANGED seen, NEW p \in Procs, NEW job \in Job, Lookup(p, job)
  PROVE  /\ StoreOK' /\ KeepsListings /\ AnswerOK' /\ RequestsOK'
         /\ UNCHANGED <<listings, shown>> \/ shown' = Count'
<1> USE Parts
<1>1. Len(seen) \in Nat /\ Len(seen) >= 1
  BY DEF ChainOK
<1>2. CASE Cached(job.agent) # {}
  <2> DEFINE i == CHOOSE k \in Cached(job.agent) : TRUE
  <2>1. Finish(job, cache[i].value, now) /\ UNCHANGED proc
    BY <1>2 DEF Lookup
  <2>2. i \in Cached(job.agent)
    BY <1>2
  <2> HIDE DEF i
  <2>3. i \in DOMAIN cache /\ cache[i].agent = job.agent /\ cache[i].expiresAt > now
    BY <2>2 DEF Cached
  <2>4. cache[i].expiresAt \in Nat
    <3>1. cache \in Seq(CacheEntry)
      BY DEF CacheOK
    <3>2. cache[i] \in CacheEntry
      BY <2>3, <3>1
    <3>. QED BY <3>2 DEF CacheEntry
  <2>5. WasOwner(cache[i].value, job.agent, (cache[i].expiresAt - Ttl) - 1, now)
    BY <2>3 DEF CacheOK, EntriesWereTrue
  <2>6. WasOwner(cache[i].value, job.agent, now - Ttl, now)
    <3>1. now - Ttl \in Int /\ (cache[i].expiresAt - Ttl) - 1 \in Int
          /\ now - Ttl <= (cache[i].expiresAt - Ttl) - 1
      BY <1>1, <2>3, <2>4, Bounds DEF now
    <3>2. seen \in Seq([Agents -> SUBSET Owners])
      BY DEF ChainOK
    <3>. QED BY <2>5, <3>1, <3>2, WasOwnerWeaker
  <2>7. now \in Nat
    BY <1>1 DEF now
  <2>8. RequestsOK'
    BY <2>1, PartsKept
  <2>. QED BY <2>1, <2>6, <2>7, <2>8, FinishStep
<1>3. CASE Cached(job.agent) = {}
  <2> DEFINE r == [pc |-> "asking", job |-> job, began |-> now]
  <2>1. proc' = [proc EXCEPT ![p] = r] /\ UNCHANGED <<listings, shown, answer>>
    BY <1>3 DEF Lookup
  <2>2. r \in Process /\ r.began \in 1..now /\ r.pc # "answered"
    BY <1>1 DEF Process, now
  <2> HIDE DEF r
  <2>3. proc \in [Procs -> Process \cup {Idle}]
    BY DEF RequestsOK
  <2>4. proc' \in [Procs -> Process \cup {Idle}]
    BY <2>1, <2>2, <2>3
  <2>5. AnswersWereRead'
    <3> SUFFICES ASSUME NEW q \in Procs
                 PROVE  /\ proc'[q] # Idle => proc'[q].began \in 1..now
                        /\ proc'[q].pc = "answered" =>
                             WasOwner(proc'[q].value, proc'[q].job.agent, proc'[q].began - 1, now)
      BY DEF AnswersWereRead, WasOwner, now
    <3>1. CASE q = p
      BY <2>1, <2>2, <2>3, <3>1
    <3>2. CASE q # p
      <4>1. proc'[q] = proc[q]
        BY <2>1, <2>3, <3>2
      <4>. QED BY <4>1 DEF RequestsOK, AnswersWereRead
    <3>. QED BY <3>1, <3>2
  <2>6. RequestsOK'
    BY <2>4, <2>5 DEF RequestsOK
  <2>. QED BY <2>1, <2>6, PartsKept, SameListings
<1>. QED BY <1>2, <1>3

\* A running engine's count follows the store.
LEMMA ShownStep ==
  ASSUME ListingsInv, UNCHANGED up, UNCHANGED <<listings, shown>> \/ shown' = Count'
  PROVE  ShownCountIsRight'
BY Parts DEF ShownCountIsRight, Count, StoredIds, Stored

\* POST /listings keeps the invariant and the store.
LEMMA PostListingStep ==
  ASSUME ListingsInv, NEW p \in Procs, NEW id \in scope.ids, NEW seller \in scope.sellers,
         NEW agent \in scope.agents \cup {None}, PostListing(p, id, seller, agent)
  PROVE  ListingsInv' /\ KeepsListings
<1> USE Parts
<1>1. UNCHANGED <<cache, owner, seen, up, changes, restarts, scope>>
  BY DEF PostListing
<1>2. id \in ListingIds /\ seller \in Sellers /\ agent \in Agents \cup {None}
  BY ListingsAssumption
<1>3. CASE agent = None
  <2>1. Register(id, seller, None, now) /\ UNCHANGED <<proc, answer>>
    BY <1>3 DEF PostListing
  <2>2. now \in Nat
    BY DEF ChainOK, now
  <2>3. StoreOK' /\ KeepsListings /\ (UNCHANGED <<listings, shown>> \/ shown' = Count')
    BY <1>1, <1>2, <2>1, <2>2, RegisterStep
  <2>4. ShownCountIsRight'
    BY <1>1, <2>3, ShownStep
  <2>5. AnswerOK' /\ RequestsOK' /\ CacheOK' /\ ChainOK'
    BY <1>1, <2>1, PartsKept
  <2>. QED BY <1>1, <2>3, <2>4, <2>5, PartsNext
<1>4. CASE agent # None
  <2> DEFINE job == [op |-> "register", id |-> id, seller |-> seller, agent |-> agent]
  <2>1. Lookup(p, job)
    BY <1>4 DEF PostListing
  <2>2. job \in Job
    BY <1>2, <1>4 DEF Job
  <2> HIDE DEF job
  <2>3. /\ StoreOK' /\ KeepsListings /\ AnswerOK' /\ RequestsOK'
        /\ (UNCHANGED <<listings, shown>> \/ shown' = Count')
    BY <1>1, <2>1, <2>2, LookupStep
  <2>4. ShownCountIsRight'
    BY <1>1, <2>3, ShownStep
  <2>5. CacheOK' /\ ChainOK'
    BY <1>1, PartsKept
  <2>. QED BY <1>1, <2>3, <2>4, <2>5, PartsNext
<1>. QED BY <1>3, <1>4

\* GET /listings keeps the invariant and the store.
LEMMA GetListingStep ==
  ASSUME ListingsInv, NEW p \in Procs, NEW id \in scope.ids, GetListing(p, id)
  PROVE  ListingsInv' /\ KeepsListings
<1> USE Parts
<1> DEFINE job == [op |-> "read", id |-> id, seller |-> listings[id].seller,
                   agent |-> listings[id].registry_agent_id]
<1>1. UNCHANGED <<cache, owner, seen, up, changes, restarts, scope>> /\ Lookup(p, job)
  BY DEF GetListing
<1>2. id \in ListingIds
  BY ListingsAssumption
<1>3. listings[id] \in Listing /\ listings[id].registry_agent_id # None
  BY <1>2 DEF GetListing, Stored, StoreOK
<1>4. job \in Job
  BY <1>2, <1>3 DEF Job, Listing
<1> HIDE DEF job
<1>5. /\ StoreOK' /\ KeepsListings /\ AnswerOK' /\ RequestsOK'
      /\ (UNCHANGED <<listings, shown>> \/ shown' = Count')
  BY <1>1, <1>4, LookupStep
<1>6. ShownCountIsRight'
  BY <1>1, <1>5, ShownStep
<1>7. CacheOK' /\ ChainOK'
  BY <1>1, PartsKept
<1>. QED BY <1>1, <1>5, <1>6, <1>7, PartsNext

\* A request that gives up waiting leaves the others as they were.
LEMMA IdleStep ==
  ASSUME ListingsInv, UNCHANGED seen, NEW p \in Procs, proc' = [proc EXCEPT ![p] = Idle]
  PROVE  RequestsOK'
<1> USE Parts
<1>1. proc \in [Procs -> Process \cup {Idle}]
  BY DEF RequestsOK
<1>2. proc' \in [Procs -> Process \cup {Idle}]
  BY <1>1
<1>3. AnswersWereRead'
  <2> SUFFICES ASSUME NEW q \in Procs
               PROVE  /\ proc'[q] # Idle => proc'[q].began \in 1..now
                      /\ proc'[q].pc = "answered" =>
                           WasOwner(proc'[q].value, proc'[q].job.agent, proc'[q].began - 1, now)
    BY DEF AnswersWereRead, WasOwner, now
  <2>1. CASE q = p
    BY <1>1, <2>1 DEF Idle
  <2>2. CASE q # p
    <3>1. proc'[q] = proc[q]
      BY <1>1, <2>2
    <3>. QED BY <3>1 DEF RequestsOK, AnswersWereRead
  <2>. QED BY <2>1, <2>2
<1>. QED BY <1>2, <1>3 DEF RequestsOK

\* The chain's answer is one that was true while the request waited.
LEMMA ChainIsReadStep ==
  ASSUME ListingsInv, NEW p \in Procs, ChainIsRead(p)
  PROVE  ListingsInv' /\ KeepsListings
<1> USE Parts
<1>1. UNCHANGED <<listings, shown, cache, owner, seen, answer, up, changes, restarts, scope>>
  BY DEF ChainIsRead
<1>2. proc \in [Procs -> Process \cup {Idle}] /\ proc[p].pc = "asking"
  BY DEF RequestsOK, ChainIsRead
<1>3. proc[p] \in Process /\ proc[p] # Idle
  BY <1>2 DEF Idle
<1>4. proc[p].job \in Job /\ proc[p].began \in Nat
  BY <1>3 DEF Process
<1>5. proc[p].job.agent \in Agents
  BY <1>4 DEF Job
<1> DEFINE r == [pc |-> "answered", job |-> proc[p].job, began |-> proc[p].began,
                 value |-> owner[proc[p].job.agent]]
<1>6. proc' = [proc EXCEPT ![p] = r]
  BY <1>2 DEF ChainIsRead
<1>7. owner[proc[p].job.agent] \in Owners
  BY <1>5 DEF ChainOK
<1>8. r \in Process
  BY <1>4, <1>7 DEF Process
<1>9. /\ r.began = proc[p].began /\ r.value = owner[proc[p].job.agent]
      /\ r.job.agent = proc[p].job.agent
  OBVIOUS
<1> HIDE DEF r
<1>10. proc[p].began \in 1..now
  BY <1>3 DEF RequestsOK, AnswersWereRead
<1>11. WasOwner(r.value, r.job.agent, r.began - 1, now)
  <2>1. Len(seen) \in Nat
    BY DEF ChainOK
  <2>2. proc[p].began - 1 \in Int /\ proc[p].began - 1 < now
    BY <1>4, <1>10, <2>1 DEF now
  <2>. QED BY <1>5, <1>9, <2>2, OwnerIsOnRecord
<1>12. AnswersWereRead'
  <2> SUFFICES ASSUME NEW q \in Procs
               PROVE  /\ proc'[q] # Idle => proc'[q].began \in 1..now
                      /\ proc'[q].pc = "answered" =>
                           WasOwner(proc'[q].value, proc'[q].job.agent, proc'[q].began - 1, now)
    BY <1>1 DEF AnswersWereRead, WasOwner, now
  <2>1. CASE q = p
    BY <1>2, <1>6, <1>9, <1>10, <1>11, <2>1
  <2>2. CASE q # p
    <3>1. proc'[q] = proc[q]
      BY <1>2, <1>6, <2>2
    <3>. QED BY <3>1 DEF RequestsOK, AnswersWereRead
  <2>. QED BY <2>1, <2>2
<1>13. RequestsOK'
  BY <1>2, <1>6, <1>8, <1>12 DEF RequestsOK
<1>. QED BY <1>1, <1>13, PartsKept, PartsNext, SameListings

\* A lookup's answer is cached and used as of the time it was asked.
LEMMA AnsweredStep ==
  ASSUME ListingsInv, NEW p \in Procs, Answered(p)
  PROVE  ListingsInv' /\ KeepsListings
<1> USE Parts
<1> DEFINE job == proc[p].job
           value == proc[p].value
           t == proc[p].began
<1>1. /\ UNCHANGED <<owner, seen, up, changes, restarts, scope>>
      /\ proc[p].pc = "answered"
      /\ cache' = CacheAfter(job.agent, value, t)
      /\ Finish(job, value, t)
      /\ proc' = [proc EXCEPT ![p] = Idle]
  BY DEF Answered
<1>2. proc[p] \in Process /\ proc[p] # Idle
  BY <1>1 DEF RequestsOK, Idle
<1>3. job \in Job /\ value \in Owners /\ t \in Nat
  BY <1>1, <1>2 DEF Process
<1>4. job.agent \in Agents
  BY <1>3 DEF Job
<1>5. WasOwner(value, job.agent, t - 1, now)
  BY <1>1 DEF RequestsOK, AnswersWereRead
<1> HIDE DEF job, value, t
<1>6. seen \in Seq([Agents -> SUBSET Owners])
  BY DEF ChainOK
<1>7. WasOwner(value, job.agent, t - Ttl, now)
  <2>1. t - 1 \in Int /\ t - Ttl \in Int /\ t - Ttl <= t - 1
    BY <1>3, Bounds
  <2>. QED BY <1>5, <1>6, <2>1, WasOwnerWeaker
<1>8. /\ StoreOK' /\ KeepsListings /\ AnswerOK'
      /\ (UNCHANGED <<listings, shown>> \/ shown' = Count')
  BY <1>1, <1>3, <1>7, FinishStep
<1>9. ShownCountIsRight'
  BY <1>1, <1>8, ShownStep
<1>10. RequestsOK'
  BY <1>1, IdleStep
<1>11. CacheOK'
  <2> DEFINE e == EntryOf(job.agent, value, t)
  <2>1. /\ e.value = value /\ e.agent = job.agent
        /\ (e.expiresAt - Ttl) - 1 = t - 1
    BY <1>3, Bounds DEF EntryOf
  <2>2. Follows(cache', e) /\ Len(cache') <= MaxCached
    BY <1>1, <1>3, <1>4, CacheAfterFollows DEF CacheOK
  <2> HIDE DEF e
  <2>3. EntriesWereTrue'
    <3> SUFFICES ASSUME NEW i \in DOMAIN cache'
                 PROVE  WasOwner(cache'[i].value, cache'[i].agent, (cache'[i].expiresAt - Ttl) - 1, now)
      BY <1>1 DEF EntriesWereTrue, WasOwner, now
    <3>1. cache'[i] = e \/ \E j \in DOMAIN cache : cache'[i] = cache[j]
      BY <2>2 DEF Follows
    <3>2. CASE cache'[i] = e
      BY <1>5, <2>1, <3>2
    <3>3. ASSUME NEW j \in DOMAIN cache, cache'[i] = cache[j]
          PROVE  WasOwner(cache'[i].value, cache'[i].agent, (cache'[i].expiresAt - Ttl) - 1, now)
      BY <3>3 DEF CacheOK, EntriesWereTrue
    <3>. QED BY <3>1, <3>2, <3>3
  <2>. QED BY <2>2, <2>3 DEF CacheOK, Follows, Distinct
<1>12. ChainOK'
  BY <1>1, PartsKept
<1>. QED BY <1>1, <1>8, <1>9, <1>10, <1>11, <1>12, PartsNext

\* A failed lookup changes neither the store nor the cache.
LEMMA LookupFailsStep ==
  ASSUME ListingsInv, NEW p \in Procs, LookupFails(p)
  PROVE  ListingsInv' /\ KeepsListings
<1> USE Parts
<1>1. /\ UNCHANGED <<listings, shown, cache, owner, seen, answer, up, changes, restarts, scope>>
      /\ proc' = [proc EXCEPT ![p] = Idle]
  BY DEF LookupFails
<1>2. RequestsOK'
  BY <1>1, IdleStep
<1>. QED BY <1>1, <1>2, PartsKept, PartsNext, SameListings

\* What was on record stays so when the record grows.
LEMMA GrownStep ==
  ASSUME ListingsInv, Recorded, ChainOK', UNCHANGED <<listings, shown, cache, proc, answer, up, scope>>
  PROVE  ListingsInv' /\ KeepsListings
<1> USE Parts
<1>1. seen \in Seq([Agents -> SUBSET Owners]) /\ now \in Nat /\ now' \in Nat /\ now <= now'
  BY DEF ChainOK, Recorded, now
<1>2. StoreOK'
  <2>1. StoredIds' = StoredIds /\ Count' = Count
    BY DEF StoredIds, Stored, Count
  <2>2. BindingsWereConfirmed'
    <3> SUFFICES ASSUME NEW id \in StoredIds, listings[id].registry_agent_id # None
                 PROVE  WasOwner(listings[id].seller, listings[id].registry_agent_id,
                                 listings[id].from - Ttl, listings[id].at)'
      BY <2>1 DEF BindingsWereConfirmed
    <3>1. listings[id] \in Listing
      BY DEF StoreOK, StoredIds, Stored
    <3>2. /\ listings[id].registry_agent_id \in Agents /\ listings[id].at \in Int
          /\ listings[id].at <= listings[id].at
      BY <3>1 DEF Listing
    <3>3. WasOwner(listings[id].seller, listings[id].registry_agent_id,
                   listings[id].from - Ttl, listings[id].at)
      BY DEF StoreOK, BindingsWereConfirmed
    <3>4. PICK i \in DOMAIN seen :
            /\ i > listings[id].from - Ttl /\ i <= listings[id].at
            /\ listings[id].seller \in seen[i][listings[id].registry_agent_id]
      BY <3>3 DEF WasOwner
    <3>5. i \in DOMAIN seen' /\ listings[id].seller \in seen'[i][listings[id].registry_agent_id]
      BY <3>2, <3>4 DEF Recorded
    <3>. QED BY <3>4, <3>5 DEF WasOwner
  <2>. QED BY <2>1, <2>2 DEF StoreOK
<1>3. AnswerOK'
  <2>1. ASSUME answer # None
        PROVE  \E i \in DOMAIN seen' : /\ i > answer.from - Ttl /\ i <= answer.at
                                       /\ answer.seller \in seen'[i][answer.agent]
    <3>1. answer.agent \in Agents
      BY <2>1 DEF AnswerOK
    <3>2. PICK i \in DOMAIN seen : /\ i > answer.from - Ttl /\ i <= answer.at
                                   /\ answer.seller \in seen[i][answer.agent]
      BY <2>1 DEF AnswerOK, EnrichmentIsCurrent, WasOwner
    <3>. QED BY <3>1, <3>2 DEF Recorded
  <2>2. EnrichmentIsCurrent'
    BY <2>1 DEF EnrichmentIsCurrent, WasOwner
  <2>. QED BY <2>2 DEF AnswerOK
<1>4. RequestsOK'
  <2> SUFFICES ASSUME NEW p \in Procs
               PROVE  /\ proc[p] # Idle => proc[p].began \in 1..now'
                      /\ proc[p].pc = "answered" =>
                           \E i \in DOMAIN seen' : /\ i > proc[p].began - 1 /\ i <= now'
                                                   /\ proc[p].value \in seen'[i][proc[p].job.agent]
    BY DEF RequestsOK, AnswersWereRead, WasOwner
  <2>1. proc[p] # Idle => proc[p].began \in 1..now'
    BY <1>1 DEF RequestsOK, AnswersWereRead
  <2>2. ASSUME proc[p].pc = "answered"
        PROVE  \E i \in DOMAIN seen' : /\ i > proc[p].began - 1 /\ i <= now'
                                       /\ proc[p].value \in seen'[i][proc[p].job.agent]
    <3>1. proc[p] \in Process
      BY <2>2 DEF RequestsOK, Idle
    <3>2. proc[p].job.agent \in Agents
      BY <3>1 DEF Process, Job
    <3>3. PICK i \in DOMAIN seen : /\ i > proc[p].began - 1 /\ i <= now
                                   /\ proc[p].value \in seen[i][proc[p].job.agent]
      BY <2>2 DEF RequestsOK, AnswersWereRead, WasOwner
    <3>4. i <= now'
      BY <1>1, <3>3
    <3>. QED BY <3>2, <3>3, <3>4 DEF Recorded
  <2>. QED BY <2>1, <2>2
<1>5. CacheOK'
  <2> SUFFICES ASSUME NEW k \in DOMAIN cache
               PROVE  \E i \in DOMAIN seen' : /\ i > (cache[k].expiresAt - Ttl) - 1 /\ i <= now'
                                              /\ cache[k].value \in seen'[i][cache[k].agent]
    BY DEF CacheOK, EntriesWereTrue, WasOwner, Distinct
  <2>1. cache \in Seq(CacheEntry)
    BY DEF CacheOK
  <2>2. cache[k] \in CacheEntry
    BY <2>1
  <2>3. cache[k].agent \in Agents
    BY <2>2 DEF CacheEntry
  <2>4. PICK i \in DOMAIN seen : /\ i > (cache[k].expiresAt - Ttl) - 1 /\ i <= now
                                 /\ cache[k].value \in seen[i][cache[k].agent]
    BY DEF CacheOK, EntriesWereTrue, WasOwner
  <2>5. i <= now'
    BY <1>1, <2>4
  <2>. QED BY <2>3, <2>4, <2>5 DEF Recorded
<1>6. ShownCountIsRight'
  BY DEF ShownCountIsRight, Count, StoredIds, Stored
<1>. QED BY <1>2, <1>3, <1>4, <1>5, <1>6, PartsNext, SameListings

\* A change of owner is recorded in the tick it happens in.
LEMMA ChangeOwnerStep ==
  ASSUME ListingsInv, NEW a \in scope.agents, NEW did \in scope.sellers \cup {None},
         ChangeOwner(a, did)
  PROVE  ListingsInv' /\ KeepsListings
<1> USE Parts
<1>1. a \in Agents /\ did \in Owners
  BY ListingsAssumption DEF Owners
<1>2. /\ owner \in [Agents -> Owners] /\ seen \in Seq([Agents -> SUBSET Owners])
      /\ Len(seen) \in Nat /\ Len(seen) \in DOMAIN seen /\ DOMAIN seen = 1..Len(seen)
      /\ seen[Len(seen)] \in [Agents -> SUBSET Owners]
  BY DEF ChainOK
<1> DEFINE here == [seen[Len(seen)] EXCEPT ![a] = seen[Len(seen)][a] \cup {did}]
<1>3. owner' = [owner EXCEPT ![a] = did] /\ seen' = [seen EXCEPT ![Len(seen)] = here]
  BY DEF ChangeOwner, now
<1>4. /\ here \in [Agents -> SUBSET Owners]
      /\ did \in here[a]
      /\ \A b \in Agents : seen[Len(seen)][b] \subseteq here[b]
  BY <1>1, <1>2
<1> HIDE DEF here
<1>5. /\ seen' \in Seq([Agents -> SUBSET Owners]) /\ Len(seen') = Len(seen)
      /\ DOMAIN seen' = DOMAIN seen /\ seen'[Len(seen)] = here
      /\ \A i \in DOMAIN seen : i # Len(seen) => seen'[i] = seen[i]
  <2>1. /\ DOMAIN seen' = 1..Len(seen) /\ seen'[Len(seen)] = here
        /\ \A i \in DOMAIN seen : i # Len(seen) => seen'[i] = seen[i]
    BY <1>2, <1>3
  <2>2. \A i \in 1..Len(seen) : seen'[i] \in [Agents -> SUBSET Owners]
    <3>1. \A i \in DOMAIN seen : seen[i] \in [Agents -> SUBSET Owners]
      BY <1>2
    <3>. QED BY <1>2, <1>4, <2>1, <3>1
  <2>3. seen' \in [1..Len(seen) -> [Agents -> SUBSET Owners]]
    BY <1>3, <2>1, <2>2
  <2>4. seen' \in Seq([Agents -> SUBSET Owners]) /\ Len(seen') = Len(seen)
    BY <1>2, <2>1, <2>3
  <2>. QED BY <1>2, <2>1, <2>4
<1>6. Recorded
  <2>1. \A i \in DOMAIN seen, b \in Agents : seen[i][b] \subseteq seen'[i][b]
    BY <1>4, <1>5
  <2>. QED BY <1>2, <1>5, <2>1 DEF Recorded
<1>7. ChainOK'
  <2>1. owner' \in [Agents -> Owners]
    BY <1>1, <1>2, <1>3
  <2>2. OwnersAreOnRecord'
    <3> SUFFICES ASSUME NEW b \in Agents PROVE owner'[b] \in here[b]
      BY <1>5 DEF OwnersAreOnRecord, now
    <3>1. owner[b] \in seen[Len(seen)][b]
      BY DEF ChainOK, OwnersAreOnRecord, now
    <3>. QED BY <1>1, <1>2, <1>3, <1>4, <3>1
  <2>3. seen' # <<>>
    BY <1>2, <1>5
  <2>. QED BY <1>5, <2>1, <2>2, <2>3 DEF ChainOK
<1>. QED BY <1>6, <1>7, GrownStep DEF ChangeOwner

\* A tick opens a new record with the owners of that time.
LEMMA TickStep ==
  ASSUME ListingsInv, Tick
  PROVE  ListingsInv' /\ KeepsListings
<1> USE Parts
<1> DEFINE fresh == [a \in Agents |-> {owner[a]}]
<1>1. owner \in [Agents -> Owners] /\ seen \in Seq([Agents -> SUBSET Owners]) /\ Len(seen) \in Nat
  BY DEF ChainOK
<1>2. fresh \in [Agents -> SUBSET Owners] /\ \A a \in Agents : owner[a] \in fresh[a]
  BY <1>1
<1>3. seen' = Append(seen, fresh) /\ UNCHANGED <<listings, shown, cache, owner, proc, answer, up, scope>>
  BY DEF Tick
<1> HIDE DEF fresh
<1>4. /\ seen' \in Seq([Agents -> SUBSET Owners]) /\ Len(seen') = Len(seen) + 1
      /\ DOMAIN seen = 1..Len(seen) /\ DOMAIN seen' = 1..(Len(seen) + 1)
      /\ seen'[Len(seen) + 1] = fresh /\ \A i \in 1..Len(seen) : seen'[i] = seen[i]
  BY <1>1, <1>2, <1>3
<1>5. Recorded
  BY <1>1, <1>4 DEF Recorded
<1>6. ChainOK'
  <2>1. seen' # <<>>
    BY <1>1, <1>4
  <2>. QED BY <1>1, <1>2, <1>3, <1>4, <2>1 DEF ChainOK, OwnersAreOnRecord, now
<1>. QED BY <1>3, <1>5, <1>6, GrownStep

\* A start of the engine seeds, counts, or ends with the error of a full store.
LEMMA StartStep ==
  ASSUME ListingsInv, NEW seeding \in BOOLEAN, Start(seeding)
  PROVE  ListingsInv' /\ KeepsListings
<1> USE Parts
<1>1. UNCHANGED <<cache, owner, seen, proc, answer, changes, restarts, scope>> /\ ~up
  BY DEF Start
<1>2. AnswerOK' /\ RequestsOK' /\ CacheOK' /\ ChainOK'
  BY <1>1, PartsKept
<1>3. CASE seeding /\ ~Stored(SeedId) /\ CanAdd(SeedId)
  <2>1. Register(SeedId, SeedSeller, None, now) /\ up' = TRUE
    BY <1>3 DEF Start
  <2>2. now \in Nat /\ SeedId \in ListingIds /\ SeedSeller \in Sellers
    BY ListingsAssumption DEF ChainOK, now
  <2>3. StoreOK' /\ KeepsListings /\ shown' = Count'
    BY <1>1, <1>3, <2>1, <2>2, RegisterStep
  <2>. QED BY <1>1, <1>2, <2>1, <2>3, PartsNext DEF ShownCountIsRight
<1>4. CASE seeding /\ ~Stored(SeedId) /\ ~CanAdd(SeedId)
  <2>1. UNCHANGED <<listings, shown, up>>
    BY <1>4 DEF Start
  <2>. QED BY <1>1, <1>2, <2>1, PartsKept, PartsNext, SameListings
<1>5. CASE ~(seeding /\ ~Stored(SeedId))
  <2>1. shown' = Count /\ up' = TRUE /\ UNCHANGED listings
    BY <1>5 DEF Start
  <2>2. StoredIds' = StoredIds /\ Count' = Count
    BY <2>1 DEF StoredIds, Stored, Count
  <2>3. Count \in Nat
    BY FS_CardinalityType DEF StoreOK, Count
  <2>4. StoreOK'
    BY <1>1, <2>1, <2>2, <2>3 DEF StoreOK, BindingsWereConfirmed, WasOwner
  <2>5. ShownCountIsRight'
    BY <2>1, <2>2 DEF ShownCountIsRight
  <2>. QED BY <1>1, <1>2, <2>1, <2>4, <2>5, PartsNext, SameListings
<1>. QED BY <1>3, <1>4, <1>5

\* A crash loses requests, cache and counter, never a listing.
LEMMA CrashStep ==
  ASSUME ListingsInv, Crash
  PROVE  ListingsInv' /\ KeepsListings
<1> USE Parts
<1>1. /\ UNCHANGED <<listings, owner, seen, answer, changes, scope>>
      /\ up' = FALSE /\ cache' = <<>> /\ proc' = [p \in Procs |-> Idle] /\ shown' = 0
  BY DEF Crash
<1>2. AnswerOK' /\ ChainOK'
  BY <1>1, PartsKept
<1>3. StoreOK'
  <2>1. StoredIds' = StoredIds /\ Count' = Count
    BY <1>1 DEF StoredIds, Stored, Count
  <2>. QED BY <1>1, <2>1 DEF StoreOK, BindingsWereConfirmed, WasOwner
<1>4. RequestsOK'
  BY <1>1 DEF RequestsOK, AnswersWereRead, Idle
<1>5. CacheOK'
  BY <1>1, Bounds DEF CacheOK, Distinct, EntriesWereTrue
<1>6. ShownCountIsRight'
  BY <1>1 DEF ShownCountIsRight
<1>. QED BY <1>1, <1>2, <1>3, <1>4, <1>5, <1>6, PartsNext, SameListings

\* The invariant holds before the engine starts.
LEMMA ListingsInit == Init => ListingsInv
<1> SUFFICES ASSUME Init PROVE ListingsInv
  OBVIOUS
<1>1. scope \in Scopes /\ owner \in [Agents -> Owners] /\ up \in BOOLEAN /\ ShownCountIsRight
  BY ListingsAssumption DEF Init, Owners, ShownCountIsRight
<1>2. StoreOK
  <2>1. listings \in [ListingIds -> Listing \cup {None}] /\ shown \in Nat /\ StoredIds = {}
    BY DEF Init, StoredIds, Stored
  <2>2. IsFiniteSet(StoredIds) /\ Count = 0
    BY <2>1, FS_EmptySet DEF Count
  <2>. QED BY <2>1, <2>2, Bounds DEF StoreOK, BindingsWereConfirmed
<1>3. AnswerOK
  BY DEF Init, AnswerOK, EnrichmentIsCurrent
<1>4. RequestsOK
  BY DEF Init, RequestsOK, AnswersWereRead, Idle
<1>5. CacheOK
  BY Bounds DEF Init, CacheOK, Distinct, EntriesWereTrue
<1>6. ChainOK
  <2> DEFINE fresh == [a \in Agents |-> {owner[a]}]
  <2>1. seen = <<fresh>> /\ fresh \in [Agents -> SUBSET Owners] /\ \A a \in Agents : owner[a] \in fresh[a]
    BY <1>1 DEF Init
  <2> HIDE DEF fresh
  <2>2. seen \in Seq([Agents -> SUBSET Owners]) /\ seen # <<>> /\ Len(seen) = 1 /\ seen[1] = fresh
    BY <2>1
  <2>. QED BY <1>1, <2>1, <2>2 DEF ChainOK, OwnersAreOnRecord, now
<1>. QED BY <1>1, <1>2, <1>3, <1>4, <1>5, <1>6, Parts

\* Every step keeps the invariant and the stored listings.
LEMMA ListingsNext ==
  ASSUME ListingsInv, [Next]_vars
  PROVE  ListingsInv' /\ KeepsListings
<1>1. CASE UNCHANGED vars
  <2>1. UNCHANGED <<listings, shown, cache, owner, seen, proc, answer, up, scope>>
    BY <1>1 DEF vars
  <2>. QED BY <2>1, Parts, PartsKept, PartsNext, SameListings
<1>2. ASSUME NEW p \in Procs, ChainIsRead(p) PROVE ListingsInv' /\ KeepsListings
  BY <1>2, ChainIsReadStep
<1>3. ASSUME NEW p \in Procs, Answered(p) PROVE ListingsInv' /\ KeepsListings
  BY <1>3, AnsweredStep
<1>4. ASSUME NEW p \in Procs, LookupFails(p) PROVE ListingsInv' /\ KeepsListings
  BY <1>4, LookupFailsStep
<1>5. ASSUME NEW p \in Procs, NEW id \in scope.ids, GetListing(p, id)
      PROVE  ListingsInv' /\ KeepsListings
  BY <1>5, GetListingStep
<1>6. ASSUME NEW p \in Procs, NEW id \in scope.ids, NEW seller \in scope.sellers,
             NEW agent \in scope.agents \cup {None}, PostListing(p, id, seller, agent)
      PROVE  ListingsInv' /\ KeepsListings
  BY <1>6, PostListingStep
<1>7. ASSUME NEW a \in scope.agents, NEW did \in scope.sellers \cup {None}, ChangeOwner(a, did)
      PROVE  ListingsInv' /\ KeepsListings
  BY <1>7, ChangeOwnerStep
<1>8. ASSUME NEW seeding \in BOOLEAN, Start(seeding) PROVE ListingsInv' /\ KeepsListings
  BY <1>8, StartStep
<1>9. CASE Crash
  BY <1>9, CrashStep
<1>10. CASE Tick
  BY <1>10, TickStep
<1>. QED BY <1>1, <1>2, <1>3, <1>4, <1>5, <1>6, <1>7, <1>8, <1>9, <1>10 DEF Next

-----------------------------------------------------------------------------
(***************************************************************************)
(* The theorems.                                                           *)
(***************************************************************************)
\* The strengthened invariant of the listing store and the registry cache holds.
THEOREM ListingsInvHolds == Spec => []ListingsInv
<1>1. ListingsInv /\ [Next]_vars => ListingsInv'
  BY ListingsNext
<1>. QED BY <1>1, ListingsInit, PTL DEF Spec

\* What is stored, shown or cached on the registry's word was true within the
\* time to live of the cache before its lookup, or during it (registry-binding.ts
\* 36-50, listing-enricher.ts 77-81, server.ts 133-144).
THEOREM AnswersAreCurrent == Spec => []RegistryAnswersAreCurrent
<1>1. ListingsInv => RegistryAnswersAreCurrent
  <2> SUFFICES ASSUME ListingsInv PROVE CacheIsFresh
    BY DEF RegistryAnswersAreCurrent, ListingsInv
  <2> SUFFICES ASSUME NEW i \in DOMAIN cache, cache[i].expiresAt > now
               PROVE  WasOwner(cache[i].value, cache[i].agent, now - Ttl, now)
    BY DEF CacheIsFresh
  <2>1. cache \in Seq(CacheEntry) /\ seen \in Seq([Agents -> SUBSET Owners])
    BY DEF ListingsInv, TypeOK
  <2>2. cache[i] \in CacheEntry /\ now \in Nat
    BY <2>1 DEF now
  <2>3. cache[i].expiresAt \in Nat
    BY <2>2 DEF CacheEntry
  <2>4. /\ now - Ttl \in Int /\ (cache[i].expiresAt - Ttl) - 1 \in Int
        /\ now - Ttl <= (cache[i].expiresAt - Ttl) - 1
    BY <2>2, <2>3, Bounds
  <2>5. WasOwner(cache[i].value, cache[i].agent, (cache[i].expiresAt - Ttl) - 1, now)
    BY DEF ListingsInv, EntriesWereTrue
  <2>. QED BY <2>1, <2>4, <2>5, WasOwnerWeaker
<1>. QED BY <1>1, ListingsInvHolds, PTL

\* No registration, seed or restart changes or removes a stored listing, the store
\* and the cache stay within their bounds, and the dashboard counts what is stored
\* (listing-store.ts 80-89, server.ts 146-157, 162, 230, 274).
THEOREM TheStoreIsSound == Spec => StoreIsSound
<1>1. ListingsInv => TypeOK /\ WithinBounds /\ ShownCountIsRight
  BY DEF ListingsInv
<1>2. ListingsInv /\ [Next]_vars => [\A id \in StoredIds : listings'[id] = listings[id]]_vars
  BY ListingsNext DEF KeepsListings
<1>3. Spec => [][Next]_vars
  BY PTL DEF Spec
<1>. QED BY <1>1, <1>2, <1>3, ListingsInvHolds, PTL DEF StoreIsSound, ListingsAreKept

=============================================================================

---------------------------- MODULE EngineProofs ----------------------------
(***************************************************************************)
(* Proofs about NegotiationEngine, for every number of requests, sellers,  *)
(* envelopes, limits, times and restarts: the engine implements            *)
(* Negotiation, and its lock, its cache, its snapshots and its envelopes   *)
(* stay what the routes rely on.                                           *)
(*                                                                         *)
(* Every action is first put into one of a few shapes that say what it     *)
(* does to the log, to the lock and to the requests; the invariant is then *)
(* shown to be kept by every shape.                                        *)
(***************************************************************************)
EXTENDS NegotiationEngine, DataInduction, FiniteSetTheorems

\* What is proved of the promise and of the lock by themselves.
Promised == INSTANCE NegotiationProofs WITH Times <- Horizon \cup ValidUntils

Held == INSTANCE SessionLockProofs

(***************************************************************************)
(* The constants meet the assumptions of the two modules.                  *)
(***************************************************************************)
LEMMA Numbers ==
  /\ MaxTime \in Nat /\ Deadlines \subseteq Nat /\ SettlementWindow \in Nat \ {0}
  /\ CosignTimeoutMs \in Nat /\ MaxCrashes \in Nat /\ MaxQueueSize \in Nat
  /\ MaxOffersPerSession \in Nat /\ MaxOffersPerSeller \in Nat
  /\ MaxAcceptsPerSession \in Nat /\ MaxAcceptsPerSeller \in Nat
  BY BoundsAssumption

\* Times are naturals.
LEMMA HorizonIsNat == Horizon \cup ValidUntils \subseteq Nat
<1>1. ValidUntils \subseteq Nat
  BY BoundsAssumption
<1>. QED BY <1>1, Numbers DEF Horizon

\* The types of the promise are those of the engine.
LEMMA SameTypes ==
  /\ Promised!DerivedSession = DerivedSession
  /\ Promised!Event = Event
  /\ Promised!Offer = Offer
  /\ Promised!Counter = Counter
  /\ Promised!Quote = Quote
  /\ Promised!Signature = Signature
  BY Zenon DEF Promised!DerivedSession, Promised!Event, Promised!Dids, Promised!States,
       Promised!EventTypes, Promised!Rfq, Promised!Offer, Promised!Counter, Promised!Quote,
       Promised!Signature, Promised!WinnerPayload, Promised!SellerPayload,
       Promised!SignedPayload, Promised!CommittedPayload, Promised!SettlementPayload,
       Promised!EmptyPayload, Promised!Engine,
       DerivedSession, Event, Dids, States, EventTypes, Rfq, Offer, Counter, Quote,
       Signature, WinnerPayload, SellerPayload, SignedPayload, CommittedPayload,
       SettlementPayload, EmptyPayload, Engine

\* What the promise assumes of its constants holds of the engine's.
LEMMA PromiseAssumptions ==
  /\ Promised!TimesAssumption
  /\ Promised!RoundsAssumption
  /\ Promised!LimitsAssumption
  /\ Promised!NoneAssumption
<1>1. Promised!TimesAssumption
  BY HorizonIsNat DEF Promised!TimesAssumption
<1>2. Promised!RoundsAssumption
  BY BoundsAssumption DEF Promised!RoundsAssumption
<1>3. Promised!LimitsAssumption
  BY Numbers DEF Promised!LimitsAssumption
<1>4. Promised!NoneAssumption
  BY NoneAssumption, SameTypes DEF Promised!NoneAssumption
<1>. QED BY <1>1, <1>2, <1>3, <1>4

\* What the lock assumes holds of the engine's queue size.
LEMMA LockAssumption == Held!QueueAssumption
  BY Numbers DEF Held!QueueAssumption

(***************************************************************************)
(* The names of the instances stand for the same formulas.                 *)
(***************************************************************************)
LEMMA SameReducer ==
  ASSUME NEW s, NEW e
  PROVE  Promised!Accepts(s, e) = Accepts(s, e) /\ Promised!Apply(s, e) = Apply(s, e)
  BY Zenon DEF Promised!Accepts, Promised!PayloadInvariant, Promised!IsValidTransition,
       Promised!HasOffer, Promised!IsFound, Promised!TransitionRules, Promised!Apply,
       Promised!ApplyPayload, Promised!NewSession, Promised!Winner, Promised!Rollback,
       Accepts, PayloadInvariant, IsValidTransition, HasOffer, IsFound, TransitionRules,
       Apply, ApplyPayload, NewSession, Winner, Rollback

\* The steps of the two instances of Negotiation are the same.
LEMMA SamePromise == Promise!Next <=> Promised!Next
  BY Zenon DEF Promise!Next, Promise!CreateRfq, Promise!SubmitOffer, Promise!SendCounter,
       Promise!SelectWinner, Promise!SignQuote, Promise!Cosign, Promise!Decline,
       Promise!CosignTimeout, Promise!Expire, Promise!ConfirmSettlement, Promise!InState,
       Promise!AppendEvent, Promise!BuildQuote, Promise!MkEvent, Promise!Engine,
       Promise!Accepts, Promise!PayloadInvariant, Promise!IsValidTransition,
       Promise!HasOffer, Promise!IsFound, Promise!TransitionRules, Promise!Apply,
       Promise!ApplyPayload, Promise!NewSession, Promise!Winner, Promise!Rollback,
       Promised!Next, Promised!CreateRfq, Promised!SubmitOffer, Promised!SendCounter,
       Promised!SelectWinner, Promised!SignQuote, Promised!Cosign, Promised!Decline,
       Promised!CosignTimeout, Promised!Expire, Promised!ConfirmSettlement, Promised!InState,
       Promised!AppendEvent, Promised!BuildQuote, Promised!MkEvent, Promised!Engine,
       Promised!Accepts, Promised!PayloadInvariant, Promised!IsValidTransition,
       Promised!HasOffer, Promised!IsFound, Promised!TransitionRules, Promised!Apply,
       Promised!ApplyPayload, Promised!NewSession, Promised!Winner, Promised!Rollback

\* ... and so is the invariant.
LEMMA SameIntegrity == Promise!IntegrityInv <=> Promised!IntegrityInv
  BY Zenon DEF Promise!IntegrityInv, Promise!TypeOK, Promise!RollbackIsClean,
       Promise!PendingHasQuote, Promise!QuoteIsSelectedOffer, Promise!BuyerSignedTheQuote,
       Promise!CommitIntegrity, Promise!DerivedSession, Promise!Event, Promise!Dids,
       Promise!States, Promise!EventTypes, Promise!Rfq, Promise!Offer, Promise!Counter,
       Promise!Quote, Promise!Signature, Promise!WinnerPayload, Promise!SellerPayload,
       Promise!SignedPayload, Promise!CommittedPayload, Promise!SettlementPayload,
       Promise!EmptyPayload, Promise!Engine,
       Promised!IntegrityInv, Promised!TypeOK, Promised!RollbackIsClean,
       Promised!PendingHasQuote, Promised!QuoteIsSelectedOffer, Promised!BuyerSignedTheQuote,
       Promised!CommitIntegrity, Promised!DerivedSession, Promised!Event, Promised!Dids,
       Promised!States, Promised!EventTypes, Promised!Rfq, Promised!Offer, Promised!Counter,
       Promised!Quote, Promised!Signature, Promised!WinnerPayload, Promised!SellerPayload,
       Promised!SignedPayload, Promised!CommittedPayload, Promised!SettlementPayload,
       Promised!EmptyPayload, Promised!Engine

\* The two instances of the lock are the same.
LEMMA SameLock ==
  /\ Held!lockVars = lockVars
  /\ Held!LockInit <=> Lock!LockInit
  /\ Held!LockInv <=> Lock!LockTypeOK /\ LockIsSound
  /\ \A c : /\ Held!RunRefused(c) <=> Lock!RunRefused(c)
            /\ Held!RunAtOnce(c) <=> Lock!RunAtOnce(c)
            /\ Held!RunQueued(c) <=> Lock!RunQueued(c)
            /\ Held!WaitTimeout(c) <=> Lock!WaitTimeout(c)
            /\ Held!Release(c) <=> Lock!Release(c)
  /\ Held!RemoveLock <=> Lock!RemoveLock
<1>1. Held!lockVars = lockVars
  BY DEF Held!lockVars, lockVars
<1>2. Held!LockInit <=> Lock!LockInit
  BY Zenon DEF Held!LockInit, Lock!LockInit
<1>3. Held!LockInv <=> Lock!LockTypeOK /\ LockIsSound
  BY Zenon DEF Held!LockInv, Held!LockTypeOK, Held!MutualExclusion, Held!QueueIsServed,
       Held!RunningIsHeld, Lock!LockTypeOK, LockIsSound, Lock!MutualExclusion,
       Lock!QueueIsServed, Lock!RunningIsHeld
<1>4. ASSUME NEW c
      PROVE  /\ Held!RunRefused(c) <=> Lock!RunRefused(c)
             /\ Held!RunAtOnce(c) <=> Lock!RunAtOnce(c)
             /\ Held!RunQueued(c) <=> Lock!RunQueued(c)
             /\ Held!WaitTimeout(c) <=> Lock!WaitTimeout(c)
             /\ Held!Release(c) <=> Lock!Release(c)
  BY Zenon DEF Held!RunRefused, Held!RunAtOnce, Held!RunQueued, Held!WaitTimeout,
       Held!Release, Held!QueueFull, Held!Splice, Lock!RunRefused, Lock!RunAtOnce,
       Lock!RunQueued, Lock!WaitTimeout, Lock!Release, Lock!QueueFull, Lock!Splice
<1>5. Held!RemoveLock <=> Lock!RemoveLock
  BY Zenon DEF Held!RemoveLock, Held!Removable, Lock!RemoveLock, Lock!Removable
<1>. QED BY <1>1, <1>2, <1>3, <1>4, <1>5

(***************************************************************************)
(* deriveState, for logs of any length.                                    *)
(***************************************************************************)

\* f is the run of the reducer over the first k events of a log.
IsReplay(f, l, k) ==
  f = [n \in 0..k |-> IF n = 0 THEN None ELSE Apply(f[n - 1], l[n])]

\* The reducer has a run over every log ...
LEMMA ReplayExists ==
  ASSUME NEW l, Len(l) \in Nat
  PROVE  \E f : IsReplay(f, l, Len(l))
<1> DEFINE S == {k \in 0..Len(l) : \E f : IsReplay(f, l, k)}
<1>1. 0 \in S
  <2> DEFINE f == [n \in 0..0 |-> None]
  <2>1. IsReplay(f, l, 0)
    <3>1. \A n \in 0..0 : n = 0
      OBVIOUS
    <3>. QED BY <3>1 DEF IsReplay
  <2> HIDE DEF f
  <2>. QED BY <2>1
<1>2. ASSUME NEW k \in 1..Len(l), k - 1 \in S
      PROVE  k \in S
  <2>1. PICK g : IsReplay(g, l, k - 1)
    BY <1>2
  <2> DEFINE v == Apply(g[k - 1], l[k])
             f == [n \in 0..k |-> IF n = k THEN v ELSE g[n]]
  <2>2. ASSUME NEW n \in 0..k
        PROVE  f[n] = IF n = 0 THEN None ELSE Apply(f[n - 1], l[n])
    <3> HIDE DEF v
    <3>1. CASE n = k
      <4>1. n # 0 /\ n - 1 \in 0..k /\ n - 1 # k
        BY <3>1
      <4>2. f[n] = v /\ f[n - 1] = g[k - 1]
        BY <3>1, <4>1
      <4>. QED BY <3>1, <4>1, <4>2 DEF v
    <3>2. CASE n # k
      <4>1. n \in 0..(k - 1)
        BY <3>2
      <4>2. f[n] = g[n] /\ g[n] = IF n = 0 THEN None ELSE Apply(g[n - 1], l[n])
        BY <2>1, <3>2, <4>1 DEF IsReplay
      <4>3. n # 0 => f[n - 1] = g[n - 1]
        BY <4>1
      <4> HIDE DEF f
      <4>. QED BY <4>2, <4>3
    <3>. QED BY <3>1, <3>2
  <2>3. IsReplay(f, l, k)
    <3>1. f = [n \in 0..k |-> f[n]]
      OBVIOUS
    <3> HIDE DEF f
    <3>. QED BY <2>2, <3>1 DEF IsReplay
  <2> HIDE DEF f
  <2>. QED BY <2>3
<1>3. Len(l) \in S
  <2> HIDE DEF S
  <2>1. 0..Len(l) \subseteq S
    BY <1>1, <1>2, IntervalInduction
  <2>. QED BY <2>1
<1>. QED BY <1>3

\* ... and only one.
LEMMA ReplayUnique ==
  ASSUME NEW l, NEW N \in Nat, NEW M \in 0..N, NEW f, NEW g,
         IsReplay(f, l, N), IsReplay(g, l, M)
  PROVE  \A n \in 0..M : f[n] = g[n]
<1> DEFINE S == {n \in 0..M : f[n] = g[n]}
<1>1. /\ \A n \in 0..N : f[n] = IF n = 0 THEN None ELSE Apply(f[n - 1], l[n])
      /\ \A n \in 0..M : g[n] = IF n = 0 THEN None ELSE Apply(g[n - 1], l[n])
  BY DEF IsReplay
<1>2. 0 \in S
  BY <1>1
<1>3. ASSUME NEW n \in 1..M, n - 1 \in S
      PROVE  n \in S
  <2>1. f[n - 1] = g[n - 1]
    BY <1>3
  <2>2. f[n] = Apply(f[n - 1], l[n]) /\ g[n] = Apply(g[n - 1], l[n])
    BY <1>1
  <2>. QED BY <2>1, <2>2
<1>4. 0..M \subseteq S
  <2> HIDE DEF S
  <2>. QED BY <1>2, <1>3, IntervalInduction
<1>. QED BY <1>4

\* deriveState is the last value of the run.
LEMMA DeriveStateIsReplay ==
  ASSUME NEW l, Len(l) \in Nat
  PROVE  \E f : IsReplay(f, l, Len(l)) /\ DeriveState(l) = f[Len(l)]
<1> DEFINE d == CHOOSE f : f = [n \in 0..Len(l) |->
                                  IF n = 0 THEN None ELSE Apply(f[n - 1], l[n])]
<1>1. \E f : f = [n \in 0..Len(l) |-> IF n = 0 THEN None ELSE Apply(f[n - 1], l[n])]
  BY ReplayExists DEF IsReplay
<1>2. d = [n \in 0..Len(l) |-> IF n = 0 THEN None ELSE Apply(d[n - 1], l[n])]
  BY <1>1
<1>3. DeriveState(l) = d[Len(l)]
  BY DEF DeriveState
<1> HIDE DEF d
<1>4. IsReplay(d, l, Len(l))
  BY <1>2 DEF IsReplay
<1>. QED BY <1>3, <1>4

\* The empty log derives no session.
LEMMA ReplayOfNothing == DeriveState(<<>>) = None
<1>1. PICK f : IsReplay(f, <<>>, Len(<<>>)) /\ DeriveState(<<>>) = f[Len(<<>>)]
  BY DeriveStateIsReplay
<1>2. Len(<<>>) = 0
  OBVIOUS
<1>3. f[0] = None
  BY <1>1, <1>2 DEF IsReplay
<1>. QED BY <1>1, <1>2, <1>3

\* To replay a log with one more event is to apply that event to the replay.
LEMMA ReplayOfAppend ==
  ASSUME NEW l \in Seq(Event), NEW e \in Event
  PROVE  DeriveState(Append(l, e)) = Apply(DeriveState(l), e)
<1> DEFINE k == Append(l, e)
           n == Len(l)
<1>1. n \in Nat /\ Len(k) = n + 1 /\ \A i \in 1..n : k[i] = l[i]
  OBVIOUS
<1>2. k[n + 1] = e
  OBVIOUS
<1> HIDE DEF k
<1>3. PICK f : IsReplay(f, l, n) /\ DeriveState(l) = f[n]
  BY <1>1, DeriveStateIsReplay
<1> HIDE DEF n
<1>4. PICK g : IsReplay(g, k, n + 1) /\ DeriveState(k) = g[n + 1]
  <2>1. Len(k) \in Nat
    BY <1>1
  <2>. QED BY <1>1, <2>1, DeriveStateIsReplay
<1>5. IsReplay(f, k, n)
  <2>1. \A i \in 0..n : i # 0 => k[i] = l[i]
    BY <1>1
  <2>2. f = [i \in 0..n |-> IF i = 0 THEN None ELSE Apply(f[i - 1], l[i])]
    BY <1>3 DEF IsReplay
  <2>3. [i \in 0..n |-> IF i = 0 THEN None ELSE Apply(f[i - 1], l[i])]
          = [i \in 0..n |-> IF i = 0 THEN None ELSE Apply(f[i - 1], k[i])]
    BY <2>1
  <2>. QED BY <2>2, <2>3 DEF IsReplay
<1>6. g[n] = f[n]
  <2>1. n \in 0..(n + 1) /\ n + 1 \in Nat /\ n \in 0..n
    BY <1>1
  <2>2. \A i \in 0..n : g[i] = f[i]
    <3>1. IsReplay(g, k, n + 1) /\ IsReplay(f, k, n)
      BY <1>4, <1>5
    <3>. QED BY <2>1, <3>1, ReplayUnique
  <2>. QED BY <2>1, <2>2
<1>7. g[n + 1] = Apply(g[n], k[n + 1])
  <2>1. n + 1 \in 0..(n + 1) /\ n + 1 # 0 /\ (n + 1) - 1 = n
    BY <1>1
  <2>2. g[n + 1] = IF n + 1 = 0 THEN None ELSE Apply(g[(n + 1) - 1], k[n + 1])
    BY <1>4, <2>1 DEF IsReplay
  <2>. QED BY <2>1, <2>2
<1>. QED BY <1>2, <1>3, <1>4, <1>6, <1>7 DEF k

(***************************************************************************)
(* What a step does to the log.                                            *)
(***************************************************************************)

\* Event e is stored and the cache refreshed with it.
Stored(e) ==
  /\ Accepts(session, e)
  /\ log' = Append(log, e)
  /\ session' = Apply(session, e)
  /\ cache' = [eventCount |-> Len(log) + 1, session |-> Apply(session, e)]

\* Nothing is stored; the cache is left, filled or dropped.
Kept ==
  /\ UNCHANGED <<log, session>>
  /\ cache' = cache \/ cache' = None \/ CacheFill

\* What the clock, the log and the session said when e was stored.
Judged(e) ==
  /\ e.type \in {"OFFER_SUBMITTED", "COUNTER_SENT", "WINNER_SELECTED", "COSIGN_DECLINED"}
       => now < session.rfq.deadline
  /\ e.type = "NEGOTIATION_EXPIRED" => now >= session.rfq.deadline
  /\ e.type = "COSIGN_TIMEOUT" => CosignElapsed(session)
  /\ e.type = "WINNER_SELECTED" =>
       /\ e.payload \in WinnerPayload
       /\ e.payload.quote.expires_at > now
       /\ \E i \in DOMAIN session.offers :
            /\ session.offers[i].offer_id = e.payload.offer_id
            /\ session.offers[i].valid_until > now
  /\ e.type = "SETTLEMENT_CONFIRMED" => ~Settled

Appends(e) ==
  /\ Stored(e)
  /\ e.event_id = Len(log) + 1
  /\ Promised!Next
  /\ Judged(e)

\* getSession returns the current session, cached or replayed.
LEMMA CurrentSession ==
  ASSUME CacheIsFresh
  PROVE  GetSession = session
  BY DEF CacheIsFresh, GetSession

\* What the invariant says of the log and the session.
LEMMA SessionFacts ==
  ASSUME EngineInv
  PROVE  /\ log \in Seq(Event) /\ Len(log) \in Nat
         /\ Promised!IntegrityInv
         /\ session # None => session \in DerivedSession
         /\ GetSession = session
<1>1. Promised!IntegrityInv
  BY SameIntegrity DEF EngineInv
<1>2. log \in Seq(Event) /\ session \in DerivedSession \cup {None}
  BY DEF EngineInv, TypeOK
<1>3. GetSession = session
  BY CurrentSession DEF EngineInv
<1>. QED BY <1>1, <1>2, <1>3

\* The reducer numbers the session by the event it applies.
LEMMA ApplyNumbers ==
  ASSUME NEW s, NEW e, Apply(s, e) \in DerivedSession
  PROVE  Apply(s, e).lastEventId = e.event_id
<1>1. CASE s = None
  BY <1>1 DEF Apply, NewSession
<1>2. CASE s # None
  <2> DEFINE p == ApplyPayload(s, e)
             st == TransitionRules[s.state][e.type]
  <2>1. Apply(s, e) = [p EXCEPT !.state = st, !.lastEventId = e.event_id]
    BY <1>2 DEF Apply
  <2>2. "lastEventId" \in DOMAIN Apply(s, e)
    BY DEF DerivedSession
  <2> HIDE DEF p, st
  <2>. QED BY <2>1, <2>2
<1>. QED BY <1>1, <1>2

\* A stored event keeps the session sound, current, cached and numbered.
LEMMA StoredStep ==
  ASSUME EngineInv, NEW e, Stored(e), e.event_id = Len(log) + 1, Promised!Next
  PROVE  /\ e \in Event /\ log' \in Seq(Event) /\ Len(log') = Len(log) + 1
         /\ session' \in DerivedSession /\ session' # None
         /\ Promise!IntegrityInv'
         /\ session' = DeriveState(log')
         /\ CacheIsFresh'
         /\ SessionIsLatest'
         /\ cache' \in CacheEntry /\ cache'.eventCount \in 1..Len(log')
<1>1. /\ log \in Seq(Event) /\ Len(log) \in Nat /\ Promised!IntegrityInv
      /\ log' = Append(log, e) /\ session' = Apply(session, e)
      /\ cache' = [eventCount |-> Len(log) + 1, session |-> Apply(session, e)]
  BY SessionFacts DEF Stored
<1>2. Promised!IntegrityInv'
  BY <1>1, PromiseAssumptions, Promised!IntegrityStep
<1>3. log' \in Seq(Event) /\ session' \in DerivedSession \cup {None}
  BY <1>2, SameTypes DEF Promised!IntegrityInv, Promised!TypeOK
<1>4. Len(log') = Len(log) + 1 /\ log'[Len(log) + 1] = e
  BY <1>1
<1>5. e \in Event
  BY <1>1, <1>3, <1>4
<1>6. session' \in DerivedSession /\ session' # None
  <2>1. CASE session = None
    <3>1. PICK d \in Horizon \cup ValidUntils : Promised!CreateRfq(d)
      BY <2>1, PromiseAssumptions, Promised!NextCases
           DEF Promised!SubmitOffer, Promised!SendCounter, Promised!SelectWinner,
               Promised!SignQuote, Promised!Cosign, Promised!Decline,
               Promised!CosignTimeout, Promised!Expire, Promised!ConfirmSettlement,
               Promised!InState
    <3>2. session' \in DerivedSession
      BY <1>1, <3>1, PromiseAssumptions, SameTypes, Promised!CreateRfqStep
           DEF Promised!IntegrityInv
    <3>. QED BY <3>2, NoneAssumption
  <2>2. CASE session # None
    <3>1. Promised!TypeOK /\ Promised!Sound(session)
      BY <1>1, <2>2, PromiseAssumptions, Promised!SoundIsInv DEF Promised!IntegrityInv
    <3>2. session' \in DerivedSession
      BY <2>2, <3>1, PromiseAssumptions, SameTypes, Promised!SoundStep
    <3>. QED BY <3>2, NoneAssumption
  <2>. QED BY <2>1, <2>2
<1>7. Promise!IntegrityInv'
  BY <1>2, SameIntegrity, PTL
<1>8. session' = DeriveState(log')
  BY <1>1, <1>5, ReplayOfAppend DEF EngineInv
<1>9. CacheIsFresh' /\ cache' \in CacheEntry /\ cache'.eventCount \in 1..Len(log')
  BY <1>1, <1>4, <1>6 DEF CacheIsFresh, CacheEntry
<1>10. SessionIsLatest'
  <2>1. session'.lastEventId = Len(log')
    BY <1>1, <1>4, <1>6, ApplyNumbers
  <2>2. log' # <<>>
    BY <1>1, <1>4
  <2>. QED BY <1>6, <2>1, <2>2 DEF SessionIsLatest
<1>. QED BY <1>3, <1>4, <1>5, <1>6, <1>7, <1>8, <1>9, <1>10

\* A step that stores nothing keeps them too.
LEMMA KeptStep ==
  ASSUME EngineInv, Kept
  PROVE  /\ log' = log /\ session' = session
         /\ Promise!IntegrityInv'
         /\ session' = DeriveState(log')
         /\ CacheIsFresh'
         /\ SessionIsLatest'
         /\ cache' \in CacheEntry \cup {None}
         /\ cache' # None => cache'.eventCount \in 1..Len(log')
<1>1. /\ log' = log /\ session' = session
      /\ cache' = cache \/ cache' = None \/ CacheFill
      /\ log \in Seq(Event) /\ Promised!IntegrityInv /\ GetSession = session
  BY SessionFacts DEF Kept
<1>2. session' = DeriveState(log') /\ SessionIsLatest'
  BY <1>1 DEF EngineInv, SessionIsLatest
<1>3. Promise!IntegrityInv'
  <2>1. Promised!IntegrityInv'
    BY <1>1, PromiseAssumptions, Promised!IntegrityStep DEF Promised!vars
  <2>. QED BY <2>1, SameIntegrity, PTL
<1>4. CASE cache' = cache \/ cache' = None
  BY <1>1, <1>2, <1>3, <1>4 DEF EngineInv, TypeOK, CacheIsFresh
<1>5. CASE CacheFill /\ log # <<>>
  <2>1. cache' = [eventCount |-> Len(log), session |-> session]
    BY <1>1, <1>5 DEF CacheFill
  <2>2. session \in DerivedSession
    BY <1>5, SessionFacts DEF EngineInv, SessionIsLatest
  <2>3. Len(log) \in 1..Len(log)
    BY <1>1, <1>5
  <2>4. cache' \in CacheEntry /\ cache'.eventCount = Len(log) /\ cache'.session = session
    BY <1>1, <2>1, <2>2 DEF CacheEntry
  <2>. QED BY <1>1, <1>2, <1>3, <2>3, <2>4 DEF CacheIsFresh
<1>6. CASE CacheFill /\ log = <<>>
  BY <1>4, <1>6 DEF CacheFill
<1>. QED BY <1>1, <1>4, <1>5, <1>6

(***************************************************************************)
(* Requests, by operation.                                                 *)
(***************************************************************************)

\* The operation of a request tells what it carries.
LEMMA RequestKinds ==
  ASSUME NEW q \in OpenRequests \cup {Idle}
  PROVE  /\ q.op = "read" => q \in ReadRequest
         /\ q.op = "rfq" => q \in RfqRequest
         /\ q.op = "offer" => q \in OfferRequest
         /\ q.op = "counter" => q \in CounterRequest
         /\ q.op \in {"accept", "decline"} => q \in EnvelopeRequest
         /\ q.op \in {"sign", "cosign"} => q \in SignatureRequest
         /\ q.op \in {"execute", "settle"} => q \in PaymentRequest
         /\ q.op = "none" => q = Idle
         /\ q.pc = "idle" => q = Idle
         /\ q.pc = "signing" => q \in SignatureRequest
         /\ q.pc \in {"idle", "verify", "lock", "signing"}
         /\ q.op \in {"none", "rfq", "read", "offer", "counter", "accept", "decline",
                       "sign", "cosign", "execute", "settle"}
<1>1. /\ q \in ReadRequest => q.op = "read" /\ q.pc \in {"verify", "lock"}
      /\ q \in RfqRequest => q.op = "rfq" /\ q.pc \in {"verify", "lock"}
  BY DEF ReadRequest, RfqRequest
<1>2. q \in OfferRequest => q.op = "offer" /\ q.pc \in {"verify", "lock"}
  BY DEF OfferRequest
<1>3. q \in CounterRequest => q.op = "counter" /\ q.pc \in {"verify", "lock"}
  BY DEF CounterRequest
<1>4. q \in EnvelopeRequest => q.op \in {"accept", "decline"} /\ q.pc \in {"verify", "lock"}
  BY DEF EnvelopeRequest
<1>5. q \in SignatureRequest => q.op \in {"sign", "cosign"} /\ q.pc \in {"lock", "signing"}
  BY DEF SignatureRequest
<1>6. q \in PaymentRequest => q.op \in {"execute", "settle"} /\ q.pc \in {"verify", "lock"}
  BY DEF PaymentRequest
<1>7. q = Idle => q.op = "none" /\ q.pc = "idle"
  BY DEF Idle
<1>8. \/ q \in ReadRequest \/ q \in RfqRequest \/ q \in OfferRequest \/ q \in CounterRequest
      \/ q \in EnvelopeRequest \/ q \in SignatureRequest \/ q \in PaymentRequest
      \/ q = Idle
  BY DEF OpenRequests
<1>. QED BY <1>1, <1>2, <1>3, <1>4, <1>5, <1>6, <1>7, <1>8

\* A verified request goes for the lock as it is.
LEMMA LockedRequest ==
  ASSUME NEW q \in OpenRequests, q.pc = "verify"
  PROVE  /\ [q EXCEPT !.pc = "lock"] \in OpenRequests
         /\ [q EXCEPT !.pc = "lock"].pc = "lock"
         /\ [q EXCEPT !.pc = "lock"].op = q.op
         /\ q \in EnvelopeRequest => [q EXCEPT !.pc = "lock"].id = q.id
         /\ q \in PaymentRequest => [q EXCEPT !.pc = "lock"].quote_id = q.quote_id
<1> DEFINE k == [q EXCEPT !.pc = "lock"]
<1>1. /\ q \in ReadRequest => k \in ReadRequest /\ k.pc = "lock" /\ k.op = q.op
      /\ q \in RfqRequest => k \in RfqRequest /\ k.pc = "lock" /\ k.op = q.op
  BY DEF ReadRequest, RfqRequest
<1>2. q \in OfferRequest => k \in OfferRequest /\ k.pc = "lock" /\ k.op = q.op
  BY DEF OfferRequest
<1>3. q \in CounterRequest => k \in CounterRequest /\ k.pc = "lock" /\ k.op = q.op
  BY DEF CounterRequest
<1>4. q \in EnvelopeRequest =>
        k \in EnvelopeRequest /\ k.pc = "lock" /\ k.op = q.op /\ k.id = q.id
  BY DEF EnvelopeRequest
<1>5. q \notin SignatureRequest
  BY DEF SignatureRequest
<1>6. q \in PaymentRequest =>
        k \in PaymentRequest /\ k.pc = "lock" /\ k.op = q.op /\ k.quote_id = q.quote_id
  BY DEF PaymentRequest
<1> HIDE DEF k
<1>. QED BY <1>1, <1>2, <1>3, <1>4, <1>5, <1>6 DEF OpenRequests, k

\* /execute goes on as a settlement.
LEMMA LockedPayment ==
  ASSUME NEW q \in PaymentRequest
  PROVE  /\ [q EXCEPT !.op = "settle", !.pc = "lock"] \in OpenRequests
         /\ [q EXCEPT !.op = "settle", !.pc = "lock"].pc = "lock"
         /\ [q EXCEPT !.op = "settle", !.pc = "lock"].op = "settle"
         /\ [q EXCEPT !.op = "settle", !.pc = "lock"].quote_id = q.quote_id
<1> DEFINE k == [q EXCEPT !.op = "settle", !.pc = "lock"]
<1>1. k \in PaymentRequest /\ k.pc = "lock" /\ k.op = "settle" /\ k.quote_id = q.quote_id
  BY DEF PaymentRequest
<1> HIDE DEF k
<1>. QED BY <1>1 DEF OpenRequests, k

\* quote-sign and cosign keep what they decided on across the signature check.
LEMMA SigningRequest ==
  ASSUME NEW q \in SignatureRequest, NEW s \in DerivedSession
  PROVE  /\ [q EXCEPT !.pc = "signing", !.snapshot = s] \in OpenRequests
         /\ [q EXCEPT !.pc = "signing", !.snapshot = s].pc = "signing"
         /\ [q EXCEPT !.pc = "signing", !.snapshot = s].op = q.op
         /\ [q EXCEPT !.pc = "signing", !.snapshot = s].snapshot = s
<1> DEFINE k == [q EXCEPT !.pc = "signing", !.snapshot = s]
<1>1. k \in SignatureRequest /\ k.pc = "signing" /\ k.op = q.op /\ k.snapshot = s
  BY DEF SignatureRequest
<1> HIDE DEF k
<1>. QED BY <1>1 DEF OpenRequests, k

\* The requests as the invariant types them.
LEMMA RequestFacts ==
  ASSUME EngineInv, NEW r \in Requests
  PROVE  /\ req \in [Requests -> OpenRequests \cup {Idle}]
         /\ req[r] \in OpenRequests \cup {Idle}
  BY DEF EngineInv, TypeOK

(***************************************************************************)
(* The critical sections, as steps of the promise.                         *)
(***************************************************************************)
LEMMA AppendCases ==
  ASSUME NEW t, NEW a, NEW p, AppendEvent(t, a, p)
  PROVE  Kept \/ Stored(MkEvent(Len(log) + 1, t, a, p))
  BY DEF AppendEvent, Kept, Stored

\* What is stored is an append of the promise; only an RFQ starts a session.
LEMMA StoredIsPromised ==
  ASSUME NEW t, NEW a, NEW p, Stored(MkEvent(Len(log) + 1, t, a, p))
  PROVE  /\ Promised!AppendEvent(t, a, p)
         /\ session = None => t = "RFQ_CREATED"
<1> DEFINE e == MkEvent(Len(log) + 1, t, a, p)
<1>1. Promised!MkEvent(Len(log) + 1, t, a, p) = e
  BY DEF Promised!MkEvent, MkEvent
<1>2. Promised!Accepts(session, e) /\ log' = Append(log, e) /\ session' = Promised!Apply(session, e)
  BY SameReducer DEF Stored
<1>3. session = None => e.type = "RFQ_CREATED"
  BY DEF Stored, Accepts
<1>4. e.type = t
  BY DEF MkEvent
<1> HIDE DEF e
<1>. QED BY <1>1, <1>2, <1>3, <1>4 DEF Promised!AppendEvent

\* A refusal inside the lock stores nothing.
LEMMA NoAppendIsKept ==
  ASSUME NoAppend
  PROVE  Kept
  BY DEF NoAppend, Kept

\* POST /rfqs
LEMMA RfqAppends ==
  ASSUME EngineInv, NEW r \in Requests, RfqSection(r)
  PROVE  Kept \/ \E e : Appends(e)
<1> DEFINE p == [buyer |-> Buyer, deadline |-> req[r].deadline]
           e == MkEvent(Len(log) + 1, "RFQ_CREATED", Buyer, p)
<1>0. req[r].deadline \in Deadlines
  <2>1. req[r] \in RfqRequest
    BY RequestKinds DEF EngineInv, TypeOK, RfqSection, InSection
  <2>. QED BY <2>1 DEF RfqRequest
<1>1. CASE NoAppend
  BY <1>1, NoAppendIsKept
<1>2. CASE log = <<>> /\ AppendEvent("RFQ_CREATED", Buyer, p)
  <2>1. CASE Stored(e)
    <3>1. Promised!AppendEvent("RFQ_CREATED", Buyer, p) /\ session = None
      BY <1>2, <2>1, StoredIsPromised DEF EngineInv, SessionIsLatest
    <3>2. req[r].deadline \in Horizon \cup ValidUntils
      BY <1>0 DEF Horizon
    <3>3. Promised!Next
      BY <3>1, <3>2 DEF Promised!Next, Promised!CreateRfq
    <3>4. Judged(e) /\ e.event_id = Len(log) + 1
      BY DEF Judged, MkEvent
    <3> HIDE DEF e
    <3>. QED BY <2>1, <3>3, <3>4 DEF Appends
  <2>. QED BY <1>2, <2>1, AppendCases
<1>. QED BY <1>1, <1>2 DEF RfqSection

\* POST /rfqs/:id/offers
LEMMA OfferAppends ==
  ASSUME EngineInv, NEW r \in Requests, OfferSection(r)
  PROVE  Kept \/ \E e : Appends(e)
<1> DEFINE q == req[r]
           p == [offer_id |-> q.offer_id, seller |-> q.seller, price |-> q.price,
                 payment_endpoint |-> q.listing, valid_until |-> q.valid_until]
           e == MkEvent(Len(log) + 1, "OFFER_SUBMITTED", q.seller, p)
<1>1. CASE NoAppend
  BY <1>1, NoAppendIsKept
<1>2. CASE OfferAllowed(session, q) /\ AppendEvent("OFFER_SUBMITTED", q.seller, p)
  <2>1. CASE Stored(e)
    <3>1. Promised!AppendEvent("OFFER_SUBMITTED", q.seller, p) /\ session # None
      BY <2>1, StoredIsPromised
    <3>2. q \in OfferRequest
      BY RequestFacts, RequestKinds DEF OfferSection, InSection
    <3>3. /\ q.offer_id \in OfferIds /\ q.seller \in Sellers /\ q.price \in Prices
          /\ q.listing \in Endpoints /\ q.valid_until \in Horizon \cup ValidUntils
      BY <3>2 DEF OfferRequest
    <3>4. p.offer_id = q.offer_id /\ p.seller = q.seller
      OBVIOUS
    <3>5. Promised!SubmitOffer(p)
      <4> HIDE DEF p, q
      <4>. QED BY <1>2, <3>1, <3>4 DEF Promised!SubmitOffer, Promised!InState, OfferAllowed
    <3>6. Promised!Next
      <4> HIDE DEF q
      <4>. QED BY <3>3, <3>5, Zenon DEF Promised!Next
    <3>7. now < session.rfq.deadline
      BY <1>2 DEF OfferAllowed, BeforeDeadline
    <3>8. e.type = "OFFER_SUBMITTED" /\ e.event_id = Len(log) + 1
      BY DEF MkEvent
    <3> HIDE DEF e
    <3>9. Judged(e)
      BY <3>7, <3>8 DEF Judged
    <3>. QED BY <2>1, <3>6, <3>8, <3>9 DEF Appends
  <2>. QED BY <1>2, <2>1, AppendCases
<1>. QED BY <1>1, <1>2, SessionFacts DEF OfferSection

\* POST /rfqs/:id/counter
LEMMA CounterAppends ==
  ASSUME EngineInv, NEW r \in Requests, CounterSection(r)
  PROVE  Kept \/ \E e : Appends(e)
<1> DEFINE q == req[r]
           p == [counter_id |-> q.counter_id, round |-> q.round, from |-> q.from, to |-> q.to]
           e == MkEvent(Len(log) + 1, "COUNTER_SENT", q.from, p)
<1>1. CASE NoAppend
  BY <1>1, NoAppendIsKept
<1>2. CASE CounterAllowed(session, q) /\ AppendEvent("COUNTER_SENT", q.from, p)
  <2>1. CASE Stored(e)
    <3>1. Promised!AppendEvent("COUNTER_SENT", q.from, p) /\ session # None
      BY <2>1, StoredIsPromised
    <3>2. q \in CounterRequest
      BY RequestFacts, RequestKinds DEF CounterSection, InSection
    <3>3. /\ q.counter_id \in CounterIds /\ q.round \in Rounds /\ q.from = Buyer
          /\ q.to \in Sellers
      BY <3>2 DEF CounterRequest
    <3>4. /\ p.counter_id = q.counter_id /\ p.round = q.round /\ p.from = q.from /\ p.to = q.to
      OBVIOUS
    <3>5. Promised!SendCounter(p)
      <4> HIDE DEF p, q
      <4>. QED BY <1>2, <3>1, <3>4
                 DEF Promised!SendCounter, Promised!InState, Promised!HasOffer, HasOffer,
                     CounterAllowed
    <3>6. Promised!Next
      <4>1. p = [counter_id |-> q.counter_id, round |-> q.round, from |-> Buyer, to |-> q.to]
        BY <3>3
      <4> HIDE DEF q, p
      <4>. QED BY <3>3, <3>5, <4>1, Zenon DEF Promised!Next
    <3>7. now < session.rfq.deadline
      BY <1>2 DEF CounterAllowed, BeforeDeadline
    <3>8. e.type = "COUNTER_SENT" /\ e.event_id = Len(log) + 1
      BY DEF MkEvent
    <3> HIDE DEF e
    <3>9. Judged(e)
      BY <3>7, <3>8 DEF Judged
    <3>. QED BY <2>1, <3>6, <3>8, <3>9 DEF Appends
  <2>. QED BY <1>2, <2>1, AppendCases
<1>. QED BY <1>1, <1>2, SessionFacts DEF CounterSection

\* POST /rfqs/:id/accept
LEMMA AcceptAppends ==
  ASSUME EngineInv, NEW r \in Requests, AcceptSection(r)
  PROVE  \/ Kept
         \/ /\ \E e : Appends(e)
            /\ session # None /\ envelopes[req[r].id].revision = session.lastEventId
<1> DEFINE env == envelopes[req[r].id]
           P(i) == [seller |-> env.seller, offer_id |-> env.offer_id,
                    quote |-> BuildQuote(session, i), timestamp |-> now]
<1>1. CASE NoAppend
  BY <1>1, NoAppendIsKept
<1>2. ASSUME NEW i \in DOMAIN session.offers, AcceptAllowed(session, env, i),
             AppendEvent("WINNER_SELECTED", session.rfq.buyer, P(i))
      PROVE  \/ Kept
             \/ (\E e : Appends(e)) /\ session # None /\ env.revision = session.lastEventId
  <2> DEFINE e == MkEvent(Len(log) + 1, "WINNER_SELECTED", session.rfq.buyer, P(i))
             x == IF session.rfq.deadline < now + SettlementWindow THEN session.rfq.deadline
                  ELSE now + SettlementWindow
  <2>1. CASE Stored(e)
    <3>1. Promised!AppendEvent("WINNER_SELECTED", session.rfq.buyer, P(i)) /\ session # None
      BY <2>1, StoredIsPromised
    <3>2. /\ now < session.rfq.deadline
          /\ session.state = "NEGOTIATING"
          /\ IsFound(session, env.offer_id, i)
          /\ session.offers[i].seller = env.seller
          /\ env.revision = session.lastEventId
          /\ now < session.offers[i].valid_until
          /\ session.totalAcceptAttempts < MaxAcceptsPerSession
          /\ session.acceptAttemptsBySeller[env.seller] < MaxAcceptsPerSeller
      BY <1>2 DEF AcceptAllowed, BeforeDeadline, RevisionIsCurrent
    <3>3. session.offers[i].offer_id = env.offer_id
      BY <3>2 DEF IsFound
    <3>4. session.rfq.deadline \in Nat /\ now \in 0..MaxTime
      BY <3>1, SessionFacts DEF DerivedSession, Rfq, EngineInv, TypeOK
    <3>5. x \in Horizon \cup ValidUntils /\ now \in Horizon \cup ValidUntils /\ x > now
      BY <3>2, <3>4, Numbers DEF Horizon
    <3>6. BuildQuote(session, i) = Promised!BuildQuote(session, i, x)
      BY Zenon DEF BuildQuote, Promised!BuildQuote
    <3>7. BuildQuote(session, i).expires_at = x
      BY DEF BuildQuote
    <3> HIDE DEF x
    <3>8. Promised!SelectWinner(i, now, x)
      <4> DEFINE b == Promised!BuildQuote(session, i, x)
      <4>1. P(i) = [seller |-> session.offers[i].seller,
                    offer_id |-> session.offers[i].offer_id,
                    quote |-> b, timestamp |-> now]
        BY <3>2, <3>3, <3>6
      <4>2. Promised!IsFound(session, session.offers[i].offer_id, i)
        BY <3>2, <3>3 DEF IsFound, Promised!IsFound
      <4> HIDE DEF b, P
      <4>. QED BY <3>1, <3>2, <4>1, <4>2 DEF Promised!SelectWinner, Promised!InState, b
    <3>9. Promised!Next
      BY <3>1, <3>5, <3>8 DEF Promised!Next
    <3>10. /\ e.type = "WINNER_SELECTED" /\ e.event_id = Len(log) + 1
           /\ e.payload = P(i)
           /\ e.payload.quote = BuildQuote(session, i) /\ e.payload.offer_id = env.offer_id
      BY DEF MkEvent
    <3> HIDE DEF e
    <3>11. session.offers[i] \in Offer
      BY <3>1, SessionFacts DEF DerivedSession
    <3>12. session.offers[i].valid_until > now
      BY <3>2, <3>4, <3>11 DEF Offer
    <3>13. P(i) \in WinnerPayload
      <4>1. Promised!BuildQuote(session, i, x) \in Quote
        BY <3>1, <3>5, <3>8, PromiseAssumptions, SameTypes, SessionFacts,
           Promised!SelectWinnerStep DEF Promised!IntegrityInv
      <4>2. env.seller \in Sellers /\ env.offer_id \in OfferIds
        BY <3>2, <3>3, <3>11 DEF Offer
      <4>3. now \in Nat
        BY <3>4, Numbers
      <4>4. BuildQuote(session, i) \in Quote
        BY <3>6, <4>1
      <4> HIDE DEF env
      <4>. QED BY <4>2, <4>3, <4>4 DEF WinnerPayload
    <3>14. Judged(e)
      <4> HIDE DEF P
      <4>. QED BY <3>2, <3>3, <3>5, <3>7, <3>10, <3>12, <3>13 DEF Judged
    <3>. QED BY <2>1, <3>1, <3>2, <3>9, <3>10, <3>14 DEF Appends
  <2> HIDE DEF P, env
  <2>. QED BY <1>2, <2>1, AppendCases
<1>. QED BY <1>1, <1>2, SessionFacts DEF AcceptSection

\* PUT /rfqs/:id/decline
LEMMA DeclineAppends ==
  ASSUME EngineInv, NEW r \in Requests, DeclineSection(r)
  PROVE  \/ Kept
         \/ /\ \E e : Appends(e)
            /\ session # None /\ envelopes[req[r].id].revision = session.lastEventId
<1> DEFINE x == session.selectedSeller
           p == [seller |-> x]
           e == MkEvent(Len(log) + 1, "COSIGN_DECLINED", x, p)
<1>1. CASE NoAppend
  BY <1>1, NoAppendIsKept
<1>2. CASE DeclineAllowed(session, req[r]) /\ AppendEvent("COSIGN_DECLINED", x, p)
  <2>1. CASE Stored(e)
    <3>1. Promised!AppendEvent("COSIGN_DECLINED", x, p) /\ session # None
      BY <2>1, StoredIsPromised
    <3>2. /\ now < session.rfq.deadline
          /\ session.state = "COMMIT_PENDING"
          /\ envelopes[req[r].id].revision = session.lastEventId
      BY <1>2 DEF DeclineAllowed, BeforeDeadline, RevisionIsCurrent
    <3>3. x # None
      BY <3>1, <3>2, SessionFacts DEF Promised!IntegrityInv, Promised!PendingHasQuote
    <3>4. Promised!Next
      BY <3>1, <3>2, <3>3 DEF Promised!Next, Promised!Decline, Promised!InState
    <3>5. e.type = "COSIGN_DECLINED" /\ e.event_id = Len(log) + 1
      BY DEF MkEvent
    <3> HIDE DEF e
    <3>6. Judged(e)
      BY <3>2, <3>5 DEF Judged
    <3>. QED BY <2>1, <3>1, <3>2, <3>4, <3>5, <3>6 DEF Appends
  <2>. QED BY <1>2, <2>1, AppendCases
<1>. QED BY <1>1, <1>2, SessionFacts DEF DeclineSection

\* PUT /rfqs/:id/quote/sign and PUT /rfqs/:id/cosign, back from the signature check
LEMMA SignatureAppends ==
  ASSUME EngineInv, NEW r \in Requests, SignatureVerified(r)
  PROVE  Kept \/ \E e : Appends(e)
<1> DEFINE s == session
<1>1. /\ req[r].pc = "signing" /\ req[r].snapshot = session
      /\ session.state = "COMMIT_PENDING"
      /\ session.unsignedQuote # None
      /\ (session.buyerSignature = None) = (req[r].op = "sign")
  BY DEF EngineInv, SnapshotStaysCurrent, RequestsStayValid, SignatureVerified
<1>2. CASE UNCHANGED <<log, session, cache>>
  BY <1>2 DEF Kept
<1>3. CASE /\ req[r].op = "sign" /\ req[r].sig = [by |-> s.rfq.buyer, over |-> s.unsignedQuote]
           /\ AppendEvent("QUOTE_SIGNED", s.rfq.buyer,
                [seller |-> s.selectedSeller, buyer_signature |-> req[r].sig])
  <2> DEFINE p == [seller |-> s.selectedSeller, buyer_signature |-> req[r].sig]
             e == MkEvent(Len(log) + 1, "QUOTE_SIGNED", s.rfq.buyer, p)
  <2>1. CASE Stored(e)
    <3>1. Promised!AppendEvent("QUOTE_SIGNED", s.rfq.buyer, p) /\ session # None
      BY <2>1, StoredIsPromised
    <3>2. Promised!SignQuote
      <4>1. p = [seller |-> s.selectedSeller,
                 buyer_signature |-> [by |-> s.rfq.buyer, over |-> s.unsignedQuote]]
        BY <1>3
      <4> HIDE DEF p
      <4>. QED BY <1>1, <1>3, <3>1, <4>1 DEF Promised!SignQuote, Promised!InState
    <3>3. Promised!Next
      BY <3>2 DEF Promised!Next
    <3>4. e.event_id = Len(log) + 1 /\ e.type = "QUOTE_SIGNED"
      BY DEF MkEvent
    <3> HIDE DEF e
    <3>5. Judged(e)
      BY <3>4 DEF Judged
    <3>. QED BY <2>1, <3>3, <3>4, <3>5 DEF Appends
  <2>. QED BY <1>3, <2>1, AppendCases
<1>4. CASE /\ req[r].op = "cosign"
           /\ req[r].sig = [by |-> s.selectedSeller, over |-> s.unsignedQuote]
           /\ AppendEvent("QUOTE_COMMITTED", s.selectedSeller,
                [seller |-> s.selectedSeller, seller_signature |-> req[r].sig])
  <2> DEFINE p == [seller |-> s.selectedSeller, seller_signature |-> req[r].sig]
             e == MkEvent(Len(log) + 1, "QUOTE_COMMITTED", s.selectedSeller, p)
  <2>1. CASE Stored(e)
    <3>1. Promised!AppendEvent("QUOTE_COMMITTED", s.selectedSeller, p) /\ session # None
      BY <2>1, StoredIsPromised
    <3>2. Promised!Cosign
      <4>1. p = [seller |-> s.selectedSeller,
                 seller_signature |-> [by |-> s.selectedSeller, over |-> s.unsignedQuote]]
        BY <1>4
      <4>2. session.buyerSignature # None
        BY <1>1, <1>4
      <4> HIDE DEF p
      <4>. QED BY <1>1, <3>1, <4>1, <4>2 DEF Promised!Cosign, Promised!InState
    <3>3. Promised!Next
      BY <3>2 DEF Promised!Next
    <3>4. e.event_id = Len(log) + 1 /\ e.type = "QUOTE_COMMITTED"
      BY DEF MkEvent
    <3> HIDE DEF e
    <3>5. Judged(e)
      BY <3>4 DEF Judged
    <3>. QED BY <2>1, <3>3, <3>4, <3>5 DEF Appends
  <2>. QED BY <1>4, <2>1, AppendCases
<1>. QED BY <1>1, <1>2, <1>3, <1>4 DEF SignatureVerified

\* POST /rfqs/:id/settle-report and POST /execute
LEMMA SettleAppends ==
  ASSUME EngineInv, NEW r \in Requests, SettleSection(r)
  PROVE  Kept \/ \E e : Appends(e)
<1> DEFINE p == [quote_id |-> req[r].quote_id]
           e == MkEvent(Len(log) + 1, "SETTLEMENT_CONFIRMED", Engine, p)
<1>1. CASE NoAppend
  BY <1>1, NoAppendIsKept
<1>2. CASE ~Settled /\ AppendEvent("SETTLEMENT_CONFIRMED", Engine, p)
  <2>1. CASE Stored(e)
    <3>1. Promised!AppendEvent("SETTLEMENT_CONFIRMED", Engine, p)
      BY <2>1, StoredIsPromised
    <3>2. Settleable(session, req[r].quote_id)
      BY DEF EngineInv, RequestsStayValid, SettleSection, InSection
    <3>3. p = [quote_id |-> session.unsignedQuote.quote_id]
      BY <3>2 DEF Settleable
    <3> HIDE DEF p
    <3>4. Promised!ConfirmSettlement
      <4>1. Promised!Engine = Engine
        BY DEF Promised!Engine, Engine
      <4>2. \A i \in DOMAIN log : log[i].type # "SETTLEMENT_CONFIRMED"
        BY <1>2 DEF Settled
      <4>. QED BY <3>1, <3>2, <3>3, <4>1, <4>2
                 DEF Promised!ConfirmSettlement, Promised!InState, Settleable
    <3>5. Promised!Next
      BY <3>4 DEF Promised!Next
    <3>6. e.event_id = Len(log) + 1 /\ e.type = "SETTLEMENT_CONFIRMED"
      BY DEF MkEvent
    <3> HIDE DEF e
    <3>7. Judged(e)
      BY <1>2, <3>6 DEF Judged
    <3>. QED BY <2>1, <3>5, <3>6, <3>7 DEF Appends
  <2>. QED BY <1>2, <2>1, AppendCases
<1>. QED BY <1>1, <1>2 DEF SettleSection

\* The enforcer expires the session
LEMMA ExpireAppends ==
  ASSUME EngineInv, TryExpire
  PROVE  Kept \/ \E e : Appends(e)
<1> DEFINE p == [none |-> None]
           e == MkEvent(Len(log) + 1, "NEGOTIATION_EXPIRED", Engine, p)
<1>1. CASE NoAppend
  BY <1>1, NoAppendIsKept
<1>2. CASE ExpireAllowed(session) /\ AppendEvent("NEGOTIATION_EXPIRED", Engine, p)
  <2>1. CASE Stored(e)
    <3>1. Promised!AppendEvent("NEGOTIATION_EXPIRED", Engine, p) /\ session # None
      BY <2>1, StoredIsPromised
    <3>2. session.state \in {"OPEN", "NEGOTIATING", "COMMIT_PENDING"}
      BY <1>2, <3>1, SessionFacts DEF ExpireAllowed, TerminalStates, DerivedSession, States
    <3>3. Promised!Engine = Engine
      BY DEF Promised!Engine, Engine
    <3>4. Promised!Next
      BY <3>1, <3>2, <3>3 DEF Promised!Next, Promised!Expire, Promised!InState
    <3>5. e.event_id = Len(log) + 1 /\ e.type = "NEGOTIATION_EXPIRED"
      BY DEF MkEvent
    <3> HIDE DEF e
    <3>6. Judged(e)
      BY <1>2, <3>5 DEF Judged, ExpireAllowed
    <3>. QED BY <2>1, <3>4, <3>5, <3>6 DEF Appends
  <2>. QED BY <1>2, <2>1, AppendCases
<1>. QED BY <1>1, <1>2, SessionFacts DEF TryExpire

\* The enforcer rolls an abandoned accept attempt back
LEMMA CosignTimeoutAppends ==
  ASSUME EngineInv, TryCosignTimeout
  PROVE  Kept \/ \E e : Appends(e)
<1> DEFINE p == [seller |-> session.selectedSeller]
           e == MkEvent(Len(log) + 1, "COSIGN_TIMEOUT", Engine, p)
<1>1. CASE NoAppend
  BY <1>1, NoAppendIsKept
<1>2. CASE CosignTimeoutAllowed(session) /\ AppendEvent("COSIGN_TIMEOUT", Engine, p)
  <2>1. CASE Stored(e)
    <3>1. Promised!AppendEvent("COSIGN_TIMEOUT", Engine, p) /\ session # None
      BY <2>1, StoredIsPromised
    <3>2. Promised!Engine = Engine
      BY DEF Promised!Engine, Engine
    <3>3. Promised!Next
      BY <1>2, <3>1, <3>2
           DEF Promised!Next, Promised!CosignTimeout, Promised!InState, CosignTimeoutAllowed
    <3>4. e.event_id = Len(log) + 1 /\ e.type = "COSIGN_TIMEOUT"
      BY DEF MkEvent
    <3> HIDE DEF e
    <3>5. Judged(e)
      BY <1>2, <3>4 DEF Judged, CosignTimeoutAllowed
    <3>. QED BY <2>1, <3>3, <3>4, <3>5 DEF Appends
  <2>. QED BY <1>2, <2>1, AppendCases
<1>. QED BY <1>1, <1>2, SessionFacts DEF TryCosignTimeout

(***************************************************************************)
(* The shapes of the steps.                                                *)
(***************************************************************************)

\* q is a request that may be let through for what the session is.
Fit(q) ==
  /\ q \in OpenRequests \cup {Idle}
  /\ q.op \in {"accept", "decline"} => envelopes[q.id] # None
  /\ q.op \in {"sign", "cosign"} => session # None
  /\ q.op = "settle" => Settleable(session, q.quote_id)

\* Request r arrives, or is answered, outside the lock.
Outside(r, q) ==
  /\ req[r].pc \in {"idle", "verify"} /\ q.pc \in {"idle", "verify"} /\ Fit(q)
  /\ req' = [req EXCEPT ![r] = q]
  /\ UNCHANGED <<lockVars, enforcing>>
  /\ Kept

\* Request r goes for the lock.
Entering(r, q) ==
  /\ q.pc = "lock" /\ Fit(q)
  /\ EnterLock(r, q)
  /\ UNCHANGED enforcing
  /\ Kept

\* Request r stops waiting for the lock.
GivingUp(r) ==
  /\ Lock!WaitTimeout(r)
  /\ req' = [req EXCEPT ![r] = Idle]
  /\ UNCHANGED enforcing
  /\ Kept

\* Request r has decided on a session and awaits a signature check in the lock.
Signing(r) ==
  /\ place[r] = "in" /\ req[r] \in SignatureRequest
  /\ session \in DerivedSession /\ SignatureAllowed(session, req[r].op)
  /\ req' = [req EXCEPT ![r] = [req[r] EXCEPT !.pc = "signing", !.snapshot = session]]
  /\ UNCHANGED <<lockVars, enforcing>>
  /\ Kept

\* Request r ends its critical section.
Leaving(r) ==
  /\ LeaveLock(r)
  /\ UNCHANGED enforcing
  /\ Kept \/ \E e : Appends(e)

\* The enforcer goes for the lock, stops waiting for it, or ends its section.
Enforcing ==
  /\ session # None
  /\ \/ Lock!RunRefused(Enforcer) /\ UNCHANGED enforcing
     \/ /\ Lock!RunAtOnce(Enforcer) \/ Lock!RunQueued(Enforcer)
        /\ enforcing' \in {"expire", "cosign"}
  /\ UNCHANGED req
  /\ Kept

EnforcerGivingUp ==
  /\ Lock!WaitTimeout(Enforcer)
  /\ enforcing' = "nothing"
  /\ UNCHANGED req
  /\ Kept

Enforced ==
  /\ Lock!Release(Enforcer)
  /\ enforcing' = "nothing"
  /\ UNCHANGED req
  /\ Kept \/ \E e : Appends(e)

\* The lock object of the session is dropped.
Removing ==
  /\ Lock!RemoveLock
  /\ UNCHANGED <<req, enforcing>>
  /\ Kept

\* The lock and its clients are not concerned.
Elsewhere ==
  /\ UNCHANGED <<lockVars, req, enforcing>>
  /\ Kept

Shaped ==
  \/ \E r \in Requests : \/ \E q : Outside(r, q) \/ Entering(r, q)
                         \/ GivingUp(r) \/ Signing(r) \/ Leaving(r)
  \/ Enforcing \/ EnforcerGivingUp \/ Enforced
  \/ Removing \/ Elsewhere \/ Crash

\* Members of OpenRequests, by kind.
LEMMA OpenKinds ==
  ASSUME NEW q
  PROVE  (\/ q \in ReadRequest \/ q \in RfqRequest \/ q \in OfferRequest \/ q \in CounterRequest
          \/ q \in EnvelopeRequest \/ q \in SignatureRequest \/ q \in PaymentRequest)
           => q \in OpenRequests
  BY DEF OpenRequests

\* A quote in the log is a quote.
LEMMA IssuedAreQuotes ==
  ASSUME EngineInv, NEW j \in DOMAIN log, log[j].type = "WINNER_SELECTED"
  PROVE  log[j].payload.quote \in Quote
<1>1. log[j].payload \in WinnerPayload
  BY DEF EngineInv, AcceptsCarryQuotes
<1>. QED BY <1>1 DEF WinnerPayload

\* Requests arrive.
LEMMA ArrivalShape ==
  ASSUME EngineInv, NEW r \in Requests, RequestArrives(r)
  PROVE  Shaped
<1> USE DEF Rest
<1>0. GetSession = session /\ (Arrives(r) => req[r].pc \in {"idle", "verify"})
  BY SessionFacts DEF Arrives
<1>a. ASSUME UNCHANGED <<log, session>>, CacheFill \/ UNCHANGED cache
      PROVE  Kept
  BY <1>a DEF Kept
<1>1. ASSUME NEW d \in Deadlines, RfqArrives(r, d)
      PROVE  Shaped
  <2> DEFINE q == [op |-> "rfq", pc |-> "verify", deadline |-> d]
  <2>1. q \in RfqRequest /\ q.op = "rfq" /\ q.pc = "verify"
    BY DEF RfqRequest
  <2>2. Fit(q)
    BY <2>1, OpenKinds DEF Fit
  <2>3. req' = [req EXCEPT ![r] = q] /\ UNCHANGED <<lockVars, enforcing>> /\ Kept /\ Arrives(r)
    BY <1>1, <1>a DEF RfqArrives
  <2> HIDE DEF q
  <2>. QED BY <1>0, <2>1, <2>2, <2>3 DEF Shaped, Outside
<1>2. CASE QuoteReadArrives(r)
  <2> DEFINE q == [op |-> "read", pc |-> "verify"]
  <2>1. q \in ReadRequest /\ q.op = "read" /\ q.pc = "verify"
    BY DEF ReadRequest
  <2>2. Fit(q)
    BY <2>1, OpenKinds DEF Fit
  <2>3. req' = [req EXCEPT ![r] = q] /\ UNCHANGED <<lockVars, enforcing>> /\ Kept /\ Arrives(r)
    BY <1>2, <1>a DEF QuoteReadArrives
  <2> HIDE DEF q
  <2>. QED BY <1>0, <2>1, <2>2, <2>3 DEF Shaped, Outside
<1>3. ASSUME NEW id \in OfferIds, NEW x \in Sellers, NEW u \in Endpoints, NEW p \in Prices,
             NEW v \in ValidUntils, OfferArrives(r, id, x, u, p, v)
      PROVE  Shaped
  <2> DEFINE q == [op |-> "offer", pc |-> "verify", offer_id |-> id, seller |-> x,
                   listing |-> u, price |-> p, valid_until |-> v]
  <2>1. q \in OfferRequest /\ q.op = "offer" /\ q.pc = "verify"
    BY DEF OfferRequest
  <2>2. Fit(q)
    BY <2>1, OpenKinds DEF Fit
  <2>3. req' = [req EXCEPT ![r] = q] /\ UNCHANGED <<lockVars, enforcing>> /\ Kept /\ Arrives(r)
    BY <1>3, <1>a DEF OfferArrives
  <2> HIDE DEF q
  <2>. QED BY <1>0, <2>1, <2>2, <2>3 DEF Shaped, Outside
<1>4. ASSUME NEW id \in CounterIds, NEW n \in Rounds, NEW x \in Sellers,
             CounterArrives(r, id, n, x)
      PROVE  Shaped
  <2> DEFINE q == [op |-> "counter", pc |-> "verify", counter_id |-> id, round |-> n,
                   from |-> Buyer, to |-> x]
  <2>1. q \in CounterRequest /\ q.op = "counter" /\ q.pc = "verify"
    BY DEF CounterRequest
  <2>2. Fit(q)
    BY <2>1, OpenKinds DEF Fit
  <2>3. req' = [req EXCEPT ![r] = q] /\ UNCHANGED <<lockVars, enforcing>> /\ Kept /\ Arrives(r)
    BY <1>4, <1>a DEF CounterArrives
  <2> HIDE DEF q
  <2>. QED BY <1>0, <2>1, <2>2, <2>3 DEF Shaped, Outside
<1>5. ASSUME NEW id \in EnvelopeIds, EnvelopeArrives(r, id)
      PROVE  Shaped
  <2> DEFINE q == [op |-> envelopes[id].action, pc |-> "verify", id |-> id,
                   preSeller |-> session.selectedSeller]
  <2>1. /\ session # None /\ envelopes[id] # None
        /\ req' = [req EXCEPT ![r] = q] /\ UNCHANGED <<lockVars, enforcing>> /\ Kept
        /\ Arrives(r)
    BY <1>0, <1>5, <1>a DEF EnvelopeArrives
  <2>2. envelopes[id] \in Envelope /\ session \in DerivedSession
    BY <2>1, SessionFacts DEF EngineInv, TypeOK
  <2>3. envelopes[id].action \in {"accept", "decline"}
        /\ session.selectedSeller \in Sellers \cup {None}
    BY <2>2 DEF Envelope, DerivedSession
  <2>4. /\ q \in EnvelopeRequest /\ q.pc = "verify" /\ q.op \in {"accept", "decline"}
        /\ q.id = id
    BY <2>3 DEF EnvelopeRequest
  <2>5. Fit(q)
    BY <2>1, <2>4, OpenKinds DEF Fit
  <2> HIDE DEF q
  <2>. QED BY <1>0, <2>1, <2>4, <2>5 DEF Shaped, Outside
<1>6. ASSUME NEW by \in Dids, NEW qt \in IssuedQuotes, NEW op \in {"sign", "cosign"},
             SignatureArrives(r, op, [by |-> by, over |-> qt])
      PROVE  Shaped
  <2> DEFINE sig == [by |-> by, over |-> qt]
             q == [op |-> op, pc |-> "lock", sig |-> sig, snapshot |-> None]
  <2>1. EnterLock(r, q) /\ UNCHANGED enforcing /\ Kept /\ session # None
    BY <1>0, <1>6, <1>a DEF SignatureArrives
  <2>2. PICK j \in DOMAIN log : log[j].type = "WINNER_SELECTED" /\ qt = log[j].payload.quote
    BY DEF IssuedQuotes
  <2>3. qt \in Quote
    BY <2>2, IssuedAreQuotes
  <2>4. sig \in Signature
    BY <2>3 DEF Signature
  <2> HIDE DEF sig
  <2>5. q \in SignatureRequest /\ q.op \in {"sign", "cosign"} /\ q.pc = "lock"
    BY <2>4 DEF SignatureRequest
  <2>6. Fit(q)
    BY <2>1, <2>5, OpenKinds DEF Fit
  <2> HIDE DEF q
  <2>. QED BY <2>1, <2>5, <2>6 DEF Shaped, Entering
<1>7. ASSUME NEW qt \in IssuedQuotes, SettleArrives(r, qt.quote_id) \/ ExecuteArrives(r, qt.quote_id)
      PROVE  Shaped
  <2>0. qt.quote_id \in Nat
    <3>1. PICK j \in DOMAIN log : log[j].type = "WINNER_SELECTED" /\ qt = log[j].payload.quote
      BY DEF IssuedQuotes
    <3>2. qt \in Quote
      BY <3>1, IssuedAreQuotes
    <3>. QED BY <3>2 DEF Quote
  <2>1. CASE SettleArrives(r, qt.quote_id)
    <3> DEFINE q == [op |-> "settle", pc |-> "verify", quote_id |-> qt.quote_id]
    <3>1. /\ Settleable(session, qt.quote_id) /\ Arrives(r)
          /\ req' = [req EXCEPT ![r] = q] /\ UNCHANGED <<lockVars, enforcing>> /\ Kept
      BY <1>0, <2>1, <1>a DEF SettleArrives
    <3>2. q \in PaymentRequest /\ q.op = "settle" /\ q.pc = "verify" /\ q.quote_id = qt.quote_id
      BY <2>0 DEF PaymentRequest
    <3> HIDE DEF q
    <3>3. Fit(q)
      BY <3>1, <3>2, OpenKinds DEF Fit
    <3>. QED BY <1>0, <3>1, <3>2, <3>3 DEF Shaped, Outside
  <2>2. CASE ExecuteArrives(r, qt.quote_id)
    <3> DEFINE q == [op |-> "execute", pc |-> "verify", quote_id |-> qt.quote_id]
    <3>1. /\ req' = [req EXCEPT ![r] = q] /\ UNCHANGED <<lockVars, enforcing>> /\ Kept
          /\ Arrives(r)
      BY <2>2, <1>a DEF ExecuteArrives
    <3>2. q \in PaymentRequest /\ q.op = "execute" /\ q.pc = "verify"
      BY <2>0 DEF PaymentRequest
    <3> HIDE DEF q
    <3>3. Fit(q)
      BY <3>2, OpenKinds DEF Fit
    <3>. QED BY <1>0, <3>1, <3>2, <3>3 DEF Shaped, Outside
  <2>. QED BY <1>7, <2>1, <2>2
<1>. QED BY <1>1, <1>2, <1>3, <1>4, <1>5, <1>6, <1>7, Zenon DEF RequestArrives

\* A request that stays what the invariant says of it fits.
LEMMA RequestFits ==
  ASSUME EngineInv, NEW r \in Requests
  PROVE  Fit(req[r])
  BY RequestFacts DEF Fit, EngineInv, RequestsStayValid

\* An answered request carries nothing.
LEMMA IdleFits == Fit(Idle) /\ Idle.pc = "idle"
  BY DEF Fit, Idle

\* A request that waits for a check is open, and fits when it goes for the lock.
LEMMA VerifiedFits ==
  ASSUME EngineInv, NEW r \in Requests, req[r].pc = "verify"
  PROVE  /\ Fit([req[r] EXCEPT !.pc = "lock"])
         /\ [req[r] EXCEPT !.pc = "lock"].pc = "lock"
<1> DEFINE q == req[r]
           k == [q EXCEPT !.pc = "lock"]
<1>1. q \in OpenRequests /\ Fit(q)
  BY RequestFacts, RequestFits DEF Idle
<1>2. /\ k \in OpenRequests /\ k.pc = "lock" /\ k.op = q.op
      /\ q \in EnvelopeRequest => k.id = q.id
      /\ q \in PaymentRequest => k.quote_id = q.quote_id
  BY <1>1, LockedRequest
<1>3. /\ q.op \in {"accept", "decline"} => q \in EnvelopeRequest
      /\ q.op = "settle" => q \in PaymentRequest
  BY <1>1, RequestKinds
<1> HIDE DEF k, q
<1>4. Fit(k)
  BY <1>1, <1>2, <1>3 DEF Fit
<1>. QED BY <1>2, <1>4 DEF k, q

\* Requests come back from the checks they awaited outside the lock.
LEMMA VerifiedShape ==
  ASSUME EngineInv, NEW r \in Requests,
         \/ RfqVerified(r) \/ MessageVerified(r) \/ EnvelopeVerified(r)
         \/ ExecuteVerified(r) \/ VerificationFails(r)
  PROVE  Shaped
<1> USE DEF Rest
<1> DEFINE k == [req[r] EXCEPT !.pc = "lock"]
<1>0. GetSession = session
  BY SessionFacts
<1>1. ASSUME req[r].pc = "verify", req' = [req EXCEPT ![r] = Idle],
             UNCHANGED <<lockVars, enforcing>>, Kept
      PROVE  Shaped
  BY <1>1, IdleFits DEF Shaped, Outside
<1>2. ASSUME req[r].pc = "verify", EnterLock(r, k), UNCHANGED enforcing, Kept
      PROVE  Shaped
  <2>1. Fit(k) /\ k.pc = "lock"
    BY <1>2, VerifiedFits
  <2> HIDE DEF k
  <2>. QED BY <1>2, <2>1 DEF Shaped, Entering
<1>3. CASE RfqVerified(r)
  BY <1>1, <1>2, <1>3 DEF RfqVerified, Kept
<1>4. CASE MessageVerified(r)
  BY <1>2, <1>4 DEF MessageVerified, Kept
<1>5. CASE EnvelopeVerified(r)
  BY <1>2, <1>5 DEF EnvelopeVerified, Kept
<1>6. CASE VerificationFails(r)
  BY <1>1, <1>6 DEF VerificationFails, Kept
<1>7. CASE ExecuteVerified(r)
  <2>1. req[r].pc = "verify" /\ req[r].op = "execute" /\ Kept /\ UNCHANGED enforcing
    BY <1>7 DEF ExecuteVerified, Kept
  <2>2. CASE req' = [req EXCEPT ![r] = Idle] /\ UNCHANGED lockVars
    BY <1>1, <2>1, <2>2
  <2> DEFINE p == [req[r] EXCEPT !.op = "settle", !.pc = "lock"]
  <2>3. CASE Settleable(session, req[r].quote_id) /\ EnterLock(r, p)
    <3>1. req[r] \in PaymentRequest
      BY <2>1, RequestFacts, RequestKinds
    <3>2. /\ p \in OpenRequests /\ p.pc = "lock" /\ p.op = "settle"
          /\ p.quote_id = req[r].quote_id
      BY <3>1, LockedPayment
    <3> HIDE DEF p
    <3>3. Fit(p)
      BY <2>3, <3>2 DEF Fit
    <3>. QED BY <2>1, <2>3, <3>2, <3>3 DEF Shaped, Entering
  <2>. QED BY <1>0, <1>7, <2>2, <2>3 DEF ExecuteVerified
<1>. QED BY <1>3, <1>4, <1>5, <1>6, <1>7

\* Critical sections.
LEMMA SectionShape ==
  ASSUME EngineInv, NEW r \in Requests,
         \/ RfqSection(r) \/ OfferSection(r) \/ CounterSection(r) \/ AcceptSection(r)
         \/ DeclineSection(r) \/ SignatureSection(r) \/ SignatureVerified(r)
         \/ SettleSection(r) \/ QuoteReadSection(r)
  PROVE  Shaped
<1> USE DEF Rest
<1>1. ASSUME LeaveLock(r), UNCHANGED enforcing, Kept \/ \E e : Appends(e)
      PROVE  Shaped
  BY <1>1 DEF Shaped, Leaving
<1>2. CASE RfqSection(r)
  BY <1>1, <1>2, RfqAppends DEF RfqSection
<1>3. CASE OfferSection(r)
  BY <1>1, <1>3, OfferAppends DEF OfferSection
<1>4. CASE CounterSection(r)
  BY <1>1, <1>4, CounterAppends DEF CounterSection
<1>5. CASE AcceptSection(r)
  BY <1>1, <1>5, AcceptAppends DEF AcceptSection
<1>6. CASE DeclineSection(r)
  BY <1>1, <1>6, DeclineAppends DEF DeclineSection
<1>7. CASE SignatureVerified(r)
  BY <1>1, <1>7, SignatureAppends DEF SignatureVerified
<1>8. CASE SettleSection(r)
  BY <1>1, <1>8, SettleAppends DEF SettleSection
<1>9. CASE QuoteReadSection(r)
  BY <1>1, <1>9, NoAppendIsKept DEF QuoteReadSection
<1>10. CASE SignatureSection(r)
  <2>1. /\ Kept /\ UNCHANGED enforcing /\ place[r] = "in" /\ req[r].op \in {"sign", "cosign"}
    BY <1>10, NoAppendIsKept DEF SignatureSection, InSection
  <2>2. CASE LeaveLock(r)
    BY <1>1, <2>1, <2>2
  <2>3. CASE /\ SignatureAllowed(session, req[r].op)
             /\ req' = [req EXCEPT ![r].pc = "signing", ![r].snapshot = session]
             /\ UNCHANGED lockVars
    <3>1. req[r] \in SignatureRequest /\ req \in [Requests -> OpenRequests \cup {Idle}]
      BY <2>1, RequestFacts, RequestKinds
    <3>2. session \in DerivedSession
      BY <2>1, SessionFacts DEF EngineInv, RequestsStayValid
    <3>3. req' = [req EXCEPT ![r] = [req[r] EXCEPT !.pc = "signing", !.snapshot = session]]
      BY <2>3, <3>1
    <3>. QED BY <2>1, <2>3, <3>1, <3>2, <3>3 DEF Shaped, Signing
  <2>. QED BY <1>10, <2>2, <2>3, SessionFacts DEF SignatureSection
<1>. QED BY <1>2, <1>3, <1>4, <1>5, <1>6, <1>7, <1>8, <1>9, <1>10

\* The enforcer.
LEMMA EnforcerShape ==
  ASSUME EngineInv, EnforcerStep \/ EnforcerTimeout
  PROVE  Shaped
<1> USE DEF EnforcerRest
<1>0. GetSession = session
  BY SessionFacts
<1>1. CASE ScanTerminal
  <2>1. CASE Lock!RemoveLock /\ cache' = None
    BY <1>1, <2>1 DEF ScanTerminal, Shaped, Removing, Kept
  <2>2. CASE UNCHANGED lockVars /\ CacheFill
    BY <1>1, <2>2 DEF ScanTerminal, Shaped, Elsewhere, Kept
  <2>. QED BY <1>1, <2>1, <2>2 DEF ScanTerminal
<1>2. CASE ScanLive
  <2>1. Overdue(session) \in {"expire", "cosign", "nothing"}
    BY DEF Overdue
  <2>. QED BY <1>0, <1>2, <2>1 DEF ScanLive, Shaped, Enforcing, Kept
<1>3. CASE TryExpire
  BY <1>3, ExpireAppends DEF TryExpire, Shaped, Enforced
<1>4. CASE TryCosignTimeout
  BY <1>4, CosignTimeoutAppends DEF TryCosignTimeout, Shaped, Enforced
<1>5. CASE EnforcerTimeout
  BY <1>5 DEF EnforcerTimeout, Shaped, EnforcerGivingUp, Kept
<1>. QED BY <1>1, <1>2, <1>3, <1>4, <1>5 DEF EnforcerStep

\* Every step has one of the shapes.
LEMMA NextShape ==
  ASSUME EngineInv, Next
  PROVE  Shaped
<1>1. ASSUME NEW r \in Requests,
             RequestArrives(r) \/ RequestStep(r) \/ VerificationFails(r) \/ RequestTimeout(r)
      PROVE  Shaped
  <2>1. CASE RequestArrives(r)
    BY <2>1, ArrivalShape
  <2>2. CASE RequestStep(r) \/ VerificationFails(r)
    BY <2>2, VerifiedShape, SectionShape DEF RequestStep
  <2>3. CASE RequestTimeout(r)
    BY <2>3 DEF RequestTimeout, Shaped, GivingUp, Kept, Rest
  <2>. QED BY <1>1, <2>1, <2>2, <2>3
<1>2. CASE EnforcerStep \/ EnforcerTimeout
  BY <1>2, EnforcerShape
<1>3. CASE EvictStaleCache
  BY <1>3 DEF EvictStaleCache, Shaped, Elsewhere, Kept
<1>4. ASSUME NEW id \in EnvelopeIds, SignAccept(id) \/ SignDecline(id)
      PROVE  Shaped
  BY <1>4 DEF SignAccept, SignDecline, SignEnvelope, Shaped, Elsewhere, Kept
<1>5. ASSUME NEW x \in Sellers, NEW u \in Endpoints, RegisterListing(x, u)
      PROVE  Shaped
  BY <1>5 DEF RegisterListing, Shaped, Elsewhere, Kept
<1>6. CASE Tick
  BY <1>6 DEF Tick, Shaped, Elsewhere, Kept
<1>7. CASE Crash
  BY <1>7 DEF Shaped
<1>. QED BY <1>1, <1>2, <1>3, <1>4, <1>5, <1>6, <1>7 DEF Next

\* A step that is shaped keeps the log or appends one event to it.
LEMMA ShapedData ==
  ASSUME Shaped
  PROVE  Kept \/ \E e : Appends(e)
  BY DEF Shaped, Outside, Entering, GivingUp, Signing, Leaving, Enforcing,
         EnforcerGivingUp, Enforced, Removing, Elsewhere, Crash, Kept

(***************************************************************************)
(* The lock and the requests.                                              *)
(***************************************************************************)

\* The lock's own invariant, which holds of the lock as the engine uses it.
LEMMA LockStep ==
  ASSUME EngineInv, Shaped
  PROVE  (Lock!LockTypeOK /\ LockIsSound)'
<1>0. Held!LockInv
  BY SameLock DEF EngineInv, TypeOK
<1>1. ASSUME [Held!LockNext]_(Held!lockVars)
      PROVE  Held!LockInv'
  BY <1>0, <1>1, LockAssumption, Held!LockInvStep
<1>2. ASSUME NEW c \in Clients,
             \/ Lock!RunRefused(c) \/ Lock!RunAtOnce(c) \/ Lock!RunQueued(c)
             \/ Lock!WaitTimeout(c) \/ Lock!Release(c)
      PROVE  Held!LockInv'
  BY <1>1, <1>2, SameLock DEF Held!LockNext
<1>3. ASSUME Lock!RemoveLock
      PROVE  Held!LockInv'
  BY <1>1, <1>3, SameLock DEF Held!LockNext
<1>4. ASSUME UNCHANGED lockVars
      PROVE  Held!LockInv'
  BY <1>1, <1>4 DEF Held!lockVars, lockVars
<1>5. ASSUME Crash
      PROVE  Held!LockInv'
  <2>1. Held!LockInit'
    BY <1>5 DEF Crash, Held!LockInit
  <2>. QED BY <2>1, LockAssumption, Held!LockInvInit, PTL
<1>6. Enforcer \in Clients /\ \A r \in Requests : r \in Clients
  BY DEF Clients
<1>7. Held!LockInv'
  <2>1. ASSUME NEW r \in Requests, NEW q, Outside(r, q) \/ Entering(r, q)
        PROVE  Held!LockInv'
    BY <1>2, <1>4, <1>6, <2>1 DEF Outside, Entering, EnterLock
  <2>2. ASSUME NEW r \in Requests, GivingUp(r) \/ Signing(r) \/ Leaving(r)
        PROVE  Held!LockInv'
    BY <1>2, <1>4, <1>6, <2>2 DEF GivingUp, Signing, Leaving, LeaveLock
  <2>3. CASE Enforcing \/ EnforcerGivingUp \/ Enforced
    BY <1>2, <1>6, <2>3 DEF Enforcing, EnforcerGivingUp, Enforced
  <2>4. CASE Removing \/ Elsewhere
    BY <1>3, <1>4, <2>4 DEF Removing, Elsewhere
  <2>. QED BY <1>5, <2>1, <2>2, <2>3, <2>4 DEF Shaped
<1>8. (Held!LockInv <=> Lock!LockTypeOK /\ LockIsSound)'
  BY SameLock, PTL
<1>. QED BY <1>7, <1>8

\* What the lock's steps do to the places of its clients.
LEMMA PlaceSteps ==
  ASSUME EngineInv, NEW c \in Clients
  PROVE  /\ Lock!RunRefused(c) => place[c] = "out" /\ place' = place
         /\ Lock!RunAtOnce(c) \/ Lock!RunQueued(c) =>
              /\ place[c] = "out" /\ place'[c] \in {"queued", "in"}
              /\ \A d \in Clients : d # c => place'[d] = place[d]
         /\ Lock!WaitTimeout(c) =>
              /\ place[c] = "queued" /\ place'[c] = "out"
              /\ \A d \in Clients : d # c => place'[d] = place[d]
         /\ Lock!Release(c) =>
              /\ place[c] = "in" /\ place'[c] = "out"
              /\ \A d \in Clients : d # c =>
                   /\ place[d] # "in"
                   /\ place[d] = "out" <=> place'[d] = "out"
<1>1. /\ place \in [Clients -> {"out", "queued", "in"}] /\ waiters \in Seq(Clients)
      /\ \A d \in Clients : place[d] = "in" /\ place[c] = "in" => d = c
      /\ \A d \in Clients : place[d] = "queued" <=> \E i \in DOMAIN waiters : waiters[i] = d
  BY DEF EngineInv, TypeOK, Lock!LockTypeOK, LockIsSound, Lock!MutualExclusion,
         Lock!QueueIsServed
<1>2. Lock!RunRefused(c) => place[c] = "out" /\ place' = place
  BY DEF Lock!RunRefused
<1>3. Lock!RunAtOnce(c) \/ Lock!RunQueued(c) =>
        /\ place[c] = "out" /\ place'[c] \in {"queued", "in"}
        /\ \A d \in Clients : d # c => place'[d] = place[d]
  BY <1>1 DEF Lock!RunAtOnce, Lock!RunQueued
<1>4. Lock!WaitTimeout(c) =>
        /\ place[c] = "queued" /\ place'[c] = "out"
        /\ \A d \in Clients : d # c => place'[d] = place[d]
  BY <1>1 DEF Lock!WaitTimeout
<1>5. ASSUME Lock!Release(c)
      PROVE  /\ place[c] = "in" /\ place'[c] = "out"
             /\ \A d \in Clients : d # c =>
                  /\ place[d] # "in"
                  /\ place[d] = "out" <=> place'[d] = "out"
  <2>1. place[c] = "in"
    BY <1>5 DEF Lock!Release
  <2>2. CASE waiters = <<>>
    <3>1. place' = [place EXCEPT ![c] = "out"]
      BY <1>5, <2>2 DEF Lock!Release
    <3>. QED BY <1>1, <2>1, <3>1
  <2>3. CASE waiters # <<>>
    <3>1. /\ Head(waiters) = waiters[1] /\ waiters[1] \in Clients /\ 1 \in DOMAIN waiters
      BY <1>1, <2>3
    <3>2. place[waiters[1]] = "queued"
      BY <1>1, <3>1
    <3>3. place' = [place EXCEPT ![c] = "out", ![waiters[1]] = "in"]
      BY <1>5, <2>3, <3>1 DEF Lock!Release
    <3>. QED BY <1>1, <2>1, <3>1, <3>2, <3>3
  <2>. QED BY <2>2, <2>3
<1>. QED BY <1>2, <1>3, <1>4, <1>5

\* Requests stay where their progress says they are.
LEMMA AtTheLockStep ==
  ASSUME EngineInv, Shaped
  PROVE  RequestsAtTheLock' /\ req' \in [Requests -> OpenRequests \cup {Idle}]
<1> USE DEF RequestsAtTheLock
<1>0. /\ req \in [Requests -> OpenRequests \cup {Idle}]
      /\ \A r \in Requests : /\ place[r] = "out" <=> req[r].pc \in {"idle", "verify"}
                             /\ req[r].pc = "signing" => place[r] = "in"
      /\ place[Enforcer] = "out" <=> enforcing = "nothing"
      /\ enforcing # "nothing" => session # None
  BY DEF EngineInv, TypeOK
<1>1. Enforcer \in Clients /\ Enforcer \notin Requests /\ \A r \in Requests : r \in Clients
  BY BoundsAssumption DEF Clients
<1>2. session # None => session' # None
  <2>1. CASE Kept
    BY <2>1 DEF Kept
  <2>2. ASSUME NEW e, Appends(e)
        PROVE  session' # None
    BY <2>2, StoredStep DEF Appends
  <2>. QED BY <2>1, <2>2, ShapedData
<1>i. Idle.pc = "idle" /\ Idle \in OpenRequests \cup {Idle}
  BY DEF Idle
<1>3. ASSUME NEW r \in Requests, NEW q, Outside(r, q)
      PROVE  RequestsAtTheLock' /\ req' \in [Requests -> OpenRequests \cup {Idle}]
  BY <1>0, <1>1, <1>2, <1>3 DEF Outside, Fit, lockVars
<1>4. ASSUME NEW r \in Requests, NEW q, Entering(r, q)
      PROVE  RequestsAtTheLock' /\ req' \in [Requests -> OpenRequests \cup {Idle}]
  <2>1. q.pc = "lock" /\ q \in OpenRequests \cup {Idle} /\ enforcing' = enforcing
    BY <1>4 DEF Entering, Fit
  <2>2. CASE Lock!RunRefused(r) /\ req' = [req EXCEPT ![r] = Idle]
    <3>1. place[r] = "out" /\ place' = place
      BY <1>1, <2>2, PlaceSteps
    <3>. QED BY <1>0, <1>1, <1>2, <1>i, <2>1, <2>2, <3>1
  <2>3. CASE (Lock!RunAtOnce(r) \/ Lock!RunQueued(r)) /\ req' = [req EXCEPT ![r] = q]
    <3>1. /\ place[r] = "out" /\ place'[r] \in {"queued", "in"}
          /\ \A d \in Clients : d # r => place'[d] = place[d]
      BY <1>1, <2>3, PlaceSteps
    <3>. QED BY <1>0, <1>1, <1>2, <2>1, <2>3, <3>1
  <2>. QED BY <1>4, <2>2, <2>3 DEF Entering, EnterLock
<1>5. ASSUME NEW r \in Requests, GivingUp(r)
      PROVE  RequestsAtTheLock' /\ req' \in [Requests -> OpenRequests \cup {Idle}]
  <2>1. /\ place[r] = "queued" /\ place'[r] = "out"
        /\ \A d \in Clients : d # r => place'[d] = place[d]
        /\ req' = [req EXCEPT ![r] = Idle] /\ enforcing' = enforcing
    BY <1>1, <1>5, PlaceSteps DEF GivingUp
  <2>. QED BY <1>0, <1>1, <1>2, <1>i, <2>1
<1>6. ASSUME NEW r \in Requests, Signing(r)
      PROVE  RequestsAtTheLock' /\ req' \in [Requests -> OpenRequests \cup {Idle}]
  <2> DEFINE k == [req[r] EXCEPT !.pc = "signing", !.snapshot = session]
  <2>1. k \in OpenRequests /\ k.pc = "signing"
    BY <1>6, SigningRequest DEF Signing
  <2>2. /\ place[r] = "in" /\ place' = place /\ enforcing' = enforcing
        /\ req' = [req EXCEPT ![r] = k]
    BY <1>6 DEF Signing, lockVars
  <2> HIDE DEF k
  <2>. QED BY <1>0, <1>1, <1>2, <2>1, <2>2
<1>7. ASSUME NEW r \in Requests, Leaving(r)
      PROVE  RequestsAtTheLock' /\ req' \in [Requests -> OpenRequests \cup {Idle}]
  <2>1. /\ place[r] = "in" /\ place'[r] = "out"
        /\ \A d \in Clients : d # r =>
             /\ place[d] # "in"
             /\ place[d] = "out" <=> place'[d] = "out"
        /\ req' = [req EXCEPT ![r] = Idle] /\ enforcing' = enforcing
    BY <1>1, <1>7, PlaceSteps DEF Leaving, LeaveLock
  <2>. QED BY <1>0, <1>1, <1>2, <1>i, <2>1
<1>8. CASE Enforcing
  <2>1. req' = req /\ session # None
    BY <1>8 DEF Enforcing
  <2>2. CASE Lock!RunRefused(Enforcer) /\ UNCHANGED enforcing
    BY <1>0, <1>1, <1>2, <2>1, <2>2, PlaceSteps
  <2>3. CASE /\ Lock!RunAtOnce(Enforcer) \/ Lock!RunQueued(Enforcer)
             /\ enforcing' \in {"expire", "cosign"}
    <3>1. /\ place'[Enforcer] \in {"queued", "in"}
          /\ \A d \in Clients : d # Enforcer => place'[d] = place[d]
      BY <1>1, <2>3, PlaceSteps
    <3>. QED BY <1>0, <1>1, <1>2, <2>1, <2>3, <3>1
  <2>. QED BY <1>8, <2>2, <2>3 DEF Enforcing
<1>9. CASE EnforcerGivingUp
  <2>1. /\ req' = req /\ enforcing' = "nothing" /\ place'[Enforcer] = "out"
        /\ \A d \in Clients : d # Enforcer => place'[d] = place[d]
    BY <1>1, <1>9, PlaceSteps DEF EnforcerGivingUp
  <2>. QED BY <1>0, <1>1, <2>1
<1>10. CASE Enforced
  <2>1. /\ req' = req /\ enforcing' = "nothing" /\ place'[Enforcer] = "out"
        /\ \A d \in Clients : d # Enforcer =>
             place[d] # "in" /\ (place[d] = "out" <=> place'[d] = "out")
    BY <1>1, <1>10, PlaceSteps DEF Enforced
  <2>. QED BY <1>0, <1>1, <2>1
<1>11. CASE Removing \/ Elsewhere
  <2>1. req' = req /\ enforcing' = enforcing /\ place' = place
    BY <1>11 DEF Removing, Elsewhere, Lock!RemoveLock, lockVars
  <2>. QED BY <1>0, <1>2, <2>1
<1>12. CASE Crash
  <2>1. /\ req' = [r \in Requests |-> Idle] /\ place' = [c \in Clients |-> "out"]
        /\ enforcing' = "nothing"
    BY <1>12 DEF Crash
  <2>. QED BY <1>1, <1>i, <2>1
<1>. QED BY <1>3, <1>4, <1>5, <1>6, <1>7, <1>8, <1>9, <1>10, <1>11, <1>12 DEF Shaped

\* A committed deal stays committed, with its quote.
LEMMA CommittedStays ==
  ASSUME EngineInv, NEW e, Appends(e), NEW n, Settleable(session, n)
  PROVE  Settleable(session', n)
<1>1. session \in DerivedSession /\ session.state = "COMMITTED"
  BY SessionFacts DEF Settleable
<1>2. Accepts(session, e) /\ session' = Apply(session, e) /\ e.event_id \in Nat
  BY SessionFacts DEF Appends, Stored
<1>3. e.type = "SETTLEMENT_CONFIRMED"
  <2>1. e.type \in DOMAIN TransitionRules["COMMITTED"]
    BY <1>1, <1>2, NoneAssumption DEF Accepts, IsValidTransition
  <2>2. DOMAIN TransitionRules["COMMITTED"] = {"SETTLEMENT_CONFIRMED"}
    BY DEF TransitionRules
  <2>. QED BY <2>1, <2>2
<1>4. Promised!Apply(session, e) =
        [session EXCEPT !.state = "COMMITTED", !.lastEventId = e.event_id]
  BY <1>1, <1>2, <1>3, SameReducer, SameTypes, PromiseAssumptions, Promised!ApplySettled
<1>5. session' = [session EXCEPT !.state = "COMMITTED", !.lastEventId = e.event_id]
  BY <1>2, <1>4, SameReducer
<1>6. session'.state = "COMMITTED" /\ session'.unsignedQuote = session.unsignedQuote
  BY <1>1, <1>5 DEF DerivedSession
<1>7. session' # None
  BY StoredStep DEF Appends
<1>. QED BY <1>6, <1>7 DEF Settleable

\* A signed envelope stays as it was signed.
LEMMA EnvelopesStay ==
  ASSUME EngineInv, Next, NEW id \in EnvelopeIds, envelopes[id] # None
  PROVE  envelopes'[id] = envelopes[id]
<1>1. ASSUME NEW k \in EnvelopeIds, SignAccept(k) \/ SignDecline(k)
      PROVE  envelopes'[id] = envelopes[id]
  <2>1. PICK env : envelopes[k] = None /\ envelopes' = [envelopes EXCEPT ![k] = env]
    BY <1>1 DEF SignAccept, SignDecline, SignEnvelope
  <2>2. envelopes \in [EnvelopeIds -> Envelope \cup {None}]
    BY DEF EngineInv, TypeOK
  <2>. QED BY <2>1, <2>2
<1>2. ASSUME NEW r \in Requests, RequestArrives(r)
      PROVE  envelopes' = envelopes
  BY <1>2 DEF RequestArrives, RfqArrives, OfferArrives, CounterArrives, EnvelopeArrives,
              SignatureArrives, SettleArrives, ExecuteArrives, QuoteReadArrives, Rest
<1>3. ASSUME NEW r \in Requests,
             RequestStep(r) \/ VerificationFails(r) \/ RequestTimeout(r)
      PROVE  envelopes' = envelopes
  BY <1>3 DEF RequestStep, RfqVerified, MessageVerified, EnvelopeVerified, ExecuteVerified,
              RfqSection, OfferSection, CounterSection, AcceptSection, DeclineSection,
              SignatureSection, SignatureVerified, SettleSection, QuoteReadSection,
              VerificationFails, RequestTimeout, Rest
<1>4. ASSUME EnforcerStep \/ EnforcerTimeout \/ EvictStaleCache
      PROVE  envelopes' = envelopes
  BY <1>4 DEF EnforcerStep, ScanTerminal, ScanLive, TryExpire, TryCosignTimeout,
              EnforcerTimeout, EvictStaleCache, EnforcerRest
<1>5. ASSUME Tick \/ Crash \/ \E x \in Sellers, u \in Endpoints : RegisterListing(x, u)
      PROVE  envelopes' = envelopes
  BY <1>5 DEF Tick, Crash, RegisterListing
<1>. QED BY <1>1, <1>2, <1>3, <1>4, <1>5 DEF Next

\* Only the client that is in the lock appends, and then it leaves: a request that
\* is signing before and after a step has not moved, and neither has the session.
LEMMA SignersAreAlone ==
  ASSUME EngineInv, Shaped, NEW r \in Requests, req[r].pc = "signing", req'[r].pc = "signing"
  PROVE  Kept /\ req'[r] = req[r]
<1>0. /\ req \in [Requests -> OpenRequests \cup {Idle}] /\ place[r] = "in"
      /\ r \in Clients /\ Enforcer \in Clients /\ r # Enforcer
      /\ \A c \in Requests : c \in Clients
      /\ Idle.pc # "signing"
  BY BoundsAssumption DEF EngineInv, TypeOK, SnapshotStaysCurrent, Clients, Idle
<1>1. ASSUME NEW c \in Requests, NEW q, Outside(c, q) \/ Entering(c, q)
      PROVE  Kept /\ req'[r] = req[r]
  <2>1. Kept /\ (req' = [req EXCEPT ![c] = q] \/ req' = [req EXCEPT ![c] = Idle])
    BY <1>1 DEF Outside, Entering, EnterLock
  <2>2. q.pc # "signing"
    BY <1>1 DEF Outside, Entering
  <2>. QED BY <1>0, <2>1, <2>2
<1>2. ASSUME NEW c \in Requests, GivingUp(c)
      PROVE  Kept /\ req'[r] = req[r]
  BY <1>0, <1>2 DEF GivingUp
<1>3. ASSUME NEW c \in Requests, Signing(c)
      PROVE  Kept /\ req'[r] = req[r]
  <2> DEFINE k == [req[c] EXCEPT !.pc = "signing", !.snapshot = session]
  <2>1. c = r
    BY <1>0, <1>3 DEF Signing, EngineInv, LockIsSound, Lock!MutualExclusion
  <2>2. Kept /\ req' = [req EXCEPT ![c] = k] /\ req[c] \in SignatureRequest
    BY <1>3 DEF Signing
  <2>3. req[r].snapshot = session
    BY DEF EngineInv, SnapshotStaysCurrent
  <2>4. k = req[r]
    BY <2>1, <2>2, <2>3 DEF SignatureRequest
  <2> HIDE DEF k
  <2>. QED BY <1>0, <2>1, <2>2, <2>4
<1>4. ASSUME NEW c \in Requests, Leaving(c)
      PROVE  FALSE
  <2>1. c = r
    BY <1>0, <1>4, PlaceSteps DEF Leaving, LeaveLock
  <2>. QED BY <1>0, <1>4, <2>1 DEF Leaving, LeaveLock
<1>5. CASE Enforced
  BY <1>0, <1>5, PlaceSteps DEF Enforced
<1>6. CASE Enforcing \/ EnforcerGivingUp \/ Removing \/ Elsewhere
  BY <1>6 DEF Enforcing, EnforcerGivingUp, Removing, Elsewhere
<1>7. CASE Crash
  BY <1>0, <1>7 DEF Crash
<1>. QED BY <1>1, <1>2, <1>3, <1>4, <1>5, <1>6, <1>7 DEF Shaped

\* A request after a step is as before, fits, or has just decided to sign.
LEMMA RequestAfter ==
  ASSUME EngineInv, Shaped, NEW r \in Requests
  PROVE  \/ req'[r] = req[r]
         \/ req'[r].pc # "signing" /\ Fit(req'[r]) /\ Kept
         \/ req'[r] = Idle
         \/ /\ req'[r] = [req[r] EXCEPT !.pc = "signing", !.snapshot = session]
            /\ Signing(r)
<1>0. req \in [Requests -> OpenRequests \cup {Idle}]
  BY DEF EngineInv, TypeOK
<1>1. ASSUME NEW c \in Requests, NEW q, Outside(c, q) \/ Entering(c, q)
      PROVE  req'[r] = req[r] \/ (req'[r].pc # "signing" /\ Fit(req'[r]) /\ Kept) \/ req'[r] = Idle
  <2>1. /\ req' = [req EXCEPT ![c] = q] \/ req' = [req EXCEPT ![c] = Idle]
        /\ Fit(q) /\ Kept /\ q.pc # "signing"
    BY <1>1 DEF Outside, Entering, EnterLock
  <2>. QED BY <1>0, <2>1
<1>2. ASSUME NEW c \in Requests, GivingUp(c) \/ Leaving(c)
      PROVE  req'[r] = req[r] \/ req'[r] = Idle
  BY <1>0, <1>2 DEF GivingUp, Leaving, LeaveLock
<1>3. ASSUME NEW c \in Requests, Signing(c)
      PROVE  \/ req'[r] = req[r]
             \/ /\ req'[r] = [req[r] EXCEPT !.pc = "signing", !.snapshot = session]
                /\ Signing(r)
  BY <1>0, <1>3 DEF Signing
<1>4. CASE Enforcing \/ EnforcerGivingUp \/ Enforced \/ Removing \/ Elsewhere
  BY <1>4 DEF Enforcing, EnforcerGivingUp, Enforced, Removing, Elsewhere
<1>5. CASE Crash
  BY <1>5 DEF Crash
<1>. QED BY <1>1, <1>2, <1>3, <1>4, <1>5 DEF Shaped

\* What requests were let through for, and what they decided on, stays valid.
LEMMA ValidStep ==
  ASSUME EngineInv, Next
  PROVE  RequestsStayValid' /\ SnapshotStaysCurrent'
<1>0. Shaped
  BY NextShape
<1>1. SUFFICES ASSUME NEW r \in Requests
               PROVE  /\ req'[r].op \in {"accept", "decline"} => envelopes'[req'[r].id] # None
                      /\ req'[r].op \in {"sign", "cosign"} => session' # None
                      /\ req'[r].op = "settle" => Settleable(session', req'[r].quote_id)
                      /\ req'[r].pc = "signing" =>
                           /\ session'.unsignedQuote # None
                           /\ (session'.buyerSignature = None) = (req'[r].op = "sign")
                           /\ place'[r] = "in" /\ req'[r].snapshot = session'
                           /\ session'.state = "COMMIT_PENDING"
  BY DEF RequestsStayValid, SnapshotStaysCurrent
<1>2. req[r] \in OpenRequests \cup {Idle}
  BY RequestFacts
<1>3. /\ req[r].op \in {"accept", "decline"} => envelopes[req[r].id] # None
      /\ req[r].op \in {"sign", "cosign"} => session # None
      /\ req[r].op = "settle" => Settleable(session, req[r].quote_id)
      /\ req[r].pc = "signing" =>
           /\ session.unsignedQuote # None
           /\ (session.buyerSignature = None) = (req[r].op = "sign")
           /\ req[r].snapshot = session /\ session.state = "COMMIT_PENDING"
  BY DEF EngineInv, RequestsStayValid, SnapshotStaysCurrent
<1>4. /\ session # None => session' # None
      /\ \A n : Settleable(session, n) => Settleable(session', n)
  <2>1. CASE Kept
    BY <2>1 DEF Kept
  <2>2. ASSUME NEW e, Appends(e)
        PROVE  /\ session' # None
               /\ \A n : Settleable(session, n) => Settleable(session', n)
    BY <2>2, StoredStep, CommittedStays DEF Appends
  <2>. QED BY <1>0, <2>1, <2>2, ShapedData
<1>5. req'[r].pc = "signing" => place'[r] = "in"
  BY <1>0, AtTheLockStep DEF RequestsAtTheLock
<1>6. CASE req'[r] = req[r]
  <2>1. req[r].op \in {"accept", "decline"} => envelopes'[req[r].id] # None
    <3>1. req[r].op \in {"accept", "decline"} => req[r].id \in EnvelopeIds
      BY <1>2, RequestKinds DEF EnvelopeRequest
    <3>. QED BY <1>3, <3>1, EnvelopesStay
  <2>2. req[r].pc = "signing" => session' = session
    BY <1>0, <1>6, SignersAreAlone DEF Kept
  <2>. QED BY <1>3, <1>4, <1>5, <1>6, <2>1, <2>2
<1>7. CASE req'[r].pc # "signing" /\ Fit(req'[r]) /\ Kept
  <2>1. req'[r].op \in {"accept", "decline"} => req'[r].id \in EnvelopeIds
    BY <1>7, RequestKinds DEF Fit, EnvelopeRequest
  <2>2. req'[r].op \in {"accept", "decline"} => envelopes'[req'[r].id] # None
    BY <1>7, <2>1, EnvelopesStay DEF Fit
  <2>. QED BY <1>4, <1>7, <2>2 DEF Fit
<1>8. CASE req'[r] = Idle
  BY <1>8 DEF Idle
<1>9. CASE /\ req'[r] = [req[r] EXCEPT !.pc = "signing", !.snapshot = session]
           /\ Signing(r)
  <2>1. /\ req'[r].pc = "signing" /\ req'[r].op = req[r].op /\ req'[r].snapshot = session
        /\ req[r].op \in {"sign", "cosign"}
    <3>1. req[r] \in SignatureRequest /\ session \in DerivedSession
      BY <1>9 DEF Signing
    <3>. QED BY <1>9, <3>1, SigningRequest DEF SignatureRequest
  <2>2. /\ session' = session /\ session.state = "COMMIT_PENDING"
        /\ session.unsignedQuote # None
        /\ (session.buyerSignature = None) = (req[r].op = "sign")
    BY <1>9 DEF Signing, SignatureAllowed, Kept
  <2>. QED BY <1>3, <1>4, <1>5, <2>1, <2>2
<1>. QED BY <1>0, <1>6, <1>7, <1>8, <1>9, RequestAfter

(***************************************************************************)
(* The rest of the state.                                                  *)
(***************************************************************************)

\* The types of what is neither log, session, cache, lock nor request.
RestTypeOK ==
  /\ listings \subseteq Sellers \X Endpoints
  /\ enforcing \in {"nothing", "expire", "cosign"}
  /\ cleanedUp \in BOOLEAN
  /\ envelopes \in [EnvelopeIds -> Envelope \cup {None}]
  /\ tombstones \subseteq EnvelopeIds
  /\ now \in 0..MaxTime
  /\ crashes \in 0..MaxCrashes

\* What clients sign is an envelope.
LEMMA SignTypes ==
  ASSUME EngineInv, NEW id \in EnvelopeIds, SignAccept(id) \/ SignDecline(id)
  PROVE  envelopes' \in [EnvelopeIds -> Envelope \cup {None}]
<1>1. envelopes \in [EnvelopeIds -> Envelope \cup {None}]
  BY DEF EngineInv, TypeOK
<1>2. session \in DerivedSession
  BY SessionFacts DEF SignAccept, SignDecline
<1>3. session.lastEventId \in Nat
  BY <1>2 DEF DerivedSession
<1>4. CASE SignAccept(id)
  <2>1. PICK i \in DOMAIN session.offers :
          envelopes' = [envelopes EXCEPT ![id] =
            [action |-> "accept", signer |-> Buyer, revision |-> session.lastEventId,
             seller |-> session.offers[i].seller, offer_id |-> session.offers[i].offer_id]]
    BY <1>4 DEF SignAccept, SignEnvelope
  <2>2. session.offers[i].seller \in Sellers /\ session.offers[i].offer_id \in OfferIds
    <3>1. session.offers[i] \in Offer
      BY <1>2 DEF DerivedSession
    <3>. QED BY <3>1 DEF Offer
  <2> DEFINE env == [action |-> "accept", signer |-> Buyer, revision |-> session.lastEventId,
                     seller |-> session.offers[i].seller,
                     offer_id |-> session.offers[i].offer_id]
  <2>3. env \in Envelope
    BY <1>3, <2>2 DEF Envelope, Dids
  <2> HIDE DEF env
  <2>4. envelopes' = [envelopes EXCEPT ![id] = env]
    BY <2>1 DEF env
  <2>. QED BY <1>1, <2>3, <2>4
<1>5. CASE SignDecline(id)
  <2> DEFINE x == session.selectedSeller
             o == session.selectedOfferId
             env == [action |-> "decline", signer |-> x, revision |-> session.lastEventId,
                     seller |-> x, offer_id |-> o]
  <2>1. session # None /\ session.state = "COMMIT_PENDING" /\ envelopes' = [envelopes EXCEPT ![id] = env]
    BY <1>5 DEF SignDecline, SignEnvelope
  <2>2. x # None /\ session.unsignedQuote # None
    BY <2>1, SessionFacts DEF Promised!IntegrityInv, Promised!PendingHasQuote
  <2>3. PICK i \in DOMAIN session.offers : session.offers[i].offer_id = o
    BY <2>1, <2>2, SessionFacts DEF Promised!IntegrityInv, Promised!QuoteIsSelectedOffer
  <2>4. x \in Sellers /\ o \in OfferIds
    <3>1. session.offers[i] \in Offer
      BY <1>2 DEF DerivedSession
    <3>2. session.offers[i].offer_id \in OfferIds
      BY <3>1 DEF Offer
    <3>3. session.selectedSeller \in Sellers \cup {None}
      BY <1>2 DEF DerivedSession
    <3>. QED BY <2>2, <2>3, <3>2, <3>3
  <2> HIDE DEF x, o
  <2>5. env \in Envelope
    BY <1>3, <2>4 DEF Envelope, Dids
  <2> HIDE DEF env
  <2>. QED BY <1>1, <2>1, <2>5
<1>. QED BY <1>4, <1>5

\* The clock, the counters and the client's side keep their types.
LEMMA RestStep ==
  ASSUME EngineInv, Next
  PROVE  RestTypeOK'
<1>0. /\ RestTypeOK
      /\ MaxTime \in Nat /\ MaxCrashes \in Nat
  BY Numbers DEF EngineInv, TypeOK, RestTypeOK
<1> USE DEF RestTypeOK
<1>1. ASSUME NEW id \in EnvelopeIds, SignAccept(id) \/ SignDecline(id)
      PROVE  RestTypeOK'
  <2>1. UNCHANGED <<listings, enforcing, cleanedUp, tombstones, now, crashes>>
    BY <1>1 DEF SignAccept, SignDecline, SignEnvelope
  <2>2. envelopes' \in [EnvelopeIds -> Envelope \cup {None}]
    BY <1>1, SignTypes
  <2> HIDE DEF RestTypeOK
  <2>. QED BY <1>0, <2>1, <2>2, Zenon DEF RestTypeOK
<1>2. ASSUME UNCHANGED <<listings, enforcing, cleanedUp, envelopes, tombstones, now, crashes>>
      PROVE  RestTypeOK'
  BY <1>0, <1>2
<1>3. ASSUME NEW r \in Requests, RequestArrives(r)
      PROVE  RestTypeOK'
  BY <1>2, <1>3 DEF RequestArrives, RfqArrives, OfferArrives, CounterArrives, EnvelopeArrives,
              SignatureArrives, SettleArrives, ExecuteArrives, QuoteReadArrives, Rest
<1>4. ASSUME NEW r \in Requests, EnvelopeVerified(r)
      PROVE  RestTypeOK'
  <2>1. /\ UNCHANGED <<listings, enforcing, cleanedUp, envelopes, now, crashes>>
        /\ tombstones' = tombstones \cup {req[r].id}
    BY <1>4 DEF EnvelopeVerified, Rest
  <2>2. req[r].id \in EnvelopeIds
    BY <1>4, RequestFacts, RequestKinds DEF EnvelopeVerified, EnvelopeRequest
  <2>. QED BY <1>0, <2>1, <2>2
<1>5. ASSUME NEW r \in Requests,
             RequestStep(r) \/ VerificationFails(r) \/ RequestTimeout(r)
      PROVE  RestTypeOK'
  BY <1>2, <1>4, <1>5
       DEF RequestStep, RfqVerified, MessageVerified, ExecuteVerified,
           RfqSection, OfferSection, CounterSection, AcceptSection, DeclineSection,
           SignatureSection, SignatureVerified, SettleSection, QuoteReadSection,
           VerificationFails, RequestTimeout, Rest
<1>6. ASSUME EnforcerStep \/ EnforcerTimeout
      PROVE  RestTypeOK'
  <2>1. UNCHANGED <<listings, envelopes, tombstones, now, crashes>>
    BY <1>6 DEF EnforcerStep, ScanTerminal, ScanLive, TryExpire, TryCosignTimeout,
                EnforcerTimeout, EnforcerRest
  <2>2. cleanedUp' \in BOOLEAN
    <3>1. cleanedUp' = cleanedUp \/ cleanedUp' = TRUE
      BY <1>6 DEF EnforcerStep, ScanTerminal, ScanLive, TryExpire, TryCosignTimeout,
                  EnforcerTimeout
    <3>. QED BY <1>0, <3>1
  <2>3. enforcing' \in {"nothing", "expire", "cosign"}
    <3>1. Overdue(GetSession) \in {"nothing", "expire", "cosign"}
      BY DEF Overdue
    <3>2. enforcing' = enforcing \/ enforcing' = "nothing" \/ enforcing' = Overdue(GetSession)
      BY <1>6 DEF EnforcerStep, ScanTerminal, ScanLive, TryExpire, TryCosignTimeout,
                  EnforcerTimeout
    <3>. QED BY <1>0, <3>1, <3>2
  <2> HIDE DEF RestTypeOK
  <2>. QED BY <1>0, <2>1, <2>2, <2>3, Zenon DEF RestTypeOK
<1>7. CASE EvictStaleCache
  BY <1>2, <1>7 DEF EvictStaleCache
<1>8. ASSUME NEW x \in Sellers, NEW u \in Endpoints, RegisterListing(x, u)
      PROVE  RestTypeOK'
  BY <1>0, <1>8 DEF RegisterListing
<1>9. CASE Tick
  BY <1>0, <1>9 DEF Tick
<1>10. CASE Crash
  <2>1. /\ UNCHANGED <<listings, envelopes, now>> /\ enforcing' = "nothing"
        /\ cleanedUp' = FALSE /\ tombstones' = {}
        /\ crashes < MaxCrashes /\ crashes' = crashes + 1
    BY <1>10 DEF Crash
  <2>2. crashes' \in 0..MaxCrashes
    BY <1>0, <2>1
  <2>. QED BY <1>0, <2>1, <2>2
<1>. QED BY <1>1, <1>3, <1>5, <1>6, <1>7, <1>8, <1>9, <1>10 DEF Next

\* Effects are recorded by accept and decline only.
LEMMA EffectsMove ==
  ASSUME Next
  PROVE  \/ effects' = effects
         \/ \E r \in Requests : AcceptSection(r) \/ DeclineSection(r)
<1>1. ASSUME NEW r \in Requests, RequestArrives(r)
      PROVE  effects' = effects
  BY <1>1 DEF RequestArrives, RfqArrives, OfferArrives, CounterArrives, EnvelopeArrives,
              SignatureArrives, SettleArrives, ExecuteArrives, QuoteReadArrives
<1>2. ASSUME NEW r \in Requests,
             RequestStep(r) \/ VerificationFails(r) \/ RequestTimeout(r)
      PROVE  effects' = effects \/ AcceptSection(r) \/ DeclineSection(r)
  BY <1>2 DEF RequestStep, RfqVerified, MessageVerified, EnvelopeVerified, ExecuteVerified,
              RfqSection, OfferSection, CounterSection,
              SignatureSection, SignatureVerified, SettleSection, QuoteReadSection,
              VerificationFails, RequestTimeout
<1>3. ASSUME EnforcerStep \/ EnforcerTimeout \/ EvictStaleCache
      PROVE  effects' = effects
  BY <1>3 DEF EnforcerStep, ScanTerminal, ScanLive, TryExpire, TryCosignTimeout,
              EnforcerTimeout, EvictStaleCache, EnforcerRest
<1>4. ASSUME \/ Tick \/ Crash \/ \E x \in Sellers, u \in Endpoints : RegisterListing(x, u)
             \/ \E id \in EnvelopeIds : SignAccept(id) \/ SignDecline(id)
      PROVE  effects' = effects
  BY <1>4 DEF Tick, Crash, RegisterListing, SignAccept, SignDecline, SignEnvelope
<1>. QED BY <1>1, <1>2, <1>3, <1>4 DEF Next

\* An envelope's effects stay the one event after the revision it names.
LEMMA EffectsStep ==
  ASSUME EngineInv, Next
  PROVE  /\ effects' \in [EnvelopeIds -> SUBSET (1..Len(log'))]
         /\ EnvelopeActsOnce'
         /\ EffectsHaveEnvelopes'
<1>0. /\ effects \in [EnvelopeIds -> SUBSET (1..Len(log))] /\ Len(log) \in Nat
      /\ \A id \in EnvelopeIds : effects[id] # {} =>
           effects[id] = {envelopes[id].revision + 1} /\ envelopes[id] # None
  BY SessionFacts DEF EngineInv, TypeOK, EnvelopeActsOnce, EffectsHaveEnvelopes
<1>1. \A id \in EnvelopeIds : envelopes[id] # None => envelopes'[id] = envelopes[id]
  BY EnvelopesStay
<1>3. 1..Len(log) \subseteq 1..Len(log')
  <2>1. CASE Kept
    BY <2>1 DEF Kept
  <2>2. ASSUME NEW e, Appends(e)
        PROVE  1..Len(log) \subseteq 1..Len(log')
    <3>1. Len(log') = Len(log) + 1
      BY <2>2, StoredStep DEF Appends
    <3>. QED BY <1>0, <3>1
  <2>. QED BY <2>1, <2>2, NextShape, ShapedData
<1>4. CASE effects' = effects
  <2>1. effects' \in [EnvelopeIds -> SUBSET (1..Len(log'))]
    BY <1>0, <1>3, <1>4
  <2>. QED BY <1>0, <1>1, <1>4, <2>1 DEF EnvelopeActsOnce, EffectsHaveEnvelopes
<1>5. ASSUME NEW r \in Requests, AcceptSection(r) \/ DeclineSection(r)
      PROVE  /\ effects' \in [EnvelopeIds -> SUBSET (1..Len(log'))]
             /\ EnvelopeActsOnce'
             /\ EffectsHaveEnvelopes'
  <2> DEFINE k == req[r].id
  <2>1. k \in EnvelopeIds /\ envelopes[k] # None
    <3>1. req[r].op \in {"accept", "decline"}
      BY <1>5 DEF AcceptSection, DeclineSection, InSection
    <3>. QED BY <3>1, RequestFacts, RequestKinds
               DEF EnvelopeRequest, EngineInv, RequestsStayValid
  <2>2. RecordEffect(r)
    BY <1>5 DEF AcceptSection, DeclineSection
  <2>3. CASE Kept
    BY <1>4, <2>2, <2>3 DEF RecordEffect, Kept
  <2>4. ASSUME NEW e, Appends(e), session # None,
             envelopes[k].revision = session.lastEventId
        PROVE  /\ effects' \in [EnvelopeIds -> SUBSET (1..Len(log'))]
               /\ EnvelopeActsOnce'
               /\ EffectsHaveEnvelopes'
    <3>1. Len(log') = Len(log) + 1 /\ log' # log
      BY <1>0, <2>4, StoredStep DEF Appends
    <3>2. envelopes[k].revision + 1 = Len(log')
      BY <2>4, <3>1 DEF EngineInv, SessionIsLatest
    <3>3. effects' = [effects EXCEPT ![k] = effects[k] \cup {Len(log')}]
      BY <1>0, <2>1, <2>2, <3>1 DEF RecordEffect
    <3>4. effects[k] = {} \/ effects[k] = {Len(log')}
      BY <1>0, <2>1, <3>2
    <3>5. effects' = [effects EXCEPT ![k] = {Len(log')}]
      BY <3>3, <3>4
    <3>6. Len(log') \in 1..Len(log')
      BY <1>0, <3>1
    <3> HIDE DEF k
    <3>7. effects' \in [EnvelopeIds -> SUBSET (1..Len(log'))]
      BY <1>0, <1>3, <2>1, <3>5, <3>6
    <3>8. ASSUME NEW id \in EnvelopeIds, effects'[id] # {}
          PROVE  effects'[id] = {envelopes'[id].revision + 1} /\ envelopes'[id] # None
      <4>1. CASE id = k
        BY <1>0, <1>1, <2>1, <3>2, <3>5, <4>1
      <4>2. CASE id # k
        BY <1>0, <1>1, <2>1, <3>5, <3>8, <4>2
      <4>. QED BY <4>1, <4>2
    <3>. QED BY <3>7, <3>8 DEF EnvelopeActsOnce, EffectsHaveEnvelopes
  <2>. QED BY <1>5, <2>3, <2>4, AcceptAppends, DeclineAppends
<1>. QED BY <1>4, <1>5, EffectsMove

(***************************************************************************)
(* What the log records.                                                   *)
(***************************************************************************)

\* An accept is made of a session open for offers; a session that is not
\* open for offers becomes so by a rollback only.
LEMMA AttemptTransitions ==
  ASSUME NEW st \in States, NEW t, IsValidTransition(st, t)
  PROVE  /\ t = "WINNER_SELECTED" =>
              st = "NEGOTIATING" /\ TransitionRules[st][t] = "COMMIT_PENDING"
         /\ st \notin {"OPEN", "NEGOTIATING"} /\ t \notin {"COSIGN_DECLINED", "COSIGN_TIMEOUT"}
              => TransitionRules[st][t] \notin {"OPEN", "NEGOTIATING"}
  BY DEF States, IsValidTransition, TransitionRules

\* The start of the cosign window is set by an accept and cleared by a
\* rollback; no other event touches it.
LEMMA AttemptStep ==
  ASSUME EngineInv, NEW e, Appends(e), session # None
  PROVE  /\ e.type = "WINNER_SELECTED" =>
              /\ session.state = "NEGOTIATING"
              /\ session'.state = "COMMIT_PENDING"
              /\ session'.commitPendingAt = e.payload.timestamp
              /\ session'.unsignedQuote = e.payload.quote
              /\ session'.selectedOfferId = e.payload.offer_id
         /\ e.type \notin {"WINNER_SELECTED", "COSIGN_DECLINED", "COSIGN_TIMEOUT"} =>
              /\ session'.commitPendingAt = session.commitPendingAt
              /\ session.state \notin {"OPEN", "NEGOTIATING"} =>
                   session'.state \notin {"OPEN", "NEGOTIATING"}
<1> DEFINE p == ApplyPayload(session, e)
           st == TransitionRules[session.state][e.type]
<1>1. /\ session \in DerivedSession /\ session' \in DerivedSession
      /\ session' = [p EXCEPT !.state = st, !.lastEventId = e.event_id]
  BY SessionFacts, StoredStep DEF Appends, Stored, Apply
<1>2. session.state \in States /\ IsValidTransition(session.state, e.type)
  BY <1>1 DEF DerivedSession, Appends, Stored, Accepts
<1>3. /\ e.type = "WINNER_SELECTED" => p = Winner(session, e)
      /\ e.type \notin {"WINNER_SELECTED", "COSIGN_DECLINED", "COSIGN_TIMEOUT"} =>
           p.commitPendingAt = session.commitPendingAt
  BY <1>1 DEF ApplyPayload, DerivedSession
<1>4. /\ Winner(session, e).commitPendingAt = e.payload.timestamp
      /\ Winner(session, e).unsignedQuote = e.payload.quote
      /\ Winner(session, e).selectedOfferId = e.payload.offer_id
  BY <1>1 DEF Winner, DerivedSession
<1>5. /\ session'.state = st /\ session'.commitPendingAt = p.commitPendingAt
      /\ session'.unsignedQuote = p.unsignedQuote
      /\ session'.selectedOfferId = p.selectedOfferId
  <2>1. {"state", "commitPendingAt", "unsignedQuote", "selectedOfferId"} \subseteq DOMAIN session'
    BY <1>1 DEF DerivedSession
  <2> HIDE DEF p, st
  <2>. QED BY <1>1, <2>1
<1>6. /\ e.type = "WINNER_SELECTED" => session.state = "NEGOTIATING" /\ st = "COMMIT_PENDING"
      /\ session.state \notin {"OPEN", "NEGOTIATING"}
           /\ e.type \notin {"COSIGN_DECLINED", "COSIGN_TIMEOUT"}
           => st \notin {"OPEN", "NEGOTIATING"}
  BY <1>2, AttemptTransitions
<1> HIDE DEF p, st
<1>. QED BY <1>3, <1>4, <1>5, <1>6

\* What is said of the log stays true of it.
LEMMA LogStep ==
  ASSUME EngineInv, Kept \/ \E e : Appends(e)
  PROVE  AcceptsCarryQuotes' /\ OpenAttemptIsCurrent' /\ SettledAtMostOnce'
<1>0. /\ log \in Seq(Event) /\ Len(log) \in Nat /\ DOMAIN log = 1..Len(log)
      /\ AcceptsCarryQuotes /\ OpenAttemptIsCurrent /\ SettledAtMostOnce
  BY SessionFacts DEF EngineInv
<1>1. CASE Kept
  BY <1>0, <1>1 DEF Kept, AcceptsCarryQuotes, OpenAttemptIsCurrent, OpenAttempt,
                    SettledAtMostOnce
<1>2. ASSUME NEW e, Appends(e)
      PROVE  AcceptsCarryQuotes' /\ OpenAttemptIsCurrent' /\ SettledAtMostOnce'
  <2> DEFINE n == Len(log)
  <2>1. /\ log' = Append(log, e) /\ Len(log') = n + 1 /\ e \in Event
        /\ session' # None /\ Judged(e)
    BY <1>2, StoredStep DEF Appends, Stored
  <2>2. /\ DOMAIN log' = 1..(n + 1)
        /\ log'[n + 1] = e
        /\ \A i \in 1..n : log'[i] = log[i]
    BY <1>0, <2>1
  <2>3. \A i \in 1..(n + 1) : i \in 1..n \/ i = n + 1
    BY <1>0
  <2>4. AcceptsCarryQuotes'
    BY <1>0, <2>1, <2>2, <2>3 DEF AcceptsCarryQuotes, Judged
  <2>5. SettledAtMostOnce'
    <3>1. e.type = "SETTLEMENT_CONFIRMED" => \A i \in 1..n : log[i].type # "SETTLEMENT_CONFIRMED"
      BY <1>0, <2>1 DEF Judged, Settled
    <3>. QED BY <1>0, <2>2, <2>3, <3>1 DEF SettledAtMostOnce
  <2>6. ASSUME NEW i \in 1..(n + 1), OpenAttempt(log', i)
        PROVE  /\ session'.state \notin {"OPEN", "NEGOTIATING"}
               /\ session'.commitPendingAt = log'[i].payload.timestamp
    <3>1. log'[i].type = "WINNER_SELECTED"
      BY <2>6 DEF OpenAttempt
    <3>2. CASE i = n + 1
      <4>1. e.type = "WINNER_SELECTED"
        BY <2>2, <3>1, <3>2
      <4>2. session # None
        BY <1>2, <4>1 DEF Appends, Stored, Accepts
      <4>. QED BY <1>2, <2>2, <3>2, <4>1, <4>2, AttemptStep
    <3>3. CASE i \in 1..n
      <4>1. e.type \notin {"COSIGN_DECLINED", "COSIGN_TIMEOUT"}
        <5>1. n + 1 \in (i + 1)..Len(log')
          BY <1>0, <2>1, <3>3
        <5>. QED BY <2>2, <2>6, <5>1 DEF OpenAttempt
      <4>2. OpenAttempt(log, i)
        <5>1. ASSUME NEW j \in (i + 1)..n
              PROVE  log[j].type \notin {"COSIGN_DECLINED", "COSIGN_TIMEOUT"}
          <6>1. j \in 1..n /\ j \in (i + 1)..Len(log')
            BY <1>0, <2>1, <3>3
          <6>. QED BY <2>2, <2>6, <6>1 DEF OpenAttempt
        <5>. QED BY <2>2, <3>1, <3>3, <5>1 DEF OpenAttempt
      <4>3. /\ session # None /\ session.state \notin {"OPEN", "NEGOTIATING"}
            /\ session.commitPendingAt = log[i].payload.timestamp
        BY <1>0, <3>3, <4>2 DEF OpenAttemptIsCurrent
      <4>4. e.type # "WINNER_SELECTED"
        BY <1>2, <4>3, AttemptStep
      <4>. QED BY <1>2, <2>2, <3>3, <4>1, <4>3, <4>4, AttemptStep
    <3>. QED BY <2>3, <3>2, <3>3
  <2>7. OpenAttemptIsCurrent'
    <3> HIDE DEF n
    <3>. QED BY <2>1, <2>2, <2>6 DEF OpenAttemptIsCurrent
  <2>. QED BY <2>4, <2>5, <2>7
<1>. QED BY <1>1, <1>2

(***************************************************************************)
(* The invariant.                                                          *)
(***************************************************************************)
\* A process started on an empty database satisfies it.
LEMMA EngineInvInit == Init => EngineInv
<1> SUFFICES ASSUME Init
             PROVE  EngineInv
  OBVIOUS
<1>1. /\ log = <<>> /\ session = None /\ listings = {} /\ cache = None
      /\ req = [r \in Requests |-> Idle] /\ enforcing = "nothing" /\ cleanedUp = FALSE
      /\ envelopes = [id \in EnvelopeIds |-> None] /\ tombstones = {}
      /\ effects = [id \in EnvelopeIds |-> {}] /\ now = 0 /\ crashes = 0
  BY DEF Init
<1>2. Lock!LockTypeOK /\ LockIsSound /\ place = [c \in Clients |-> "out"]
  <2>1. Lock!LockInit
    BY DEF Init
  <2>2. Held!LockInv
    BY <2>1, SameLock, LockAssumption, Held!LockInvInit
  <2>. QED BY <2>1, <2>2, SameLock DEF Lock!LockInit
<1>3. TypeOK
  <2>1. log \in Seq(Event)
    BY <1>1
  <2>2. now \in 0..MaxTime /\ crashes \in 0..MaxCrashes
    BY <1>1, Numbers
  <2>3. req \in [Requests -> OpenRequests \cup {Idle}]
    BY <1>1
  <2>. QED BY <1>1, <1>2, <2>1, <2>2, <2>3 DEF TypeOK
<1>4. Promise!IntegrityInv
  BY <1>1, PromiseAssumptions, SameIntegrity, Promised!IntegrityInit DEF Promised!Init
<1>5. session = DeriveState(log)
  BY <1>1, ReplayOfNothing
<1>6. RequestsAtTheLock
  BY <1>1, <1>2 DEF RequestsAtTheLock, Idle, Clients
<1>7. RequestsStayValid /\ SnapshotStaysCurrent
  BY <1>1 DEF RequestsStayValid, SnapshotStaysCurrent, Idle
<1>8. CacheIsFresh /\ SessionIsLatest /\ EffectsHaveEnvelopes /\ EnvelopeActsOnce
  BY <1>1 DEF CacheIsFresh, SessionIsLatest, EffectsHaveEnvelopes, EnvelopeActsOnce
<1>9. AcceptsCarryQuotes /\ OpenAttemptIsCurrent /\ SettledAtMostOnce
  <2>1. DOMAIN log = {}
    BY <1>1
  <2>. QED BY <2>1 DEF AcceptsCarryQuotes, OpenAttemptIsCurrent, SettledAtMostOnce
<1>. QED BY <1>2, <1>3, <1>4, <1>5, <1>6, <1>7, <1>8, <1>9 DEF EngineInv

\* Every step keeps the invariant.
LEMMA EngineInvStep == EngineInv /\ [Next]_vars => EngineInv'
<1>1. ASSUME EngineInv, Next
      PROVE  EngineInv'
  <2>1. Shaped /\ (Kept \/ \E e : Appends(e))
    BY <1>1, NextShape, ShapedData
  <2>2. /\ log' \in Seq(Event)
        /\ session' \in DerivedSession \cup {None}
        /\ Promise!IntegrityInv'
        /\ session' = DeriveState(log')
        /\ CacheIsFresh'
        /\ SessionIsLatest'
        /\ cache' \in CacheEntry \cup {None}
        /\ cache' # None => cache'.eventCount \in 1..Len(log')
    <3>1. CASE Kept
      BY <1>1, <3>1, KeptStep DEF EngineInv, TypeOK
    <3>2. ASSUME NEW e, Appends(e)
          PROVE  /\ log' \in Seq(Event) /\ session' \in DerivedSession
                 /\ Promise!IntegrityInv'
                 /\ session' = DeriveState(log')
                 /\ CacheIsFresh' /\ SessionIsLatest'
                 /\ cache' \in CacheEntry /\ cache'.eventCount \in 1..Len(log')
      BY <1>1, <3>2, StoredStep DEF Appends
    <3>. QED BY <2>1, <3>1, <3>2
  <2>3. (Lock!LockTypeOK /\ LockIsSound)'
    BY <1>1, <2>1, LockStep
  <2>4. RequestsAtTheLock' /\ req' \in [Requests -> OpenRequests \cup {Idle}]
    BY <1>1, <2>1, AtTheLockStep
  <2>5. RequestsStayValid' /\ SnapshotStaysCurrent'
    BY <1>1, ValidStep
  <2>6. /\ effects' \in [EnvelopeIds -> SUBSET (1..Len(log'))]
        /\ EnvelopeActsOnce' /\ EffectsHaveEnvelopes'
    BY <1>1, EffectsStep
  <2>7. AcceptsCarryQuotes' /\ OpenAttemptIsCurrent' /\ SettledAtMostOnce'
    BY <1>1, <2>1, LogStep
  <2>8. RestTypeOK'
    BY <1>1, RestStep
  <2>9. TypeOK'
    BY <2>2, <2>3, <2>4, <2>6, <2>8, Zenon DEF TypeOK, RestTypeOK
  <2>. QED BY <2>2, <2>3, <2>4, <2>5, <2>6, <2>7, <2>9, Zenon DEF EngineInv
<1>2. ASSUME EngineInv, UNCHANGED vars
      PROVE  EngineInv'
  <2>1. UNCHANGED <<log, session, listings, cache, lockVars, req, enforcing, cleanedUp,
                    envelopes, tombstones, effects, now, crashes>>
    BY <1>2 DEF vars, lockVars
  <2>2. Elsewhere /\ Kept
    BY <2>1 DEF Elsewhere, Kept
  <2>3. Shaped
    BY <2>2 DEF Shaped
  <2>4. (Lock!LockTypeOK /\ LockIsSound)'
    BY <1>2, <2>3, LockStep
  <2>5. /\ Promise!IntegrityInv' /\ session' = DeriveState(log')
        /\ CacheIsFresh' /\ SessionIsLatest'
    BY <1>2, <2>2, KeptStep
  <2>6. UNCHANGED place
    BY <2>1 DEF lockVars
  <2>7. TypeOK'
    BY <1>2, <2>1, <2>4, Zenon DEF EngineInv, TypeOK
  <2>8. RequestsAtTheLock' /\ RequestsStayValid' /\ SnapshotStaysCurrent'
    BY <1>2, <2>1, <2>6, Zenon DEF EngineInv, RequestsAtTheLock, RequestsStayValid,
                                   SnapshotStaysCurrent, Settleable
  <2>9. EffectsHaveEnvelopes' /\ EnvelopeActsOnce'
    BY <1>2, <2>1, Zenon DEF EngineInv, EffectsHaveEnvelopes, EnvelopeActsOnce
  <2>10. AcceptsCarryQuotes' /\ OpenAttemptIsCurrent' /\ SettledAtMostOnce'
    BY <1>2, <2>2, LogStep
  <2>. QED BY <2>4, <2>5, <2>7, <2>8, <2>9, <2>10, Zenon DEF EngineInv
<1>. QED BY <1>1, <1>2

\* The inductive invariant of the engine holds in every reachable state: types, lock,
\* cache, requests in flight, envelopes and what the log says of accepts and settlements.
THEOREM EngineInvHolds == Spec => []EngineInv
<1>. QED BY EngineInvInit, EngineInvStep, PTL DEF Spec

(***************************************************************************)
(* What the invariant says of the engine.                                  *)
(***************************************************************************)

\* The state of the engine keeps its types: SessionManager, the lock, the
\* requests in flight, the enforcer, the envelopes and their tombstones.
THEOREM EngineTypes == Spec => []TypeOK
<1>1. EngineInv => TypeOK
  BY DEF EngineInv
<1>. QED BY <1>1, EngineInvHolds, PTL

\* The session lock stays sound while requests arrive, wait, time out and
\* leave, while the enforcer competes with them and drops the lock object,
\* and across restarts.
THEOREM EngineLock == Spec => []LockIsSound
<1>1. EngineInv => LockIsSound
  BY DEF EngineInv
<1>. QED BY <1>1, EngineInvHolds, PTL

\* SessionManager.getSession never serves a stale session: cached or not,
\* what it returns is deriveState of the stored log, for logs of any length.
THEOREM CacheIsCoherent == Spec => []CacheIsReplay
<1>1. EngineInv => CacheIsReplay
  BY SessionFacts DEF EngineInv, CacheIsReplay
<1>. QED BY <1>1, EngineInvHolds, PTL

\* quote-sign and cosign append on the session they checked, although they
\* await the signature check in between.
THEOREM SnapshotsAreCurrent == Spec => []SnapshotStaysCurrent
<1>1. EngineInv => SnapshotStaysCurrent
  BY DEF EngineInv
<1>. QED BY <1>1, EngineInvHolds, PTL

\* A control envelope acts at most once, duplicated, delayed or replayed
\* after a restart: as the event that follows the revision it names.
THEOREM EnvelopesActOnce == Spec => []EnvelopeActsOnce
<1>1. EngineInv => EnvelopeActsOnce
  BY DEF EngineInv
<1>. QED BY <1>1, EngineInvHolds, PTL

\* A session's payment is confirmed at most once, however many
\* settle-report and execute requests race for it.
THEOREM SettlementIsConfirmedOnce == Spec => []SettledOnce
<1>1. ASSUME EngineInv
      PROVE  SettledOnce
  <2> DEFINE S == {i \in DOMAIN log : log[i].type = "SETTLEMENT_CONFIRMED"}
  <2>1. \A i, j \in S : i = j
    BY <1>1 DEF EngineInv, SettledAtMostOnce
  <2>2. CASE S = {}
    BY <2>2, FS_EmptySet DEF SettledOnce
  <2>3. CASE S # {}
    <3>1. PICK i : S = {i}
      BY <2>1, <2>3
    <3>2. Cardinality({i}) = 1
      BY FS_Singleton
    <3>. QED BY <3>1, <3>2 DEF SettledOnce
  <2>. QED BY <2>2, <2>3
<1>. QED BY <1>1, EngineInvHolds, PTL

(***************************************************************************)
(* What a step may never do.                                               *)
(***************************************************************************)

\* The event a step appends.
LEMMA AppendedEvent ==
  ASSUME EngineInv, [Next]_vars, NEW T, Appended(T)
  PROVE  \E e : Appends(e) /\ e.type \in T
<1>0. log \in Seq(Event) /\ Len(log) \in Nat
  BY SessionFacts
<1>1. ~(log' = log)
  BY <1>0 DEF Appended
<1>2. Next
  BY <1>1 DEF vars
<1>3. PICK e : Appends(e)
  BY <1>1, <1>2, NextShape, ShapedData DEF Kept
<1>4. log' = Append(log, e) /\ Len(log') = Len(log) + 1 /\ e \in Event
  BY <1>3, StoredStep DEF Appends, Stored
<1>5. log'[Len(log')] = e
  BY <1>0, <1>4
<1>. QED BY <1>3, <1>5 DEF Appended

\* Whatever a request saw before it waited, it is judged by the clock inside
\* the lock: no offer, counter, accept or decline at or after the deadline, no
\* accept of an expired offer, no expiry before the deadline.
THEOREM DeadlinesAreChecked == Spec => DeadlineInsideLock
<1> DEFINE A == /\ Appended({"OFFER_SUBMITTED", "COUNTER_SENT", "WINNER_SELECTED", "COSIGN_DECLINED"})
                     => now < session.rfq.deadline
                /\ Appended({"NEGOTIATION_EXPIRED"}) => now >= session.rfq.deadline
                /\ Appended({"WINNER_SELECTED"}) =>
                     /\ session'.unsignedQuote.expires_at > now
                     /\ \E i \in DOMAIN session.offers :
                          /\ session.offers[i].offer_id = session'.selectedOfferId
                          /\ session.offers[i].valid_until > now
<1>1. ASSUME EngineInv, [Next]_vars
      PROVE  A
  <2>1. ASSUME Appended({"OFFER_SUBMITTED", "COUNTER_SENT", "WINNER_SELECTED",
                         "COSIGN_DECLINED"})
        PROVE  now < session.rfq.deadline
    BY <1>1, <2>1, AppendedEvent DEF Appends, Judged
  <2>2. ASSUME Appended({"NEGOTIATION_EXPIRED"})
        PROVE  now >= session.rfq.deadline
    BY <1>1, <2>2, AppendedEvent DEF Appends, Judged
  <2>3. ASSUME Appended({"WINNER_SELECTED"})
        PROVE  /\ session'.unsignedQuote.expires_at > now
               /\ \E i \in DOMAIN session.offers :
                    /\ session.offers[i].offer_id = session'.selectedOfferId
                    /\ session.offers[i].valid_until > now
    <3>1. PICK e : Appends(e) /\ e.type \in {"WINNER_SELECTED"}
      BY <1>1, <2>3, AppendedEvent
    <3>2. e.type = "WINNER_SELECTED" /\ session # None
      BY <3>1 DEF Appends, Stored, Accepts
    <3>3. session'.unsignedQuote = e.payload.quote /\ session'.selectedOfferId = e.payload.offer_id
      BY <1>1, <3>1, <3>2, AttemptStep
    <3>4. Judged(e)
      BY <3>1 DEF Appends
    <3>. QED BY <3>2, <3>3, <3>4 DEF Judged
  <2>. QED BY <2>1, <2>2, <2>3
<1> HIDE DEF A
<1>2. Spec => [][A]_vars
  BY <1>1, EngineInvHolds, PTL DEF Spec
<1>. QED BY <1>2 DEF DeadlineInsideLock, A

\* The enforcer never cuts the cosign window of an accept attempt short:
\* the time it compares is that of the one attempt still open in the log.
THEOREM CosignWindowsAreFull == Spec => CosignWindowIsFull
<1> DEFINE A == Appended({"COSIGN_TIMEOUT"}) =>
                  \A i \in DOMAIN log :
                     \/ log[i].type # "WINNER_SELECTED"
                     \/ \E j \in (i + 1)..Len(log) :
                          log[j].type \in {"COSIGN_DECLINED", "COSIGN_TIMEOUT"}
                     \/ now >= log[i].payload.timestamp + CosignTimeoutMs
<1>1. ASSUME EngineInv, [Next]_vars
      PROVE  A
  <2>1. SUFFICES ASSUME Appended({"COSIGN_TIMEOUT"}), NEW i \in DOMAIN log, OpenAttempt(log, i)
                 PROVE  now >= log[i].payload.timestamp + CosignTimeoutMs
    BY DEF OpenAttempt
  <2>2. PICK e : Appends(e) /\ e.type \in {"COSIGN_TIMEOUT"}
    BY <1>1, <2>1, AppendedEvent
  <2>3. now - session.commitPendingAt >= CosignTimeoutMs
    BY <2>2 DEF Appends, Judged, CosignElapsed
  <2>4. session.commitPendingAt = log[i].payload.timestamp
    BY <1>1, <2>1 DEF EngineInv, OpenAttemptIsCurrent
  <2>5. log[i].payload.timestamp \in Nat
    BY <1>1, <2>1 DEF EngineInv, AcceptsCarryQuotes, OpenAttempt, WinnerPayload
  <2>6. now \in Nat
    BY <1>1, Numbers DEF EngineInv, TypeOK
  <2>. QED BY <2>3, <2>4, <2>5, <2>6, Numbers
<1> HIDE DEF A
<1>2. Spec => [][A]_vars
  BY <1>1, EngineInvHolds, PTL DEF Spec
<1>. QED BY <1>2 DEF CosignWindowIsFull, A

(***************************************************************************)
(* The engine keeps its promise.                                           *)
(***************************************************************************)

\* With any number of concurrent requests, a cache, timeouts and restarts, the
\* engine is an implementation of the atomic routes of Negotiation: a step
\* either appends one event that a route would append there and then, or is
\* invisible.
THEOREM EngineImplementsNegotiation == Spec => ImplementsNegotiation
<1>1. Init => Promise!Init
  BY DEF Init, Promise!Init
<1>2. ASSUME EngineInv, [Next]_vars
      PROVE  [Promise!Next]_(Promise!vars)
  <2>1. CASE Next
    <3>1. CASE Kept
      BY <3>1 DEF Kept, Promise!vars
    <3>2. ASSUME NEW e, Appends(e)
          PROVE  Promise!Next
      BY <3>2, SamePromise DEF Appends
    <3>. QED BY <1>2, <2>1, <3>1, <3>2, NextShape, ShapedData
  <2>2. CASE UNCHANGED vars
    BY <2>2 DEF vars, Promise!vars
  <2>. QED BY <1>2, <2>1, <2>2
<1>. QED BY <1>1, <1>2, EngineInvHolds, PTL DEF Spec, ImplementsNegotiation, Promise!Spec

=============================================================================

------------------------- MODULE NegotiationEngine -------------------------
(***************************************************************************)
(* One session of the negotiation engine as the process executes it: the   *)
(* HTTP routes as concurrent requests that read the session before the     *)
(* lock, await signature checks, queue for the session lock, re-check and  *)
(* append; SessionManager's session cache; the in-memory envelope          *)
(* tombstones; the deadline enforcer; the clock; and a crash that loses    *)
(* everything but the event log (SqliteEventStore) and the listings.       *)
(*                                                                         *)
(* An action is what runs between two awaits that really yield: a request  *)
(* arrives (up to its first await), comes back from a signature check, or  *)
(* runs its critical section.  quote-sign and cosign await a signature     *)
(* check inside the critical section, which is therefore two actions.      *)
(* Requests that fail a check only answer an error: they become idle.      *)
(***************************************************************************)
EXTENDS Session, FiniteSets

CONSTANTS
  Requests,              \* HTTP requests being handled at a time
  Enforcer,              \* the deadline enforcer
  EnvelopeIds,           \* ids of signed control envelopes
  Rounds,                \* rounds a counter may carry
  ValidUntils,           \* valid_until times offers may carry
  Deadlines,             \* deadlines RFQs may carry
  CosignTimeoutMs,       \* cosign window of the enforcer
  SettlementWindow,      \* life of a quote
  MaxQueueSize,          \* of the session lock
  MaxOffersPerSession, MaxOffersPerSeller,
  MaxAcceptsPerSession, MaxAcceptsPerSeller,
  MaxTime,               \* bound: the clock stops here
  MaxEvents,             \* bound: no request arrives once the log is this long
  MaxCrashes             \* bound: restarts of the process

ASSUME BoundsAssumption ==
  /\ Enforcer \notin Requests
  /\ Deadlines \subseteq Nat \ {0}
  /\ CosignTimeoutMs \in Nat \ {0}
  /\ SettlementWindow \in Nat \ {0}
  /\ ValidUntils \subseteq Nat
  /\ Rounds \subseteq Nat
  /\ {MaxQueueSize, MaxTime, MaxEvents, MaxCrashes} \subseteq Nat
  /\ {MaxOffersPerSession, MaxOffersPerSeller,
      MaxAcceptsPerSession, MaxAcceptsPerSeller} \subseteq Nat

\* A signed control envelope: the action, the revision it is for, and its terms.
Envelope == [action : {"accept", "decline"}, signer : Dids, revision : Nat,
             seller : Sellers, offer_id : OfferIds]

ASSUME EnvelopeAssumption == None \notin Envelope

Clients == Requests \cup {Enforcer}

VARIABLES
  log,          \* the stored events
  session,      \* deriveState(log): what a replay of the log yields
  listings,     \* registered listings: seller and payment endpoint
  cache,        \* SessionManager.sessionCache entry of the session
  exists, running, waiters, place,    \* the session lock
  req,          \* what each request is doing
  enforcing,    \* what the enforcer's scan is waiting for the lock for
  cleanedUp,    \* the session is in cleanedUpSessions
  envelopes,    \* control envelopes clients have signed
  tombstones,   \* envelope ids marked as used
  effects,      \* history: positions of the events each envelope caused
  now,          \* wall clock
  crashes       \* restarts so far

lockVars == <<exists, running, waiters, place>>
vars == <<log, session, listings, cache, exists, running, waiters, place, req, enforcing,
          cleanedUp, envelopes, tombstones, effects, now, crashes>>

Lock == INSTANCE SessionLock

Idle == [op |-> "none", pc |-> "idle"]

Init ==
  /\ log = <<>>
  /\ session = None
  /\ listings = {}
  /\ cache = None
  /\ Lock!LockInit
  /\ req = [r \in Requests |-> Idle]
  /\ enforcing = "nothing"
  /\ cleanedUp = FALSE
  /\ envelopes = [id \in EnvelopeIds |-> None]
  /\ tombstones = {}
  /\ effects = [id \in EnvelopeIds |-> {}]
  /\ now = 0
  /\ crashes = 0

-----------------------------------------------------------------------------
(***************************************************************************)
(* SessionManager.                                                         *)
(***************************************************************************)

\* getSession: the cached session if its event count is current, else a replay.
GetSession ==
  IF cache # None /\ cache.eventCount = Len(log) THEN cache.session ELSE session

\* Faulty variant: the absence of a session is cached too.
CacheFillEmpty == cache' = [eventCount |-> Len(log), session |-> GetSession]

\* getSession leaves what it returned in the cache.
CacheFill ==
  cache' = IF log = <<>> THEN cache ELSE [eventCount |-> Len(log), session |-> GetSession]

\* Faulty variant: the cache is refreshed with the session before the event.
AppendEventCachesOld(type, actor, payload) ==
  LET e == MkEvent(Len(log) + 1, type, actor, payload)
  IN \/ /\ Accepts(session, e)
        /\ log' = Append(log, e)
        /\ session' = Apply(session, e)
        /\ cache' = [eventCount |-> Len(log) + 1, session |-> GetSession]
     \/ /\ ~Accepts(session, e)
        /\ UNCHANGED <<log, session, cache>>

\* appendEvent: dry run on the stored log, then store, then refresh the cache.
AppendEvent(type, actor, payload) ==
  LET e == MkEvent(Len(log) + 1, type, actor, payload)
  IN \/ /\ Accepts(session, e)
        /\ log' = Append(log, e)
        /\ session' = Apply(session, e)
        /\ cache' = [eventCount |-> Len(log) + 1, session |-> Apply(session, e)]
     \/ /\ ~Accepts(session, e)
        /\ UNCHANGED <<log, session, cache>>

\* A request refused inside the lock has only read the session.
NoAppend == CacheFill /\ UNCHANGED <<log, session>>

\* withLock by request r, which is q while it waits and inside.
EnterLock(r, q) ==
  \/ /\ Lock!RunRefused(r)
     /\ req' = [req EXCEPT ![r] = Idle]
  \/ /\ Lock!RunAtOnce(r) \/ Lock!RunQueued(r)
     /\ req' = [req EXCEPT ![r] = q]

InSection(r, op) == req[r].op = op /\ req[r].pc = "lock" /\ place[r] = "in"

\* The critical section of r ends: the response is sent and the lock released.
LeaveLock(r) ==
  /\ Lock!Release(r)
  /\ req' = [req EXCEPT ![r] = Idle]

\* Faulty variant: the deadline was checked before the lock was awaited, if at all.
DeadlineUnchecked(s) == TRUE

BeforeDeadline(s) == now < s.rfq.deadline

Arrives(r) == req[r].pc = "idle" /\ Len(log) < MaxEvents

Rest == UNCHANGED <<listings, enforcing, cleanedUp, envelopes, now, crashes>>

-----------------------------------------------------------------------------
(***************************************************************************)
(* POST /rfqs.  The signature check is awaited before the lock.            *)
(***************************************************************************)
RfqArrives(r, deadline) ==
  /\ Arrives(r)
  /\ now < deadline
  /\ req' = [req EXCEPT ![r] = [op |-> "rfq", pc |-> "verify", deadline |-> deadline]]
  /\ UNCHANGED <<log, session, cache, lockVars, tombstones, effects>>
  /\ Rest

RfqVerified(r) ==
  /\ req[r].op = "rfq" /\ req[r].pc = "verify"
  /\ \/ /\ log # <<>>
        /\ req' = [req EXCEPT ![r] = Idle]
        /\ UNCHANGED lockVars
     \/ /\ log = <<>>
        /\ EnterLock(r, [req[r] EXCEPT !.pc = "lock"])
  /\ UNCHANGED <<log, session, cache, tombstones, effects>>
  /\ Rest

RfqSection(r) ==
  /\ InSection(r, "rfq")
  /\ \/ /\ log # <<>>
        /\ NoAppend
     \/ /\ log = <<>>
        /\ AppendEvent("RFQ_CREATED", Buyer, [buyer |-> Buyer, deadline |-> req[r].deadline])
  /\ LeaveLock(r)
  /\ UNCHANGED <<tombstones, effects>>
  /\ Rest

(***************************************************************************)
(* POST /rfqs/:id/offers.  The offer names a listing (here, its endpoint), *)
(* which is looked up inside the lock; listings are added, never changed.  *)
(***************************************************************************)
OfferArrives(r, id, seller, listing, price, validUntil) ==
  /\ Arrives(r)
  /\ GetSession # None
  /\ validUntil > now
  /\ CacheFill
  /\ req' = [req EXCEPT ![r] = [op |-> "offer", pc |-> "verify", offer_id |-> id,
                                 seller |-> seller, listing |-> listing, price |-> price,
                                 valid_until |-> validUntil]]
  /\ UNCHANGED <<log, session, lockVars, tombstones, effects>>
  /\ Rest

OfferAllowed(s, q) ==
  /\ BeforeDeadline(s)
  /\ s.state \in {"OPEN", "NEGOTIATING"}
  /\ \A i \in DOMAIN s.offers : s.offers[i].offer_id # q.offer_id
  /\ Len(s.offers) < MaxOffersPerSession
  /\ s.offerCountBySeller[q.seller] < MaxOffersPerSeller
  /\ <<q.seller, q.listing>> \in listings

OfferSection(r) ==
  /\ InSection(r, "offer")
  /\ \/ /\ OfferAllowed(GetSession, req[r])
        /\ AppendEvent("OFFER_SUBMITTED", req[r].seller,
             [offer_id |-> req[r].offer_id, seller |-> req[r].seller, price |-> req[r].price,
              payment_endpoint |-> req[r].listing,
              valid_until |-> req[r].valid_until])
     \/ /\ ~OfferAllowed(GetSession, req[r])
        /\ NoAppend
  /\ LeaveLock(r)
  /\ UNCHANGED <<tombstones, effects>>
  /\ Rest

(***************************************************************************)
(* POST /rfqs/:id/counter.  The proof and the signature are checked before *)
(* the lock; the recipient is checked both before and inside it.           *)
(***************************************************************************)
CounterArrives(r, id, round, to) ==
  /\ Arrives(r)
  /\ GetSession # None
  /\ HasOffer(GetSession, to)
  /\ CacheFill
  /\ req' = [req EXCEPT ![r] = [op |-> "counter", pc |-> "verify", counter_id |-> id,
                                 round |-> round, from |-> Buyer, to |-> to]]
  /\ UNCHANGED <<log, session, lockVars, tombstones, effects>>
  /\ Rest

CounterAllowed(s, q) ==
  /\ BeforeDeadline(s)
  /\ s.state = "NEGOTIATING"
  /\ HasOffer(s, q.to)
  /\ q.round > 0
  /\ \A i \in DOMAIN s.counters :
       s.counters[i].counter_id # q.counter_id /\ s.counters[i].round < q.round

CounterSection(r) ==
  /\ InSection(r, "counter")
  /\ \/ /\ CounterAllowed(GetSession, req[r])
        /\ AppendEvent("COUNTER_SENT", req[r].from,
             [counter_id |-> req[r].counter_id, round |-> req[r].round,
              from |-> req[r].from, to |-> req[r].to])
     \/ /\ ~CounterAllowed(GetSession, req[r])
        /\ NoAppend
  /\ LeaveLock(r)
  /\ UNCHANGED <<tombstones, effects>>
  /\ Rest

\* A request whose signature, proof or payment has verified goes for the lock.
MessageVerified(r) ==
  /\ req[r].op \in {"offer", "counter", "settle", "read"} /\ req[r].pc = "verify"
  /\ EnterLock(r, [req[r] EXCEPT !.pc = "lock"])
  /\ UNCHANGED <<log, session, cache, tombstones, effects>>
  /\ Rest

\* A request whose signature, proof or payment does not verify is answered 401 or 422.
VerificationFails(r) ==
  /\ req[r].pc = "verify"
  /\ req' = [req EXCEPT ![r] = Idle]
  /\ UNCHANGED <<log, session, cache, lockVars, tombstones, effects>>
  /\ Rest

(***************************************************************************)
(* Control envelopes.  The tombstone is looked up before the signature     *)
(* check is awaited and set after it.                                      *)
(***************************************************************************)
EnvelopeArrives(r, id) ==
  /\ Arrives(r)
  /\ envelopes[id] # None
  /\ GetSession # None
  /\ id \notin tombstones
  /\ envelopes[id].action = "decline" => GetSession.selectedSeller = envelopes[id].signer
  /\ CacheFill
  /\ req' = [req EXCEPT ![r] = [op |-> envelopes[id].action, pc |-> "verify", id |-> id,
                                 preSeller |-> GetSession.selectedSeller]]
  /\ UNCHANGED <<log, session, lockVars, tombstones, effects>>
  /\ Rest

EnvelopeVerified(r) ==
  /\ req[r].op \in {"accept", "decline"} /\ req[r].pc = "verify"
  /\ tombstones' = tombstones \cup {req[r].id}
  /\ EnterLock(r, [req[r] EXCEPT !.pc = "lock"])
  /\ UNCHANGED <<log, session, cache, effects>>
  /\ Rest

\* The event appended by r, if one was, is an effect of its envelope.
RecordEffect(r) ==
  effects' = IF log' = log THEN effects
             ELSE [effects EXCEPT ![req[r].id] = @ \cup {Len(log')}]

(***************************************************************************)
(* POST /rfqs/:id/accept.                                                  *)
(***************************************************************************)
BuildQuote(s, i) ==
  [quote_id |-> s.quoteRevision + 1, buyer |-> s.rfq.buyer, seller |-> s.offers[i].seller,
   final_price |-> s.offers[i].price, payment_endpoint |-> s.offers[i].payment_endpoint,
   expires_at |-> IF s.rfq.deadline < now + SettlementWindow THEN s.rfq.deadline
                  ELSE now + SettlementWindow]

\* Faulty variant: the revision is not compared.
AnyRevision(s, env) == TRUE

\* The compare-and-swap on session_revision.
RevisionIsCurrent(s, env) == env.revision = s.lastEventId

AcceptAllowed(s, env, i) ==
  /\ BeforeDeadline(s)
  /\ s.state = "NEGOTIATING"
  /\ IsFound(s, env.offer_id, i)
  /\ s.offers[i].seller = env.seller
  /\ RevisionIsCurrent(s, env)
  /\ now < s.offers[i].valid_until
  /\ s.totalAcceptAttempts < MaxAcceptsPerSession
  /\ s.acceptAttemptsBySeller[env.seller] < MaxAcceptsPerSeller

AcceptSection(r) ==
  LET s == GetSession
      env == envelopes[req[r].id]
  IN /\ InSection(r, "accept")
     /\ \/ \E i \in DOMAIN s.offers :
             /\ AcceptAllowed(s, env, i)
             /\ AppendEvent("WINNER_SELECTED", s.rfq.buyer,
                  [seller |-> env.seller, offer_id |-> env.offer_id,
                   quote |-> BuildQuote(s, i), timestamp |-> now])
        \/ /\ \A i \in DOMAIN s.offers : ~AcceptAllowed(s, env, i)
           /\ NoAppend
     /\ RecordEffect(r)
     /\ LeaveLock(r)
     /\ UNCHANGED tombstones
     /\ Rest

(***************************************************************************)
(* PUT /rfqs/:id/decline.                                                  *)
(***************************************************************************)
DeclineAllowed(s, q) ==
  /\ BeforeDeadline(s)
  /\ s.state = "COMMIT_PENDING"
  /\ s.selectedSeller = q.preSeller
  /\ RevisionIsCurrent(s, envelopes[q.id])

DeclineSection(r) ==
  LET s == GetSession
  IN /\ InSection(r, "decline")
     /\ \/ /\ DeclineAllowed(s, req[r])
           /\ AppendEvent("COSIGN_DECLINED", s.selectedSeller, [seller |-> s.selectedSeller])
        \/ /\ ~DeclineAllowed(s, req[r])
           /\ NoAppend
     /\ RecordEffect(r)
     /\ LeaveLock(r)
     /\ UNCHANGED tombstones
     /\ Rest

(***************************************************************************)
(* PUT /rfqs/:id/quote/sign and PUT /rfqs/:id/cosign.  They go for the     *)
(* lock at once; inside it they check, await the signature check on the    *)
(* session they were given, and append.                                    *)
(***************************************************************************)
SignatureArrives(r, op, sig) ==
  /\ Arrives(r)
  /\ GetSession # None
  /\ op = "cosign" => GetSession.selectedSeller # None
  /\ CacheFill
  /\ EnterLock(r, [op |-> op, pc |-> "lock", sig |-> sig, snapshot |-> None])
  /\ UNCHANGED <<log, session, tombstones, effects>>
  /\ Rest

\* Faulty variant: the seller need not wait for the buyer's signature.
SignatureInAnyOrder(s, op) ==
  /\ BeforeDeadline(s)
  /\ s.state = "COMMIT_PENDING"
  /\ s.unsignedQuote # None

SignatureAllowed(s, op) ==
  /\ BeforeDeadline(s)
  /\ s.unsignedQuote # None => now < s.unsignedQuote.expires_at
  /\ s.state = "COMMIT_PENDING"
  /\ s.unsignedQuote # None
  /\ (s.buyerSignature = None) = (op = "sign")

SignatureSection(r) ==
  LET s == GetSession
  IN /\ \E op \in {"sign", "cosign"} : InSection(r, op)
     /\ NoAppend
     /\ \/ /\ SignatureAllowed(s, req[r].op)
           /\ req' = [req EXCEPT ![r].pc = "signing", ![r].snapshot = s]
           /\ UNCHANGED lockVars
        \/ /\ ~SignatureAllowed(s, req[r].op)
           /\ LeaveLock(r)
     /\ UNCHANGED <<tombstones, effects>>
     /\ Rest

\* verifyQuoteSignature came back; the event is built from the snapshot.
SignatureVerified(r) ==
  LET s == req[r].snapshot
      signer == IF req[r].op = "sign" THEN s.rfq.buyer ELSE s.selectedSeller
      valid == req[r].sig = [by |-> signer, over |-> s.unsignedQuote]
  IN /\ req[r].pc = "signing"
     /\ \/ /\ valid /\ req[r].op = "sign"
           /\ AppendEvent("QUOTE_SIGNED", s.rfq.buyer,
                [seller |-> s.selectedSeller, buyer_signature |-> req[r].sig])
        \/ /\ valid /\ req[r].op = "cosign"
           /\ AppendEvent("QUOTE_COMMITTED", s.selectedSeller,
                [seller |-> s.selectedSeller, seller_signature |-> req[r].sig])
        \/ /\ ~valid
           /\ UNCHANGED <<log, session, cache>>
     /\ LeaveLock(r)
     /\ UNCHANGED <<tombstones, effects>>
     /\ Rest

(***************************************************************************)
(* POST /rfqs/:id/settle-report and POST /execute: a payment is verified   *)
(* on chain, then one confirmation is recorded.  settle-report looks at    *)
(* the session before that await, execute after it.                        *)
(***************************************************************************)
Settleable(s, quoteId) ==
  s # None /\ s.state = "COMMITTED" /\ s.unsignedQuote.quote_id = quoteId

SettleArrives(r, quoteId) ==
  /\ Arrives(r)
  /\ Settleable(GetSession, quoteId)
  /\ CacheFill
  /\ req' = [req EXCEPT ![r] = [op |-> "settle", pc |-> "verify", quote_id |-> quoteId]]
  /\ UNCHANGED <<log, session, lockVars, tombstones, effects>>
  /\ Rest

ExecuteArrives(r, quoteId) ==
  /\ Arrives(r)
  /\ req' = [req EXCEPT ![r] = [op |-> "execute", pc |-> "verify", quote_id |-> quoteId]]
  /\ UNCHANGED <<log, session, cache, lockVars, tombstones, effects>>
  /\ Rest

ExecuteVerified(r) ==
  /\ req[r].op = "execute" /\ req[r].pc = "verify"
  /\ CacheFill
  /\ \/ /\ Settleable(GetSession, req[r].quote_id)
        /\ EnterLock(r, [req[r] EXCEPT !.op = "settle", !.pc = "lock"])
     \/ /\ ~Settleable(GetSession, req[r].quote_id)
        /\ req' = [req EXCEPT ![r] = Idle]
        /\ UNCHANGED lockVars
  /\ UNCHANGED <<log, session, tombstones, effects>>
  /\ Rest

\* Faulty variant: an earlier confirmation is not looked for.
NeverSettled == FALSE

Settled == \E i \in DOMAIN log : log[i].type = "SETTLEMENT_CONFIRMED"

SettleSection(r) ==
  /\ InSection(r, "settle")
  /\ \/ /\ ~Settled
        /\ AppendEvent("SETTLEMENT_CONFIRMED", Engine,
             [quote_id |-> req[r].quote_id])
     \/ /\ Settled
        /\ NoAppend
  /\ LeaveLock(r)
  /\ UNCHANGED <<tombstones, effects>>
  /\ Rest

(***************************************************************************)
(* GET /rfqs/:id/quote authenticates its caller, whether or not there is a *)
(* session, and reads inside the lock.                                     *)
(***************************************************************************)
QuoteReadArrives(r) ==
  /\ Arrives(r)
  /\ req' = [req EXCEPT ![r] = [op |-> "read", pc |-> "verify"]]
  /\ UNCHANGED <<log, session, cache, lockVars, tombstones, effects>>
  /\ Rest

QuoteReadSection(r) ==
  /\ InSection(r, "read")
  /\ NoAppend
  /\ LeaveLock(r)
  /\ UNCHANGED <<tombstones, effects>>
  /\ Rest

\* A queued request gives up after lockTimeoutMs: 503.
RequestTimeout(r) ==
  /\ Lock!WaitTimeout(r)
  /\ req' = [req EXCEPT ![r] = Idle]
  /\ UNCHANGED <<log, session, cache, tombstones, effects>>
  /\ Rest

-----------------------------------------------------------------------------
(***************************************************************************)
(* The deadline enforcer: a scan reads the session without the lock and    *)
(* goes for the lock when there is something to do; inside, it re-checks.  *)
(***************************************************************************)
EnforcerRest == UNCHANGED <<listings, req, envelopes, tombstones, effects, now, crashes>>

\* closeAll and removeLock of a terminal session; removeLock drops the cache with the lock.
ScanTerminal ==
  /\ enforcing = "nothing"
  /\ ~cleanedUp
  /\ GetSession # None
  /\ GetSession.state \in TerminalStates
  /\ \/ /\ Lock!Removable
        /\ cleanedUp' = TRUE
        /\ \/ exists /\ Lock!RemoveLock /\ cache' = None
           \/ ~exists /\ UNCHANGED lockVars /\ CacheFill
     \/ /\ ~Lock!Removable
        /\ CacheFill
        /\ UNCHANGED <<lockVars, cleanedUp>>
  /\ UNCHANGED <<log, session, enforcing>>
  /\ EnforcerRest

\* Faulty variant: the window of an earlier accept attempt counts as well.
CosignElapsedOfAny(s) ==
  \E i \in DOMAIN log :
    log[i].type = "WINNER_SELECTED" /\ now - log[i].payload.timestamp >= CosignTimeoutMs

\* The cosign window of the current accept attempt is over.
CosignElapsed(s) == s.commitPendingAt # None /\ now - s.commitPendingAt >= CosignTimeoutMs

\* What a scan finds overdue in a live session; the deadline is looked at first.
Overdue(s) ==
  CASE now >= s.rfq.deadline -> "expire"
    [] now < s.rfq.deadline /\ s.state = "COMMIT_PENDING" /\ CosignElapsed(s) -> "cosign"
    [] OTHER -> "nothing"

ScanLive ==
  /\ enforcing = "nothing"
  /\ GetSession # None
  /\ GetSession.state \notin TerminalStates
  /\ Overdue(GetSession) # "nothing"
  /\ CacheFill
  /\ \/ /\ Lock!RunRefused(Enforcer)
        /\ UNCHANGED enforcing
     \/ /\ Lock!RunAtOnce(Enforcer) \/ Lock!RunQueued(Enforcer)
        /\ enforcing' = Overdue(GetSession)
  /\ UNCHANGED <<log, session, cleanedUp>>
  /\ EnforcerRest

\* Faulty variant: a session without offers is not expired.
ExpireOnlyWithOffers(s) == s.state \in {"NEGOTIATING", "COMMIT_PENDING"} /\ now >= s.rfq.deadline

ExpireAllowed(s) == s.state \notin TerminalStates /\ now >= s.rfq.deadline

TryExpire ==
  /\ enforcing = "expire" /\ place[Enforcer] = "in"
  /\ \/ /\ ExpireAllowed(GetSession)
        /\ AppendEvent("NEGOTIATION_EXPIRED", Engine, [none |-> None])
     \/ ~ExpireAllowed(GetSession) /\ NoAppend
  /\ Lock!Release(Enforcer)
  /\ enforcing' = "nothing"
  /\ UNCHANGED cleanedUp
  /\ EnforcerRest

\* Faulty variant: an attempt the buyer has signed is never timed out.
CosignTimeoutUnsigned(s) ==
  /\ s.state = "COMMIT_PENDING"
  /\ CosignElapsed(s)
  /\ s.buyerSignature = None

CosignTimeoutAllowed(s) ==
  /\ s.state = "COMMIT_PENDING"
  /\ CosignElapsed(s)
  /\ s.selectedSeller # None

TryCosignTimeout ==
  /\ enforcing = "cosign" /\ place[Enforcer] = "in"
  /\ \/ /\ CosignTimeoutAllowed(GetSession)
        /\ AppendEvent("COSIGN_TIMEOUT", Engine, [seller |-> GetSession.selectedSeller])
     \/ ~CosignTimeoutAllowed(GetSession) /\ NoAppend
  /\ Lock!Release(Enforcer)
  /\ enforcing' = "nothing"
  /\ UNCHANGED cleanedUp
  /\ EnforcerRest

\* SessionBusyError is swallowed; the next scan tries again.
EnforcerTimeout ==
  /\ Lock!WaitTimeout(Enforcer)
  /\ enforcing' = "nothing"
  /\ UNCHANGED <<log, session, cache, cleanedUp>>
  /\ EnforcerRest

\* evictStaleCache at the end of a scan; the entry's age is not tracked.
EvictStaleCache ==
  /\ cache # None
  /\ cache' = None
  /\ UNCHANGED <<log, session, listings, lockVars, req, enforcing, cleanedUp,
                 envelopes, tombstones, effects, now, crashes>>

-----------------------------------------------------------------------------
(***************************************************************************)
(* The environment: clients sign envelopes for the revision they see,      *)
(* listings are added, time passes, the process crashes.                   *)
(***************************************************************************)
SignEnvelope(id, env) ==
  /\ envelopes[id] = None
  /\ Len(log) < MaxEvents
  /\ envelopes' = [envelopes EXCEPT ![id] = env]
  /\ UNCHANGED <<log, session, listings, cache, lockVars, req, enforcing, cleanedUp,
                 tombstones, effects, now, crashes>>

SignAccept(id) ==
  /\ session # None
  /\ session.state = "NEGOTIATING"
  /\ \E i \in DOMAIN session.offers :
       SignEnvelope(id, [action |-> "accept", signer |-> Buyer,
                         revision |-> session.lastEventId, seller |-> session.offers[i].seller,
                         offer_id |-> session.offers[i].offer_id])

SignDecline(id) ==
  /\ session # None
  /\ session.state = "COMMIT_PENDING"
  /\ SignEnvelope(id, [action |-> "decline", signer |-> session.selectedSeller,
                       revision |-> session.lastEventId, seller |-> session.selectedSeller,
                       offer_id |-> session.selectedOfferId])

RegisterListing(seller, endpoint) ==
  /\ <<seller, endpoint>> \notin listings
  /\ listings' = listings \cup {<<seller, endpoint>>}
  /\ UNCHANGED <<log, session, cache, lockVars, req, enforcing, cleanedUp,
                 envelopes, tombstones, effects, now, crashes>>

Tick ==
  /\ now < MaxTime
  /\ now' = now + 1
  /\ UNCHANGED <<log, session, listings, cache, lockVars, req, enforcing, cleanedUp,
                 envelopes, tombstones, effects, crashes>>

\* Restart: the log and the listings are on disk, all else is in memory.
Crash ==
  /\ crashes < MaxCrashes
  /\ crashes' = crashes + 1
  /\ cache' = None
  /\ exists' = FALSE
  /\ running' = FALSE
  /\ waiters' = <<>>
  /\ place' = [c \in Clients |-> "out"]
  /\ req' = [r \in Requests |-> Idle]
  /\ enforcing' = "nothing"
  /\ cleanedUp' = FALSE
  /\ tombstones' = {}
  /\ UNCHANGED <<log, session, listings, envelopes, effects, now>>

\* Quotes that have been issued, each of which a client may still hold.
IssuedQuotes == {log[i].payload.quote : i \in {j \in DOMAIN log : log[j].type = "WINNER_SELECTED"}}

RequestStep(r) ==
  \/ RfqVerified(r)
  \/ MessageVerified(r)
  \/ EnvelopeVerified(r)
  \/ ExecuteVerified(r)
  \/ RfqSection(r)
  \/ OfferSection(r)
  \/ CounterSection(r)
  \/ AcceptSection(r)
  \/ DeclineSection(r)
  \/ SignatureSection(r)
  \/ SignatureVerified(r)
  \/ SettleSection(r)
  \/ QuoteReadSection(r)

RequestArrives(r) ==
  \/ \E deadline \in Deadlines : RfqArrives(r, deadline)
  \/ \E id \in OfferIds, x \in Sellers, u \in Endpoints, p \in Prices, v \in ValidUntils :
       OfferArrives(r, id, x, u, p, v)
  \/ \E id \in CounterIds, n \in Rounds, x \in Sellers : CounterArrives(r, id, n, x)
  \/ \E id \in EnvelopeIds : EnvelopeArrives(r, id)
  \/ \E by \in Dids, q \in IssuedQuotes, op \in {"sign", "cosign"} :
       SignatureArrives(r, op, [by |-> by, over |-> q])
  \/ \E q \in IssuedQuotes : SettleArrives(r, q.quote_id) \/ ExecuteArrives(r, q.quote_id)
  \/ QuoteReadArrives(r)

EnforcerStep == ScanTerminal \/ ScanLive \/ TryExpire \/ TryCosignTimeout

Next ==
  \/ \E r \in Requests : RequestArrives(r) \/ RequestStep(r) \/ VerificationFails(r)
                         \/ RequestTimeout(r)
  \/ EnforcerStep
  \/ EnforcerTimeout
  \/ EvictStaleCache
  \/ \E id \in EnvelopeIds : SignAccept(id) \/ SignDecline(id)
  \/ \E x \in Sellers, u \in Endpoints : RegisterListing(x, u)
  \/ Tick
  \/ Crash

Spec == Init /\ [][Next]_vars

(***************************************************************************)
(* Time passes, a request that has been taken up goes on (its awaits are   *)
(* local signature checks and one RPC call with a result or an error), and *)
(* the enforcer's timer keeps firing (scheduleNext runs whatever a scan    *)
(* throws).  The scans no longer look at a session that was cleaned up: if *)
(* no client does either, its cache entry gets old and is evicted.         *)
(* Clients owe nothing: no arrival is assumed.                             *)
(***************************************************************************)
FairSpec ==
  /\ Spec
  /\ WF_vars(Tick)
  /\ \A r \in Requests : WF_vars(RequestStep(r))
  /\ WF_vars(EnforcerStep)
  /\ WF_vars(cleanedUp /\ EvictStaleCache)

-----------------------------------------------------------------------------
(***************************************************************************)
(* Properties.                                                             *)
(***************************************************************************)
CacheEntry == [eventCount : Nat, session : DerivedSession]

\* What a request carries from its arrival to its answer, by operation.
ReadRequest == [op : {"read"}, pc : {"verify", "lock"}]

RfqRequest == [op : {"rfq"}, pc : {"verify", "lock"}, deadline : Deadlines]

OfferRequest ==
  [op : {"offer"}, pc : {"verify", "lock"}, offer_id : OfferIds, seller : Sellers,
   listing : Endpoints, price : Prices, valid_until : ValidUntils]

CounterRequest ==
  [op : {"counter"}, pc : {"verify", "lock"}, counter_id : CounterIds, round : Rounds,
   from : {Buyer}, to : Sellers]

EnvelopeRequest ==
  [op : {"accept", "decline"}, pc : {"verify", "lock"}, id : EnvelopeIds,
   preSeller : Sellers \cup {None}]

SignatureRequest ==
  [op : {"sign", "cosign"}, pc : {"lock", "signing"}, sig : Signature,
   snapshot : DerivedSession \cup {None}]

PaymentRequest == [op : {"execute", "settle"}, pc : {"verify", "lock"}, quote_id : Nat]

OpenRequests ==
  ReadRequest \cup RfqRequest \cup OfferRequest \cup CounterRequest \cup EnvelopeRequest
    \cup SignatureRequest \cup PaymentRequest

\* Types of the engine's state.
TypeOK ==
  /\ log \in Seq(Event)
  /\ session \in DerivedSession \cup {None}
  /\ listings \subseteq Sellers \X Endpoints
  /\ cache \in CacheEntry \cup {None}
  /\ cache # None => cache.eventCount \in 1..Len(log)
  /\ Lock!LockTypeOK
  /\ req \in [Requests -> OpenRequests \cup {Idle}]
  /\ enforcing \in {"nothing", "expire", "cosign"}
  /\ cleanedUp \in BOOLEAN
  /\ envelopes \in [EnvelopeIds -> Envelope \cup {None}]
  /\ tombstones \subseteq EnvelopeIds
  /\ effects \in [EnvelopeIds -> SUBSET (1..Len(log))]
  /\ now \in 0..MaxTime
  /\ crashes \in 0..MaxCrashes

\* The times that occur in an execution within the bounds.
Horizon == 0..(MaxTime + SettlementWindow) \cup Deadlines

Promise == INSTANCE Negotiation WITH Times <- Horizon \cup ValidUntils

\* Requests in flight, queues, timeouts, the cache and restarts are
\* invisible: the engine behaves as if every route and every enforcer
\* action were one atomic step on the current session.
ImplementsNegotiation == Promise!Spec

\* The lock stays sound as the routes, the enforcer's removal of it and
\* restarts use it: one callback at a time, no lost wake-up.
LockIsSound == Lock!MutualExclusion /\ Lock!QueueIsServed /\ Lock!RunningIsHeld

\* While quote-sign or cosign awaits the signature check inside the lock,
\* the session it decided on is still the current one, and the event it is
\* about to append will pass the dry run (no stale read across the await).
SnapshotStaysCurrent ==
  \A r \in Requests : req[r].pc = "signing" =>
     /\ place[r] = "in"
     /\ req[r].snapshot = session
     /\ session.state = "COMMIT_PENDING"

\* What getSession returns, cached or not, is the replay of the stored log.
CacheIsReplay == GetSession = DeriveState(log)

\* A control envelope acts at most once, and only as the event right after
\* the revision it was signed for: duplicates that pass the tombstone check
\* together, and replays after a restart has lost the tombstones, are
\* stopped by the session_revision check inside the lock.
EnvelopeActsOnce ==
  \A id \in EnvelopeIds :
     effects[id] # {} => effects[id] = {envelopes[id].revision + 1}

Appended(types) == Len(log') > Len(log) /\ log'[Len(log')].type \in types

\* The enforcer never cuts the cosign window of an accept attempt short, however
\* many attempts were declined or timed out before and whatever its scan saw
\* before it waited for the lock: every accept in the log that no rollback
\* follows is at least one window old when COSIGN_TIMEOUT is appended.
CosignWindowIsFull ==
  [][Appended({"COSIGN_TIMEOUT"}) =>
       \A i \in DOMAIN log :
          \/ log[i].type # "WINNER_SELECTED"
          \/ \E j \in (i + 1)..Len(log) : log[j].type \in {"COSIGN_DECLINED", "COSIGN_TIMEOUT"}
          \/ now >= log[i].payload.timestamp + CosignTimeoutMs]_vars

\* A request that waited for a signature check and for the lock is judged by
\* the clock it finds inside: nothing is offered, countered, accepted or
\* declined at or after the deadline, no expired offer is accepted, and only
\* an overdue session expires.
DeadlineInsideLock ==
  [][/\ Appended({"OFFER_SUBMITTED", "COUNTER_SENT", "WINNER_SELECTED", "COSIGN_DECLINED"})
          => now < session.rfq.deadline
     /\ Appended({"NEGOTIATION_EXPIRED"}) => now >= session.rfq.deadline
     /\ Appended({"WINNER_SELECTED"}) =>
          /\ session'.unsignedQuote.expires_at > now
          /\ \E i \in DOMAIN session.offers :
               /\ session.offers[i].offer_id = session'.selectedOfferId
               /\ session.offers[i].valid_until > now]_vars

\* When the requests in flight run dry, for good, ...
Quiet == <>[](\A r \in Requests : req[r].pc = "idle")

\* ... a session whose deadline the clock reaches always gets to a terminal
\* state: the enforcer gets the lock and expires it.  (With clients that keep
\* the queue full for ever, every scan may be refused: it has no priority.)
SessionsEnd ==
  Quiet => ((session # None /\ session.rfq.deadline <= MaxTime)
              ~> (session # None /\ session.state \in TerminalStates))

\* ... and an accept attempt that nobody cosigns or declines is rolled back,
\* also after a restart, from the timestamp in the log.
AbandonedCommitmentEnds ==
  LET pending == session # None /\ session.state = "COMMIT_PENDING"
  IN Quiet => (pending ~> ~pending)

\* ... and a terminal session is cleaned up, although removeLock refuses as long
\* as a request holds the lock or waits for it: there is a scan after which the
\* session is in cleanedUpSessions and has no lock object.  No session that has
\* ended stays in the cache.  (A request that comes after the clean-up makes the
\* lock object anew, and that one stays: the scans skip the session from then on.)
TerminalSessionIsCleanedUp ==
  LET terminal == session # None /\ session.state \in TerminalStates
  IN Quiet => /\ (terminal /\ ~cleanedUp) ~> (cleanedUp /\ ~exists)
              /\ <>[](terminal => cache = None)

\* One confirmation per session, however many execute and settle-report
\* requests verify the payment at the same time.
SettledOnce ==
  Cardinality({i \in DOMAIN log : log[i].type = "SETTLEMENT_CONFIRMED"}) <= 1

\* engine-plan.md: the deadline check of quote-sign and cosign closes the
\* window in which a commitment completes after the deadline.
NoCommitmentAfterDeadline ==
  [][Appended({"QUOTE_SIGNED", "QUOTE_COMMITTED"}) => now < session.rfq.deadline]_vars

(***************************************************************************)
(* The inductive strengthening.  A request that has not gone for the lock  *)
(* is outside of it, one that has is queued or in, and only one that is in *)
(* can be signing; likewise for the enforcer.                              *)
(***************************************************************************)
RequestsAtTheLock ==
  /\ \A r \in Requests :
       /\ place[r] = "out" <=> req[r].pc \in {"idle", "verify"}
       /\ req[r].pc = "signing" => place[r] = "in"
  /\ place[Enforcer] = "out" <=> enforcing = "nothing"
  /\ enforcing # "nothing" => session # None

\* What a request was let through for still holds when it gets to append.
RequestsStayValid ==
  \A r \in Requests :
    /\ req[r].op \in {"accept", "decline"} => envelopes[req[r].id] # None
    /\ req[r].op \in {"sign", "cosign"} => session # None
    /\ req[r].op = "settle" => Settleable(session, req[r].quote_id)
    /\ req[r].pc = "signing" =>
         session.unsignedQuote # None /\ (session.buyerSignature = None) = (req[r].op = "sign")

\* The session is numbered by the last event of its log.
SessionIsLatest ==
  /\ session = None <=> log = <<>>
  /\ session # None => session.lastEventId = Len(log)

CacheIsFresh == (cache # None /\ cache.eventCount = Len(log)) => cache.session = session

EffectsHaveEnvelopes == \A id \in EnvelopeIds : effects[id] # {} => envelopes[id] # None

\* An accept that no rollback follows is the one the session holds the time of.
OpenAttempt(l, i) ==
  /\ l[i].type = "WINNER_SELECTED"
  /\ \A j \in (i + 1)..Len(l) : l[j].type \notin {"COSIGN_DECLINED", "COSIGN_TIMEOUT"}

OpenAttemptIsCurrent ==
  \A i \in DOMAIN log : OpenAttempt(log, i) =>
     /\ session # None
     /\ session.state \notin {"OPEN", "NEGOTIATING"}
     /\ session.commitPendingAt = log[i].payload.timestamp

\* An accept in the log carries the quote it issued.
AcceptsCarryQuotes ==
  \A i \in DOMAIN log : log[i].type = "WINNER_SELECTED" => log[i].payload \in WinnerPayload

SettledAtMostOnce ==
  \A i, j \in DOMAIN log :
     log[i].type = "SETTLEMENT_CONFIRMED" /\ log[j].type = "SETTLEMENT_CONFIRMED" => i = j

EngineInv ==
  /\ TypeOK
  /\ LockIsSound
  /\ Promise!IntegrityInv
  /\ session = DeriveState(log)
  /\ CacheIsFresh
  /\ SessionIsLatest
  /\ RequestsAtTheLock
  /\ RequestsStayValid
  /\ SnapshotStaysCurrent
  /\ EffectsHaveEnvelopes
  /\ EnvelopeActsOnce
  /\ AcceptsCarryQuotes
  /\ OpenAttemptIsCurrent
  /\ SettledAtMostOnce

=============================================================================

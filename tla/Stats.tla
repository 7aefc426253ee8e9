------------------------------- MODULE Stats -------------------------------
(***************************************************************************)
(* StatsCollector: the dashboard's counters.  A process start replays the  *)
(* stored logs with its own small state machine; afterwards every append   *)
(* calls onEvent with the session deriveState returns.  The event rates    *)
(* are a ring of minute buckets and two counters that start again every    *)
(* hour; both are brought up to date only when an event or a reader comes. *)
(*                                                                         *)
(* The fields of a ledger entry that nothing reads (offer and counter      *)
(* counts, seller DIDs) and the rounding of the averages are left out.     *)
(***************************************************************************)
EXTENDS EngineLogs

CONSTANTS
  Minute,         \* MINUTE_MS
  Buckets,        \* MINUTE_BUCKETS
  Hour            \* HOUR_MS

ASSUME StatsAssumption == {Minute, Buckets, Hour} \subseteq Nat \ {0}

VARIABLES
  ledger,     \* sessionLedger: state and creation time of the sessions known
  totals,     \* byState and the all-time counters
  ring,       \* minuteBuckets, currentBucketIdx, lastBucketRotation
  hour,       \* newSessionsLastHour, dealsLastHour, lastHourlyReset
  touched,    \* when the rates were last brought up to date
  behind,     \* when the ring was last left behind the clock by that, or -1
  boot        \* how much of each log the running process found at its start

statsVars == <<ledger, totals, ring, hour, touched, behind, boot>>

EmptyTotals ==
  [byState |-> [s \in States |-> 0], buyers |-> {}, sellers |-> {},
   offers |-> 0, counters |-> 0, deals |-> 0, terminal |-> 0, duration |-> 0]

EmptyLedger == [r \in RfqIds |-> None]
EmptyRing(t) == [count |-> [i \in 0..(Buckets - 1) |-> 0], idx |-> 0, anchor |-> t]
EmptyHour(t) == [sessions |-> 0, deals |-> 0, since |-> t]

StatsInit ==
  /\ ledger = EmptyLedger
  /\ totals = EmptyTotals
  /\ ring = EmptyRing(0)
  /\ hour = EmptyHour(0)
  /\ touched = 0
  /\ behind = -1
  /\ boot = [r \in RfqIds |-> 0]

(***************************************************************************)
(* What an event does to the counters.                                     *)
(***************************************************************************)
\* processEventType
ProcessEventType(t, e) ==
  CASE e.type = "OFFER_SUBMITTED" ->
         [t EXCEPT !.offers = @ + 1, !.sellers = @ \cup {e.seller}]
    [] e.type = "COUNTER_SENT" -> [t EXCEPT !.counters = @ + 1]
    [] OTHER -> t

NewInState(t, r, state) ==
  [t EXCEPT !.byState[state] = @ + 1, !.buyers = @ \cup {BuyerOf[r]}]

\* Faulty variant: the old state is not decremented.
MovedDrifting(t, entry, state, at) ==
  IF state = entry.state THEN t
  ELSE [t EXCEPT !.byState[state] = @ + 1,
                 !.terminal = IF state \in TerminalStates THEN @ + 1 ELSE @,
                 !.deals = IF state = "COMMITTED" THEN @ + 1 ELSE @,
                 !.duration = IF state \in TerminalStates THEN @ + (at - entry.createdAt) ELSE @]

\* A session leaves the state of its ledger entry for another one.
Moved(t, entry, state, at) ==
  IF state = entry.state THEN t
  ELSE [t EXCEPT !.byState[entry.state] = IF @ > 0 THEN @ - 1 ELSE 0,
                 !.byState[state] = @ + 1,
                 !.terminal = IF state \in TerminalStates THEN @ + 1 ELSE @,
                 !.deals = IF state = "COMMITTED" THEN @ + 1 ELSE @,
                 !.duration = IF state \in TerminalStates THEN @ + (at - entry.createdAt) ELSE @]

\* deriveNextState: the state machine of the replay; the current state where
\* the code returns null.
DeriveNextState(current, type) ==
  CASE type = "OFFER_SUBMITTED" -> IF current = "OPEN" THEN "NEGOTIATING" ELSE current
    [] type = "WINNER_SELECTED" -> "COMMIT_PENDING"
    [] type = "QUOTE_COMMITTED" -> "COMMITTED"
    [] type = "NEGOTIATION_EXPIRED" -> "EXPIRED"
    [] type = "NEGOTIATION_CANCELLED" -> "CANCELLED"
    [] type \in {"COSIGN_DECLINED", "COSIGN_TIMEOUT"} ->
         IF current = "COMMIT_PENDING" THEN "NEGOTIATING" ELSE current
    [] OTHER -> current

\* processRawEvent on the pair of counters and ledger entry.
ProcessRawEvent(acc, r, e) ==
  IF e.type = "RFQ_CREATED"
  THEN [totals |-> ProcessEventType(NewInState(acc.totals, r, "OPEN"), e),
        entry |-> [state |-> "OPEN", createdAt |-> e.at]]
  ELSE IF acc.entry = None THEN acc
  ELSE LET state == DeriveNextState(acc.entry.state, e.type)
       IN [totals |-> ProcessEventType(Moved(acc.totals, acc.entry, state, e.at), e),
           entry |-> [acc.entry EXCEPT !.state = state]]

\* The constructor's loop over the log of one session.
ReplayLog(t, r) ==
  FoldLeft(LAMBDA acc, e : ProcessRawEvent(acc, r, e), [totals |-> t, entry |-> None], log[r])

\* The constructor: the sessions in the order of listSessionIds, which the sums
\* do not depend on.
ReplayTotals ==
  FoldSet(LAMBDA r, t : ReplayLog(t, r).totals, EmptyTotals, RfqIds)

ReplayLedger == [r \in RfqIds |-> ReplayLog(EmptyTotals, r).entry]

(***************************************************************************)
(* The rates.                                                              *)
(***************************************************************************)
\* Faulty variant: the bucket the ring turns to keeps its old count.
RotateKeeps(t) ==
  LET rotations == Min({(t - ring.anchor) \div Minute, Buckets})
  IN [ring EXCEPT !.idx = (@ + rotations) % Buckets, !.anchor = @ + rotations * Minute]

\* rotateMinuteBucket
RotateMinuteBucket(t) ==
  LET rotations == Min({(t - ring.anchor) \div Minute, Buckets})
      cleared == {(ring.idx + i) % Buckets : i \in 1..rotations}
  IN [count |-> [i \in 0..(Buckets - 1) |-> IF i \in cleared THEN 0 ELSE ring.count[i]],
      idx |-> (ring.idx + rotations) % Buckets,
      anchor |-> ring.anchor + rotations * Minute]

\* Faulty variant: the next hour starts after the call that ends this one.
RotateHourlyLate(t) ==
  IF t - hour.since < Hour THEN hour ELSE EmptyHour(t + 1)

\* Faulty variant: one of the two counters is not reset.
RotateHourlyKeepsDeals(t) ==
  LET elapsed == t - hour.since
  IN IF elapsed < Hour THEN hour
     ELSE [hour EXCEPT !.sessions = 0, !.since = @ + (elapsed \div Hour) * Hour]

\* rotateHourly
RotateHourly(t) ==
  LET elapsed == t - hour.since
  IN IF elapsed < Hour THEN hour ELSE EmptyHour(hour.since + (elapsed \div Hour) * Hour)

\* History: the rates are brought up to date, but one call turns the ring by its
\* own length at most.
Touch ==
  /\ touched' = now
  /\ behind' = IF now - RotateMinuteBucket(now).anchor >= Minute THEN now ELSE behind

\* getActivity's answer: the buckets from newest to oldest and where they end.
Activity ==
  LET r == RotateMinuteBucket(now)
      h == RotateHourly(now)
  IN [events_per_minute |-> [i \in 0..(Buckets - 1) |-> r.count[(r.idx - i + Buckets) % Buckets]],
      new_sessions_last_hour |-> h.sessions, deals_last_hour |-> h.deals,
      bucket_anchor |-> r.anchor, since |-> h.since]

\* getStats' answer.
CurrentStats ==
  [active_sessions |-> totals.byState["OPEN"] + totals.byState["NEGOTIATING"]
                       + totals.byState["COMMIT_PENDING"],
   completed_deals |-> totals.deals,
   total_sessions |-> Cardinality({r \in RfqIds : ledger[r] # None}),
   unique_buyers |-> Cardinality(totals.buyers),
   unique_sellers |-> Cardinality(totals.sellers),
   by_state |-> totals.byState,
   total_offers |-> totals.offers, total_counters |-> totals.counters,
   terminal |-> totals.terminal, duration |-> totals.duration]

(***************************************************************************)
(* The observer of appendEvent, a reader of the activity and a start.      *)
(***************************************************************************)
\* onEvent after the rotations: counters, ledger and rates for event e of r.
OnEvent(r, e, state) ==
  LET prev == ledger[r]
      isNew == prev = None
      isDeal == ~isNew /\ prev.state # state /\ state = "COMMITTED"
      turned == RotateMinuteBucket(now)
  IN /\ totals' = ProcessEventType(IF isNew THEN NewInState(totals, r, state)
                                   ELSE Moved(totals, prev, state, e.at), e)
     /\ ledger' = [ledger EXCEPT ![r] = IF isNew THEN [state |-> state, createdAt |-> e.at]
                                         ELSE [prev EXCEPT !.state = state]]
     /\ ring' = [turned EXCEPT !.count[turned.idx] = @ + 1]
     /\ hour' = [RotateHourly(now) EXCEPT !.sessions = IF isNew THEN @ + 1 ELSE @,
                                          !.deals = IF isDeal THEN @ + 1 ELSE @]
     /\ Touch
     /\ UNCHANGED boot

GetActivity ==
  /\ ring' = RotateMinuteBucket(now)
  /\ hour' = RotateHourly(now)
  /\ Touch
  /\ UNCHANGED <<ledger, totals, boot>>

\* The constructor of a new process: everything is built again from the logs.
StatsRestart ==
  /\ totals' = ReplayTotals
  /\ ledger' = ReplayLedger
  /\ ring' = EmptyRing(now)
  /\ hour' = EmptyHour(now)
  /\ touched' = now
  /\ behind' = -1
  /\ boot' = [r \in RfqIds |-> Len(log[r])]

-----------------------------------------------------------------------------
(***************************************************************************)
(* Properties.                                                             *)
(***************************************************************************)
CountOf(type) == SumOf(LAMBDA r : Len(SelectSeq(log[r], LAMBDA e : e.type = type)))

InState(states) == {r \in RfqIds : log[r] # <<>> /\ StateOf(log[r]) \in states}

\* When a terminal session ended: its first event into a terminal state.
EndOf(r) ==
  log[r][SelectInSeq(log[r], LAMBDA e : e.type \in {"QUOTE_COMMITTED", "NEGOTIATION_EXPIRED"})].at

\* What the dashboard shows is what the logs say, however the process came to
\* know them: counted live by onEvent, replayed by the constructor's own state
\* machine, or first one and then the other (stats-collector.ts 106-162).
CountersMatchLog ==
  CurrentStats =
    [active_sessions |-> Cardinality(InState(States \ TerminalStates)),
     completed_deals |-> Cardinality(InState({"COMMITTED"})),
     total_sessions |-> Cardinality(InState(States)),
     unique_buyers |-> Cardinality({BuyerOf[r] : r \in InState(States)}),
     unique_sellers |-> Cardinality(UNION {{log[r][i].seller : i \in DOMAIN log[r]} \ {None} :
                                             r \in RfqIds}),
     by_state |-> [s \in States |-> Cardinality(InState({s}))],
     total_offers |-> CountOf("OFFER_SUBMITTED"), total_counters |-> CountOf("COUNTER_SENT"),
     terminal |-> Cardinality(InState(TerminalStates)),
     duration |-> SumOf(LAMBDA r : IF r \in InState(TerminalStates)
                                   THEN EndOf(r) - log[r][1].at ELSE 0)]

\* How many events with a property this process appended from a time on and
\* before another.
Appended(P(_), from, to) ==
  SumOf(LAMBDA r : Cardinality({i \in (boot[r] + 1)..Len(log[r]) :
                                  P(log[r][i]) /\ log[r][i].at >= from /\ log[r][i].at < to}))

\* The minute buckets a reader gets are the numbers of events of the last minutes,
\* of the running minute first, as far as the ring can tell (rotateMinuteBucket,
\* lines 289-300).  It turns by its own length at most, so that the first call after
\* a longer pause leaves it behind: an event counted by that call is taken for an
\* older one, or is cleared by the next call.  A ring that was never left behind is
\* up to date for every reader no later than its length after the last call; and
\* once one is up to date, again or still, each minute that began after it was last
\* left behind is counted exactly.
RecentMinutesAreCounted ==
  LET a == Activity
      from(i) == a.bucket_anchor - i * Minute
      upToDate == now - a.bucket_anchor < Minute
  IN /\ behind = -1 /\ now - touched <= Buckets * Minute => upToDate
     /\ upToDate => \A i \in 0..(Buckets - 1) :
          from(i) > behind =>
            a.events_per_minute[i] = Appended(LAMBDA e : TRUE, from(i), from(i) + Minute)

\* The hourly counters are those of the events since the current hour of the
\* process began, however long nobody looked (rotateHourly, lines 303-311).
HourlyCountersAreExact ==
  LET a == Activity
  IN /\ now - a.since < Hour
     /\ a.new_sessions_last_hour = Appended(LAMBDA e : e.type = "RFQ_CREATED", a.since, now + 1)
     /\ a.deals_last_hour = Appended(LAMBDA e : e.type = "QUOTE_COMMITTED", a.since, now + 1)

\* The counters are counts and the ring is a ring.
StatsTypeOK ==
  /\ \A r \in RfqIds : ledger[r] = None \/ ledger[r].state \in States
  /\ totals.byState \in [States -> Nat]
  /\ totals.deals <= totals.terminal
  /\ ring.idx \in 0..(Buckets - 1)
  /\ ring.count \in [0..(Buckets - 1) -> Nat]
  /\ ring.anchor <= now
  /\ hour.since <= now

=============================================================================

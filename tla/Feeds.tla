------------------------------- MODULE Feeds -------------------------------
(***************************************************************************)
(* The dashboard's feeds: the EventBroadcaster with its public and its     *)
(* per-session subscribers, the public SSE feed and its connection limit,  *)
(* the admin SSE stream of a session with its replay, and the list of      *)
(* recent events.  Three places compute the state a session had after an   *)
(* event: the broadcaster from deriveState, the admin replay and the       *)
(* recent list each with a walk of their own.                              *)
(*                                                                         *)
(* A route and append run without an await: subscribing, the replay and    *)
(* going live are one action, and the buffer of the admin route is always  *)
(* empty.  A stream is what was enqueued on it; a message names its event  *)
(* by session and position.  A client may be gone for a while before the   *)
(* server notices: enqueueing on its stream then fails.  A stream that has *)
(* been cleaned up for that reason is still to get its abort event.        *)
(***************************************************************************)
EXTENDS EngineLogs

CONSTANTS
  Conns,        \* connections the server may hold at a time
  MaxPublic,    \* MAX_PUBLIC_FEED
  MaxAdmin,     \* MAX_ADMIN_SSE
  Limit         \* the limit of a recent-events request

ASSUME FeedAssumption ==
  {MaxPublic, MaxAdmin, Limit} \subseteq Nat \ {0}

VARIABLES
  conn,         \* the connections: what the closures of the routes hold
  publicSubs,   \* EventBroadcaster.publicSubs
  adminSubs,    \* EventBroadcaster.adminSubs: a set per session
  publicCount,  \* publicFeedConnections
  adminCount,   \* adminSseConnections
  history       \* the messages of the public feed, whoever listened

feedsVars == <<conn, publicSubs, adminSubs, publicCount, adminCount, history>>

\* A connection: what it reads, whether its client is there, whether it is not yet
\* cleaned up (~cleanedUp), what was enqueued, and how much history there was when
\* it began.
Free == [kind |-> None, up |-> FALSE, open |-> FALSE, got |-> <<>>, from |-> 0]

FeedsInit ==
  /\ conn = [c \in Conns |-> Free]
  /\ publicSubs = {}
  /\ adminSubs = [r \in RfqIds |-> {}]
  /\ publicCount = 0
  /\ adminCount = 0
  /\ history = <<>>

(***************************************************************************)
(* The state after an event, three times.                                  *)
(***************************************************************************)
\* Faulty variant: a declined commitment is not undone.
WalkForward(state, type) ==
  CASE type = "OFFER_SUBMITTED" /\ state = "OPEN" -> "NEGOTIATING"
    [] type = "WINNER_SELECTED" -> "COMMIT_PENDING"
    [] type = "QUOTE_COMMITTED" -> "COMMITTED"
    [] type = "NEGOTIATION_EXPIRED" -> "EXPIRED"
    [] type = "NEGOTIATION_CANCELLED" -> "CANCELLED"
    [] OTHER -> state

\* The if-chain of the recent list, and of the admin replay (which also maps an
\* event COMMIT_PENDING, never stored, to that state).
Walk(state, type) ==
  CASE type = "OFFER_SUBMITTED" /\ state = "OPEN" -> "NEGOTIATING"
    [] type = "WINNER_SELECTED" -> "COMMIT_PENDING"
    [] type = "QUOTE_COMMITTED" -> "COMMITTED"
    [] type = "NEGOTIATION_EXPIRED" -> "EXPIRED"
    [] type = "NEGOTIATION_CANCELLED" -> "CANCELLED"
    [] type \in {"COSIGN_DECLINED", "COSIGN_TIMEOUT"} /\ state = "COMMIT_PENDING" -> "NEGOTIATING"
    [] OTHER -> state

WalkedState(l) == FoldLeft(LAMBDA s, e : Walk(s, e.type), "OPEN", l)

Prefix(l, n) == SubSeq(l, 1, n)

Replay(r) ==
  [i \in DOMAIN log[r] |-> [rfq |-> r, at |-> i, state_after |-> WalkedState(Prefix(log[r], i))]]

(***************************************************************************)
(* Subscribing, sending, cleaning up.                                      *)
(***************************************************************************)
Open(kind) == {c \in Conns : conn[c].open /\ conn[c].kind = kind}

\* Faulty variant: cleaned up again for the abort that follows a failed write.
CleanupUnguarded(cs) ==
  /\ publicSubs' = publicSubs \ cs
  /\ adminSubs' = [r \in RfqIds |-> adminSubs[r] \ cs]
  /\ publicCount' = publicCount - Cardinality({c \in cs : conn[c].kind = "public"})
  /\ adminCount' = adminCount - Cardinality({c \in cs : conn[c].kind \in RfqIds})

\* cleanup of the connections cs; one that is cleaned up already returns at once.
Cleanup(cs) ==
  /\ publicSubs' = publicSubs \ cs
  /\ adminSubs' = [r \in RfqIds |-> adminSubs[r] \ cs]
  /\ publicCount' = publicCount - Cardinality(cs \cap Open("public"))
  /\ adminCount' = adminCount - Cardinality(cs \cap UNION {Open(r) : r \in RfqIds})

\* GET /dashboard/feed
ConnectPublic(c) ==
  /\ conn[c] = Free
  /\ publicCount < MaxPublic
  /\ publicCount' = publicCount + 1
  /\ publicSubs' = publicSubs \cup {c}
  /\ conn' = [conn EXCEPT ![c] = [kind |-> "public", up |-> TRUE, open |-> TRUE, got |-> <<>>,
                                   from |-> Len(history)]]
  /\ UNCHANGED <<adminSubs, adminCount, history, faults>>

\* GET /admin/sessions/:id/events as a stream: subscribe, replay, go live.
ConnectAdmin(c, r) ==
  /\ conn[c] = Free
  /\ log[r] # <<>>
  /\ adminCount < MaxAdmin
  /\ adminCount' = adminCount + 1
  /\ adminSubs' = [adminSubs EXCEPT ![r] = @ \cup {c}]
  /\ conn' = [conn EXCEPT ![c] = [kind |-> r, up |-> TRUE, open |-> TRUE, got |-> Replay(r),
                                   from |-> 0]]
  /\ UNCHANGED <<publicSubs, publicCount, history, faults>>

\* Faulty variant: the public feed is skipped where an admin watches.
ListenersEither(r) == IF adminSubs[r] # {} THEN adminSubs[r] ELSE publicSubs

\* The subscribers onEvent calls for an event of session r.
Listeners(r) == publicSubs \cup adminSubs[r]

CleanedUp(c) == [conn[c] EXCEPT !.open = FALSE]

\* The broadcaster's onEvent, called with the stored event: one message for all,
\* and a stream whose client is gone is cleaned up by its failed write.
Broadcast(r, e) ==
  LET l == Append(log[r], e)
      message == [rfq |-> r, at |-> Len(l), state_after |-> StateOf(l)]
      gone == {c \in Listeners(r) : ~conn[c].up}
  IN /\ history' = Append(history, message)
     /\ conn' = [c \in Conns |-> IF c \in gone THEN CleanedUp(c)
                                 ELSE IF c \in Listeners(r)
                                 THEN [conn[c] EXCEPT !.got = Append(@, message)]
                                 ELSE conn[c]]
     /\ Cleanup(gone)

\* The client goes away; nothing is noticed yet.
LinkLost(c) ==
  /\ conn[c].up /\ Fault
  /\ conn' = [conn EXCEPT ![c].up = FALSE]
  /\ UNCHANGED <<publicSubs, adminSubs, publicCount, adminCount, history>>

\* The heartbeat timer, which runs until the clean-up, fails to write.
Heartbeat(c) ==
  /\ conn[c].open /\ ~conn[c].up
  /\ conn' = [conn EXCEPT ![c] = CleanedUp(c)]
  /\ Cleanup({c})
  /\ UNCHANGED <<history, faults>>

\* The abort listener, which nothing removes, is called: the first end of the stream
\* or one after a failed write or heartbeat.
Abort(c) ==
  /\ conn[c] # Free /\ ~conn[c].up
  /\ conn' = [conn EXCEPT ![c] = Free]
  /\ Cleanup({c})
  /\ UNCHANGED <<history, faults>>

\* A new process holds no connections.
FeedsRestart ==
  /\ conn' = [c \in Conns |-> Free]
  /\ publicSubs' = {}
  /\ adminSubs' = [r \in RfqIds |-> {}]
  /\ publicCount' = 0
  /\ adminCount' = 0
  /\ UNCHANGED history

(***************************************************************************)
(* GET /dashboard/feed/recent: all events of all sessions, newest first by *)
(* a stable sort on their timestamps, cut off at the limit.                *)
(***************************************************************************)
\* The sessions one after the other, in an order of their own.
Collected ==
  LET order == SetToSeq(RfqIds)
  IN FlattenSeq([n \in DOMAIN order |-> Replay(order[n])])

TimeOf(m) == log[m.rfq][m.at].at

NewestFirst ==
  LET all == Collected
      times == SetToSortSeq({TimeOf(m) : m \in ToSet(all)}, LAMBDA a, b : a > b)
  IN FlattenSeq([n \in DOMAIN times |-> SelectSeq(all, LAMBDA m : TimeOf(m) = times[n])])

\* Faulty variant: cut off before the sort.
RecentFeedUnsorted == SubSeq(Collected, 1, Min({Limit, Len(Collected)}))

RecentFeed == LET newest == NewestFirst IN SubSeq(newest, 1, Min({Limit, Len(newest)}))

-----------------------------------------------------------------------------
\* The connections and the counters have the types of the routes.
FeedsTypeOK ==
  /\ \A c \in Conns : conn[c].kind \in {None, "public"} \cup RfqIds
  /\ publicCount \in 0..MaxPublic
  /\ adminCount \in 0..MaxAdmin
  /\ publicSubs \subseteq Conns
  /\ adminSubs \in [RfqIds -> SUBSET Conns]

\* The two connection counters are the numbers of streams not cleaned up yet, and
\* exactly those are subscribed: a stream ended by an abort, a failed heartbeat, a
\* failed write, or one of these after another, gives its place back once
\* (dashboard.ts 68-75, admin.ts 278-286).
CountersAreOpenStreams ==
  /\ publicCount = Cardinality(Open("public"))
  /\ publicSubs = Open("public")
  /\ \A r \in RfqIds : adminSubs[r] = Open(r)
  /\ adminCount = Cardinality(UNION {Open(r) : r \in RfqIds})

\* An admin who watches a session has got its whole log, every event once and in
\* order, whether by the replay or live, with the state the session really had
\* after it (admin.ts 246-321).
AdminStreamIsExact ==
  \A c \in Conns, r \in RfqIds :
    conn[c].open /\ conn[c].up /\ conn[c].kind = r =>
      conn[c].got = [i \in DOMAIN log[r] |->
                       [rfq |-> r, at |-> i, state_after |-> StateOf(Prefix(log[r], i))]]

\* Everybody on the public feed has got exactly what happened since they came
\* (event-broadcaster.ts 29-47).
PublicFeedIsExact ==
  \A c \in Conns :
    conn[c].open /\ conn[c].up /\ conn[c].kind = "public" =>
      conn[c].got = SubSeq(history, conn[c].from + 1, Len(history))

\* The list of recent events shows what the live feed showed, the same state with
\* each event, nothing twice, and leaves out no event newer than one it shows
\* (dashboard.ts 133-166).
RecentFeedIsRight ==
  LET recent == RecentFeed
      shown == ToSet(recent)
      all == ToSet(history)
  IN /\ shown \subseteq all
     /\ Len(recent) = Cardinality(shown)
     /\ Cardinality(shown) = Min({Limit, Cardinality(all)})
     /\ \A m \in all \ shown, n \in shown : TimeOf(m) <= TimeOf(n)

=============================================================================

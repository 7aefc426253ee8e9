---------------------------- MODULE EventStream ----------------------------
(***************************************************************************)
(* GET /rfqs/:id/events of one session: the event store with its live      *)
(* subscribers, role-scoped visibility, the SSE streams of events.ts with  *)
(* their replay, heartbeat, eviction and clean-up, JSON polling by cursor, *)
(* and the ConnectionTracker that bounds the streams.                      *)
(*                                                                         *)
(* A reader is a client with a cursor: the id of the last event it has     *)
(* received.  It holds at most one connection it still listens to, but the *)
(* server may keep an earlier one whose client is gone.  An event id is    *)
(* the event's position in the log.  Everything the route does after       *)
(* authenticateCaller runs without a further await, so that connecting,    *)
(* with its replay and subscription, is one action; so is append, with all *)
(* the listeners it calls.                                                 *)
(***************************************************************************)
EXTENDS Session, FiniteSets, SequencesExt

CONSTANTS
  Readers,        \* clients that read the session's events
  DidOf,          \* the DID each reader authenticates as
  Conns,          \* connections the server may hold at a time
  TerminalMessage, EvictedMessage, LimitMessage,    \* messages that are no events
  MaxPerDid,      \* MAX_PER_DID
  Scopes          \* the bounds explored: see scope

ASSUME StreamAssumption ==
  /\ DidOf \in [Readers -> Dids]
  /\ MaxPerDid \in Nat \ {0}
  /\ \A s \in Scopes : /\ {s.perSession, s.events, s.faults} \subseteq Nat
                       /\ MaxPerDid <= s.perSession
                       /\ s.readers \subseteq Readers
                       /\ s.log \in Seq([type : EventTypes, seller : Sellers \cup {None}])
                       /\ s.state \in States
  /\ IsFiniteSet(Conns) /\ None \notin Conns
  /\ {TerminalMessage, EvictedMessage, LimitMessage} \cap Nat = {}
  /\ LimitMessage \notin {TerminalMessage, EvictedMessage} /\ TerminalMessage # EvictedMessage

VARIABLES
  log,        \* the stored events: type and the seller they concern
  state,      \* SessionManager.getSession(rfqId).state
  slots,      \* ConnectionTracker: connections in the order of acquisition
  entry,      \* the Set of subscribers the store's map holds, by number
  conn,       \* the connections: what the closures of events.ts hold
  at,         \* the connection each reader listens to
  received,   \* ids of the negotiation events each reader has processed
  told,       \* the last message without an event id that it was sent
  faults,     \* lost links, disconnects and restarts so far
  scope       \* of this behaviour: the log and the state it starts with, the readers
              \* that occur, MAX_PER_SESSION (perSession), and bounds on the
              \* length of the log and on the faults

vars == <<log, state, slots, entry, conn, at, received, told, faults, scope>>

MaxPerSession == scope.perSession

Messages == {TerminalMessage, EvictedMessage, LimitMessage}

\* A connection: its reader, whether the client is still there, whether the
\* stream is not yet cleaned up, the Set of subscribers its unsubscribe closure
\* captured, and what was sent and not yet read: a stream that is refused is sent
\* its message at once.
Connection == [reader : Readers, up : BOOLEAN, open : BOOLEAN, set : Nat,
               wire : Seq(Nat \cup {TerminalMessage, EvictedMessage})]

Free == [up |-> FALSE, open |-> FALSE]

Init ==
  /\ scope \in Scopes
  /\ log = scope.log
  /\ state = scope.state
  /\ slots = <<>>
  /\ entry = None
  /\ conn = [c \in Conns |-> Free]
  /\ at = [r \in Readers |-> None]
  /\ received = [r \in Readers |-> <<>>]
  /\ told = [r \in Readers |-> None]
  /\ faults = 0

-----------------------------------------------------------------------------
(***************************************************************************)
(* The store: visibility and reads.                                        *)
(***************************************************************************)

\* filter: what of the sequence s is in S, in the order of s.
Keep(s, S) ==
  LET kept[i \in 0..Len(s)] ==
        IF i = 0 THEN <<>>
        ELSE IF s[i] \in S THEN Append(kept[i - 1], s[i])
        ELSE kept[i - 1]
  IN kept[Len(s)]

\* TERMINAL_EVENT_TYPES.
TerminalEventTypes == {"QUOTE_COMMITTED", "NEGOTIATION_EXPIRED", "NEGOTIATION_CANCELLED"}

\* The positions of the log after m and up to n that a caller may see, in order.
VisibleBetween(did, m, n) ==
  Keep([i \in 1..n |-> i], {i \in 1..Len(log) : i > m /\ IsEventVisibleTo(log[i], did)})

Visible(did) == VisibleBetween(did, 0, Len(log))

\* Faulty variant: the cursor's own event is sent again.
GetEventsFromCursor(did, cursor) == VisibleBetween(did, cursor - 1, Len(log))

\* getEvents: the visible events after the cursor (0: no cursor).
GetEvents(did, cursor) == VisibleBetween(did, cursor, Len(log))

Cursor(r) == IF received[r] = <<>> THEN 0 ELSE Last(received[r])

\* isParticipant: the buyer, or a seller with a recorded offer.
IsParticipant(did) ==
  did = Buyer \/ \E i \in DOMAIN log : log[i].type = "OFFER_SUBMITTED" /\ log[i].seller = did

-----------------------------------------------------------------------------
(***************************************************************************)
(* Connection tracker.  The records of one session, oldest first.          *)
(***************************************************************************)
Did(c) == DidOf[conn[c].reader]

\* Faulty variant: only the streams of clients that are still there count.
CountForDidAlive(did) == Cardinality({c \in ToSet(slots) : conn[c].up /\ Did(c) = did})

CountForDid(did) == Cardinality({c \in ToSet(slots) : Did(c) = did})

CountForSession == Len(slots)

NonBuyerSlots == Keep(slots, {c \in ToSet(slots) : Did(c) # Buyer})

\* Faulty variant: the session limit is applied to the buyer like to anybody.
AcquireNoEviction(did, evicted) ==
  evicted = {} /\ CountForDid(did) < MaxPerDid /\ CountForSession < MaxPerSession

\* acquire succeeds and evicts the given connections: at capacity the buyer
\* pushes out findOldestNonBuyer, nobody else gets in.
Acquire(did, evicted) ==
  /\ CountForDid(did) < MaxPerDid
  /\ IF CountForSession < MaxPerSession
     THEN evicted = {}
     ELSE did = Buyer /\ NonBuyerSlots # <<>> /\ evicted = {Head(NonBuyerSlots)}

-----------------------------------------------------------------------------
(***************************************************************************)
(* Clean-up of streams, and subscriptions.  The store maps the session to  *)
(* a Set of subscribers; unsubscribe removes the subscriber from the Set   *)
(* it captured and, if that Set is empty, drops the map's entry, whatever  *)
(* Set the map holds by then.  Terminal subscribers are kept in a second   *)
(* map in the same way; one entry stands for both.                         *)
(***************************************************************************)
Members(n) == {c \in Conns : conn[c].open /\ conn[c].set = n}

\* The entry after the connections cs have unsubscribed.
EntryAfter(cs) ==
  IF \E c \in cs : Members(conn[c].set) \subseteq cs THEN None ELSE entry

\* What cleanup leaves of a connection: nothing if its client is gone.
Closed(k) == IF k.up THEN [k EXCEPT !.open = FALSE] ELSE Free

\* Faulty variant: no re-entrancy guard.
CleanupUnguarded(cs) ==
  /\ slots' = Keep(slots, Conns \ cs)
  /\ entry' = EntryAfter({c \in cs : conn[c] # Free})

\* cleanup of the streams cs: guarded by cleanedUp, it unsubscribes and releases
\* the slot.
Cleanup(cs) ==
  LET live == {c \in cs : conn[c].open}
  IN /\ slots' = Keep(slots, Conns \ live)
     /\ entry' = EntryAfter(live)

\* A number for a new Set.
NewSet == CHOOSE n \in 1..(Cardinality(Conns) + 1) :
            \A c \in Conns : conn[c] # Free => conn[c].set # n

\* send: nothing arrives at a client that is gone.
Send(k, items) == IF k.up THEN [k EXCEPT !.wire = @ \o items] ELSE k

-----------------------------------------------------------------------------
(***************************************************************************)
(* Appending.  What the session may append is TRANSITION_RULES; offers and *)
(* counters concern their seller, everything from WINNER_SELECTED on the   *)
(* selected one.  A quote is signed, committed and settled once, in this   *)
(* order.  No code emits COMMIT_PENDING or NEGOTIATION_CANCELLED.          *)
(***************************************************************************)
Selected == SelectLastInSeq(log, LAMBDA e : e.type = "WINNER_SELECTED")

Emitted ==
  [type : EventTypes \ {"RFQ_CREATED", "COMMIT_PENDING", "NEGOTIATION_CANCELLED"},
   seller : Sellers \cup {None}]

CanEmit(e) ==
  /\ Len(log) < scope.events
  /\ IsValidTransition(state, e.type)
  /\ CASE e.type = "OFFER_SUBMITTED" -> e.seller \in Sellers
       [] e.type \in {"COUNTER_SENT", "WINNER_SELECTED"} ->
            e.seller \in Sellers /\ IsParticipant(e.seller)
       [] e.type = "NEGOTIATION_EXPIRED" -> e.seller = None
       [] OTHER -> e.seller = log[Selected].seller
  /\ e.type = "QUOTE_COMMITTED" => log[Len(log)].type = "QUOTE_SIGNED"
  /\ e.type \in {"QUOTE_SIGNED", "SETTLEMENT_CONFIRMED"} =>
       log[Len(log)].type \in {"WINNER_SELECTED", "QUOTE_COMMITTED"}

\* Subscribers append notifies: the members of the map's Set, if they may see it.
Notified(e) == IF entry = None THEN {} ELSE {c \in Members(entry) : IsEventVisibleTo(e, Did(c))}

\* Faulty variant: terminal subscribers are told before the event is delivered.
TerminalFirst(c, e) ==
  (IF e.type \in TerminalEventTypes THEN <<TerminalMessage>> ELSE <<>>)
    \o (IF c \in Notified(e) THEN <<Len(log) + 1>> ELSE <<>>)

\* Faulty variant: no terminal state for an expired session.
SentForUndefined(c, e) ==
  (IF c \in Notified(e) THEN <<Len(log) + 1>> ELSE <<>>)
    \o (CASE e.type = "QUOTE_COMMITTED" -> <<TerminalMessage>>
          [] e.type = "NEGOTIATION_EXPIRED" -> <<None>>
          [] OTHER -> <<>>)

\* What a subscriber is sent for the event: the event, then the terminal message.
SentFor(c, e) ==
  (IF c \in Notified(e) THEN <<Len(log) + 1>> ELSE <<>>)
    \o (IF e.type \in TerminalEventTypes THEN <<TerminalMessage>> ELSE <<>>)

\* Faulty variant: only the subscribers that see the event are told.
EndedByVisible(e) == IF e.type \in TerminalEventTypes THEN Notified(e) ELSE {}

\* The streams that end with the event: its terminal subscribers, all of them.
EndedBy(e) == IF e.type \in TerminalEventTypes /\ entry # None THEN Members(entry) ELSE {}

\* append, with everything the listeners do.
AppendEvent(e) ==
  LET subscribers == IF entry = None THEN {} ELSE Members(entry)
  IN /\ CanEmit(e)
     /\ log' = Append(log, e)
     /\ state' = TransitionRules[state][e.type]
     /\ conn' = [c \in Conns |->
                   IF c \notin subscribers THEN conn[c]
                   ELSE LET k == Send(conn[c], SentFor(c, e))
                        IN IF c \in EndedBy(e) THEN Closed(k) ELSE k]
     /\ Cleanup(EndedBy(e))
     /\ UNCHANGED <<at, received, told, faults, scope>>

-----------------------------------------------------------------------------
(***************************************************************************)
(* The route.                                                              *)
(***************************************************************************)

\* Faulty variant: reading requires a live session, like writing.
MayReadLive(r) ==
  at[r] = None /\ IsParticipant(DidOf[r]) /\ state \notin TerminalStates

\* The session exists, the caller takes part in it and holds no other stream.
MayRead(r) == at[r] = None /\ IsParticipant(DidOf[r])

\* JSON polling.
Poll(r) ==
  /\ MayRead(r)
  /\ received' = [received EXCEPT ![r] = @ \o GetEvents(DidOf[r], Cursor(r))]
  /\ UNCHANGED <<log, state, slots, entry, conn, at, told, faults, scope>>

\* No slot: the client is told so and the response ends.
ConnectRefused(r) ==
  /\ MayRead(r)
  /\ ~ \E evicted \in SUBSET ToSet(slots) : Acquire(DidOf[r], evicted)
  /\ told' = [told EXCEPT ![r] = LimitMessage]
  /\ UNCHANGED <<log, state, slots, entry, conn, at, received, faults, scope>>

\* A connection that is not in use: which one makes no difference.
NewConn == CHOOSE c \in Conns : conn[c] = Free

\* A slot, possibly that of an evicted stream; replay; then either live delivery
\* or, in a session that is over, the terminal message and the end.
Connect(r) ==
  LET did == DidOf[r]
      c == NewConn
      over == state \in TerminalStates
      replay == GetEvents(did, Cursor(r))
  IN /\ MayRead(r)
     /\ \E d \in Conns : conn[d] = Free
     /\ \E evicted \in SUBSET ToSet(slots) :
          LET left == Keep(slots, Conns \ evicted)
              current == EntryAfter(evicted)
              set == IF current = None THEN NewSet ELSE current
          IN /\ Acquire(did, evicted)
             /\ slots' = IF over THEN left ELSE Append(left, c)
             /\ entry' = IF over THEN current ELSE set
             /\ conn' = [d \in Conns |->
                  CASE d = c ->
                         [reader |-> r, up |-> TRUE, open |-> ~over, set |-> set,
                          wire |-> IF over THEN Append(replay, TerminalMessage) ELSE replay]
                    [] d \in evicted -> Closed(Send(conn[d], <<EvictedMessage>>))
                    [] OTHER -> conn[d]]
     /\ at' = [at EXCEPT ![r] = c]
     /\ UNCHANGED <<log, state, received, told, faults, scope>>

\* The client reads what was sent next.
Receive(c) ==
  LET k == conn[c]
  IN /\ k.up
     /\ k.wire # <<>>
     /\ conn' = [conn EXCEPT ![c].wire = Tail(@)]
     /\ IF Head(k.wire) \in Messages
        THEN /\ told' = [told EXCEPT ![k.reader] = Head(k.wire)]
             /\ UNCHANGED received
        ELSE /\ received' = [received EXCEPT ![k.reader] = Append(@, Head(k.wire))]
             /\ UNCHANGED told
     /\ UNCHANGED <<log, state, slots, entry, at, faults, scope>>

\* The client closes its connection, and the abort signal runs cleanup: always
\* possible, and what a client does at the end of a stream the server closed.
Disconnect(c) ==
  /\ conn[c].up
  /\ conn[c].open \/ conn[c].wire # <<>> => faults < scope.faults
  /\ faults' = IF conn[c].open \/ conn[c].wire # <<>> THEN faults + 1 ELSE faults
  /\ Cleanup({c})
  /\ conn' = [conn EXCEPT ![c] = Free]
  /\ at' = [at EXCEPT ![conn[c].reader] = None]
  /\ UNCHANGED <<log, state, received, told, scope>>

\* The link breaks and no abort signal fires (it had fired before the listener
\* was added, or the peer is silent).
LinkLost(c) ==
  /\ conn[c].up
  /\ faults < scope.faults
  /\ faults' = faults + 1
  /\ conn' = [conn EXCEPT ![c] =
                IF conn[c].open THEN [@ EXCEPT !.up = FALSE, !.wire = <<>>] ELSE Free]
  /\ at' = [at EXCEPT ![conn[c].reader] = None]
  /\ UNCHANGED <<log, state, slots, entry, received, told, scope>>

\* Faulty variant: a failed heartbeat is ignored as long as the session lives.
HeartbeatIgnored(c) ==
  /\ conn[c].open /\ ~conn[c].up /\ state \in TerminalStates
  /\ Cleanup({c})
  /\ conn' = [conn EXCEPT ![c] = Free]
  /\ UNCHANGED <<log, state, at, received, told, faults, scope>>

\* The heartbeat cannot be sent.
Heartbeat(c) ==
  /\ conn[c].open /\ ~conn[c].up
  /\ Cleanup({c})
  /\ conn' = [conn EXCEPT ![c] = Free]
  /\ UNCHANGED <<log, state, at, received, told, faults, scope>>

\* The process restarts: the log is in SQLite, everything else is in memory.
Restart ==
  /\ faults < scope.faults
  /\ faults' = faults + 1
  /\ slots' = <<>>
  /\ entry' = None
  /\ conn' = [c \in Conns |-> Free]
  /\ at' = [r \in Readers |-> None]
  /\ UNCHANGED <<log, state, received, told, scope>>

Next ==
  \/ \E e \in Emitted : AppendEvent(e)
  \/ \E r \in scope.readers : Poll(r) \/ Connect(r) \/ ConnectRefused(r)
  \/ \E c \in Conns : Receive(c) \/ Disconnect(c) \/ LinkLost(c) \/ Heartbeat(c)
  \/ Restart

Spec == Init /\ [][Next]_vars

\* Fair are the network and clients that keep reading: what was sent is read, a
\* stream the server ended is left, a reader without a stream polls; and the
\* heartbeat timer.  Nothing obliges the session to go on or a client to connect.
ReadersAreFair ==
  /\ \A c \in Conns : WF_vars(Receive(c)) /\ WF_vars(Heartbeat(c))
  /\ \A c \in Conns : WF_vars(~conn[c].open /\ Disconnect(c))
  /\ \A r \in Readers : WF_vars(r \in scope.readers /\ Poll(r))

FairSpec == Spec /\ ReadersAreFair

-----------------------------------------------------------------------------
(***************************************************************************)
(* Properties.                                                             *)
(***************************************************************************)
EventsOn(wire) == Keep(wire, Nat)

TypeOK ==
  /\ log \in Seq([type : EventTypes, seller : Sellers \cup {None}])
  /\ state \in States
  /\ slots \in Seq(Conns)
  /\ entry \in Nat \cup {None}
  /\ conn \in [Conns -> Connection \cup {Free}]
  /\ at \in [Readers -> Conns \cup {None}]
  /\ received \in [Readers -> Seq(Nat)]
  /\ told \in [Readers -> Messages \cup {None}]
  /\ scope \in Scopes
  /\ faults \in 0..scope.faults

\* What a reader has processed and what is on its way to it.
Sent(r) == IF at[r] = None THEN received[r] ELSE received[r] \o EventsOn(conn[at[r]].wire)

\* Whatever mixture of polls, streams, evictions, lost links and restarts a
\* reader goes through, what it has received, continued by what is on its way, is
\* an initial part of the events its DID may see: no event is lost, none comes
\* twice, none out of order and none of another seller's (event-store.ts
\* subscribeFrom, getEvents; events.ts cursor handling).
ReadersSeeAPrefix ==
  \A r \in Readers : IsPrefix(Sent(r), Visible(DidOf[r]))

\* A stream that is open has been sent every event its reader may see, so that a
\* client that just listens is up to date once its link is drained: no
\* subscriber drops out of the store while its stream stays open.
OpenStreamIsComplete ==
  \A r \in Readers : at[r] # None /\ conn[at[r]].open => Sent(r) = Visible(DidOf[r])

\* The terminal message is the last thing on a stream, and by then the reader
\* has been sent everything up to the event that ended the session.
TerminalComesLast ==
  \A c \in Conns :
    conn[c].up =>
      \A i \in DOMAIN conn[c].wire :
        conn[c].wire[i] = TerminalMessage =>
          /\ i = Len(conn[c].wire)
          /\ \A j \in DOMAIN log :
               /\ IsEventVisibleTo(log[j], Did(c))
               /\ log[j].type # "SETTLEMENT_CONFIRMED"
               => j \in ToSet(Sent(conn[c].reader))

\* The slots are the streams that are open, each once, and they respect both
\* limits: no slot leaks through any of the ways a stream can end.
SlotsAreOpenStreams ==
  /\ ToSet(slots) = {c \in Conns : conn[c].open}
  /\ Len(slots) = Cardinality(ToSet(slots))
  /\ Len(slots) <= MaxPerSession
  /\ \A d \in Dids : Cardinality({c \in Conns : conn[c].open /\ Did(c) = d}) <= MaxPerDid

\* No stream outlives its session: the terminal event itself ends all of them,
\* also those whose seller may not see it, so that closeAll of the deadline
\* enforcer finds nothing left.
NoStreamOutlivesSession == state \in TerminalStates => slots = <<>> /\ entry = None

\* The buyer is turned away only when it holds its own limit of streams, however
\* many streams the sellers hold (ConnectionTracker: a slot is reserved for it).
BuyerGetsIn ==
  [][\A r \in Readers :
       DidOf[r] = Buyer /\ told'[r] = LimitMessage /\ told[r] # LimitMessage
         => CountForDid(Buyer) = MaxPerDid]_vars

\* The slot of a stream whose client is gone without a signal is given back.
LostStreamsAreFreed == \A c \in Conns : (conn[c].open /\ ~conn[c].up) ~> ~conn[c].open

\* Once a session is over, everybody who takes part in it learns the whole
\* outcome it may see.
OutcomeReachesReaders ==
  \A r \in Readers :
    state \in TerminalStates /\ r \in scope.readers /\ IsParticipant(DidOf[r]) ~> received[r] = Visible(DidOf[r])

\* What a reader gets of a session, altogether: well-typed, in order, without a
\* gap while its stream is open, and the terminal message last (event-store.ts,
\* events.ts).
DeliveryIsExact == TypeOK /\ ReadersSeeAPrefix /\ OpenStreamIsComplete /\ TerminalComesLast

\* The slots are accounted for: while the session lives they are its open streams,
\* its end leaves none, and the buyer's is kept for it (connection-tracker.ts,
\* cleanup of events.ts).
SlotsAreAccounted == [](SlotsAreOpenStreams /\ NoStreamOutlivesSession) /\ BuyerGetsIn

\* Nobody is forgotten: a stream whose client is gone gives its slot back, and
\* every participant of a session that is over learns its outcome.
ReadersAreServed == LostStreamsAreFreed /\ OutcomeReachesReaders

(***************************************************************************)
(* The inductive strengthening.                                            *)
(***************************************************************************)
\* Readers listen to the connections whose client is there, one each; what is not
\* cleaned up after its client left waits for the heartbeat.
LinksMatch ==
  /\ \A r \in Readers : at[r] # None => conn[at[r]].up /\ conn[at[r]].reader = r
  /\ \A c \in Conns : conn[c].up => at[conn[c].reader] = c
  /\ \A c \in Conns : ~conn[c].up => conn[c] = Free \/ conn[c].open

\* The store's map holds the one Set whose members are the open streams, and no
\* empty Set: unsubscribe never drops a Set that is not its own.
EntryIsTheOpenSet ==
  /\ entry = None <=> \A c \in Conns : ~conn[c].open
  /\ \A c \in Conns : conn[c].open => conn[c].set = entry

\* No stream holds two slots.
EachSlotOnce == \A i, j \in DOMAIN slots : slots[i] = slots[j] => i = j

\* sent is all that did may see up to some event.
IsInitialPart(sent, did) == \E n \in 0..Len(log) : sent = VisibleBetween(did, 0, n)

\* A reader without a stream has received an initial part of what it may see.
ReadersAreUpTo == \A r \in Readers : at[r] = None => IsInitialPart(received[r], DidOf[r])

\* All that the session will tell a DID, its settlement aside, has been sent.
IsOutcome(sent, did) ==
  \A j \in DOMAIN log :
    IsEventVisibleTo(log[j], did) /\ log[j].type # "SETTLEMENT_CONFIRMED" => j \in ToSet(sent)

SentOn(k) == received[k.reader] \o EventsOn(k.wire)

\* So has one with a stream, together with what is on its way, and all of it as
\* long as the stream is open; with the terminal message on its way the stream is
\* cleaned up, the session is over, and nothing follows.
StreamsAreUpTo ==
  \A c \in Conns : conn[c].up =>
    LET k == conn[c]
    IN /\ IsInitialPart(SentOn(k), Did(c))
       /\ k.open => SentOn(k) = Visible(Did(c))
       /\ TerminalMessage \in ToSet(k.wire) =>
            /\ ~k.open /\ state \in TerminalStates
            /\ \A i \in DOMAIN k.wire : k.wire[i] = TerminalMessage => i = Len(k.wire)
            /\ IsOutcome(SentOn(k), Did(c))

StreamInv ==
  /\ TypeOK
  /\ LinksMatch
  /\ EntryIsTheOpenSet
  /\ EachSlotOnce
  /\ SlotsAreOpenStreams
  /\ NoStreamOutlivesSession
  /\ ReadersAreUpTo
  /\ StreamsAreUpTo

=============================================================================

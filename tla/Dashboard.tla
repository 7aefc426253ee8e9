----------------------------- MODULE Dashboard -----------------------------
(***************************************************************************)
(* The observing side of the engine: the statistics, the feeds and the     *)
(* admin API of one process over the logs of all its sessions.  An append  *)
(* calls the observers of the collector and of the broadcaster in the same *)
(* step (server.ts onAppend); a restart rebuilds the first and empties the *)
(* other two.                                                              *)
(***************************************************************************)
EXTENDS Stats, Feeds, AdminAuth

vars == <<log, now, faults, scope, statsVars, feedsVars, authVars>>

Init == LogsInit /\ StatsInit /\ FeedsInit /\ AuthInit

AppendEvent(r, e) ==
  /\ Store(r, e)
  /\ OnEvent(r, e, StateOf(log'[r]))
  /\ Broadcast(r, e)
  /\ UNCHANGED <<now, faults, scope, authVars>>

ReadActivity ==
  /\ GetActivity
  /\ UNCHANGED <<log, now, faults, scope, feedsVars, authVars>>

\* A request for a feed, the end of a stream, or a heartbeat.
Stream(c) ==
  /\ \/ ConnectPublic(c) \/ LinkLost(c) \/ Heartbeat(c) \/ Abort(c)
     \/ \E r \in RfqIds : ConnectAdmin(c, r)
  /\ UNCHANGED <<log, now, scope, statsVars, authVars>>

AdminRequest ==
  /\ AuthStep
  /\ UNCHANGED <<log, now, faults, scope, statsVars, feedsVars>>

Tick ==
  /\ now < scope.time
  /\ now' = now + 1
  /\ UNCHANGED <<log, faults, scope, statsVars, feedsVars, authVars>>

Restart ==
  /\ Fault
  /\ StatsRestart /\ FeedsRestart /\ AuthRestart
  /\ UNCHANGED <<log, now, scope>>

Next ==
  \/ \E r \in scope.rfqs, type \in EventTypes, seller \in scope.sellers \cup {None} :
       AppendEvent(r, [type |-> type, seller |-> seller, at |-> now])
  \/ scope.rfqs # {} /\ ReadActivity
  \/ \E c \in scope.conns : Stream(c)
  \/ AdminRequest
  \/ Tick
  \/ Restart

Spec == Init /\ [][Next]_vars

-----------------------------------------------------------------------------
\* The counters, streams and sessions have the types the three classes give them.
TypeOK == StatsTypeOK /\ FeedsTypeOK /\ AuthTypeOK

\* Everything the statistics page shows is what the logs say: the counters, the
\* recent minutes and the current hour (stats-collector.ts).
StatisticsMatchLog ==
  TypeOK /\ CountersMatchLog /\ RecentMinutesAreCounted /\ HourlyCountersAreExact

\* The streams of the dashboard and of the admin API show what happened, with the
\* right states, and give their places back (event-broadcaster.ts, dashboard.ts,
\* admin.ts).
FeedsAreExact ==
  CountersAreOpenStreams /\ AdminStreamIsExact /\ PublicFeedIsExact /\ RecentFeedIsRight

\* Logins last as promised and failures are counted, and neither the limiter nor
\* the cap on sessions turns anybody away for what is not theirs or is over
\* (admin-auth.ts).
LoginsAreAccounted ==
  /\ [](SessionsLastAsPromised /\ FailuresAreCounted)
  /\ OnlyFailingAddressesAreLimited /\ CapCountsLiveSessionsOnly

=============================================================================

----------------------------- MODULE EngineLogs -----------------------------
(***************************************************************************)
(* The logs of all sessions and the clock, as the observers of appendEvent *)
(* see them.  An event keeps its type, the seller of an offer and its      *)
(* timestamp.  What may be appended is TRANSITION_RULES; no code emits     *)
(* COMMIT_PENDING or NEGOTIATION_CANCELLED.                                *)
(*                                                                         *)
(* scope holds the bounds of a behaviour, chosen at its beginning: events, *)
(* time and faults (clients that go away, restarts) that may happen, and   *)
(* the RFQs, sellers, event types, connections and addresses that occur.   *)
(***************************************************************************)
EXTENDS Session, FiniteSets, FiniteSetsExt, SequencesExt

CONSTANTS
  RfqIds,     \* RFQ ids
  BuyerOf,    \* the buyer of each RFQ
  Scopes      \* the bounds explored

ASSUME LogsAssumption ==
  /\ DOMAIN BuyerOf = RfqIds
  /\ \A s \in Scopes : {s.events, s.time, s.faults} \subseteq Nat
                       /\ s.rfqs \subseteq RfqIds /\ s.sellers \subseteq Sellers

VARIABLES
  log,        \* the event store: a log per session
  now,        \* Date.now()
  faults,     \* faults so far
  scope

LogsInit ==
  /\ log = [r \in RfqIds |-> <<>>]
  /\ now = 0
  /\ faults = 0
  /\ scope \in Scopes

\* The state deriveState gives a log: TRANSITION_RULES applied event by event.
StateOf(l) ==
  FoldLeft(LAMBDA s, e : IF e.type = "RFQ_CREATED" THEN "OPEN" ELSE TransitionRules[s][e.type],
           None, l)

Emitted(r) ==
  IF log[r] = <<>> THEN {"RFQ_CREATED"}
  ELSE DOMAIN TransitionRules[StateOf(log[r])] \ {"COMMIT_PENDING", "NEGOTIATION_CANCELLED"}

\* Sum over the sessions of a number.
SumOf(f(_)) == FoldSet(LAMBDA r, n : n + f(r), 0, RfqIds)

\* append: the event is stored; its observers are called in the same step.
Store(r, e) ==
  /\ SumOf(LAMBDA s : Len(log[s])) < scope.events
  /\ e.type \in Emitted(r) \cap scope.types
  /\ (e.type = "OFFER_SUBMITTED") = (e.seller # None)
  /\ e.at = now
  /\ log' = [log EXCEPT ![r] = Append(@, e)]

Fault == faults < scope.faults /\ faults' = faults + 1

=============================================================================

----------------------------- MODULE AdminAuth -----------------------------
(***************************************************************************)
(* The cookie sessions and the login limiter of the admin API              *)
(* (admin-auth.ts, and the login, logout and middleware of admin.ts).      *)
(* Every handler runs in one turn of the event loop: one action each.      *)
(*                                                                         *)
(* A session token is drawn in order, so that it is fresh.  The comparison *)
(* of the password is its result.  ADMIN_TOKEN is set: without it every    *)
(* handler refuses at once and no state changes.                           *)
(***************************************************************************)
EXTENDS EngineLogs, TLC

CONSTANTS
  Ips,            \* client addresses
  SessionMaxAge,  \* SESSION_MAX_AGE
  MaxSessions,    \* MAX_ACTIVE_SESSIONS
  LoginWindow,    \* LOGIN_WINDOW_MS
  MaxPerIp,       \* MAX_LOGIN_ATTEMPTS_PER_IP
  MaxGlobal,      \* MAX_LOGIN_ATTEMPTS_GLOBAL
  MaxTracked,     \* entries of loginAttemptsByIp above which it is swept (1000)
  MaxTokens,      \* bound: sessions issued
  MaxFailures     \* bound: failed logins remembered per address

ASSUME AdminAssumption ==
  /\ {SessionMaxAge, MaxSessions, LoginWindow, MaxPerIp, MaxGlobal} \subseteq Nat \ {0}
  /\ {MaxTracked, MaxTokens, MaxFailures} \subseteq Nat

VARIABLES
  activeSessions, \* token -> expiry, for the tokens in memory
  attempts,       \* loginAttemptsByIp: count and windowStart, or None
  global,         \* globalLoginAttempts and globalLoginWindowStart
  issued,         \* when each token was issued, in order
  loggedOut,      \* tokens a logout was received for, or of an earlier process
  failed,         \* per address, the times of the failures since its last success
  answer          \* the last login: its address and its answer

authVars == <<activeSessions, attempts, global, issued, loggedOut, failed, answer>>

AuthInit ==
  /\ activeSessions = <<>>
  /\ attempts = [ip \in Ips |-> None]
  /\ global = [count |-> 0, start |-> 0]
  /\ issued = <<>>
  /\ loggedOut = {}
  /\ failed = [ip \in Ips |-> <<>>]
  /\ answer = None

Tokens == DOMAIN issued

(***************************************************************************)
(* The helpers.                                                            *)
(***************************************************************************)
\* Faulty variant: a session is swept at the moment it expires.
SweptEarly == RestrictDomain(activeSessions, LAMBDA t : now < activeSessions[t])

\* sweepExpiredSessions
SweepExpiredSessions == RestrictDomain(activeSessions, LAMBDA t : now <= activeSessions[t])

Without(token) == RestrictDomain(activeSessions, LAMBDA t : t # token)

InWindow(entry) == entry # None /\ now - entry.windowStart <= LoginWindow

\* The reset at the top of checkLoginRateLimit.
GlobalNow == IF now - global.start > LoginWindow THEN [count |-> 0, start |-> now] ELSE global

\* Faulty variant: the global limit stops every address.
AllowedByAll(ip) ==
  /\ ~(InWindow(attempts[ip]) /\ attempts[ip].count >= MaxPerIp)
  /\ GlobalNow.count < MaxGlobal

\* checkLoginRateLimit's answer: an address is stopped by its own failures, or by
\* everybody's if it has failures of its own.
Allowed(ip) ==
  /\ ~(InWindow(attempts[ip]) /\ attempts[ip].count >= MaxPerIp)
  /\ ~(GlobalNow.count >= MaxGlobal /\ InWindow(attempts[ip]) /\ attempts[ip].count > 0)

\* Faulty variant: the sweep empties the map.
RecordedSweepsAll(ip) ==
  LET counted == [attempts EXCEPT ![ip] =
                    IF InWindow(@) THEN [@ EXCEPT !.count = @ + 1]
                    ELSE [count |-> 1, windowStart |-> now]]
      tracked == {i \in Ips : counted[i] # None}
  IN [i \in Ips |-> IF Cardinality(tracked) > MaxTracked /\ i # ip THEN None ELSE counted[i]]

\* recordFailedLogin on loginAttemptsByIp, with its sweep above MaxTracked.
Recorded(ip) ==
  LET counted == [attempts EXCEPT ![ip] =
                    IF InWindow(@) THEN [@ EXCEPT !.count = @ + 1]
                    ELSE [count |-> 1, windowStart |-> now]]
      tracked == {i \in Ips : counted[i] # None}
  IN [i \in Ips |-> IF Cardinality(tracked) > MaxTracked /\ ~InWindow(counted[i])
                    THEN None ELSE counted[i]]

(***************************************************************************)
(* The routes.                                                             *)
(***************************************************************************)
Answered(ip, result) == answer' = [ip |-> ip, result |-> result]

\* POST /admin/login by an address that is limited: only the global window may
\* have been renewed.
LoginLimited(ip) ==
  /\ ~Allowed(ip)
  /\ global' = GlobalNow
  /\ Answered(ip, "rate_limited")
  /\ UNCHANGED <<activeSessions, attempts, issued, loggedOut, failed>>

\* With a wrong password.
LoginFails(ip) ==
  /\ Allowed(ip)
  /\ Len(failed[ip]) < MaxFailures
  /\ global' = [GlobalNow EXCEPT !.count = @ + 1]
  /\ attempts' = Recorded(ip)
  /\ failed' = [failed EXCEPT ![ip] = Append(@, now)]
  /\ Answered(ip, "unauthorized")
  /\ UNCHANGED <<activeSessions, issued, loggedOut>>

\* Faulty variant: the cap is looked at before the sweep.
LoginSucceedsUnswept(ip) ==
  /\ Allowed(ip)
  /\ Len(issued) < MaxTokens
  /\ global' = GlobalNow
  /\ attempts' = [attempts EXCEPT ![ip] = None]
  /\ failed' = [failed EXCEPT ![ip] = <<>>]
  /\ IF Cardinality(DOMAIN activeSessions) >= MaxSessions
     THEN /\ activeSessions' = SweepExpiredSessions
          /\ Answered(ip, "too_many_sessions")
          /\ UNCHANGED issued
     ELSE /\ issued' = Append(issued, now)
          /\ activeSessions' = (Len(issued) + 1 :> now + SessionMaxAge) @@ SweepExpiredSessions
          /\ Answered(ip, "ok")
  /\ UNCHANGED loggedOut

\* With the right password: the address is cleared before the cap is looked at.
LoginSucceeds(ip) ==
  LET swept == SweepExpiredSessions
  IN /\ Allowed(ip)
     /\ Len(issued) < MaxTokens
     /\ global' = GlobalNow
     /\ attempts' = [attempts EXCEPT ![ip] = None]
     /\ failed' = [failed EXCEPT ![ip] = <<>>]
     /\ IF Cardinality(DOMAIN swept) >= MaxSessions
        THEN /\ activeSessions' = swept
             /\ Answered(ip, "too_many_sessions")
             /\ UNCHANGED issued
        ELSE /\ issued' = Append(issued, now)
             /\ activeSessions' = (Len(issued) + 1 :> now + SessionMaxAge) @@ swept
             /\ Answered(ip, "ok")
     /\ UNCHANGED loggedOut

\* requireAdminAuth for a request with the cookie of a token: everything expired
\* goes; the request is served iff its token is left.
Request(token) ==
  /\ token \in Tokens
  /\ activeSessions' = SweepExpiredSessions
  /\ UNCHANGED <<attempts, global, issued, loggedOut, failed, answer>>

Served(token) == token \in DOMAIN SweepExpiredSessions

\* POST /admin/logout
Logout(token) ==
  /\ token \in Tokens
  /\ activeSessions' = Without(token)
  /\ loggedOut' = loggedOut \cup {token}
  /\ UNCHANGED <<attempts, global, issued, failed, answer>>

AuthStep ==
  \/ \E ip \in scope.ips : LoginLimited(ip) \/ LoginFails(ip) \/ LoginSucceeds(ip)
  \/ \E token \in 1..MaxTokens : Request(token) \/ Logout(token)

\* A new process knows neither logins nor failures.
AuthRestart ==
  /\ activeSessions' = <<>>
  /\ attempts' = [ip \in Ips |-> None]
  /\ global' = [count |-> 0, start |-> now]
  /\ loggedOut' = Tokens
  /\ failed' = [ip \in Ips |-> <<>>]
  /\ UNCHANGED <<issued, answer>>

-----------------------------------------------------------------------------
\* The limiter and the sessions have the types of admin-auth.ts.
AuthTypeOK ==
  /\ DOMAIN activeSessions \subseteq Tokens
  /\ \A t \in DOMAIN activeSessions : activeSessions[t] \in Nat
  /\ \A ip \in Ips : attempts[ip] = None
                     \/ (attempts[ip].count \in 1..MaxPerIp /\ attempts[ip].windowStart <= now)
  /\ global.count \in Nat /\ global.start <= now

\* A login lasts exactly as long as it should: a request with its cookie is served
\* until SESSION_MAX_AGE has passed or a logout was received, whatever other
\* logins, requests and sweeps happen (admin-auth.ts 51-56 and 177-197), and never
\* afterwards.
SessionsLastAsPromised ==
  \A t \in Tokens : Served(t) <=> (t \notin loggedOut /\ now <= issued[t] + SessionMaxAge)

\* Failures of an address that its current window covers.
Recent(ip) ==
  IF InWindow(attempts[ip])
  THEN SelectSeq(failed[ip], LAMBDA t : t >= attempts[ip].windowStart) ELSE <<>>

\* The limiter forgets no failure of a running window, by a sweep of the map or by
\* a reset of the global window, and lets no address fail more often than
\* MAX_LOGIN_ATTEMPTS_PER_IP in one (admin-auth.ts 63-118).
FailuresAreCounted ==
  \A ip \in Ips :
    /\ InWindow(attempts[ip]) => attempts[ip].count = Len(Recent(ip))
    /\ Len(Recent(ip)) <= MaxPerIp
    /\ failed[ip] # <<>> /\ now - Last(failed[ip]) = 0 => InWindow(attempts[ip])

\* Nobody is locked out by the failures of others: only an address with a failure
\* of its own in the last LOGIN_WINDOW_MS is ever limited (admin-auth.ts 83-91).
OnlyFailingAddressesAreLimited ==
  [][\A ip \in Ips : LoginLimited(ip) =>
       \E i \in DOMAIN failed[ip] : now - failed[ip][i] <= LoginWindow]_authVars

\* The right password gets in unless as many logins are alive as there may be:
\* expired and logged-out ones take no place (admin-auth.ts 153-157).
CapCountsLiveSessionsOnly ==
  [][answer' # answer /\ answer'.result = "too_many_sessions" =>
       Cardinality({t \in Tokens : t \notin loggedOut /\ now <= issued[t] + SessionMaxAge})
         >= MaxSessions]_authVars

=============================================================================

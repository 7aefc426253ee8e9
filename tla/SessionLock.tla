---------------------------- MODULE SessionLock ----------------------------
(***************************************************************************)
(* The per-session FIFO mutex of session-manager.ts (class SessionLock,    *)
(* with the bookkeeping SessionManager.withLock and removeLock keep around *)
(* it).  Clients are the requests and the deadline enforcer that call      *)
(* withLock for one rfq_id.                                                *)
(*                                                                         *)
(* release() resolves the next waiter's promise; the waiter's continuation *)
(* runs in the same microtask checkpoint, before any other callback of the *)
(* event loop, so a hand-over is one step here: the client is "in" as soon *)
(* as it is released to.  A client is "in" exactly when withLock has put   *)
(* the rfq_id into activeLocks for it.                                     *)
(***************************************************************************)
EXTENDS Naturals, Sequences

CONSTANTS
  Clients,
  MaxQueueSize   \* waiters beyond which run() throws SessionBusyError

ASSUME QueueAssumption == MaxQueueSize \in Nat

VARIABLES
  exists,    \* the lock object is in SessionManager.locks
  running,   \* SessionLock.running
  waiters,   \* SessionLock.waiters
  place      \* where each client is: outside, in the queue, or in the callback

lockVars == <<exists, running, waiters, place>>

LockInit ==
  /\ exists = FALSE
  /\ running = FALSE
  /\ waiters = <<>>
  /\ place = [c \in Clients |-> "out"]

\* Faulty variant: the entry stays in the queue.
SpliceNothing(w, i) == w

\* Faulty variant: the last waiter is moved into the gap.
SpliceBySwap(w, i) == [j \in 1..(Len(w) - 1) |-> IF j = i THEN w[Len(w)] ELSE w[j]]

\* waiters.splice(i, 1)
Splice(w, i) == [j \in 1..(Len(w) - 1) |-> IF j < i THEN w[j] ELSE w[j + 1]]

QueueFull == Len(waiters) >= MaxQueueSize

(***************************************************************************)
(* The three outcomes of run() on the lock that getOrCreateLock returns:   *)
(* refused, entered at once, queued.                                       *)
(***************************************************************************)
RunRefused(c) ==
  /\ place[c] = "out"
  /\ QueueFull
  /\ exists' = TRUE
  /\ UNCHANGED <<running, waiters, place>>

RunAtOnce(c) ==
  /\ place[c] = "out"
  /\ ~QueueFull
  /\ ~running
  /\ exists' = TRUE
  /\ running' = TRUE
  /\ place' = [place EXCEPT ![c] = "in"]
  /\ UNCHANGED waiters

RunQueued(c) ==
  /\ place[c] = "out"
  /\ ~QueueFull
  /\ running
  /\ waiters' = Append(waiters, c)
  /\ place' = [place EXCEPT ![c] = "queued"]
  /\ exists' = TRUE
  /\ UNCHANGED running

\* Faulty variant: a waiter that gives up releases a lock it never had.
WaitTimeoutReleases(c) ==
  /\ place[c] = "queued"
  /\ \E i \in DOMAIN waiters : waiters[i] = c /\ waiters' = Splice(waiters, i)
  /\ place' = [place EXCEPT ![c] = "out"]
  /\ running' = FALSE
  /\ UNCHANGED exists

\* The acquisition timeout: the waiter unlinks itself without advancing the queue.
WaitTimeout(c) ==
  /\ place[c] = "queued"
  /\ \E i \in DOMAIN waiters : waiters[i] = c /\ waiters' = Splice(waiters, i)
  /\ place' = [place EXCEPT ![c] = "out"]
  /\ UNCHANGED <<exists, running>>

\* Faulty variant: nobody is woken up.
ReleaseWakesNobody(c) ==
  /\ place[c] = "in"
  /\ running' = FALSE
  /\ place' = [place EXCEPT ![c] = "out"]
  /\ UNCHANGED <<exists, waiters>>

\* release(), from the finally clause of run(): the head of the queue inherits the lock.
Release(c) ==
  /\ place[c] = "in"
  /\ \/ /\ waiters # <<>>
        /\ waiters' = Tail(waiters)
        /\ place' = [place EXCEPT ![c] = "out", ![Head(waiters)] = "in"]
        /\ UNCHANGED running
     \/ /\ waiters = <<>>
        /\ running' = FALSE
        /\ place' = [place EXCEPT ![c] = "out"]
        /\ UNCHANGED waiters
  /\ UNCHANGED exists

\* Faulty variants: removeLock looks at the queue only; it wants a lock to remove.
RemovableWhileActive == exists => waiters = <<>>
RemovableOnlyIfExists ==
  exists /\ (\A c \in Clients : place[c] # "in") /\ waiters = <<>>

\* removeLock() refuses while a callback is active or a waiter is queued.
Removable == (\A c \in Clients : place[c] # "in") /\ (exists => waiters = <<>>)

\* The lock object is dropped; the next withLock starts with a new one.
RemoveLock ==
  /\ Removable
  /\ exists' = FALSE
  /\ running' = FALSE
  /\ waiters' = <<>>
  /\ UNCHANGED place

LockNext ==
  \/ \E c \in Clients : \/ RunRefused(c)
                        \/ RunAtOnce(c)
                        \/ RunQueued(c)
                        \/ WaitTimeout(c)
                        \/ Release(c)
  \/ RemoveLock

LockSpec == LockInit /\ [][LockNext]_lockVars

(***************************************************************************)
(* Callbacks end (their only awaits are local signature checks): every     *)
(* client that is in the lock eventually releases it.  Nothing is assumed  *)
(* of callers or of timeouts.                                              *)
(***************************************************************************)
FairLockSpec == LockSpec /\ \A c \in Clients : WF_lockVars(Release(c))

-----------------------------------------------------------------------------
\* The lock's fields have their types.
LockTypeOK ==
  /\ exists \in BOOLEAN
  /\ running \in BOOLEAN
  /\ waiters \in Seq(Clients)
  /\ place \in [Clients -> {"out", "queued", "in"}]

\* At most one callback of a session runs at a time, whatever timeouts,
\* refusals and lock removals happen in between (SessionLock's sole job).
MutualExclusion ==
  \A c, d \in Clients : place[c] = "in" /\ place[d] = "in" => c = d

\* No wake-up is lost: while clients are queued somebody is in the callback
\* and will release to them, and the queue holds exactly the queued clients,
\* each once.
QueueIsServed ==
  /\ waiters # <<>> => \E c \in Clients : place[c] = "in"
  /\ \A c \in Clients : place[c] = "queued" <=> \E i \in DOMAIN waiters : waiters[i] = c
  /\ \A i, j \in DOMAIN waiters : waiters[i] = waiters[j] => i = j

\* The running flag is up exactly while some callback runs.
RunningIsHeld == running <=> \E c \in Clients : place[c] = "in"

LockInv == LockTypeOK /\ MutualExclusion /\ QueueIsServed /\ RunningIsHeld

\* c is ahead of d in the queue.
Ahead(c, d) ==
  \E i, j \in DOMAIN waiters : i < j /\ waiters[i] = c /\ waiters[j] = d

\* First come, first served: nobody who comes later enters while clients are
\* queued, and of two queued clients the later one neither enters nor moves
\* ahead before the earlier one has left the queue; a waiter that times out in
\* the middle of the queue changes nothing of that.
NoOvertaking ==
  [][\A c, d \in Clients :
       /\ (place[d] = "out" /\ place'[d] = "in") => waiters = <<>>
       /\ Ahead(c, d) =>
            Ahead(c, d)' \/ place'[c] # "queued" \/ place'[d] = "out"]_lockVars

\* A queued client does not wait for ever, even if its timeout never fires.
WaitersLeaveQueue ==
  \A c \in Clients : place[c] = "queued" ~> place[c] # "queued"

=============================================================================

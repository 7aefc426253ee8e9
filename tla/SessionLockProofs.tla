------------------------- MODULE SessionLockProofs -------------------------
(***************************************************************************)
(* Proofs about SessionLock, for every set of clients and every queue      *)
(* bound.                                                                  *)
(***************************************************************************)
EXTENDS SessionLock, SequenceTheorems, TLAPS

\* Splicing one element out of a sequence keeps the others, in order.
LEMMA SpliceProperties ==
  ASSUME NEW S, NEW w \in Seq(S), NEW i \in DOMAIN w
  PROVE  /\ Splice(w, i) \in Seq(S)
         /\ Len(Splice(w, i)) = Len(w) - 1
         /\ \A j \in DOMAIN Splice(w, i) :
              Splice(w, i)[j] = IF j < i THEN w[j] ELSE w[j + 1]
<1>1. Len(w) \in Nat /\ DOMAIN w = 1..Len(w) /\ i \in 1..Len(w)
  OBVIOUS
<1>2. Len(w) - 1 \in Nat
  BY <1>1
<1>3. Splice(w, i) \in [1..(Len(w) - 1) -> S]
  <2>1. ASSUME NEW j \in 1..(Len(w) - 1)
        PROVE  (IF j < i THEN w[j] ELSE w[j + 1]) \in S
    BY <1>1
  <2>. QED BY <2>1 DEF Splice
<1>4. Splice(w, i) \in Seq(S)
  BY <1>2, <1>3, SeqDef
<1>5. DOMAIN Splice(w, i) = 1..(Len(w) - 1)
  BY DEF Splice
<1>6. Len(Splice(w, i)) = Len(w) - 1
  BY <1>2, <1>4, <1>5, LenProperties
<1>. QED BY <1>4, <1>5, <1>6 DEF Splice

\* The lock's invariant holds before any client calls withLock.
LEMMA LockInvInit == LockInit => LockInv
<1> SUFFICES ASSUME LockInit
             PROVE  LockInv
  OBVIOUS
<1>1. \A c \in Clients : place[c] = "out"
  BY DEF LockInit
<1>2. LockTypeOK
  <2>1. waiters \in Seq(Clients)
    BY DEF LockInit
  <2>2. place \in [Clients -> {"out", "queued", "in"}]
    BY DEF LockInit
  <2>3. exists \in BOOLEAN /\ running \in BOOLEAN
    BY DEF LockInit
  <2>. QED BY <2>1, <2>2, <2>3 DEF LockTypeOK
<1>3. MutualExclusion /\ RunningIsHeld
  BY <1>1 DEF LockInit, MutualExclusion, RunningIsHeld
<1>4. waiters = <<>> /\ DOMAIN waiters = {}
  BY DEF LockInit
<1>5. QueueIsServed
  BY <1>1, <1>4 DEF QueueIsServed
<1>. QED BY <1>2, <1>3, <1>5 DEF LockInv

\* A client that is timed out leaves the queue and nobody else does.
LEMMA TimeoutStep ==
  ASSUME LockInv, NEW c \in Clients, WaitTimeout(c)
  PROVE  LockInv'
<1> USE DEF LockInv, LockTypeOK
<1>1. PICK k \in DOMAIN waiters : waiters[k] = c /\ waiters' = Splice(waiters, k)
  BY DEF WaitTimeout
<1>2. /\ waiters' \in Seq(Clients)
      /\ Len(waiters') = Len(waiters) - 1
      /\ DOMAIN waiters' = 1..(Len(waiters) - 1)
      /\ \A j \in DOMAIN waiters' : waiters'[j] = IF j < k THEN waiters[j] ELSE waiters[j + 1]
  BY <1>1, SpliceProperties
<1>3. /\ place[c] = "queued" /\ place' = [place EXCEPT ![c] = "out"]
      /\ UNCHANGED <<exists, running>>
  BY DEF WaitTimeout
<1>4. LockTypeOK'
  BY <1>2, <1>3
<1>5. \A d \in Clients : place'[d] = "in" <=> place[d] = "in"
  BY <1>3
<1>6. MutualExclusion' /\ RunningIsHeld'
  BY <1>3, <1>5 DEF MutualExclusion, RunningIsHeld
<1>7. waiters # <<>>
  BY <1>1
<1>8. \A i, j \in DOMAIN waiters : waiters[i] = waiters[j] => i = j
  BY DEF QueueIsServed
<1>9. \A i, j \in DOMAIN waiters' : waiters'[i] = waiters'[j] => i = j
  BY <1>2, <1>8
<1>10. ASSUME NEW d \in Clients
       PROVE  place'[d] = "queued" <=> \E i \in DOMAIN waiters' : waiters'[i] = d
  <2>1. place[d] = "queued" <=> \E i \in DOMAIN waiters : waiters[i] = d
    BY DEF QueueIsServed
  <2>2. CASE d = c
    <3>1. \A j \in DOMAIN waiters' : waiters'[j] # c
      BY <1>1, <1>2, <1>8
    <3>. QED BY <1>3, <2>2, <3>1
  <2>3. CASE d # c
    <3>1. ASSUME NEW i \in DOMAIN waiters, waiters[i] = d
          PROVE  \E j \in DOMAIN waiters' : waiters'[j] = d
      <4>1. CASE i < k
        BY <1>2, <3>1, <4>1
      <4>2. CASE i > k
        <5>1. i - 1 \in DOMAIN waiters' /\ ~(i - 1 < k) /\ (i - 1) + 1 = i
          BY <1>2, <4>2
        <5>. QED BY <1>2, <3>1, <5>1
      <4>. QED BY <1>1, <2>3, <3>1, <4>1, <4>2
    <3>2. ASSUME NEW j \in DOMAIN waiters', waiters'[j] = d
          PROVE  \E i \in DOMAIN waiters : waiters[i] = d
      BY <1>2, <3>2
    <3>3. place'[d] = place[d]
      BY <1>3, <2>3
    <3>. QED BY <2>1, <3>1, <3>2, <3>3
  <2>. QED BY <2>2, <2>3
<1>11. \E d \in Clients : place'[d] = "in"
  BY <1>5, <1>7 DEF QueueIsServed
<1>12. QueueIsServed'
  BY <1>9, <1>10, <1>11 DEF QueueIsServed
<1>. QED BY <1>4, <1>6, <1>12

\* A client that comes while a callback runs is queued behind the others.
LEMMA QueuedStep ==
  ASSUME LockInv, NEW c \in Clients, RunQueued(c)
  PROVE  LockInv'
<1> USE DEF LockInv, LockTypeOK
<1>1. /\ place[c] = "out" /\ running
      /\ waiters' = Append(waiters, c)
      /\ place' = [place EXCEPT ![c] = "queued"]
      /\ exists' = TRUE /\ running' = running
  BY DEF RunQueued
<1>2. /\ waiters' \in Seq(Clients) /\ Len(waiters') = Len(waiters) + 1
      /\ DOMAIN waiters' = 1..(Len(waiters) + 1)
      /\ \A j \in DOMAIN waiters : waiters'[j] = waiters[j]
      /\ waiters'[Len(waiters) + 1] = c
  BY <1>1
<1>3. LockTypeOK'
  BY <1>1, <1>2
<1>4. \A d \in Clients : place'[d] = "in" <=> place[d] = "in"
  BY <1>1
<1>5. MutualExclusion' /\ RunningIsHeld'
  BY <1>1, <1>4 DEF MutualExclusion, RunningIsHeld
<1>6. \A i \in DOMAIN waiters : waiters[i] # c
  BY <1>1 DEF QueueIsServed
<1>7. \A i, j \in DOMAIN waiters' : waiters'[i] = waiters'[j] => i = j
  <2>1. \A i, j \in DOMAIN waiters : waiters[i] = waiters[j] => i = j
    BY DEF QueueIsServed
  <2>2. \A i \in DOMAIN waiters' : i \in DOMAIN waiters \/ i = Len(waiters) + 1
    BY <1>2
  <2>. QED BY <1>2, <1>6, <2>1, <2>2
<1>8. ASSUME NEW d \in Clients
      PROVE  place'[d] = "queued" <=> \E i \in DOMAIN waiters' : waiters'[i] = d
  <2>1. place[d] = "queued" <=> \E i \in DOMAIN waiters : waiters[i] = d
    BY DEF QueueIsServed
  <2>2. CASE d = c
    BY <1>1, <1>2, <2>2
  <2>3. CASE d # c
    <3>1. place'[d] = place[d]
      BY <1>1, <2>3
    <3>2. (\E i \in DOMAIN waiters' : waiters'[i] = d) <=> \E i \in DOMAIN waiters : waiters[i] = d
      <4>1. \A i \in DOMAIN waiters' : i \in DOMAIN waiters \/ i = Len(waiters) + 1
        BY <1>2
      <4>2. \A i \in DOMAIN waiters : i \in DOMAIN waiters'
        BY <1>2
      <4>. QED BY <1>2, <2>3, <4>1, <4>2
    <3>. QED BY <2>1, <3>1, <3>2
  <2>. QED BY <2>2, <2>3
<1>9. \E d \in Clients : place'[d] = "in"
  BY <1>1, <1>4 DEF RunningIsHeld
<1>10. QueueIsServed'
  BY <1>7, <1>8, <1>9 DEF QueueIsServed
<1>. QED BY <1>3, <1>5, <1>10

\* The one that leaves hands the lock to the head of the queue, or to nobody.
LEMMA ReleaseStep ==
  ASSUME LockInv, NEW c \in Clients, Release(c)
  PROVE  LockInv'
<1> USE DEF LockInv, LockTypeOK
<1>1. /\ place[c] = "in" /\ exists' = exists
      /\ \A d \in Clients : place[d] = "in" => d = c
  BY DEF Release, MutualExclusion
<1>2. CASE waiters # <<>>
  <2>1. /\ waiters' = Tail(waiters) /\ running' = running
        /\ place' = [place EXCEPT ![c] = "out", ![Head(waiters)] = "in"]
    BY <1>2 DEF Release
  <2> DEFINE h == waiters[1]
  <2>2. /\ Head(waiters) = h /\ h \in Clients /\ 1 \in DOMAIN waiters
        /\ waiters' \in Seq(Clients)
        /\ DOMAIN waiters' = 1..(Len(waiters) - 1)
        /\ \A j \in DOMAIN waiters' : j + 1 \in DOMAIN waiters /\ waiters'[j] = waiters[j + 1]
    BY <1>2, <2>1
  <2>3. place[h] = "queued"
    BY <2>2 DEF QueueIsServed
  <2>4. h # c /\ running
    BY <1>1, <2>3 DEF RunningIsHeld
  <2> HIDE DEF h
  <2>5. /\ place'[c] = "out" /\ place'[h] = "in"
        /\ \A d \in Clients : d # c /\ d # h => place'[d] = place[d]
    BY <2>1, <2>2, <2>4
  <2>6. LockTypeOK'
    BY <1>1, <2>1, <2>2
  <2>7. MutualExclusion' /\ RunningIsHeld'
    BY <1>1, <2>1, <2>2, <2>4, <2>5 DEF MutualExclusion, RunningIsHeld
  <2>8. \A i, j \in DOMAIN waiters : waiters[i] = waiters[j] => i = j
    BY DEF QueueIsServed
  <2>9. \A i, j \in DOMAIN waiters' : waiters'[i] = waiters'[j] => i = j
    BY <2>2, <2>8
  <2>10. ASSUME NEW d \in Clients
         PROVE  place'[d] = "queued" <=> \E i \in DOMAIN waiters' : waiters'[i] = d
    <3>1. place[d] = "queued" <=> \E i \in DOMAIN waiters : waiters[i] = d
      BY DEF QueueIsServed
    <3>2. ASSUME d # h, NEW i \in DOMAIN waiters, waiters[i] = d
          PROVE  \E j \in DOMAIN waiters' : waiters'[j] = d
      <4>1. i # 1
        BY <3>2 DEF h
      <4>2. i - 1 \in DOMAIN waiters' /\ (i - 1) + 1 = i
        BY <2>2, <4>1
      <4>. QED BY <2>2, <3>2, <4>2
    <3>3. ASSUME NEW j \in DOMAIN waiters', waiters'[j] = d
          PROVE  d # h /\ \E i \in DOMAIN waiters : waiters[i] = d
      BY <2>2, <2>8, <3>3 DEF h
    <3>4. CASE d = h
      BY <2>5, <3>3, <3>4
    <3>5. CASE d # h
      BY <1>1, <2>5, <3>1, <3>2, <3>3, <3>5
    <3>. QED BY <3>4, <3>5
  <2>11. QueueIsServed'
    BY <2>2, <2>5, <2>9, <2>10 DEF QueueIsServed
  <2>. QED BY <2>6, <2>7, <2>11
<1>3. CASE waiters = <<>>
  <2>1. /\ waiters' = waiters /\ running' = FALSE
        /\ place' = [place EXCEPT ![c] = "out"]
    BY <1>3 DEF Release
  <2>2. LockTypeOK'
    BY <1>1, <2>1
  <2>3. \A d \in Clients : place'[d] # "in"
    BY <1>1, <2>1
  <2>4. MutualExclusion' /\ RunningIsHeld'
    BY <2>1, <2>3 DEF MutualExclusion, RunningIsHeld
  <2>5. \A d \in Clients : place'[d] = "queued" <=> place[d] = "queued"
    BY <1>1, <2>1
  <2>6. QueueIsServed'
    BY <1>3, <2>1, <2>5 DEF QueueIsServed
  <2>. QED BY <2>2, <2>4, <2>6
<1>. QED BY <1>2, <1>3

\* The lock's invariant is inductive.
LEMMA LockInvStep == LockInv /\ [LockNext]_lockVars => LockInv'
<1> SUFFICES ASSUME LockInv, [LockNext]_lockVars
             PROVE  LockInv'
  OBVIOUS
<1>1. ASSUME NEW c \in Clients, RunRefused(c)
      PROVE  LockInv'
  BY <1>1 DEF RunRefused, LockInv, LockTypeOK, MutualExclusion, QueueIsServed, RunningIsHeld
<1>2. ASSUME NEW c \in Clients, RunAtOnce(c)
      PROVE  LockInv'
  <2>1. /\ running = FALSE /\ running' = TRUE /\ exists' = TRUE /\ waiters' = waiters
        /\ place[c] = "out" /\ place' = [place EXCEPT ![c] = "in"]
    BY <1>2 DEF RunAtOnce, LockInv, LockTypeOK
  <2>2. \A d \in Clients : place[d] # "in"
    BY <2>1 DEF LockInv, RunningIsHeld
  <2>3. LockTypeOK'
    BY <2>1 DEF LockInv, LockTypeOK
  <2>4. \A d \in Clients : (place'[d] = "in" <=> d = c) /\ (d # c => place'[d] = place[d])
    BY <2>1, <2>2 DEF LockInv, LockTypeOK
  <2>5. MutualExclusion' /\ RunningIsHeld'
    BY <2>1, <2>4 DEF MutualExclusion, RunningIsHeld
  <2>6. QueueIsServed'
    BY <2>1, <2>4 DEF LockInv, QueueIsServed
  <2>. QED BY <2>3, <2>5, <2>6 DEF LockInv
<1>3. CASE RemoveLock
  <2>1. /\ \A c \in Clients : place[c] # "in"
        /\ exists' = FALSE /\ running' = FALSE /\ waiters' = <<>> /\ place' = place
    BY <1>3 DEF RemoveLock, Removable
  <2>2. waiters = <<>>
    BY <2>1 DEF LockInv, QueueIsServed
  <2>3. LockTypeOK'
    <3>1. waiters' \in Seq(Clients)
      BY <2>1
    <3>. QED BY <2>1, <3>1, Zenon DEF LockInv, LockTypeOK
  <2>4. MutualExclusion' /\ RunningIsHeld' /\ QueueIsServed'
    BY <2>1, <2>2 DEF LockInv, MutualExclusion, RunningIsHeld, QueueIsServed
  <2>. QED BY <2>3, <2>4 DEF LockInv
<1>4. CASE UNCHANGED lockVars
  BY <1>4 DEF lockVars, LockInv, LockTypeOK, MutualExclusion, QueueIsServed, RunningIsHeld
<1>. QED BY <1>1, <1>2, <1>3, <1>4, QueuedStep, TimeoutStep, ReleaseStep DEF LockNext

\* At most one callback of a session runs at a time, for any number of clients
\* and any queue bound (SessionLock.run, release, removeLock).
THEOREM SectionsExclude == LockSpec => []MutualExclusion
<1>1. LockInv => MutualExclusion
  BY DEF LockInv
<1>. QED BY <1>1, LockInvInit, LockInvStep, PTL DEF LockSpec

\* No waiter is ever stranded: the queue holds the queued clients, each once, and
\* somebody is in the callback to release to them.
THEOREM NoWaiterIsLost == LockSpec => []QueueIsServed
<1>1. LockInv => QueueIsServed
  BY DEF LockInv
<1>. QED BY <1>1, LockInvInit, LockInvStep, PTL DEF LockSpec

\* The lock is handed over first come, first served, whoever times out in between.
THEOREM ServedInOrder == LockSpec => NoOvertaking
<1> DEFINE Fair == \A c, d \in Clients :
                     /\ (place[d] = "out" /\ place'[d] = "in") => waiters = <<>>
                     /\ Ahead(c, d) =>
                          Ahead(c, d)' \/ place'[c] # "queued" \/ place'[d] = "out"
<1>1. LockInv /\ [LockNext]_lockVars => [Fair]_lockVars
  <2> SUFFICES ASSUME LockInv, LockNext
               PROVE  Fair
    BY DEF lockVars
  <2>0. /\ waiters \in Seq(Clients) /\ place \in [Clients -> {"out", "queued", "in"}]
        /\ \A i, j \in DOMAIN waiters : waiters[i] = waiters[j] => i = j
        /\ \A c \in Clients : place[c] = "queued" <=> \E i \in DOMAIN waiters : waiters[i] = c
    BY DEF LockInv, LockTypeOK, QueueIsServed
  <2>1. ASSUME NEW b \in Clients, RunRefused(b)
        PROVE  Fair
    BY <2>1 DEF RunRefused, Ahead
  <2>2. ASSUME NEW b \in Clients, RunAtOnce(b)
        PROVE  Fair
    BY <2>2 DEF LockInv, RunningIsHeld, QueueIsServed, RunAtOnce, Ahead
  <2>3. ASSUME NEW b \in Clients, RunQueued(b)
        PROVE  Fair
    <3>1. /\ DOMAIN waiters \subseteq DOMAIN waiters'
          /\ \A i \in DOMAIN waiters : waiters'[i] = waiters[i]
      BY <2>0, <2>3 DEF RunQueued
    <3>2. \A c, d \in Clients : Ahead(c, d) => Ahead(c, d)'
      BY <3>1 DEF Ahead
    <3>3. \A d \in Clients : ~(place[d] = "out" /\ place'[d] = "in")
      BY <2>0, <2>3 DEF RunQueued
    <3>. QED BY <3>2, <3>3
  <2>4. ASSUME NEW b \in Clients, WaitTimeout(b)
        PROVE  Fair
    <3>1. PICK k \in DOMAIN waiters : waiters[k] = b /\ waiters' = Splice(waiters, k)
      BY <2>4 DEF WaitTimeout
    <3>2. /\ DOMAIN waiters' = 1..(Len(waiters) - 1)
          /\ \A j \in DOMAIN waiters' :
               waiters'[j] = IF j < k THEN waiters[j] ELSE waiters[j + 1]
      BY <2>0, <3>1, SpliceProperties
    <3>3. place' = [place EXCEPT ![b] = "out"]
      BY <2>4 DEF WaitTimeout
    <3>4. ASSUME NEW c \in Clients, NEW d \in Clients, Ahead(c, d), c # b, d # b
          PROVE  Ahead(c, d)'
      <4>1. PICK i \in DOMAIN waiters, j \in DOMAIN waiters :
              i < j /\ waiters[i] = c /\ waiters[j] = d
        BY <3>4 DEF Ahead
      <4>2. i # k /\ j # k
        BY <3>1, <3>4, <4>1
      <4> DEFINE ni == IF i < k THEN i ELSE i - 1
                 nj == IF j < k THEN j ELSE j - 1
      <4>3. /\ ni \in DOMAIN waiters' /\ nj \in DOMAIN waiters' /\ ni < nj
            /\ (IF ni < k THEN ni ELSE ni + 1) = i
            /\ (IF nj < k THEN nj ELSE nj + 1) = j
        BY <2>0, <3>2, <4>1, <4>2
      <4>4. waiters'[ni] = c /\ waiters'[nj] = d
        BY <3>2, <4>1, <4>3
      <4> HIDE DEF ni, nj
      <4>. QED BY <4>3, <4>4 DEF Ahead
    <3>. QED BY <2>0, <3>3, <3>4
  <2>5. ASSUME NEW b \in Clients, Release(b)
        PROVE  Fair
    <3>1. CASE waiters = <<>>
      BY <2>0, <2>5, <3>1 DEF Release, Ahead
    <3>2. CASE waiters # <<>>
      <4> DEFINE h == waiters[1]
      <4>1. /\ h \in Clients /\ 1 \in DOMAIN waiters
            /\ waiters' = Tail(waiters)
            /\ place' = [place EXCEPT ![b] = "out", ![h] = "in"]
        BY <2>0, <2>5, <3>2 DEF Release
      <4>2. /\ DOMAIN waiters' = 1..(Len(waiters) - 1)
            /\ \A j \in DOMAIN waiters' : waiters'[j] = waiters[j + 1]
        BY <2>0, <3>2, <4>1
      <4>3. place[h] = "queued" /\ place[b] = "in"
        BY <2>0, <2>5, <4>1 DEF Release
      <4>4. ASSUME NEW d \in Clients, place[d] = "out", place'[d] = "in"
            PROVE  FALSE
        BY <2>0, <4>1, <4>3, <4>4
      <4>5. ASSUME NEW c \in Clients, NEW d \in Clients, Ahead(c, d), c # h
            PROVE  Ahead(c, d)'
        <5>1. PICK i \in DOMAIN waiters, j \in DOMAIN waiters :
                i < j /\ waiters[i] = c /\ waiters[j] = d
          BY <4>5 DEF Ahead
        <5>2. i # 1
          BY <4>5, <5>1
        <5>3. /\ i - 1 \in DOMAIN waiters' /\ j - 1 \in DOMAIN waiters' /\ i - 1 < j - 1
              /\ (i - 1) + 1 = i /\ (j - 1) + 1 = j
          BY <2>0, <4>2, <5>1, <5>2
        <5>4. waiters'[i - 1] = c /\ waiters'[j - 1] = d
          BY <4>2, <5>1, <5>3
        <5>. QED BY <5>3, <5>4 DEF Ahead
      <4>6. place'[h] = "in"
        BY <2>0, <4>1
      <4> HIDE DEF h
      <4>. QED BY <4>4, <4>5, <4>6
    <3>. QED BY <3>1, <3>2
  <2>6. CASE RemoveLock
    <3>1. waiters = <<>> /\ place' = place
      BY <2>6 DEF RemoveLock, Removable, LockInv, QueueIsServed
    <3>. QED BY <3>1 DEF Ahead
  <2>. QED BY <2>1, <2>2, <2>3, <2>4, <2>5, <2>6 DEF LockNext
<1>. QED BY <1>1, LockInvInit, LockInvStep, PTL DEF LockSpec, NoOvertaking

=============================================================================

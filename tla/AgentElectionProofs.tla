------------------------ MODULE AgentElectionProofs ------------------------
(***************************************************************************)
(* The safety properties of AgentElection for any number of replicas and   *)
(* any durations.                                                          *)
(***************************************************************************)
EXTENDS AgentElection, TLAPS, FiniteSetTheorems

\* A response is faster than a lease expires, and no leader that has lost its
\* lease is left when the next lease expires.
ShortLag == MaxLag < Lease /\ MaxLag + Retry + Deadline < 2 * Lease

\* Where a process can be: its server starts only after it has been elected, and
\* is shut down for good while it stops.
ProcessInv ==
  \A r \in Replica :
    /\ app[r] # "off" => elector[r] \in {"waiting", "renewing", "stopping"}
    /\ closed[r] => elector[r] = "stopping" /\ app[r] # "serving"
    /\ call[r] # "none" => elector[r] \in {"acquiring", "renewing"}

\* How long its timers may run.
TimerInv ==
  \A r \in Replica :
    /\ elector[r] = "acquiring" => timer[r] <= MaxPoll
    /\ elector[r] = "waiting" => timer[r] <= Retry
    /\ elector[r] = "renewing" => timer[r] <= Deadline
    /\ elector[r] \in {"down", "stopping"} => timer[r] = 0

\* The time since a leader received the response to its last update, at most.
Since(r) == IF elector[r] = "waiting" THEN timer[r] ELSE Retry + timer[r]

\* What the replicas have observed of the current record, a time ago of at most n.
SeenWithin(n) == \A q \in Replica : seen[q] => seenAge[q] <= n

\* The same without the writer r of the record.
OthersSeenWithin(r, n) == \A q \in Replica \ {r} : seen[q] => seenAge[q] <= n

\* An update that was sent finds its record free, if it is still the record; one
\* that was applied is still the record.
CallInv ==
  \A r \in Replica :
    /\ call[r] = "sent" /\ seen[r] => holder \in {None, r} \/ seenAge[r] >= Lease
    /\ call[r] = "applied" => holder = r /\ OthersSeenWithin(r, lag[r])

\* The record of a leader is as old as its last success; that of another is as
\* new as the time by which the leader has outlived its own.
LeaderInv ==
  \A r \in Replica : Leads(r) =>
    /\ holder # None
    /\ holder = r => OthersSeenWithin(r, MaxLag + Since(r))
    /\ holder # r => Since(r) + MaxLag >= Lease /\ SeenWithin(Since(r) + MaxLag - Lease)

\* One leader at most has lost its lease.
StaleInv ==
  \A r, s \in Replica : Leads(r) /\ Leads(s) /\ r # s => holder \in {r, s}

\* While two replicas serve, a leader without the lease has outlived it for as
\* long, and the lease is too new to be taken.
OverlapInv ==
  /\ overlap <= MaxOverlap
  /\ overlap > 0 =>
       /\ holder # None
       /\ SeenWithin(MaxOverlap)
       /\ \A r \in Replica : Leads(r) /\ holder # r => overlap <= Since(r) + MaxLag - Lease

IInv == TypeOK /\ ProcessInv /\ TimerInv /\ CallInv /\ LeaderInv /\ StaleInv /\ OverlapInv

USE ReplicaAssumption, TimeAssumption

-----------------------------------------------------------------------------
\* The invariant holds when all replicas start and nobody has the lease.
LEMMA InitInv == Init => IInv
<1> SUFFICES ASSUME Init PROVE IInv
  OBVIOUS
<1>1. MaxOverlap \in Nat
  BY DEF MaxOverlap
<1>2. TypeOK
  BY <1>1 DEF Init, TypeOK
<1>3. ProcessInv /\ TimerInv /\ CallInv
  BY DEF Init, ProcessInv, TimerInv, CallInv
<1>4. LeaderInv /\ StaleInv /\ OverlapInv
  BY <1>1 DEF Init, LeaderInv, StaleInv, OverlapInv, Leads
<1>5. QED
  BY <1>2, <1>3, <1>4 DEF IInv

-----------------------------------------------------------------------------
(* The process *)

\* The types of the variables of a process, but for the server's.
ElectorTyped ==
  /\ elector \in [Replica -> {"down", "acquiring", "waiting", "renewing", "stopping"}]
  /\ timer \in [Replica -> 0 .. MaxPoll + Deadline]
  /\ due \in [Replica -> BOOLEAN]
  /\ call \in [Replica -> {"none", "sent", "applied"}]
  /\ lag \in [Replica -> 0 .. MaxLag]

AppTyped ==
  /\ app \in [Replica -> {"off", "building", "syncing", "serving"}]
  /\ closed \in [Replica -> BOOLEAN]

\* The other replicas are not touched.
ElectorsKept(r) ==
  \A q \in Replica \ {r} : /\ elector'[q] = elector[q] /\ timer'[q] = timer[q]
                          /\ call'[q] = call[q] /\ lag'[q] = lag[q]

AppsKept(r) == \A q \in Replica \ {r} : app'[q] = app[q] /\ closed'[q] = closed[q]

\* What a process that ends leaves.
LEMMA EndsKept ==
  ASSUME IInv, NEW r \in Replica, Ends(r)
  PROVE  /\ ElectorTyped' /\ AppTyped' /\ ElectorsKept(r) /\ AppsKept(r)
         /\ elector'[r] = "down" /\ timer'[r] = 0 /\ call'[r] = "none"
         /\ app'[r] = "off" /\ ~closed'[r]
<1>1. ElectorTyped' /\ ElectorsKept(r)
  BY DEF IInv, TypeOK, Ends, ElectorTyped, ElectorsKept
<1>2. AppTyped' /\ AppsKept(r)
  BY DEF IInv, TypeOK, Ends, AppTyped, AppsKept
<1>3. /\ elector'[r] = "down" /\ timer'[r] = 0 /\ call'[r] = "none"
      /\ app'[r] = "off" /\ ~closed'[r]
  BY DEF IInv, TypeOK, Ends
<1>4. QED
  BY <1>1, <1>2, <1>3

\* What an elector leaves that changes its state.
LEMMA ElectorKept ==
  ASSUME IInv, NEW r \in Replica, NEW e \in {"waiting", "renewing", "stopping"},
         NEW d \in BOOLEAN, ElectorAt(r, e, 0, d)
  PROVE  /\ ElectorTyped' /\ ElectorsKept(r)
         /\ elector'[r] = e /\ timer'[r] = 0 /\ call'[r] = "none"
BY DEF IInv, TypeOK, ElectorAt, ElectorTyped, ElectorsKept

\* A step that ends the leadership of some, keeps the record and what is seen of
\* it, and leaves the other leaders no younger, does no harm.
LEMMA LeaseKept ==
  ASSUME IInv, TypeOK', UNCHANGED <<holder, seen, seenAge, overlap>>,
         \A r \in Replica :
           /\ Leads(r)' => Leads(r) /\ Since(r)' >= Since(r)
           /\ call'[r] = "none" \/ (call'[r] = call[r] /\ lag'[r] = lag[r])
  PROVE  CallInv' /\ LeaderInv' /\ StaleInv' /\ OverlapInv'
<1>1. CallInv'
  BY DEF IInv, CallInv, OthersSeenWithin
<1>2. \A r \in Replica : Leads(r)' => Since(r) \in Int /\ Since(r)' \in Int
  BY DEF IInv, TypeOK, Since
<1>3. \A q \in Replica : seenAge[q] \in Int
  BY DEF IInv, TypeOK
<1>4. LeaderInv'
  BY <1>2, <1>3 DEF IInv, LeaderInv, OthersSeenWithin, SeenWithin
<1>5. StaleInv'
  BY DEF IInv, StaleInv
<1>6. OverlapInv'
  <2>1. MaxOverlap \in Nat /\ overlap \in Int
    BY DEF IInv, TypeOK, MaxOverlap
  <2>2. MaxOverlap' = MaxOverlap
    BY DEF MaxOverlap
  <2>3. overlap > 0 => SeenWithin(MaxOverlap)'
    BY <2>2 DEF IInv, OverlapInv, SeenWithin
  <2>4. \A r \in Replica : overlap > 0 /\ Leads(r)' /\ holder # r
                          => overlap <= Since(r)' + MaxLag - Lease
    BY <1>2, <2>1 DEF IInv, OverlapInv
  <2>5. QED
    BY <2>2, <2>3, <2>4 DEF IInv, OverlapInv
<1>7. QED
  BY <1>1, <1>4, <1>5, <1>6

\* The end of a process, for whatever reason.
LEMMA EndsInv ==
  ASSUME IInv, NEW r \in Replica, Ends(r), UNCHANGED <<holder, seen, seenAge, overlap>>,
         online' \in [Replica -> BOOLEAN], faults' \in 0 .. MaxFaults
  PROVE  IInv'
<1>1. /\ ElectorTyped' /\ AppTyped' /\ ElectorsKept(r) /\ AppsKept(r)
      /\ elector'[r] = "down" /\ timer'[r] = 0 /\ call'[r] = "none"
      /\ app'[r] = "off" /\ ~closed'[r]
  BY EndsKept
<1>2. TypeOK'
  BY <1>1 DEF IInv, TypeOK, ElectorTyped, AppTyped, MaxOverlap
<1>3. ProcessInv' /\ TimerInv'
  BY <1>1 DEF IInv, ElectorsKept, AppsKept, ProcessInv, TimerInv
<1>4. \A q \in Replica : Leads(q)' => Leads(q) /\ Since(q)' >= Since(q)
  BY <1>1 DEF Leads, Since, ElectorsKept, IInv, TypeOK
<1>5. CallInv' /\ LeaderInv' /\ StaleInv' /\ OverlapInv'
  BY <1>1, <1>2, <1>4, LeaseKept DEF ElectorsKept
<1>6. QED
  BY <1>2, <1>3, <1>5 DEF IInv

\* An elector that stops: renew has given up, or the process is to terminate.
LEMMA StopsInv ==
  ASSUME IInv, NEW r \in Replica, elector[r] \in {"acquiring", "waiting", "renewing"},
         ElectorAt(r, "stopping", 0, FALSE),
         UNCHANGED <<holder, seen, seenAge, app, closed, overlap>>,
         online' \in [Replica -> BOOLEAN], faults' \in 0 .. MaxFaults
  PROVE  IInv'
<1>1. /\ ElectorTyped' /\ ElectorsKept(r)
      /\ elector'[r] = "stopping" /\ timer'[r] = 0 /\ call'[r] = "none"
  BY ElectorKept
<1>2. TypeOK'
  BY <1>1 DEF IInv, TypeOK, ElectorTyped, MaxOverlap
<1>3. ProcessInv' /\ TimerInv'
  BY <1>1 DEF IInv, ElectorsKept, ProcessInv, TimerInv
<1>4. \A q \in Replica : Leads(q)' => Leads(q) /\ Since(q)' >= Since(q)
  BY <1>1 DEF Leads, Since, ElectorsKept, IInv, TypeOK
<1>5. CallInv' /\ LeaderInv' /\ StaleInv' /\ OverlapInv'
  BY <1>1, <1>2, <1>4, LeaseKept DEF ElectorsKept
<1>6. QED
  BY <1>2, <1>3, <1>5 DEF IInv

\* A Get that fails ends an attempt, nothing more.
LEMMA GetFailsInv == ASSUME NEW r \in Replica PROVE IInv /\ GetFails(r) => IInv'
<1> SUFFICES ASSUME IInv, GetFails(r) PROVE IInv'
  OBVIOUS
<1>1. /\ elector[r] \in {"acquiring", "renewing"} /\ call[r] = "none"
      /\ timer' = [timer EXCEPT ![r] = IF elector[r] = "acquiring" THEN 0 ELSE @]
      /\ due' = [due EXCEPT ![r] = FALSE]
      /\ UNCHANGED <<holder, elector, call, lag, seen, seenAge, app, closed, online, faults,
                     overlap>>
  BY DEF GetFails, Asks
<1>2. TypeOK'
  BY <1>1 DEF IInv, TypeOK
<1>3. ProcessInv' /\ TimerInv'
  BY <1>1 DEF IInv, TypeOK, ProcessInv, TimerInv
<1>4. \A q \in Replica : Leads(q)' => Leads(q) /\ Since(q)' = Since(q) /\ Since(q) \in Int
  BY <1>1 DEF Leads, Since, IInv, TypeOK
<1>5. CallInv' /\ LeaderInv' /\ StaleInv' /\ OverlapInv'
  BY <1>1, <1>2, <1>4, LeaseKept
<1>6. QED
  BY <1>2, <1>3, <1>5 DEF IInv

\* So does an update that fails.
LEMMA UpdateFailsInv == ASSUME NEW r \in Replica PROVE IInv /\ UpdateFails(r) => IInv'
<1> SUFFICES ASSUME IInv, UpdateFails(r) PROVE IInv'
  OBVIOUS
<1>1. /\ call' = [call EXCEPT ![r] = "none"] /\ lag' = [lag EXCEPT ![r] = 0]
      /\ UNCHANGED <<holder, elector, timer, due, seen, seenAge, app, closed, online, faults,
                     overlap>>
  BY DEF UpdateFails
<1>2. TypeOK'
  BY <1>1 DEF IInv, TypeOK
<1>3. ProcessInv' /\ TimerInv'
  BY <1>1 DEF IInv, TypeOK, ProcessInv, TimerInv
<1>4. \A q \in Replica : Leads(q)' => Leads(q) /\ Since(q)' = Since(q) /\ Since(q) \in Int
  BY <1>1 DEF Leads, Since, IInv, TypeOK
<1>5. \A q \in Replica : call'[q] = "none" \/ (call'[q] = call[q] /\ lag'[q] = lag[q])
  BY <1>1 DEF IInv, TypeOK
<1>6. CallInv' /\ LeaderInv' /\ StaleInv' /\ OverlapInv'
  BY <1>1, <1>2, <1>4, <1>5, LeaseKept
<1>7. QED
  BY <1>2, <1>3, <1>6 DEF IInv

\* A round begins when RetryPeriod has passed: a leader gets no younger.
LEMMA BeginRoundInv == ASSUME NEW r \in Replica PROVE IInv /\ BeginRound(r) => IInv'
<1> SUFFICES ASSUME IInv, BeginRound(r) PROVE IInv'
  OBVIOUS
<1>1. /\ elector[r] = "waiting" /\ timer[r] >= Retry /\ ElectorAt(r, "renewing", 0, TRUE)
      /\ UNCHANGED <<holder, seen, seenAge, app, closed, online, faults, overlap>>
  BY DEF BeginRound
<1>2. /\ ElectorTyped' /\ ElectorsKept(r)
      /\ elector'[r] = "renewing" /\ timer'[r] = 0 /\ call'[r] = "none"
  BY <1>1, ElectorKept
<1>3. timer[r] = Retry
  BY <1>1 DEF IInv, TypeOK, TimerInv
<1>4. TypeOK'
  BY <1>1, <1>2 DEF IInv, TypeOK, ElectorTyped, MaxOverlap
<1>5. ProcessInv' /\ TimerInv'
  BY <1>1, <1>2 DEF IInv, ElectorsKept, ProcessInv, TimerInv
<1>6. \A q \in Replica : Leads(q)' => Leads(q) /\ Since(q)' >= Since(q)
  BY <1>1, <1>2, <1>3 DEF Leads, Since, ElectorsKept, IInv, TypeOK
<1>7. CallInv' /\ LeaderInv' /\ StaleInv' /\ OverlapInv'
  BY <1>1, <1>2, <1>4, <1>6, LeaseKept DEF ElectorsKept
<1>8. QED
  BY <1>4, <1>5, <1>7 DEF IInv

\* OnStartedLeading goes on, the server is shut down, or the connection changes.
LEMMA AppInv ==
  ASSUME IInv, UNCHANGED <<holder, elector, timer, due, call, lag, seen, seenAge, overlap>>,
         app' \in [Replica -> {"off", "building", "syncing", "serving"}],
         closed' \in [Replica -> BOOLEAN], online' \in [Replica -> BOOLEAN],
         faults' \in 0 .. MaxFaults,
         \A q \in Replica : app[q] = "off" => app'[q] = "off",
         \A q \in Replica : closed'[q] => elector[q] = "stopping" /\ app'[q] # "serving"
  PROVE  IInv'
<1>1. TypeOK'
  BY DEF IInv, TypeOK
<1>2. ProcessInv' /\ TimerInv'
  BY DEF IInv, TypeOK, ProcessInv, TimerInv
<1>3. \A q \in Replica : Leads(q)' => Leads(q) /\ Since(q)' = Since(q) /\ Since(q) \in Int
  BY DEF Leads, Since, IInv, TypeOK
<1>4. CallInv' /\ LeaderInv' /\ StaleInv' /\ OverlapInv'
  BY <1>1, <1>3, LeaseKept
<1>5. QED
  BY <1>1, <1>2, <1>4 DEF IInv

\* The callbacks of the elector, and the end they may come to.
LEMMA CallbacksInv == ASSUME NEW r \in Replica PROVE IInv /\ Callbacks(r) => IInv'
<1> SUFFICES ASSUME IInv, Callbacks(r) PROVE IInv'
  OBVIOUS
<1>0. AppTyped /\ online \in [Replica -> BOOLEAN] /\ faults \in 0 .. MaxFaults
  BY DEF IInv, TypeOK, AppTyped
<1>1. \A q \in Replica : closed[q] => elector[q] = "stopping" /\ app[q] # "serving"
  BY DEF IInv, ProcessInv
<1>2. CASE BuildCollectors(r)
  <2>1. UNCHANGED <<holder, seen, seenAge, online, faults, overlap>>
    BY <1>2 DEF BuildCollectors
  <2>2. CASE Ends(r)
    BY <1>0, <2>1, <2>2, EndsInv
  <2>3. CASE ~Ends(r)
    <3>1. /\ app[r] = "building" /\ app' = [app EXCEPT ![r] = "syncing"]
          /\ UNCHANGED <<elector, timer, due, call, lag, closed>>
      BY <1>2, <2>3 DEF BuildCollectors
    <3>2. /\ AppTyped' /\ \A q \in Replica : app[q] = "off" => app'[q] = "off"
          /\ \A q \in Replica : app'[q] = "serving" => app[q] = "serving"
      BY <1>0, <3>1 DEF AppTyped
    <3>3. QED
      BY <1>0, <1>1, <2>1, <3>1, <3>2, AppInv DEF AppTyped
  <2>4. QED
    BY <2>2, <2>3
<1>3. CASE Listen(r)
  <2>1. UNCHANGED <<holder, seen, seenAge, online, faults, overlap>>
    BY <1>3 DEF Listen
  <2>2. CASE Ends(r)
    BY <1>0, <2>1, <2>2, EndsInv
  <2>3. CASE ~Ends(r)
    <3>1. /\ app[r] = "syncing" /\ ~closed[r] /\ app' = [app EXCEPT ![r] = "serving"]
          /\ UNCHANGED <<elector, timer, due, call, lag, closed>>
      BY <1>3, <2>3 DEF Listen
    <3>2. /\ AppTyped' /\ \A q \in Replica : app[q] = "off" => app'[q] = "off"
          /\ \A q \in Replica \ {r} : app'[q] = app[q]
      BY <1>0, <3>1 DEF AppTyped
    <3>3. QED
      BY <1>0, <1>1, <2>1, <3>1, <3>2, AppInv DEF AppTyped
  <2>4. QED
    BY <2>2, <2>3
<1>4. CASE Shutdown(r)
  <2>1. /\ elector[r] = "stopping" /\ closed' = [closed EXCEPT ![r] = TRUE]
        /\ app' = [app EXCEPT ![r] = IF @ = "serving" THEN "off" ELSE @]
        /\ UNCHANGED <<holder, elector, timer, due, call, lag, seen, seenAge, online, faults,
                       overlap>>
    BY <1>4 DEF Shutdown
  <2>2. /\ AppTyped' /\ \A q \in Replica : app[q] = "off" => app'[q] = "off"
        /\ app'[r] # "serving"
        /\ \A q \in Replica \ {r} : app'[q] = app[q] /\ closed'[q] = closed[q]
    BY <1>0, <2>1 DEF AppTyped
  <2>3. QED
    BY <1>0, <1>1, <2>1, <2>2, AppInv DEF AppTyped
<1>5. CASE Exit(r)
  <2>1. Ends(r) /\ UNCHANGED <<holder, seen, seenAge, online, faults, overlap>>
    BY <1>5 DEF Exit
  <2>2. QED
    BY <1>0, <2>1, EndsInv
<1>6. QED
  BY <1>2, <1>3, <1>4, <1>5 DEF Callbacks

\* Crashes, terminations, and a connection that breaks and comes back.
LEMMA FaultyInv ==
  ASSUME NEW r \in Replica PROVE IInv /\ (Faulty(r) \/ Reconnect(r)) => IInv'
<1> SUFFICES ASSUME IInv, Faulty(r) \/ Reconnect(r) PROVE IInv'
  OBVIOUS
<1>0. /\ AppTyped /\ online \in [Replica -> BOOLEAN] /\ faults \in 0 .. MaxFaults
      /\ Fault => faults' \in 0 .. MaxFaults
  BY DEF IInv, TypeOK, AppTyped, Fault
<1>1. \A q \in Replica : closed[q] => elector[q] = "stopping" /\ app[q] # "serving"
  BY DEF IInv, ProcessInv
<1>2. CASE Crash(r)
  <2>1. Fault /\ Ends(r) /\ UNCHANGED <<holder, seen, seenAge, online, overlap>>
    BY <1>2 DEF Crash
  <2>2. QED
    BY <1>0, <2>1, EndsInv
<1>3. CASE Terminate(r)
  <2>1. /\ elector[r] \in {"acquiring", "waiting", "renewing"}
        /\ Fault /\ ElectorAt(r, "stopping", 0, FALSE)
        /\ UNCHANGED <<holder, seen, seenAge, app, closed, online, overlap>>
    BY <1>3 DEF Terminate
  <2>2. QED
    BY <1>0, <2>1, StopsInv
<1>4. CASE Disconnect(r) \/ Reconnect(r)
  <2>1. /\ UNCHANGED <<holder, elector, timer, due, call, lag, app, closed, seen, seenAge,
                       overlap>>
        /\ online' \in [Replica -> BOOLEAN] /\ faults' \in 0 .. MaxFaults
    BY <1>0, <1>4 DEF Disconnect, Reconnect, processVars
  <2>2. QED
    BY <1>0, <1>1, <2>1, AppInv DEF AppTyped
<1>5. QED
  BY <1>2, <1>3, <1>4 DEF Faulty

\* No update within RenewDeadline.
LEMMA GiveUpInv == ASSUME NEW r \in Replica PROVE IInv /\ GiveUp(r) => IInv'
<1> SUFFICES ASSUME IInv, GiveUp(r) PROVE IInv'
  OBVIOUS
<1>1. /\ elector[r] = "renewing" /\ ElectorAt(r, "stopping", 0, FALSE)
      /\ UNCHANGED <<holder, seen, seenAge, app, closed, online, faults, overlap>>
  BY DEF GiveUp
<1>2. online \in [Replica -> BOOLEAN] /\ faults \in 0 .. MaxFaults
  BY DEF IInv, TypeOK
<1>3. QED
  BY <1>1, <1>2, StopsInv

-----------------------------------------------------------------------------
(* The lease *)

\* A replica observes the record as it is now.
LEMMA GetLeaseInv == ASSUME NEW r \in Replica PROVE IInv /\ GetLease(r) => IInv'
<1> SUFFICES ASSUME IInv, GetLease(r) PROVE IInv'
  OBVIOUS
<1>1. /\ elector[r] \in {"acquiring", "renewing"} /\ call[r] = "none"
      /\ seen' = [seen EXCEPT ![r] = TRUE]
      /\ seenAge' = [seenAge EXCEPT ![r] = IF seen[r] THEN @ ELSE 0]
      /\ call' = [call EXCEPT ![r] = IF MayTake(r) THEN "sent" ELSE "none"]
      /\ timer' = [timer EXCEPT ![r] = IF elector[r] = "acquiring" THEN 0 ELSE @]
      /\ due' = [due EXCEPT ![r] = FALSE]
      /\ UNCHANGED <<holder, elector, lag, app, closed, online, faults, overlap>>
  BY DEF GetLease, Asks
<1>2. TypeOK'
  BY <1>1 DEF IInv, TypeOK, MaxOverlap
<1>3. ProcessInv' /\ TimerInv'
  BY <1>1 DEF IInv, TypeOK, ProcessInv, TimerInv
<1>4. ASSUME NEW n \in Nat, NEW q \in Replica, seen[q] => seenAge[q] <= n
      PROVE  seen'[q] => seenAge'[q] <= n
  BY <1>1, <1>4 DEF IInv, TypeOK
<1>5. CallInv'
  <2>1. ASSUME NEW q \in Replica, call'[q] = "sent", seen'[q]
        PROVE  holder' \in {None, q} \/ seenAge'[q] >= Lease
    <3>1. CASE q = r
      BY <1>1, <2>1, <3>1 DEF IInv, TypeOK, MayTake
    <3>2. CASE q # r
      BY <1>1, <2>1, <3>2 DEF IInv, TypeOK, CallInv
    <3>3. QED
      BY <3>1, <3>2
  <2>2. ASSUME NEW q \in Replica, call'[q] = "applied"
        PROVE  holder' = q /\ OthersSeenWithin(q, lag[q])'
    <3>1. holder = q /\ OthersSeenWithin(q, lag[q]) /\ lag[q] \in Nat
      BY <1>1, <2>2 DEF IInv, TypeOK, CallInv
    <3>2. QED
      BY <1>1, <1>4, <3>1 DEF OthersSeenWithin
  <2>3. QED
    BY <2>1, <2>2 DEF CallInv
<1>6. ASSUME NEW q \in Replica, Leads(q)' PROVE Leads(q) /\ Since(q)' = Since(q) /\ Since(q) \in Nat
  BY <1>1, <1>6 DEF Leads, Since, IInv, TypeOK
<1>7. LeaderInv'
  <2>1. ASSUME NEW q \in Replica, Leads(q)', holder = q
        PROVE  OthersSeenWithin(q, MaxLag + Since(q))'
    <3>1. OthersSeenWithin(q, MaxLag + Since(q)) /\ MaxLag + Since(q) \in Nat
      BY <1>6, <2>1 DEF IInv, LeaderInv
    <3>2. QED
      BY <1>4, <1>6, <2>1, <3>1 DEF OthersSeenWithin
  <2>2. ASSUME NEW q \in Replica, Leads(q)', holder # q
        PROVE  Since(q)' + MaxLag >= Lease /\ SeenWithin(Since(q) + MaxLag - Lease)'
    <3>1. /\ SeenWithin(Since(q) + MaxLag - Lease)
          /\ Since(q) + MaxLag >= Lease /\ Since(q) + MaxLag - Lease \in Nat
      BY <1>6, <2>2 DEF IInv, LeaderInv
    <3>2. QED
      BY <1>4, <1>6, <2>2, <3>1 DEF SeenWithin
  <2>3. QED
    BY <1>1, <1>6, <2>1, <2>2 DEF IInv, LeaderInv
<1>8. StaleInv'
  BY <1>1, <1>6 DEF IInv, StaleInv
<1>9. OverlapInv'
  <2>1. MaxOverlap \in Nat /\ MaxOverlap' = MaxOverlap
    BY DEF MaxOverlap
  <2>2. overlap > 0 => SeenWithin(MaxOverlap)'
    BY <1>4, <2>1 DEF IInv, OverlapInv, SeenWithin
  <2>3. QED
    BY <1>1, <1>6, <2>1, <2>2 DEF IInv, OverlapInv
<1>10. QED
  BY <1>2, <1>3, <1>5, <1>7, <1>8, <1>9 DEF IInv

\* The lease can be taken only from nobody, from the replica itself, or from a leader
\* whose update is an expiry old; never while an older leader is left.
LEMMA TakenFrom ==
  ASSUME ShortLag, IInv, NEW r \in Replica, call[r] = "sent", seen[r]
  PROVE  /\ \A q \in Replica \ {r} : Leads(q) =>
              IF holder = q THEN Since(q) + MaxLag >= Lease ELSE holder = r
         /\ \A q \in Replica \ {r} : call[q] # "applied"
         /\ overlap > 0 => holder = r
         /\ Leads(r) => holder = r
<1>1. holder \in {None, r} \/ seenAge[r] >= Lease
  BY DEF IInv, CallInv
<1>2. /\ \A q \in Replica : seenAge[q] \in Nat /\ lag[q] \in 0 .. MaxLag
      /\ \A q \in Replica : Leads(q) => Since(q) \in 0 .. Retry + Deadline
  BY DEF IInv, TypeOK, TimerInv, Leads, Since
<1>3. MaxOverlap < Lease
  BY DEF ShortLag, MaxOverlap
<1>4. ASSUME NEW q \in Replica, Leads(q), holder # q PROVE holder = r
  <2>1. seenAge[r] <= Since(q) + MaxLag - Lease /\ holder # None
    BY <1>4 DEF IInv, LeaderInv, SeenWithin
  <2>2. Since(q) + MaxLag - Lease < Lease /\ Since(q) + MaxLag - Lease \in Int
    BY <1>2, <1>4 DEF ShortLag
  <2>3. QED
    BY <1>1, <1>2, <2>1, <2>2
<1>5. ASSUME NEW q \in Replica \ {r}, Leads(q), holder = q PROVE Since(q) + MaxLag >= Lease
  <2>1. seenAge[r] <= MaxLag + Since(q) /\ holder # None
    BY <1>5 DEF IInv, LeaderInv, OthersSeenWithin
  <2>2. QED
    BY <1>1, <1>2, <1>5, <2>1
<1>6. ASSUME NEW q \in Replica \ {r} PROVE call[q] # "applied"
  <2>1. SUFFICES ASSUME call[q] = "applied" PROVE FALSE
    OBVIOUS
  <2>2. holder = q /\ seenAge[r] <= lag[q]
    BY <2>1 DEF IInv, CallInv, OthersSeenWithin
  <2>3. QED
    BY <1>1, <1>2, <2>2 DEF ShortLag
<1>7. ASSUME overlap > 0 PROVE holder = r
  <2>1. holder # None /\ seenAge[r] <= MaxOverlap /\ MaxOverlap \in Int
    BY <1>7 DEF IInv, OverlapInv, SeenWithin, MaxOverlap
  <2>2. QED
    BY <1>1, <1>2, <1>3, <2>1
<1>8. QED
  BY <1>4, <1>5, <1>6, <1>7

\* The record is new, and only its writer has seen it.
LEMMA ApplyUpdateInv ==
  ASSUME ShortLag, NEW r \in Replica PROVE IInv /\ ApplyUpdate(r) => IInv'
<1> SUFFICES ASSUME IInv, ApplyUpdate(r) PROVE IInv'
  OBVIOUS
<1>1. /\ call[r] = "sent" /\ seen[r] /\ holder' = r
      /\ seen' = [q \in Replica |-> q = r]
      /\ seenAge' = [seenAge EXCEPT ![r] = 0]
      /\ call' = [call EXCEPT ![r] = "applied"]
      /\ UNCHANGED <<elector, timer, due, lag, app, closed, online, faults, overlap>>
  BY DEF ApplyUpdate
<1>2. /\ seen' \in [Replica -> BOOLEAN] /\ seenAge' \in [Replica -> 0 .. Lease]
      /\ call' \in [Replica -> {"none", "sent", "applied"}]
  BY <1>1 DEF IInv, TypeOK
<1>3. TypeOK'
  BY <1>1, <1>2 DEF IInv, TypeOK, MaxOverlap
<1>4. ProcessInv' /\ TimerInv'
  BY <1>1 DEF IInv, TypeOK, ProcessInv, TimerInv
<1>5. \A q \in Replica \ {r} : ~seen'[q]
  BY <1>1
<1>6. seenAge'[r] = 0
  BY <1>1 DEF IInv, TypeOK
<1>7. \A q \in Replica : /\ Leads(q)' <=> Leads(q)
                         /\ Since(q)' = Since(q) /\ (Leads(q) => Since(q) \in Nat)
  BY <1>1 DEF Leads, Since, IInv, TypeOK
<1>8. CallInv'
  <2>1. ASSUME NEW q \in Replica, call'[q] = "sent", seen'[q] PROVE FALSE
    BY <1>1, <1>5, <2>1 DEF IInv, TypeOK
  <2>2. ASSUME NEW q \in Replica, call'[q] = "applied"
        PROVE  holder' = q /\ OthersSeenWithin(q, lag[q])'
    <3>1. q = r
      BY <1>1, <2>2, TakenFrom DEF IInv, TypeOK
    <3>2. QED
      BY <1>1, <1>5, <3>1 DEF OthersSeenWithin
  <2>3. QED
    BY <2>1, <2>2 DEF CallInv
<1>9. ASSUME NEW q \in Replica \ {r}, Leads(q)
      PROVE  Since(q) + MaxLag >= Lease /\ SeenWithin(Since(q) + MaxLag - Lease)'
  <2>1. Since(q) + MaxLag >= Lease
    BY <1>1, <1>9, TakenFrom DEF IInv, LeaderInv
  <2>2. 0 <= Since(q) + MaxLag - Lease
    BY <1>7, <1>9, <2>1
  <2>3. QED
    BY <1>5, <1>6, <1>7, <2>1, <2>2 DEF SeenWithin
<1>10. LeaderInv'
  <2>1. r # None
    OBVIOUS
  <2>2. OthersSeenWithin(r, MaxLag + Since(r))'
    BY <1>5 DEF OthersSeenWithin
  <2>3. QED
    BY <1>1, <1>7, <1>9, <2>1, <2>2 DEF LeaderInv
<1>11. StaleInv'
  <2>1. ASSUME NEW p \in Replica, NEW q \in Replica, Leads(p), Leads(q), p # q, r \notin {p, q}
        PROVE  FALSE
    BY <1>1, <2>1, TakenFrom DEF IInv, StaleInv
  <2>2. QED
    BY <1>1, <1>7, <2>1 DEF StaleInv
<1>12. OverlapInv'
  <2>1. MaxOverlap \in Nat /\ MaxOverlap' = MaxOverlap
    BY DEF MaxOverlap
  <2>2. SeenWithin(MaxOverlap)'
    BY <1>5, <1>6, <2>1 DEF SeenWithin
  <2>3. overlap > 0 => holder = r
    BY <1>1, TakenFrom
  <2>4. QED
    BY <1>1, <1>7, <2>1, <2>2, <2>3 DEF IInv, OverlapInv
<1>13. QED
  BY <1>3, <1>4, <1>8, <1>10, <1>11, <1>12 DEF IInv

\* A response makes a leader as young as its update was on its way.
LEMMA UpdateSucceedsInv == ASSUME NEW r \in Replica PROVE IInv /\ UpdateSucceeds(r) => IInv'
<1> SUFFICES ASSUME IInv, UpdateSucceeds(r) PROVE IInv'
  OBVIOUS
<1>1. /\ call[r] = "applied"
      /\ seenAge' = [seenAge EXCEPT ![r] = IF seen[r] THEN 0 ELSE @]
      /\ UNCHANGED <<holder, seen, closed, online, faults, overlap>>
  BY DEF UpdateSucceeds
<1>2. /\ ElectorTyped' /\ ElectorsKept(r)
      /\ elector'[r] \in {"waiting", "renewing"} /\ timer'[r] = 0 /\ call'[r] = "none"
  BY ElectorKept DEF UpdateSucceeds, Acquired, Renewed
<1>3. /\ app' \in [Replica -> {"off", "building", "syncing", "serving"}]
      /\ \A q \in Replica \ {r} : app'[q] = app[q]
  BY DEF IInv, TypeOK, UpdateSucceeds, Acquired, Renewed
<1>4. /\ seenAge' \in [Replica -> 0 .. Lease]
      /\ \A q \in Replica : seenAge'[q] <= seenAge[q] /\ (q # r => seenAge'[q] = seenAge[q])
      /\ \A q \in Replica : {seenAge'[q], seenAge[q], lag[q]} \subseteq Int
  BY <1>1 DEF IInv, TypeOK
<1>5. holder = r /\ OthersSeenWithin(r, lag[r])
  BY <1>1 DEF IInv, CallInv
<1>6. TypeOK'
  BY <1>1, <1>2, <1>3, <1>4 DEF IInv, TypeOK, ElectorTyped, MaxOverlap
<1>7. ProcessInv' /\ TimerInv'
  <2>1. ~closed[r]
    BY <1>1 DEF IInv, ProcessInv
  <2>2. QED
    BY <1>1, <1>2, <1>3, <2>1 DEF IInv, ElectorsKept, ProcessInv, TimerInv
<1>8. ASSUME NEW n \in Int, NEW q \in Replica, seen[q] => seenAge[q] <= n
      PROVE  seen'[q] => seenAge'[q] <= n
  BY <1>1, <1>4, <1>8
<1>9. CallInv'
  <2>1. ASSUME NEW q \in Replica, call'[q] # "none" PROVE q # r /\ call[q] = "sent"
    BY <1>2, <1>5, <2>1 DEF ElectorsKept, IInv, TypeOK, CallInv
  <2>2. QED
    BY <1>1, <1>2, <1>4, <2>1 DEF ElectorsKept, IInv, CallInv
<1>10. ASSUME NEW q \in Replica \ {r}
       PROVE  Leads(q)' = Leads(q) /\ Since(q)' = Since(q) /\ (Leads(q) => Since(q) \in Nat)
  BY <1>2 DEF Leads, Since, ElectorsKept, IInv, TypeOK
<1>11. LeaderInv'
  <2>1. OthersSeenWithin(r, MaxLag + Since(r))' /\ r # None
    <3>1. Since(r)' \in Nat /\ lag[r] \in 0 .. MaxLag
      BY <1>2 DEF Since, IInv, TypeOK
    <3>2. QED
      BY <1>1, <1>4, <1>5, <3>1 DEF OthersSeenWithin
  <2>2. ASSUME NEW q \in Replica \ {r}, Leads(q)
        PROVE  Since(q) + MaxLag >= Lease /\ SeenWithin(Since(q) + MaxLag - Lease)'
    <3>1. Since(q) + MaxLag >= Lease /\ SeenWithin(Since(q) + MaxLag - Lease)
      BY <1>5, <2>2 DEF IInv, LeaderInv
    <3>2. Since(q) + MaxLag - Lease \in Int
      BY <1>10, <2>2
    <3>3. QED
      BY <1>8, <1>10, <3>1, <3>2 DEF SeenWithin
  <2>3. QED
    BY <1>1, <1>5, <1>10, <2>1, <2>2 DEF LeaderInv
<1>12. StaleInv'
  BY <1>1, <1>5, <1>10 DEF IInv, StaleInv
<1>13. OverlapInv'
  <2>1. MaxOverlap \in Nat /\ MaxOverlap' = MaxOverlap
    BY DEF MaxOverlap
  <2>2. overlap > 0 => SeenWithin(MaxOverlap)'
    BY <1>8, <2>1 DEF IInv, OverlapInv, SeenWithin
  <2>3. QED
    BY <1>1, <1>5, <1>10, <2>1, <2>2 DEF IInv, OverlapInv
<1>14. QED
  BY <1>6, <1>7, <1>9, <1>11, <1>12, <1>13 DEF IInv

\* A container that starts again leads nothing and has seen nothing.
LEMMA RestartInv == ASSUME NEW r \in Replica PROVE IInv /\ Restart(r) => IInv'
<1> SUFFICES ASSUME IInv, Restart(r) PROVE IInv'
  OBVIOUS
<1>1. /\ elector[r] = "down" /\ elector' = [elector EXCEPT ![r] = "acquiring"]
      /\ timer' = [timer EXCEPT ![r] = Retry]
      /\ seen' = [seen EXCEPT ![r] = FALSE] /\ seenAge' = [seenAge EXCEPT ![r] = 0]
      /\ holder' = holder \/ (holder = r /\ holder' = Gone)
      /\ UNCHANGED <<due, call, lag, app, closed, online, faults, overlap>>
  BY DEF Restart
<1>2. TypeOK'
  BY <1>1 DEF IInv, TypeOK, MaxOverlap
<1>3. ProcessInv' /\ TimerInv' /\ call[r] = "none"
  BY <1>1 DEF IInv, TypeOK, ProcessInv, TimerInv
<1>4. ASSUME NEW q \in Replica
      PROVE  /\ Leads(q)' <=> Leads(q)
             /\ Leads(q) => q # r
             /\ Leads(q) => Since(q)' = Since(q)
  BY <1>1 DEF Leads, Since, IInv, TypeOK
<1>5. ASSUME NEW q \in Replica, seen'[q] PROVE q # r /\ seen[q] /\ seenAge'[q] = seenAge[q]
  BY <1>1, <1>5 DEF IInv, TypeOK
<1>6. \A q \in Replica \ {r} : holder' = q <=> holder = q
  BY <1>1
<1>7. holder' = None <=> holder = None
  BY <1>1
<1>8. CallInv'
  BY <1>1, <1>3, <1>5, <1>6, <1>7 DEF IInv, CallInv, OthersSeenWithin
<1>9. LeaderInv'
  BY <1>4, <1>5, <1>6, <1>7 DEF IInv, LeaderInv, SeenWithin, OthersSeenWithin
<1>10. StaleInv'
  BY <1>4, <1>6 DEF IInv, StaleInv
<1>11. OverlapInv'
  BY <1>1, <1>4, <1>5, <1>6, <1>7 DEF IInv, OverlapInv, SeenWithin, MaxOverlap
<1>12. QED
  BY <1>2, <1>3, <1>8, <1>9, <1>10, <1>11 DEF IInv

-----------------------------------------------------------------------------
(* Time *)

\* Two who serve are two leaders when time goes on.
LEMMA ServingLead ==
  ASSUME IInv, \A r \in Replica : ~Urgent(r), Cardinality(Serving) >= 2
  PROVE  \E r, s \in Replica : r # s /\ Leads(r) /\ Leads(s)
<1>1. Serving \subseteq Replica /\ IsFiniteSet(Serving)
  BY FS_Subset DEF Serving
<1>2. PICK r \in Serving : TRUE
  BY FS_EmptySet
<1>3. Serving # {r}
  BY FS_Singleton
<1>4. PICK s \in Serving : s # r
  BY <1>2, <1>3
<1>5. \A q \in Serving : Leads(q)
  BY <1>1 DEF Serving, Leads, Urgent, IInv, ProcessInv
<1>6. QED
  BY <1>1, <1>2, <1>4, <1>5

\* Time makes leaders and what is seen of the record older alike.
LEMMA TickInv == ASSUME ShortLag PROVE IInv /\ Tick => IInv'
<1> SUFFICES ASSUME IInv, Tick PROVE IInv'
  OBVIOUS
<1>1. /\ \A r \in Replica : ~Urgent(r)
      /\ timer' = [r \in Replica |->
           IF Leads(r) \/ (elector[r] = "acquiring" /\ call[r] = "none")
           THEN timer[r] + 1 ELSE timer[r]]
      /\ due' = [r \in Replica |-> due[r] \/ PollFires(r)]
      /\ lag' = [r \in Replica |-> IF call[r] = "none" THEN 0 ELSE lag[r] + 1]
      /\ seenAge' = [r \in Replica |->
           IF Alive(r) /\ seen[r] /\ seenAge[r] < Lease THEN seenAge[r] + 1 ELSE seenAge[r]]
      /\ overlap' = (IF Cardinality(Serving) < 2 THEN 0
                    ELSE IF overlap > MaxOverlap THEN overlap ELSE overlap + 1)
      /\ UNCHANGED <<holder, elector, call, seen, app, closed, online, faults>>
  BY DEF Tick
<1>2. timer' \in [Replica -> 0 .. MaxPoll + Deadline] /\ TimerInv'
  <2>1. ASSUME NEW r \in Replica
        PROVE  /\ timer'[r] \in 0 .. MaxPoll + Deadline
               /\ elector[r] = "acquiring" => timer'[r] <= MaxPoll
               /\ elector[r] = "waiting" => timer'[r] <= Retry
               /\ elector[r] = "renewing" => timer'[r] <= Deadline
               /\ elector[r] \in {"down", "stopping"} => timer'[r] = 0
    <3>1. timer[r] \in 0 .. MaxPoll + Deadline /\ ~Urgent(r)
      BY <1>1 DEF IInv, TypeOK
    <3>2. timer'[r] = IF Leads(r) \/ (elector[r] = "acquiring" /\ call[r] = "none")
                      THEN timer[r] + 1 ELSE timer[r]
      BY <1>1
    <3>3. QED
      BY <3>1, <3>2 DEF Urgent, Leads, IInv, TypeOK, TimerInv
  <2>2. QED
    BY <1>1, <2>1 DEF TimerInv
<1>3. /\ lag' \in [Replica -> 0 .. MaxLag]
      /\ \A r \in Replica : call[r] # "none" => lag'[r] = lag[r] + 1
  <2>1. ASSUME NEW r \in Replica PROVE lag'[r] \in 0 .. MaxLag
    BY <1>1 DEF Urgent, IInv, TypeOK
  <2>2. QED
    BY <1>1, <2>1
<1>4. /\ seenAge' \in [Replica -> 0 .. Lease]
      /\ \A r \in Replica : /\ seenAge[r] \in 0 .. Lease /\ seenAge'[r] <= seenAge[r] + 1
                            /\ seenAge[r] >= Lease => seenAge'[r] >= Lease
  BY <1>1 DEF IInv, TypeOK
<1>5. due' \in [Replica -> BOOLEAN]
  BY <1>1, Zenon DEF IInv, TypeOK, PollFires
<1>6. ASSUME NEW r \in Replica, Leads(r)
      PROVE  /\ Leads(r)' /\ Since(r)' = Since(r) + 1
             /\ Since(r) \in Nat /\ Since(r)' <= Retry + Deadline
  <2>1. timer'[r] = timer[r] + 1 /\ timer[r] \in Nat
    BY <1>1, <1>6 DEF IInv, TypeOK
  <2>2. QED
    BY <1>1, <1>2, <1>6, <2>1 DEF Leads, Since, TimerInv
<1>7. \A r \in Replica : Leads(r)' <=> Leads(r)
  BY <1>1 DEF Leads
<1>8. MaxOverlap \in Nat /\ MaxOverlap' = MaxOverlap /\ MaxLag + Retry + Deadline - Lease <= MaxOverlap
  BY DEF MaxOverlap
<1>9. CallInv'
  BY <1>1, <1>3, <1>4 DEF IInv, TypeOK, CallInv, OthersSeenWithin
<1>10. LeaderInv'
  <2>1. ASSUME NEW r \in Replica, Leads(r), holder = r
        PROVE  OthersSeenWithin(r, MaxLag + Since(r))'
    <3>1. OthersSeenWithin(r, MaxLag + Since(r))
      BY <2>1 DEF IInv, LeaderInv
    <3>2. QED
      BY <1>1, <1>4, <1>6, <2>1, <3>1 DEF OthersSeenWithin
  <2>2. ASSUME NEW r \in Replica, Leads(r), holder # r
        PROVE  Since(r)' + MaxLag >= Lease /\ SeenWithin(Since(r) + MaxLag - Lease)'
    <3>1. Since(r) + MaxLag >= Lease /\ SeenWithin(Since(r) + MaxLag - Lease)
      BY <2>2 DEF IInv, LeaderInv
    <3>2. QED
      BY <1>1, <1>4, <1>6, <2>2, <3>1 DEF SeenWithin
  <2>3. QED
    BY <1>1, <1>7, <2>1, <2>2 DEF IInv, LeaderInv
<1>11. StaleInv'
  BY <1>1, <1>7 DEF IInv, StaleInv
<1>12. OverlapInv' /\ overlap' \in 0 .. MaxOverlap
  <2>1. CASE Cardinality(Serving) < 2
    BY <1>1, <1>8, <2>1 DEF OverlapInv
  <2>2. CASE ~(Cardinality(Serving) < 2)
    <3>0. Cardinality(Serving) >= 2
      <4>1. IsFiniteSet(Serving)
        BY FS_Subset DEF Serving
      <4>2. Cardinality(Serving) \in Nat
        BY <4>1, FS_CardinalityType
      <4>3. QED
        BY <2>2, <4>2
    <3>1. PICK r \in Replica : Leads(r) /\ holder # r
      BY <1>1, <3>0, ServingLead
    <3>2. \A q \in Replica : Leads(q) /\ holder # q => overlap <= Since(q) + MaxLag - Lease
      BY <1>6, <1>8 DEF IInv, TypeOK, OverlapInv, LeaderInv
    <3>3. overlap' = overlap + 1 /\ overlap \in Nat
      BY <1>1, <2>2, <1>8 DEF IInv, TypeOK, OverlapInv
    <3>4. \A q \in Replica : Leads(q)' /\ holder # q => overlap' <= Since(q)' + MaxLag - Lease
      BY <1>6, <1>7, <3>2, <3>3
    <3>5. overlap' <= MaxOverlap
      BY <1>6, <1>8, <3>1, <3>3, <3>4
    <3>6. SeenWithin(MaxOverlap)' /\ holder # None
      <4>1. SeenWithin(Since(r) + MaxLag - Lease)' /\ holder # None
        BY <1>1, <1>6, <1>10, <3>1 DEF LeaderInv
      <4>2. Since(r)' + MaxLag - Lease <= MaxOverlap /\ Since(r)' + MaxLag - Lease \in Int
        BY <1>6, <1>8, <3>1
      <4>3. QED
        BY <1>4, <1>8, <4>1, <4>2 DEF SeenWithin
    <3>7. QED
      BY <1>1, <1>8, <3>3, <3>4, <3>5, <3>6 DEF OverlapInv
  <2>3. QED
    BY <2>1, <2>2
<1>13. ProcessInv'
  BY <1>1 DEF IInv, ProcessInv
<1>14. TypeOK'
  BY <1>1, <1>2, <1>3, <1>4, <1>5, <1>8, <1>12 DEF IInv, TypeOK
<1>15. QED
  BY <1>2, <1>9, <1>10, <1>11, <1>12, <1>13, <1>14 DEF IInv

-----------------------------------------------------------------------------
\* Every step keeps the invariant.
LEMMA NextInv == ASSUME ShortLag PROVE IInv /\ [Next]_vars => IInv'
<1> SUFFICES ASSUME IInv, [Next]_vars PROVE IInv'
  OBVIOUS
<1>1. CASE Tick
  BY <1>1, TickInv
<1>2. ASSUME NEW r \in Replica, Elector(r) PROVE IInv'
  BY <1>2, GetLeaseInv, GetFailsInv, ApplyUpdateInv, UpdateFailsInv, UpdateSucceedsInv,
     BeginRoundInv, GiveUpInv DEF Elector
<1>3. ASSUME NEW r \in Replica, Callbacks(r) PROVE IInv'
  BY <1>3, CallbacksInv
<1>4. ASSUME NEW r \in Replica, Faulty(r) \/ Reconnect(r) PROVE IInv'
  BY <1>4, FaultyInv
<1>5. ASSUME NEW r \in Replica, Restart(r) PROVE IInv'
  BY <1>5, RestartInv
<1>6. CASE UNCHANGED vars
  <2>1. UNCHANGED <<holder, elector, timer, due, call, lag, app, closed, seen, seenAge, online,
                    faults, overlap>>
    BY <1>6 DEF vars, processVars
  <2>2. \A q \in Replica : closed[q] => elector[q] = "stopping" /\ app[q] # "serving"
    BY DEF IInv, ProcessInv
  <2>3. QED
    BY <2>1, <2>2, AppInv DEF IInv, TypeOK
<1>7. QED
  BY <1>1, <1>2, <1>3, <1>4, <1>5, <1>6 DEF Next

\* The inductive invariant holds always.
THEOREM ElectionInvariant == ASSUME ShortLag PROVE Spec => []IInv
<1>1. IInv /\ [Next]_vars => IInv'
  BY NextInv
<1>2. QED
  BY <1>1, InitInv, PTL DEF Spec

\* The electors, their clocks and the lease keep their types: no timer outruns what
\* agent.go configures, whatever fails.
THEOREM ElectionTypeCorrect == ASSUME ShortLag PROVE Spec => []TypeOK
<1>1. IInv => TypeOK
  BY DEF IInv
<1>2. QED
  BY <1>1, ElectionInvariant, PTL

\* For any number of replicas and any durations, two of them serve at once for no
\* longer than the response to an update, RetryPeriod and RenewDeadline together
\* exceed LeaseDuration.
THEOREM OverlapAlwaysBounded == ASSUME ShortLag PROVE Spec => []OverlapIsBounded
<1>1. IInv => OverlapIsBounded
  BY DEF IInv, OverlapInv, OverlapIsBounded
<1>2. QED
  BY <1>1, ElectionInvariant, PTL

\* A server that was shut down is never the server of its process again.
THEOREM LostIsGone == ASSUME ShortLag PROVE Spec => LostMeansGone
<1>1. IInv /\ [Next]_vars => [\A r \in Replica : closed[r] => app'[r] # "serving"]_vars
  <2>1. SUFFICES ASSUME IInv, Next, NEW r \in Replica, closed[r] PROVE app'[r] # "serving"
    OBVIOUS
  <2>2. app[r] # "serving" /\ AppTyped
    BY <2>1 DEF IInv, TypeOK, AppTyped, ProcessInv
  <2>3. CASE UNCHANGED app
    BY <2>2, <2>3
  <2>4. ASSUME NEW q \in Replica, Ends(q) PROVE app'[r] # "serving"
    BY <2>2, <2>4 DEF Ends, AppTyped
  <2>5. ASSUME NEW q \in Replica, UpdateSucceeds(q) PROVE app'[r] # "serving"
    BY <2>2, <2>5 DEF UpdateSucceeds, Acquired, Renewed, AppTyped
  <2>6. ASSUME NEW q \in Replica, BuildCollectors(q) PROVE app'[r] # "serving"
    BY <2>2, <2>4, <2>6 DEF BuildCollectors, AppTyped
  <2>7. ASSUME NEW q \in Replica, Listen(q) PROVE app'[r] # "serving"
    BY <2>1, <2>2, <2>4, <2>7 DEF Listen, AppTyped
  <2>8. ASSUME NEW q \in Replica, Shutdown(q) PROVE app'[r] # "serving"
    BY <2>2, <2>8 DEF Shutdown, AppTyped
  <2>9. Tick => UNCHANGED app
    BY DEF Tick
  <2>10. ASSUME NEW q \in Replica, Elector(q), ~UpdateSucceeds(q) PROVE UNCHANGED app
    BY <2>10 DEF Elector, GetLease, GetFails, ApplyUpdate, UpdateFails, BeginRound, GiveUp
  <2>11. ASSUME NEW q \in Replica, Faulty(q) \/ Reconnect(q) \/ Restart(q), ~Ends(q)
         PROVE UNCHANGED app
    BY <2>11 DEF Faulty, Crash, Terminate, Disconnect, Reconnect, Restart, processVars
  <2>12. QED
    BY <2>1, <2>3, <2>4, <2>5, <2>6, <2>7, <2>8, <2>9, <2>10, <2>11
       DEF Next, Callbacks, Exit
<1>2. QED
  BY <1>1, ElectionInvariant, PTL DEF Spec, LostMeansGone
=============================================================================

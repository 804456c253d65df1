---------------------------- MODULE AgentElection ----------------------------
(***************************************************************************)
(* The life of the kubefin-agent's replicas: they compete for a lease, the *)
(* winner builds its collectors, syncs its caches and serves /metrics, and *)
(* a loser shuts its server down and ends.  Every pod has a collector      *)
(* sidecar that scrapes its own agent, so two agents that serve at once    *)
(* report every node and pod twice.                                        *)
(*                                                                         *)
(* Source: cmd/kubefin-agent/app/agent.go, app/options/options.go,         *)
(* pkg/agent/cloudprice/provider.go, pkg/values/default.go.  The elector   *)
(* (client-go v0.28) and the API server are external: they are modelled as *)
(* agent.go configures and uses them.                                      *)
(*                                                                         *)
(* Time is discrete.  No clock is shared: every process measures ages.     *)
(***************************************************************************)
EXTENDS Integers, FiniteSets

CONSTANTS
  Replica,    \* the pods of the deployment
  None,       \* holder of a lease nobody has written
  Gone,       \* holder of a lease whose pod has been replaced
  Lease,      \* LeaseDuration
  Deadline,   \* RenewDeadline
  Retry,      \* RetryPeriod
  MaxPoll,    \* longest pause of the jittered polls of a challenger
  MaxLag,     \* longest time from sending an update to its response
  MaxFaults   \* bound on crashes, terminations and disconnections

ASSUME ReplicaAssumption ==
  IsFiniteSet(Replica) /\ {None, Gone} \cap Replica = {} /\ None # Gone
ASSUME TimeAssumption ==
  /\ {Lease, Deadline, Retry, MaxPoll} \subseteq Nat \ {0}
  /\ Retry < Deadline /\ Deadline < Lease /\ Retry <= MaxPoll
  /\ MaxLag \in Nat /\ MaxFaults \in Nat

VARIABLES
  holder,    \* the holder named in the lease
  elector,   \* per replica, where its elector is
  timer,     \* time since its last poll, its last success or its round began
  due,       \* the poller of a renewal round has fired and was not served
  call,      \* its update of the lease: none, sent, or applied
  lag,       \* time since that update was sent
  seen,      \* it has observed the record the lease has now
  seenAge,   \* time since it observed that record
  app,       \* how far OnStartedLeading has come
  closed,    \* its http.Server has been shut down
  online,    \* it can reach the API server
  faults,    \* faults so far
  overlap    \* for how long two replicas have been serving at once

processVars == <<elector, timer, due, call, lag, app, closed>>
vars == <<holder, processVars, seen, seenAge, online, faults, overlap>>

Serving == {r \in Replica : app[r] = "serving"}
Leads(r) == elector[r] \in {"waiting", "renewing"}
Alive(r) == elector[r] # "down"

\* How long two replicas may serve at once.  The values of the code, 15, 10 and
\* 5 seconds, leave nothing between Retry + Deadline and Lease.
MaxOverlap == IF MaxLag + Retry + Deadline > Lease
              THEN MaxLag + Retry + Deadline - Lease ELSE 0

TypeOK ==
  /\ holder \in Replica \cup {None, Gone}
  /\ elector \in [Replica -> {"down", "acquiring", "waiting", "renewing", "stopping"}]
  /\ timer \in [Replica -> 0 .. MaxPoll + Deadline]
  /\ due \in [Replica -> BOOLEAN]
  /\ call \in [Replica -> {"none", "sent", "applied"}]
  /\ lag \in [Replica -> 0 .. MaxLag]
  /\ seen \in [Replica -> BOOLEAN]
  /\ seenAge \in [Replica -> 0 .. Lease]
  /\ app \in [Replica -> {"off", "building", "syncing", "serving"}]
  /\ closed \in [Replica -> BOOLEAN]
  /\ online \in [Replica -> BOOLEAN]
  /\ faults \in 0 .. MaxFaults
  /\ overlap \in 0 .. MaxOverlap + 1

Init ==
  /\ holder = None
  /\ elector = [r \in Replica |-> "acquiring"]
  /\ timer = [r \in Replica |-> Retry]
  /\ due = [r \in Replica |-> FALSE]
  /\ call = [r \in Replica |-> "none"]
  /\ lag = [r \in Replica |-> 0]
  /\ seen = [r \in Replica |-> FALSE]
  /\ seenAge = [r \in Replica |-> 0]
  /\ app = [r \in Replica |-> "off"]
  /\ closed = [r \in Replica |-> FALSE]
  /\ online = [r \in Replica |-> TRUE]
  /\ faults = 0
  /\ overlap = 0

-----------------------------------------------------------------------------
(* The process of a replica *)

\* The process ends: klog.Fatalf, or main returns.  Nothing of it is left.
Ends(r) ==
  /\ elector' = [elector EXCEPT ![r] = "down"]
  /\ timer' = [timer EXCEPT ![r] = 0]
  /\ due' = [due EXCEPT ![r] = FALSE]
  /\ call' = [call EXCEPT ![r] = "none"]
  /\ lag' = [lag EXCEPT ![r] = 0]
  /\ app' = [app EXCEPT ![r] = "off"]
  /\ closed' = [closed EXCEPT ![r] = FALSE]

\* The elector goes to state e and starts its timer; an update on its way has
\* been answered or is given up.
ElectorAt(r, e, t, d) ==
  /\ elector' = [elector EXCEPT ![r] = e]
  /\ timer' = [timer EXCEPT ![r] = t]
  /\ due' = [due EXCEPT ![r] = d]
  /\ call' = [call EXCEPT ![r] = "none"]
  /\ lag' = [lag EXCEPT ![r] = 0]

\* A replica asks for the lease: a challenger polls with a jittered period, a
\* leader whenever the poller of its round fires.
Asks(r) ==
  /\ call[r] = "none"
  /\ \/ elector[r] = "acquiring" /\ timer[r] >= Retry
     \/ elector[r] = "renewing" /\ due[r]

\* Mutant: the lease expires after RenewDeadline instead of LeaseDuration.
MayTake_Early(r) == holder \in {None, r} \/ (seen[r] /\ seenAge[r] >= Deadline)

\* A lease is free for its holder and, for the others, once they have known its
\* record for LeaseDuration.  The identity is the IP of the pod, so a container
\* that restarts in its pod is the holder still.
MayTake(r) ==
  \/ holder \in {None, r}
  \/ seen[r] /\ seenAge[r] >= Lease

\* Get of the lease: a new record is observed now; a free one is to be updated.
GetLease(r) ==
  /\ Asks(r) /\ online[r]
  /\ seen' = [seen EXCEPT ![r] = TRUE]
  /\ seenAge' = [seenAge EXCEPT ![r] = IF seen[r] THEN @ ELSE 0]
  /\ call' = [call EXCEPT ![r] = IF MayTake(r) THEN "sent" ELSE "none"]
  /\ timer' = [timer EXCEPT ![r] = IF elector[r] = "acquiring" THEN 0 ELSE @]
  /\ due' = [due EXCEPT ![r] = FALSE]
  /\ UNCHANGED <<holder, elector, lag, app, closed, online, faults, overlap>>

\* The Get fails: the attempt is over.
GetFails(r) ==
  /\ Asks(r) /\ ~online[r]
  /\ timer' = [timer EXCEPT ![r] = IF elector[r] = "acquiring" THEN 0 ELSE @]
  /\ due' = [due EXCEPT ![r] = FALSE]
  /\ UNCHANGED <<holder, elector, call, lag, seen, seenAge, app, closed, online,
                 faults, overlap>>

\* The API server takes the update if the record is the one the replica got.
ApplyUpdate(r) ==
  /\ call[r] = "sent" /\ online[r] /\ seen[r]
  /\ holder' = r
  /\ seen' = [q \in Replica |-> q = r]
  /\ seenAge' = [seenAge EXCEPT ![r] = 0]
  /\ call' = [call EXCEPT ![r] = "applied"]
  /\ UNCHANGED <<elector, timer, due, lag, app, closed, online, faults, overlap>>

\* It refuses an update of an older record; or the update is lost, or its
\* response is.
UpdateFails(r) ==
  /\ call[r] # "none"
  /\ ~online[r] \/ (call[r] = "sent" /\ ~seen[r])
  /\ call' = [call EXCEPT ![r] = "none"]
  /\ lag' = [lag EXCEPT ![r] = 0]
  /\ UNCHANGED <<holder, elector, timer, due, seen, seenAge, app, closed, online,
                 faults, overlap>>

\* acquire returns: OnStartedLeading runs in a goroutine, the first renewal
\* round begins at once.
Acquired(r) ==
  /\ elector[r] = "acquiring"
  /\ ElectorAt(r, "renewing", 0, TRUE)
  /\ app' = [app EXCEPT ![r] = "building"]

\* A renewal round succeeded: the next one begins RetryPeriod later.
Renewed(r) ==
  /\ elector[r] = "renewing"
  /\ ElectorAt(r, "waiting", 0, FALSE)
  /\ UNCHANGED app

UpdateSucceeds(r) ==
  /\ call[r] = "applied" /\ online[r]
  /\ seenAge' = [seenAge EXCEPT ![r] = IF seen[r] THEN 0 ELSE @]
  /\ Acquired(r) \/ Renewed(r)
  /\ UNCHANGED <<holder, seen, closed, online, faults, overlap>>

BeginRound(r) ==
  /\ elector[r] = "waiting" /\ timer[r] >= Retry
  /\ ElectorAt(r, "renewing", 0, TRUE)
  /\ UNCHANGED <<holder, seen, seenAge, app, closed, online, faults, overlap>>

\* No update within RenewDeadline: renew returns, and Run calls OnStoppedLeading.
GiveUp(r) ==
  /\ elector[r] = "renewing" /\ timer[r] >= Deadline
  /\ ElectorAt(r, "stopping", 0, FALSE)
  /\ UNCHANGED <<holder, seen, seenAge, app, closed, online, faults, overlap>>

-----------------------------------------------------------------------------
(* OnStartedLeading and OnStoppedLeading *)

\* Mutant: a failure to build them is logged, and the leader stays without a server.
BuildCollectors_Logged(r) ==
  /\ app[r] = "building"
  /\ app' = [app EXCEPT ![r] = IF online[r] THEN "syncing" ELSE "off"]
  /\ UNCHANGED <<elector, timer, due, call, lag, closed>>
  /\ UNCHANGED <<holder, seen, seenAge, online, faults, overlap>>

\* runFunc builds the price provider and registers the collectors, for which it
\* lists nodes and discovers resources.  What fails ends the process.
BuildCollectors(r) ==
  /\ app[r] = "building"
  /\ IF online[r]
     THEN app' = [app EXCEPT ![r] = "syncing"]
          /\ UNCHANGED <<elector, timer, due, call, lag, closed>>
     ELSE Ends(r)
  /\ UNCHANGED <<holder, seen, seenAge, online, faults, overlap>>

\* Mutant: a server of its own for every leadership, unknown to stopFun.
Listen_NewServer(r) ==
  /\ app[r] = "syncing" /\ online[r]
  /\ app' = [app EXCEPT ![r] = "serving"]
  /\ UNCHANGED <<elector, timer, due, call, lag, closed>>
  /\ UNCHANGED <<holder, seen, seenAge, online, faults, overlap>>

\* The informers run on the context of the process, not on that of the
\* leadership, so nothing keeps a replica that has lost it from going on to
\* ListenAndServe.  A server that was shut down returns at once, and any return
\* is fatal.
Listen(r) ==
  /\ app[r] = "syncing" /\ online[r]
  /\ IF closed[r]
     THEN Ends(r)
     ELSE app' = [app EXCEPT ![r] = "serving"]
          /\ UNCHANGED <<elector, timer, due, call, lag, closed>>
  /\ UNCHANGED <<holder, seen, seenAge, online, faults, overlap>>

\* stopFun: the listener is closed.
Shutdown(r) ==
  /\ elector[r] = "stopping" /\ ~closed[r]
  /\ closed' = [closed EXCEPT ![r] = TRUE]
  /\ app' = [app EXCEPT ![r] = IF @ = "serving" THEN "off" ELSE @]
  /\ UNCHANGED <<holder, elector, timer, due, call, lag, seen, seenAge, online,
                 faults, overlap>>

\* ListenAndServe has returned and its goroutine calls klog.Fatalf, or Shutdown
\* has, and main returns.
Exit(r) ==
  /\ elector[r] = "stopping" /\ closed[r]
  /\ Ends(r)
  /\ UNCHANGED <<holder, seen, seenAge, online, faults, overlap>>

-----------------------------------------------------------------------------
(* The environment *)

\* Mutant: a round is not limited by RenewDeadline.
Urgent_NoDeadline(r) ==
  \/ (elector[r] = "acquiring" /\ call[r] = "none" /\ timer[r] >= MaxPoll)
  \/ (elector[r] = "waiting" /\ timer[r] >= Retry)
  \/ (elector[r] = "renewing" /\ due[r] /\ call[r] = "none")
  \/ (elector[r] = "stopping" /\ ~closed[r])
  \/ (call[r] # "none" /\ lag[r] >= MaxLag)

\* A replica that is to act is not overtaken by time.
Urgent(r) ==
  \/ (elector[r] = "acquiring" /\ call[r] = "none" /\ timer[r] >= MaxPoll)
  \/ (elector[r] = "waiting" /\ timer[r] >= Retry)
  \/ (elector[r] = "renewing" /\ (timer[r] >= Deadline \/ (due[r] /\ call[r] = "none")))
  \/ (elector[r] = "stopping" /\ ~closed[r])
  \/ (call[r] # "none" /\ lag[r] >= MaxLag)

\* The poller of a round fires every RetryPeriod.
PollFires(r) == elector[r] = "renewing" /\ (timer[r] + 1) % Retry = 0

Tick ==
  /\ \A r \in Replica : ~Urgent(r)
  /\ timer' = [r \in Replica |->
       IF Leads(r) \/ (elector[r] = "acquiring" /\ call[r] = "none")
       THEN timer[r] + 1 ELSE timer[r]]
  /\ due' = [r \in Replica |-> due[r] \/ PollFires(r)]
  /\ lag' = [r \in Replica |-> IF call[r] = "none" THEN 0 ELSE lag[r] + 1]
  /\ seenAge' = [r \in Replica |->
       IF Alive(r) /\ seen[r] /\ seenAge[r] < Lease THEN seenAge[r] + 1 ELSE seenAge[r]]
  /\ overlap' = IF Cardinality(Serving) < 2 THEN 0
                ELSE IF overlap > MaxOverlap THEN overlap ELSE overlap + 1
  /\ UNCHANGED <<holder, elector, call, seen, app, closed, online, faults>>

Fault == faults < MaxFaults /\ faults' = faults + 1

Crash(r) ==
  /\ Alive(r) /\ Fault /\ Ends(r)
  /\ UNCHANGED <<holder, seen, seenAge, online, overlap>>

\* SIGTERM cancels the context: acquire or renew returns.  The lease is kept,
\* ReleaseOnCancel is not set.
Terminate(r) ==
  /\ elector[r] \in {"acquiring", "waiting", "renewing"}
  /\ Fault /\ ElectorAt(r, "stopping", 0, FALSE)
  /\ UNCHANGED <<holder, seen, seenAge, app, closed, online, overlap>>

Disconnect(r) ==
  /\ online[r] /\ Fault
  /\ online' = [online EXCEPT ![r] = FALSE]
  /\ UNCHANGED <<holder, processVars, seen, seenAge, overlap>>

Reconnect(r) ==
  /\ ~online[r]
  /\ online' = [online EXCEPT ![r] = TRUE]
  /\ UNCHANGED <<holder, processVars, seen, seenAge, faults, overlap>>

\* The kubelet starts the container again, in its pod or in a new one with
\* another identity.
Restart(r) ==
  /\ elector[r] = "down"
  /\ elector' = [elector EXCEPT ![r] = "acquiring"]
  /\ timer' = [timer EXCEPT ![r] = Retry]
  /\ seen' = [seen EXCEPT ![r] = FALSE]
  /\ seenAge' = [seenAge EXCEPT ![r] = 0]
  /\ holder' \in {holder, IF holder = r THEN Gone ELSE holder}
  /\ UNCHANGED <<due, call, lag, app, closed, online, faults, overlap>>

-----------------------------------------------------------------------------
Elector(r) ==
  \/ GetLease(r) \/ GetFails(r)
  \/ ApplyUpdate(r) \/ UpdateFails(r) \/ UpdateSucceeds(r)
  \/ BeginRound(r) \/ GiveUp(r)

Callbacks(r) == BuildCollectors(r) \/ Listen(r) \/ Shutdown(r) \/ Exit(r)

Faulty(r) == Crash(r) \/ Terminate(r) \/ Disconnect(r)

Next ==
  \/ Tick
  \/ \E r \in Replica :
       Elector(r) \/ Callbacks(r) \/ Faulty(r) \/ Reconnect(r) \/ Restart(r)

Spec == Init /\ [][Next]_vars

\* Time goes on, processes run, requests are answered, a broken connection comes
\* back and the kubelet restarts what has ended.
Fairness ==
  /\ WF_vars(Tick)
  /\ \A r \in Replica :
       /\ WF_vars(Elector(r)) /\ WF_vars(BuildCollectors(r)) /\ WF_vars(Listen(r))
       /\ WF_vars(Shutdown(r)) /\ WF_vars(Exit(r))
       /\ WF_vars(Reconnect(r)) /\ WF_vars(Restart(r))

FairSpec == Spec /\ Fairness

-----------------------------------------------------------------------------
(* Properties *)

\* Two replicas never serve at once for longer than MaxOverlap: not at all if
\* the response to an update is within Lease - Retry - Deadline, which for the
\* values of the code is no time at all.
OverlapIsBounded == overlap <= MaxOverlap

\* A replica whose server was shut down does not serve again before its process
\* has been restarted, however late the start of its collectors comes to
\* ListenAndServe.
LostMeansGone ==
  [][\A r \in Replica : closed[r] => app'[r] # "serving"]_vars

\* Once the faults are over some replica comes to serve and goes on serving.
ServedForGood == <>[](Serving # {})
=============================================================================

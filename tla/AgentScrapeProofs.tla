------------------------- MODULE AgentScrapeProofs -------------------------
(***************************************************************************)
(* Proofs about AgentScrape: what a scrape reports, and why it may be      *)
(* refused or end the agent, for any cluster, any configurations and any   *)
(* order of events, refreshes, faults and steps of the collectors.         *)
(***************************************************************************)
EXTENDS AgentScrape, TLAPS

-----------------------------------------------------------------------------
(* The inductive invariant.                                                *)

\* What the history says of the listers and of the kinds.
HistoryInv ==
  /\ steady \subseteq listed /\ served \subseteq kinds
  /\ stage # "idle" => listed \subseteq seen

\* Which stages a collector has, and where an answer leaves it.
StageInv ==
  /\ collector = "node" => stage \in {"idle", "nodes", "nodeCost", "nodeUsage"}
  /\ collector = "pod" => stage \in {"idle", "pods", "podCost", "podUsage"}
  /\ collector = "workload" => stage \in {"idle", "custom"} \cup BuiltinKinds
  /\ reply \in {"data", "error"} => stage = "idle"
  /\ active = "todo" => reply # "data"
  /\ active = "unpriced" => ~clean

\* What each loop has left to do.
LoopInv ==
  /\ current # NoWorkload => stage \in {"custom"} \cup BuiltinKinds
  /\ stage \in BuiltinKinds => todo \subseteq WorkloadsOf(stage)
  /\ stage = "custom" /\ (todo # {} \/ current # NoWorkload) =>
       /\ target \in configured \ targetsLeft
       /\ todo \subseteq WorkloadsOf(Target[target])
  /\ stage = "podUsage" => todo \subseteq snap
  /\ reply = "data" => todo = {} /\ targetsLeft = {}

\* The builtin kinds whose workloads have been listed.
Begun == CASE stage = "deployment" -> {"deployment"}
           [] stage = "daemonset" -> {"deployment", "daemonset"}
           [] stage = "idle" -> IF reply = "data" THEN BuiltinKinds ELSE {}
           [] OTHER -> BuiltinKinds

\* Entry t has been listed, and workload w of its kind has had its turn.
Handled(t, w) ==
  /\ t \in configured \ targetsLeft /\ Target[t] \in KindsOf[w]
  /\ t = target => w \notin todo

\* The samples of workload w called a come from its own turn, of its builtin
\* kind or of an entry.
Origin(a, w) ==
  \/ /\ a \in BuiltinKinds \cap KindsOf[w]
     /\ a \in Begun /\ (stage = a => w \notin todo)
  \/ /\ stage = "custom"
     /\ \E t \in configured : a = Alias[t] /\ Handled(t, w)

ClashInv ==
  /\ stage # "idle" => \A s \in sums : Origin(s.name, s.workload)
  /\ current # NoWorkload => Origin(current[1], current[2])
  /\ clash \/ reply = "error" => Clashing

\* The node collector has reported what was listed all along.
CostOfNode(n) == <<"cost", n>> \in out

NodeInv ==
  collector = "node" /\ clean =>
    /\ stage = "nodeCost" => \A n \in steady \cap Nodes : n \in todo \/ CostOfNode(n)
    /\ stage = "nodeUsage" \/ reply = "data" =>
         \A n \in steady \cap Nodes :
           CostOfNode(n) /\ (n \in snap => n \in todo \/ <<"usage", n>> \in out)

\* The pod collector has.
CostOfPod(p) == <<"cost", p>> \in out \/ (<<"zero", p>> \in out /\ NodeOf[p] \notin steady)

PodInv ==
  collector = "pod" /\ clean =>
    /\ stage = "podCost" => \A p \in steady \cap Pods : p \in todo \/ CostOfPod(p)
    /\ stage = "podUsage" \/ reply = "data" =>
         \A p \in steady \cap Pods :
           /\ CostOfPod(p)
           /\ snap \subseteq steady /\ p \in snap => p \in todo \/ <<"usage", p>> \in out

\* Covers, but for the usage, which is to follow.
Pending(a, w, Matching) ==
  /\ current # NoWorkload /\ current[1] = a /\ current[2] = w
  /\ current[3] \subseteq Matching \cap seen /\ Matching \cap steady \subseteq current[3]
  /\ SumOf("count", a, w, current[3]) \in sums
  /\ \E C \in SUBSET current[3] :
       /\ SumOf("cost", a, w, C) \in sums
       /\ {p \in Matching \cap steady : NodeOf[p] \in steady} \subseteq C

Reported(a, w, Matching) == Pending(a, w, Matching) \/ Covers(a, w, Matching)

\* The workload collector has reported every workload that had its turn.
WorkloadInv ==
  collector = "workload" /\ clean =>
    /\ \A k \in BuiltinKinds \cap Begun : \A w \in WorkloadsOf(k) :
         (stage = k /\ w \in todo) \/ Reported(k, w, Selected[w])
    /\ stage = "custom" \/ reply = "data" =>
         \A t \in configured :
           Target[t] \in mapper \cap served =>
             \/ t \in targetsLeft
             \/ \A w \in WorkloadsOf(Target[t]) :
                  (t = target /\ w \in todo) \/ Reported(Alias[t], w, InNamespaceOf(w))

\* The workloads that a list has had.
Had(x) ==
  IF x \in BuiltinKinds
  THEN IF x \in Begun THEN WorkloadsOf(x) \ (IF stage = x THEN todo ELSE {}) ELSE {}
  ELSE IF stage \in {"custom", "idle"} /\ x \notin targetsLeft
       THEN WorkloadsOf(Target[x]) \ (IF target = x THEN todo ELSE {}) ELSE {}

\* Two that got one name were noticed.
RefuseInv ==
  collector = "workload" /\ clean =>
    /\ stage # "idle" \/ reply = "data" =>
         \A x, y \in Taken : \A v \in Had(x), w \in Had(y) :
           x # y /\ NameIn(x) = NameIn(y) /\ LabelsOf[v] = LabelsOf[w] => clash
    /\ reply = "data" => ~clash

\* The loops are over what was listed at a time of the scrape.
ListedInv ==
  /\ OnlyListedIsReported
  /\ stage \in {"nodeCost", "podCost"} => todo \subseteq seen
  /\ current # NoWorkload => current[3] \subseteq Selected[current[2]] \cap seen

IInv ==
  /\ TypeOK /\ HistoryInv /\ StageInv /\ LoopInv /\ ClashInv
  /\ NodeInv /\ PodInv /\ WorkloadInv /\ RefuseInv /\ ListedInv

-----------------------------------------------------------------------------
(* The actions.                                                            *)

LEMMA NextCases ==
  ASSUME NEW P, Next \/ UNCHANGED vars,
         \A o \in Objects : Change(o) => P,
         \A k \in Kinds : ChangeKind(k) => P,
         Restart => P,
         \A o \in Objects : Inform(o) => P,
         Ticker => P,
         Gather => P,
         ClusterState => P,
         ListNodes => P,
         QueryAllNodesUsage => P,
         ListPods => P,
         QueryAllPodsUsage => P,
         \A n \in Nodes : NodeCost(n) => P,
         \A n \in Nodes : NodeUsage(n) => P,
         \A p \in Pods : PodCost(p) => P,
         \A p \in Pods : PodUsage(p) => P,
         \A w \in Workloads : BuiltinWorkload(w) => P,
         \A w \in Workloads : BadSelector(w) => P,
         \A w \in Workloads : CustomWorkload(w) => P,
         \A w \in Workloads : ScriptFails(w) => P,
         WorkloadUsage => P,
         NextKind => P,
         \A t \in Targets : CustomTarget(t) => P,
         Answer => P,
         UNCHANGED vars => P
  PROVE  P
BY DEF Next, Informers, Scrape, Collect

\* Calls fail within their bound.
LEMMA CallType ==
  ASSUME TypeOK, NEW ok \in BOOLEAN, Call(ok)
  PROVE  /\ faults' \in 0 .. MaxFaults /\ clean' \in BOOLEAN
         /\ clean' => clean /\ ok
<1>1. CASE ok
  BY <1>1 DEF TypeOK, Call
<1>2. CASE ~ok
  <2>1. faults < MaxFaults /\ faults' = faults + 1 /\ clean' = FALSE
    BY <1>2 DEF Call
  <2>2. faults \in 0 .. MaxFaults /\ MaxFaults \in Nat
    BY BoundsAssumption DEF TypeOK
  <2>3. faults' \in 0 .. MaxFaults
    BY <2>1, <2>2
  <2> QED BY <2>1, <2>3
<1> QED BY <1>1, <1>2

LEMMA FirstStages ==
  /\ DOMAIN First = {"node", "pod", "workload"}
  /\ First["node"] = "nodes" /\ First["pod"] = "pods"
  /\ First["workload"] = "deployment"
  /\ \A k \in DOMAIN First : First[k] \in Stages
BY DEF First, Stages, BuiltinKinds

LEMMA EventType ==
  ASSUME TypeOK, Event
  PROVE  events' \in 0 .. MaxEvents
BY BoundsAssumption DEF TypeOK, Event

LEMMA WorkloadsOfType ==
  ASSUME NEW k
  PROVE  WorkloadsOf(k) \subseteq Workloads /\ \A w \in WorkloadsOf(k) : k \in KindsOf[w]
BY DEF WorkloadsOf

\* A turn of a loop over workloads.
LEMMA SummedType ==
  ASSUME TypeOK, NEW a \in Names, NEW w \in Workloads, NEW P \in SUBSET Pods,
         Summed(a, w, P)
  PROVE  /\ sums' \subseteq Sums /\ clash' \in BOOLEAN
         /\ current' \in {NoWorkload} \cup (Names \X Workloads \X SUBSET Pods)
         /\ faults' \in 0 .. MaxFaults /\ clean' \in BOOLEAN
<1>1. PICK C \in SUBSET P :
        /\ Priced(P, C)
        /\ sums' = sums \cup {SumOf("count", a, w, P), SumOf("cost", a, w, C)}
        /\ clash' = (clash \/ \E s \in sums : s.name = a /\ LabelsOf[s.workload] = LabelsOf[w])
        /\ current' = <<a, w, P>>
  BY DEF Summed
<1>2. \E ok \in BOOLEAN : Call(ok)
  BY <1>1 DEF Priced
<1>3. {SumOf("count", a, w, P), SumOf("cost", a, w, C)} \subseteq Sums
  BY DEF Sums, SumOf
<1> QED BY <1>1, <1>2, <1>3, CallType DEF TypeOK

LEMMA TypeInit == Init => TypeOK
<1> SUFFICES ASSUME Init PROVE TypeOK
  OBVIOUS
<1>1. /\ {there, listed, cached} \subseteq SUBSET Objects
      /\ {kinds, mapper} \subseteq SUBSET Kinds /\ configured \subseteq Targets
      /\ tick \in {"nodes", "pods"}
  BY ObjectsAssumption DEF Init
<1>2. events \in 0 .. MaxEvents /\ faults \in 0 .. MaxFaults
  BY BoundsAssumption DEF Init
<1>3. collector \in DOMAIN First /\ stage \in Stages
  BY DEF Init, Stages
<1> QED BY <1>1, <1>2, <1>3 DEF Init, TypeOK

LEMMA TypeStep == TypeOK /\ LoopInv /\ [Next]_vars => TypeOK'
<1> SUFFICES ASSUME TypeOK, LoopInv, [Next]_vars PROVE TypeOK'
  OBVIOUS
<1> USE DEF clusterVars, agentVars, loopVars, historyVars, OnlyLoop, OnlyReads
<1>1. ASSUME NEW o \in Objects, Change(o) PROVE TypeOK'
  BY <1>1, EventType DEF TypeOK, Change
<1>2. ASSUME NEW k \in Kinds, ChangeKind(k) PROVE TypeOK'
  BY <1>2, EventType DEF TypeOK, ChangeKind
<1>3. ASSUME Restart PROVE TypeOK'
  BY <1>3, EventType DEF TypeOK, Restart, Stages
<1>4. ASSUME NEW o \in Objects, Inform(o) PROVE TypeOK'
  BY <1>4 DEF TypeOK, Inform
<1>5. ASSUME Ticker PROVE TypeOK'
  BY <1>5, BoundsAssumption
     DEF TypeOK, Ticker, CollectNodeMetrics, CollectPodMetrics, Refreshed, Read
<1>6. ASSUME Gather PROVE TypeOK'
  <2>1. stage' \in Stages
    BY <1>6, FirstStages DEF TypeOK, Gather
  <2> QED BY <1>6, <2>1, WorkloadsOfType DEF TypeOK, Gather
<1>7. ASSUME ClusterState PROVE TypeOK'
  BY <1>7, CallType DEF TypeOK, ClusterState
<1>8. ASSUME ListNodes PROVE TypeOK'
  BY <1>8 DEF TypeOK, ListNodes, Loop, Stages
<1>9. ASSUME QueryAllNodesUsage PROVE TypeOK'
  BY <1>9 DEF TypeOK, QueryAllNodesUsage, Loop, Stages
<1>10. ASSUME ListPods PROVE TypeOK'
  BY <1>10 DEF TypeOK, ListPods, Loop, Stages
<1>11. ASSUME QueryAllPodsUsage PROVE TypeOK'
  BY <1>11 DEF TypeOK, QueryAllPodsUsage, Loop, Stages
<1>12. ASSUME NEW n \in Nodes, NodeCost(n) PROVE TypeOK'
  <2>1. PICK ok \in BOOLEAN :
          /\ Call(ok) /\ todo' = todo \ {n}
          /\ Turn(n, "nodeCost", IF ok THEN {<<"cost", n>>} ELSE {})
    BY <1>12 DEF NodeCost
  <2>2. out' \subseteq Samples
    BY <2>1 DEF TypeOK, Turn, Samples, Objects
  <2> QED BY <2>1, <2>2, CallType DEF TypeOK, Turn
<1>13. ASSUME NEW n \in Nodes, NodeUsage(n) PROVE TypeOK'
  <2>1. /\ todo' = todo \ {n}
        /\ \E S : S \subseteq {<<"usage", n>>} /\ Turn(n, "nodeUsage", S)
        /\ UNCHANGED <<faults, clean>> \/ \E ok \in BOOLEAN : Call(ok)
    BY <1>13 DEF NodeUsage, AfterUnknownNode
  <2>2. out' \subseteq Samples
    BY <2>1 DEF TypeOK, Turn, Samples, Objects
  <2>3. faults' \in 0 .. MaxFaults /\ clean' \in BOOLEAN
    BY <2>1, CallType DEF TypeOK
  <2> QED BY <2>1, <2>2, <2>3 DEF TypeOK, Turn
<1>14. ASSUME NEW p \in Pods, PodCost(p) PROVE TypeOK'
  <2>1. PICK ok \in BOOLEAN :
          /\ Call(ok) /\ todo' = todo \ {p}
          /\ Turn(p, "podCost",
                  {<<IF ok /\ NodeOf[p] \in listed THEN "cost" ELSE "zero", p>>})
    BY <1>14 DEF PodCost
  <2>2. out' \subseteq Samples
    BY <2>1 DEF TypeOK, Turn, Samples, Objects
  <2> QED BY <2>1, <2>2, CallType DEF TypeOK, Turn
<1>15. ASSUME NEW p \in Pods, PodUsage(p) PROVE TypeOK'
  <2>1. /\ UNCHANGED <<faults, clean>> /\ todo' \subseteq todo
        /\ \E S : S \subseteq {<<"usage", p>>} /\ Turn(p, "podUsage", S)
    BY <1>15 DEF PodUsage
  <2>2. out' \subseteq Samples
    BY <2>1 DEF TypeOK, Turn, Samples, Objects
  <2> QED BY <2>1, <2>2 DEF TypeOK, Turn
<1>16. ASSUME NEW w \in Workloads, BuiltinWorkload(w) PROVE TypeOK'
  <2>1. Selected[w] \cap listed \in SUBSET Pods /\ stage \in Names
    BY <1>16, WorkloadsAssumption DEF BuiltinWorkload, Names
  <2>2. /\ Summed(stage, w, Selected[w] \cap listed) /\ todo' \subseteq todo
        /\ UNCHANGED <<stage, snap, target, targetsLeft, out>> /\ OnlyLoop
    BY <1>16 DEF BuiltinWorkload
  <2>3. /\ sums' \subseteq Sums /\ clash' \in BOOLEAN
        /\ current' \in {NoWorkload} \cup (Names \X Workloads \X SUBSET Pods)
        /\ faults' \in 0 .. MaxFaults /\ clean' \in BOOLEAN
    BY <2>1, <2>2, SummedType
  <2> QED BY <2>2, <2>3 DEF TypeOK
<1>17. ASSUME NEW w \in Workloads, CustomWorkload(w) PROVE TypeOK'
  <2>1. Selects(w) \in SUBSET Pods
    BY <1>17, WorkloadsAssumption DEF Selects
  <2>2. NameOf(target) \in Names
    BY <1>17 DEF CustomWorkload, LoopInv, TypeOK, Names, NameOf
  <2>3. /\ Summed(NameOf(target), w, Selects(w)) /\ todo' \subseteq todo
        /\ UNCHANGED <<stage, snap, target, targetsLeft, out>> /\ OnlyLoop
    BY <1>17 DEF CustomWorkload
  <2>4. /\ sums' \subseteq Sums /\ clash' \in BOOLEAN
        /\ current' \in {NoWorkload} \cup (Names \X Workloads \X SUBSET Pods)
        /\ faults' \in 0 .. MaxFaults /\ clean' \in BOOLEAN
    BY <2>1, <2>2, <2>3, SummedType
  <2> QED BY <2>3, <2>4 DEF TypeOK
<1>18. ASSUME NEW w \in Workloads, BadSelector(w) \/ ScriptFails(w) PROVE TypeOK'
  BY <1>18, CallType DEF TypeOK, BadSelector, ScriptFails
<1>19. ASSUME WorkloadUsage PROVE TypeOK'
  <2>1. /\ current[1] \in Names /\ current[2] \in Workloads
        /\ current[3] \in SUBSET Pods
    BY <1>19 DEF WorkloadUsage, TypeOK
  <2>2. SumOf("usage", current[1], current[2], UsedOf(current[3])) \in Sums
    BY <2>1 DEF Sums, SumOf, UsedOf
  <2> QED BY <1>19, <2>2 DEF TypeOK, WorkloadUsage
<1>20. ASSUME NextKind PROVE TypeOK'
  <2>1. todo' \subseteq Workloads
    BY <1>20 DEF NextKind, WorkloadsOf
  <2> QED BY <1>20, <2>1 DEF TypeOK, NextKind, Stages, BuiltinKinds
<1>21. ASSUME NEW t \in Targets, CustomTarget(t) PROVE TypeOK'
  <2>1. PICK ok \in BOOLEAN : Call(ok)
    BY <1>21 DEF CustomTarget
  <2>2. todo' \subseteq Workloads
    BY <1>21 DEF CustomTarget, WorkloadsOf
  <2>3. target' \in configured /\ targetsLeft' \subseteq configured
    BY <1>21 DEF CustomTarget, TypeOK
  <2> QED BY <1>21, <2>1, <2>2, <2>3, CallType DEF TypeOK, CustomTarget
<1>22. ASSUME Answer PROVE TypeOK'
  BY <1>22 DEF TypeOK, Answer, Stages
<1>23. ASSUME UNCHANGED vars PROVE TypeOK'
  BY <1>23 DEF TypeOK, vars
<1> HIDE DEF clusterVars, agentVars, loopVars, historyVars, OnlyLoop, OnlyReads
<1> QED
  BY <1>1, <1>2, <1>3, <1>4, <1>5, <1>6, <1>7, <1>8, <1>9, <1>10, <1>11, <1>12,
     <1>13, <1>14, <1>15, <1>16, <1>17, <1>18, <1>19, <1>20, <1>21, <1>22, <1>23,
     NextCases

-----------------------------------------------------------------------------
(* Collectors in general.                                                  *)

LEMMA NextParts ==
  ASSUME NEW P, Next \/ UNCHANGED vars,
         \A o \in Objects : Change(o) => P,
         \A k \in Kinds : ChangeKind(k) => P,
         Restart => P,
         \A o \in Objects : Inform(o) => P,
         Ticker => P,
         Gather => P,
         ClusterState => P,
         Collect => P,
         Answer => P,
         UNCHANGED vars => P
  PROVE  P
BY DEF Next, Informers, Scrape

\* How a step of the followed collector changes its stage.
StageStep(from, to) ==
  \/ from = to
  \/ <<from, to>> \in {<<"nodes", "nodeCost">>, <<"nodeCost", "nodeUsage">>,
                       <<"pods", "podCost">>, <<"podCost", "podUsage">>,
                       <<"deployment", "daemonset">>, <<"daemonset", "statefulset">>,
                       <<"statefulset", "custom">>}

LEMMA PricedCalls ==
  ASSUME TypeOK, NEW P, NEW C, Priced(P, C)
  PROVE  /\ clean' => clean
         /\ clean' => C = {p \in P : NodeOf[p] \in listed}
<1>1. /\ Call(TRUE) => (clean' => clean)
      /\ Call(FALSE) => ~clean'
  BY CallType
<1> QED BY <1>1 DEF Priced

LEMMA CollectKeeps ==
  ASSUME TypeOK, Collect
  PROVE  /\ Running /\ OnlyLoop
         /\ StageStep(stage, stage') /\ stage' # "idle"
         /\ clean' => clean
<1> DEFINE Good == /\ Running /\ OnlyLoop
                   /\ StageStep(stage, stage') /\ stage' # "idle"
                   /\ clean' => clean
<1>1. ASSUME ListNodes \/ QueryAllNodesUsage \/ ListPods \/ QueryAllPodsUsage PROVE Good
  BY <1>1 DEF ListNodes, QueryAllNodesUsage, ListPods, QueryAllPodsUsage, Loop,
              OnlyReads, Running, StageStep
<1>2. ASSUME NEW n \in Nodes, NodeCost(n) PROVE Good
  BY <1>2, CallType DEF NodeCost, Turn, Running, StageStep
<1>3. ASSUME NEW n \in Nodes, NodeUsage(n) PROVE Good
  BY <1>3, CallType DEF NodeUsage, Turn, Running, StageStep
<1>4. ASSUME NEW p \in Pods, PodCost(p) PROVE Good
  BY <1>4, CallType DEF PodCost, Turn, Running, StageStep
<1>5. ASSUME NEW p \in Pods, PodUsage(p) PROVE Good
  BY <1>5 DEF PodUsage, Turn, Running, StageStep
<1>6. ASSUME NEW w \in Workloads, BuiltinWorkload(w) PROVE Good
  <2>1. clean' => clean
    BY <1>6, PricedCalls DEF BuiltinWorkload, Summed
  <2> QED BY <1>6, <2>1 DEF BuiltinWorkload, Running, StageStep
<1>7. ASSUME NEW w \in Workloads, CustomWorkload(w) PROVE Good
  <2>1. clean' => clean
    BY <1>7, PricedCalls DEF CustomWorkload, Summed
  <2> QED BY <1>7, <2>1 DEF CustomWorkload, Running, StageStep
<1>8. ASSUME NEW w \in Workloads, BadSelector(w) \/ ScriptFails(w) PROVE Good
  BY <1>8, CallType DEF BadSelector, ScriptFails, Running, StageStep
<1>9. ASSUME WorkloadUsage PROVE Good
  BY <1>9 DEF WorkloadUsage, OnlyReads, Running, StageStep
<1>10. ASSUME NextKind PROVE Good
  BY <1>10 DEF NextKind, OnlyReads, Running, StageStep
<1>11. ASSUME NEW t \in Targets, CustomTarget(t) PROVE Good
  BY <1>11, CallType DEF CustomTarget, Running, StageStep
<1> HIDE DEF Good
<1>12. Good
  BY <1>1, <1>2, <1>3, <1>4, <1>5, <1>6, <1>7, <1>8, <1>9, <1>10, <1>11 DEF Collect
<1> QED BY <1>12 DEF Good

LEMMA HistoryStep == TypeOK /\ HistoryInv /\ [Next]_vars => HistoryInv'
<1> SUFFICES ASSUME TypeOK, HistoryInv, [Next]_vars PROVE HistoryInv'
  OBVIOUS
<1> USE DEF clusterVars, agentVars, loopVars, historyVars
<1>1. ASSUME NEW o \in Objects, Change(o) PROVE HistoryInv'
  BY <1>1 DEF HistoryInv, Change
<1>2. ASSUME NEW k \in Kinds, ChangeKind(k) PROVE HistoryInv'
  BY <1>2 DEF HistoryInv, ChangeKind
<1>3. ASSUME Restart PROVE HistoryInv'
  BY <1>3 DEF HistoryInv, Restart
<1>4. ASSUME NEW o \in Objects, Inform(o) PROVE HistoryInv'
  BY <1>4 DEF HistoryInv, Inform
<1>5. ASSUME Ticker PROVE HistoryInv'
  BY <1>5 DEF HistoryInv, Ticker, CollectNodeMetrics, CollectPodMetrics
<1>6. ASSUME Gather PROVE HistoryInv'
  BY <1>6 DEF HistoryInv, Gather
<1>7. ASSUME ClusterState PROVE HistoryInv'
  BY <1>7 DEF HistoryInv, ClusterState, Running
<1>8. ASSUME Collect PROVE HistoryInv'
  BY <1>8, CollectKeeps DEF HistoryInv, OnlyLoop, Running
<1>9. ASSUME Answer PROVE HistoryInv'
  BY <1>9 DEF HistoryInv, Answer
<1>10. ASSUME UNCHANGED vars PROVE HistoryInv'
  BY <1>10 DEF HistoryInv, vars
<1> HIDE DEF clusterVars, agentVars, loopVars, historyVars
<1> QED
  BY <1>1, <1>2, <1>3, <1>4, <1>5, <1>6, <1>7, <1>8, <1>9, <1>10, NextParts

LEMMA StageInvStep == TypeOK /\ StageInv /\ [Next]_vars => StageInv'
<1> SUFFICES ASSUME TypeOK, StageInv, [Next]_vars PROVE StageInv'
  OBVIOUS
<1> USE DEF clusterVars, agentVars, loopVars, historyVars
<1> DEFINE Same == UNCHANGED <<collector, stage, reply, active, clean>>
<1>1. ASSUME Same PROVE StageInv'
  BY <1>1 DEF StageInv
<1>2. ASSUME NEW o \in Objects, Change(o) PROVE Same
  BY <1>2 DEF Change
<1>3. ASSUME NEW k \in Kinds, ChangeKind(k) PROVE Same
  BY <1>3 DEF ChangeKind
<1>4. ASSUME Restart PROVE StageInv'
  BY <1>4 DEF StageInv, Restart
<1>5. ASSUME NEW o \in Objects, Inform(o) PROVE Same
  BY <1>5 DEF Inform
<1>6. ASSUME Ticker PROVE Same
  BY <1>6 DEF Ticker, CollectNodeMetrics, CollectPodMetrics
<1>7. ASSUME Gather PROVE StageInv'
  BY <1>7, FirstStages DEF StageInv, Gather, BuiltinKinds
<1>8. ASSUME ClusterState PROVE StageInv'
  <2>1. /\ UNCHANGED <<collector, stage>> /\ reply' \in {"crash", "none"}
        /\ \/ reply' = "crash" /\ UNCHANGED <<active, clean>>
           \/ active' = "sent"
           \/ active' = "unpriced" /\ ~clean'
    <3>1. CASE listed \cap Nodes = {}
      BY <1>8, <3>1 DEF ClusterState
    <3>2. CASE listed \cap Nodes # {}
      <4>1. PICK ok \in BOOLEAN : /\ Call(ok) /\ UNCHANGED reply
                                 /\ active' = IF ok THEN "sent" ELSE "unpriced"
        BY <1>8, <3>2 DEF ClusterState
      <4>2. ~ok => ~clean'
        BY <4>1, CallType
      <4> QED BY <1>8, <4>1, <4>2 DEF ClusterState, Running
    <3> QED BY <3>1, <3>2
  <2> QED BY <2>1 DEF StageInv
<1>9. ASSUME Collect PROVE StageInv'
  BY <1>9, CollectKeeps DEF StageInv, OnlyLoop, Running, StageStep, BuiltinKinds
<1>10. ASSUME Answer PROVE StageInv'
  BY <1>10 DEF StageInv, Answer, Running
<1>11. ASSUME UNCHANGED vars PROVE Same
  BY <1>11 DEF vars
<1> HIDE DEF Same, clusterVars, agentVars, loopVars, historyVars
<1> QED
  BY <1>1, <1>2, <1>3, <1>4, <1>5, <1>6, <1>7, <1>8, <1>9, <1>10, <1>11, NextParts

LEMMA LoopStep == TypeOK /\ StageInv /\ LoopInv /\ [Next]_vars => LoopInv'
<1> SUFFICES ASSUME TypeOK, StageInv, LoopInv, [Next]_vars PROVE LoopInv'
  OBVIOUS
<1> USE DEF clusterVars, agentVars, loopVars, historyVars, OnlyLoop, OnlyReads, Running
<1> DEFINE Same == UNCHANGED <<current, stage, todo, target, targetsLeft, snap,
                               reply, configured>>
<1>1. ASSUME Same PROVE LoopInv'
  BY <1>1 DEF LoopInv
<1>2. ASSUME NEW o \in Objects, Change(o) PROVE Same
  BY <1>2 DEF Change
<1>3. ASSUME NEW k \in Kinds, ChangeKind(k) PROVE Same
  BY <1>3 DEF ChangeKind
<1>4. ASSUME Restart PROVE LoopInv'
  BY <1>4 DEF LoopInv, Restart, BuiltinKinds
<1>5. ASSUME NEW o \in Objects, Inform(o) PROVE Same
  BY <1>5 DEF Inform
<1>6. ASSUME Ticker PROVE Same
  BY <1>6 DEF Ticker, CollectNodeMetrics, CollectPodMetrics
<1>7. ASSUME Gather PROVE LoopInv'
  <2>1. collector \in {"node", "pod", "workload"}
    BY FirstStages DEF TypeOK
  <2> QED BY <1>7, <2>1, FirstStages DEF LoopInv, Gather, BuiltinKinds
<1>8. ASSUME ClusterState PROVE LoopInv'
  <2>1. UNCHANGED <<current, stage, todo, target, targetsLeft, snap, configured>>
        /\ reply' # "data"
    BY <1>8 DEF ClusterState
  <2> QED BY <2>1 DEF LoopInv
<1>9. ASSUME ListNodes \/ QueryAllNodesUsage \/ ListPods \/ QueryAllPodsUsage
      PROVE  LoopInv'
  BY <1>9 DEF LoopInv, ListNodes, QueryAllNodesUsage, ListPods, QueryAllPodsUsage,
              Loop, BuiltinKinds
<1>10. ASSUME NEW n \in Nodes, NodeCost(n) \/ NodeUsage(n) PROVE LoopInv'
  BY <1>10 DEF LoopInv, NodeCost, NodeUsage, Turn, BuiltinKinds
<1>11. ASSUME NEW p \in Pods, PodCost(p) \/ PodUsage(p) PROVE LoopInv'
  BY <1>11 DEF LoopInv, PodCost, PodUsage, Turn, BuiltinKinds
<1>12. ASSUME NEW w \in Workloads, BuiltinWorkload(w) \/ BadSelector(w) PROVE LoopInv'
  BY <1>12 DEF LoopInv, BuiltinWorkload, BadSelector, BuiltinKinds
<1>13. ASSUME NEW w \in Workloads, CustomWorkload(w) \/ ScriptFails(w) PROVE LoopInv'
  BY <1>13 DEF LoopInv, CustomWorkload, ScriptFails, BuiltinKinds
<1>14. ASSUME WorkloadUsage PROVE LoopInv'
  BY <1>14 DEF LoopInv, WorkloadUsage
<1>15. ASSUME NextKind PROVE LoopInv'
  BY <1>15 DEF LoopInv, NextKind, BuiltinKinds
<1>16. ASSUME NEW t \in Targets, CustomTarget(t) PROVE LoopInv'
  BY <1>16 DEF LoopInv, CustomTarget, BuiltinKinds, TypeOK
<1>17. ASSUME Answer PROVE LoopInv'
  BY <1>17 DEF LoopInv, Answer, BuiltinKinds
<1>18. ASSUME UNCHANGED vars PROVE Same
  BY <1>18 DEF vars
<1> HIDE DEF Same, clusterVars, agentVars, loopVars, historyVars, OnlyLoop, OnlyReads, Running
<1> QED
  BY <1>1, <1>2, <1>3, <1>4, <1>5, <1>6, <1>7, <1>8, <1>9, <1>10, <1>11, <1>12,
     <1>13, <1>14, <1>15, <1>16, <1>17, <1>18, NextCases

-----------------------------------------------------------------------------
(* The names of the samples.                                               *)

LEMMA BegunDef ==
  /\ stage = "deployment" => Begun = {"deployment"}
  /\ stage = "daemonset" => Begun = {"deployment", "daemonset"}
  /\ stage = "idle" /\ reply = "data" => Begun = BuiltinKinds
  /\ stage = "idle" /\ reply # "data" => Begun = {}
  /\ stage \notin {"idle", "deployment", "daemonset"} => Begun = BuiltinKinds
  /\ Begun \subseteq BuiltinKinds
BY DEF Begun, BuiltinKinds

LEMMA OriginKept ==
  ASSUME NEW a, NEW w, Origin(a, w), stage # "idle",
         UNCHANGED <<stage, configured, targetsLeft, target>>, todo' \subseteq todo
  PROVE  Origin(a, w)'
<1>1. Begun' = Begun
  BY DEF Begun
<1> QED BY <1>1 DEF Origin, Handled

\* The collectors of nodes and pods have no samples of workloads to compare.
LEMMA OriginAside ==
  ASSUME NEW a, NEW w, Origin(a, w), stage \notin {"idle", "custom"} \cup BuiltinKinds,
         stage' \notin {"idle", "custom"} \cup BuiltinKinds
  PROVE  Origin(a, w)'
<1>1. Begun = BuiltinKinds /\ Begun' = BuiltinKinds
  BY BegunDef DEF Begun, BuiltinKinds
<1> QED BY <1>1 DEF Origin

\* Of two lists that clash one is an entry of a configuration.
LEMMA ClashOfEntry ==
  ASSUME NEW x \in Lists, NEW y \in Lists, Clash(x, y)
  PROVE  Clashing
<1>1. x \in configured \/ y \in configured
  BY DEF Lists, Clash, NameIn
<1>2. Clash(y, x)
  BY DEF Clash
<1> QED BY <1>1, <1>2 DEF Clashing

LEMMA ClashInit == Init => ClashInv
BY DEF Init, ClashInv

LEMMA ClashStep ==
  TypeOK /\ StageInv /\ LoopInv /\ ClashInv /\ [Next]_vars => ClashInv'
<1> SUFFICES ASSUME TypeOK, StageInv, LoopInv, ClashInv, [Next]_vars PROVE ClashInv'
  OBVIOUS
<1> USE DEF clusterVars, agentVars, loopVars, historyVars, OnlyLoop, OnlyReads, Running
<1> DEFINE Same == UNCHANGED <<stage, sums, todo, target, targetsLeft, configured,
                               current, clash, reply>>
\* Configurations do not change.
<1>1. ASSUME configured' = configured, clash' => clash \/ Clashing,
             reply' = "error" => reply = "error" \/ clash \/ Clashing
      PROVE  clash' \/ reply' = "error" => Clashing'
  BY <1>1 DEF ClashInv, Clashing, Lists
<1>2. ASSUME Same PROVE ClashInv'
  BY <1>2 DEF ClashInv, Clashing, Lists, Origin, Handled, Begun
<1>3. ASSUME NEW o \in Objects, Change(o) PROVE Same
  BY <1>3 DEF Change
<1>4. ASSUME NEW k \in Kinds, ChangeKind(k) PROVE Same
  BY <1>4 DEF ChangeKind
<1>5. ASSUME Restart PROVE ClashInv'
  BY <1>5 DEF ClashInv, Restart
<1>6. ASSUME NEW o \in Objects, Inform(o) PROVE Same
  BY <1>6 DEF Inform
<1>7. ASSUME Ticker PROVE Same
  BY <1>7 DEF Ticker, CollectNodeMetrics, CollectPodMetrics
<1>8. ASSUME Gather PROVE ClashInv'
  <2>1. sums' = {} /\ current' = NoWorkload /\ clash' = FALSE /\ reply' = "none"
    BY <1>8 DEF Gather, LoopInv, BuiltinKinds
  <2> QED BY <2>1 DEF ClashInv
<1>9. ASSUME ClusterState PROVE ClashInv'
  <2>1. /\ UNCHANGED <<stage, sums, todo, target, targetsLeft, configured, current, clash>>
        /\ reply' \in {"crash", "none"} /\ stage # "idle"
    BY <1>9 DEF ClusterState
  <2>2. \A a, w : Origin(a, w) => Origin(a, w)'
    BY <2>1, OriginKept
  <2> QED BY <2>1, <2>2 DEF ClashInv, Clashing, Lists
<1>10. ASSUME ListNodes \/ QueryAllNodesUsage \/ ListPods \/ QueryAllPodsUsage
       PROVE  ClashInv'
  <2>1. /\ stage \notin {"idle", "custom"} \cup BuiltinKinds
        /\ stage' \notin {"idle", "custom"} \cup BuiltinKinds
        /\ UNCHANGED <<sums, configured, current, clash, reply>>
    BY <1>10 DEF ListNodes, QueryAllNodesUsage, ListPods, QueryAllPodsUsage, Loop,
                 BuiltinKinds
  <2>2. \A a, w : Origin(a, w) => Origin(a, w)'
    BY <2>1, OriginAside
  <2> QED BY <2>1, <2>2 DEF ClashInv, Clashing, Lists
<1>11. ASSUME UNCHANGED <<stage, sums, target, targetsLeft, configured, current,
                          clash, reply>>,
              todo' \subseteq todo, stage # "idle"
       PROVE  ClashInv'
  <2>1. \A a, w : Origin(a, w) => Origin(a, w)'
    BY <1>11, OriginKept
  <2> QED BY <1>11, <2>1 DEF ClashInv, Clashing, Lists
<1>12. ASSUME NEW n \in Nodes, NodeCost(n) \/ NodeUsage(n) PROVE ClashInv'
  BY <1>11, <1>12 DEF NodeCost, NodeUsage, AfterUnknownNode, Turn
<1>13. ASSUME NEW p \in Pods, PodCost(p) \/ PodUsage(p) PROVE ClashInv'
  BY <1>11, <1>13 DEF PodCost, PodUsage, Turn
<1>14. ASSUME NEW w \in Workloads, BadSelector(w) \/ ScriptFails(w) PROVE ClashInv'
  BY <1>11, <1>14 DEF BadSelector, ScriptFails
\* The samples of a workload: two of one name are from two lists.
<1>15. ASSUME NEW w \in Workloads, NEW a, NEW P, Summed(a, w, P), w \in todo,
              UNCHANGED <<stage, target, targetsLeft, configured, reply>>,
              todo' = todo \ {w}, stage # "idle", Origin(a, w)',
              \A v \in Workloads :
                Origin(a, v) /\ LabelsOf[v] = LabelsOf[w] => Clashing
       PROVE  ClashInv'
  <2>1. PICK C \in SUBSET P :
          /\ sums' = sums \cup {SumOf("count", a, w, P), SumOf("cost", a, w, C)}
          /\ clash' = (clash \/ \E s \in sums : s.name = a /\ LabelsOf[s.workload] = LabelsOf[w])
          /\ current' = <<a, w, P>>
    BY <1>15 DEF Summed
  <2>2. ASSUME NEW s \in sums' PROVE Origin(s.name, s.workload)'
    <3>1. CASE s \in sums
      <4>1. Origin(s.name, s.workload)
        BY <1>15, <3>1 DEF ClashInv
      <4> DEFINE b == s.name
                 v == s.workload
      <4>2. Origin(b, v)
        BY <4>1
      <4> HIDE DEF b, v
      <4>3. \A x, y : Origin(x, y) => Origin(x, y)'
        BY <1>15, OriginKept
      <4> QED BY <4>1, <4>3
    <3>2. CASE s = SumOf("count", a, w, P) \/ s = SumOf("cost", a, w, C)
      <4>1. s.name = a /\ s.workload = w
        BY <3>2 DEF SumOf
      <4> QED BY <1>15, <4>1
    <3> QED BY <2>1, <3>1, <3>2
  <2>3. clash' => clash \/ Clashing
    <3>1. ASSUME NEW s \in sums, s.name = a, LabelsOf[s.workload] = LabelsOf[w]
          PROVE  Clashing
      <4>1. s.workload \in Workloads
        BY DEF TypeOK, Sums
      <4>2. Origin(s.name, s.workload)
        BY <1>15 DEF ClashInv
      <4>3. PICK b, v : b = s.name /\ v = s.workload
        OBVIOUS
      <4>4. b = a /\ v \in Workloads /\ LabelsOf[v] = LabelsOf[w] /\ Origin(b, v)
        BY <3>1, <4>1, <4>2, <4>3
      <4> QED BY <1>15, <4>4
    <3> QED BY <2>1, <3>1
  <2>4. current'[1] = a /\ current'[2] = w
    BY <2>1
  <2>5. clash' \/ reply' = "error" => Clashing'
    BY <1>1, <1>15, <2>3
  <2> QED BY <1>15, <2>2, <2>4, <2>5 DEF ClashInv
<1>16. ASSUME NEW w \in Workloads, BuiltinWorkload(w) PROVE ClashInv'
  <2>1. PICK k, P : k = stage /\ P = Selected[w] \cap listed
    OBVIOUS
  <2>2. /\ k \in BuiltinKinds /\ w \in todo /\ k \in KindsOf[w] /\ k # "idle" /\ k # "custom"
        /\ Summed(k, w, P)
        /\ UNCHANGED <<stage, target, targetsLeft, configured, reply>>
        /\ todo' = todo \ {w}
    BY <1>16, <2>1, WorkloadsOfType DEF BuiltinWorkload, LoopInv, BuiltinKinds
  <2>3. Begun' = Begun /\ k \in Begun
    BY <2>1, <2>2 DEF Begun, BuiltinKinds
  <2>4. Origin(k, w)'
    BY <2>1, <2>2, <2>3 DEF Origin
  <2>5. ASSUME NEW v \in Workloads, Origin(k, v), LabelsOf[v] = LabelsOf[w] PROVE FALSE
    <3>1. k \in KindsOf[v] /\ v \notin todo
      BY <2>1, <2>2, <2>5 DEF Origin
    <3>2. v = w
      BY <2>2, <2>5, <3>1, NamesAssumption
    <3> QED BY <2>2, <3>1, <3>2
  <2> QED BY <1>15, <2>1, <2>2, <2>4, <2>5
<1>17. ASSUME NEW w \in Workloads, CustomWorkload(w) PROVE ClashInv'
  <2>1. PICK a, t, P : a = Alias[target] /\ t = target /\ P = Selects(w)
    OBVIOUS
  <2>2. /\ stage = "custom" /\ w \in todo /\ Target[t] \in KindsOf[w]
        /\ t \in configured \ targetsLeft /\ t \in Targets /\ a = Alias[t]
        /\ Summed(a, w, P)
        /\ UNCHANGED <<stage, target, targetsLeft, configured, reply>>
        /\ todo' = todo \ {w}
    BY <1>17, <2>1, WorkloadsOfType DEF CustomWorkload, LoopInv, NameOf, TypeOK
  <2>3. Origin(a, w)'
    BY <2>1, <2>2 DEF Origin, Handled
  <2>4. KindIn(t) = Target[t] /\ NameIn(t) = a /\ t \in Lists /\ w \in WorkloadsOf(Target[t])
    BY <2>2, TargetsAssumption DEF KindIn, NameIn, Lists, WorkloadsOf
  <2>5. ASSUME NEW v \in Workloads, Origin(a, v), LabelsOf[v] = LabelsOf[w] PROVE Clashing
    <3>1. CASE a \in BuiltinKinds \cap KindsOf[v]
      <4>1. /\ a # t /\ KindIn(a) = a /\ NameIn(a) = a /\ a \in Lists
            /\ v \in WorkloadsOf(a)
        BY <2>2, <3>1, TargetsAssumption DEF KindIn, NameIn, Lists, WorkloadsOf
      <4> QED BY <2>4, <2>5, <4>1, ClashOfEntry DEF Clash
    <3>2. ASSUME NEW u \in configured, a = Alias[u], Handled(u, v) PROVE Clashing
      <4>1. Target[u] \in KindsOf[v] /\ (u = t => v \notin todo)
        BY <2>1, <3>2 DEF Handled
      <4>2. u # t
        BY <2>2, <2>5, <4>1, NamesAssumption
      <4>3. /\ KindIn(u) = Target[u] /\ NameIn(u) = a /\ u \in Lists
            /\ v \in WorkloadsOf(Target[u])
        BY <3>2, <4>1, TargetsAssumption DEF KindIn, NameIn, Lists, WorkloadsOf, TypeOK
      <4> QED BY <2>4, <2>5, <4>2, <4>3, ClashOfEntry DEF Clash
    <3> QED BY <2>5, <3>1, <3>2 DEF Origin
  <2> QED BY <1>15, <2>2, <2>3, <2>5
<1>18. ASSUME WorkloadUsage PROVE ClashInv'
  <2>1. /\ current # NoWorkload /\ current' = NoWorkload /\ stage # "idle"
        /\ sums' = sums \cup {SumOf("usage", current[1], current[2], UsedOf(current[3]))}
        /\ UNCHANGED <<stage, target, targetsLeft, configured, todo, clash, reply>>
    BY <1>18 DEF WorkloadUsage
  <2>2. \A a, w : Origin(a, w) => Origin(a, w)'
    BY <2>1, OriginKept
  <2>3. ASSUME NEW s \in sums' PROVE Origin(s.name, s.workload)
    <3>1. CASE s \in sums
      BY <2>1, <3>1 DEF ClashInv
    <3>2. CASE s = SumOf("usage", current[1], current[2], UsedOf(current[3]))
      <4>1. s.name = current[1] /\ s.workload = current[2]
        BY <3>2 DEF SumOf
      <4> QED BY <2>1, <4>1 DEF ClashInv
    <3> QED BY <2>1, <3>1, <3>2
  <2> QED BY <1>1, <2>1, <2>2, <2>3 DEF ClashInv
<1>19. ASSUME NextKind PROVE ClashInv'
  <2>1. /\ current' = NoWorkload
        /\ UNCHANGED <<sums, configured, clash, reply>>
        /\ stage # "custom" /\ stage # "idle"
        /\ \/ stage = "deployment" /\ stage' = "daemonset"
           \/ stage = "daemonset" /\ stage' = "statefulset"
           \/ stage = "statefulset" /\ stage' = "custom"
    BY <1>19 DEF NextKind
  <2>2. Begun \subseteq Begun' /\ stage' \notin Begun
    BY <2>1 DEF Begun, BuiltinKinds
  <2>3. \A a, w : Origin(a, w) => Origin(a, w)'
    BY <2>1, <2>2 DEF Origin
  <2> QED BY <1>1, <2>1, <2>3 DEF ClashInv
<1>20. ASSUME NEW t \in Targets, CustomTarget(t) PROVE ClashInv'
  <2>1. /\ stage = "custom" /\ stage' = "custom" /\ t \in targetsLeft
        /\ target' = t /\ targetsLeft' = targetsLeft \ {t}
        /\ current' = NoWorkload
        /\ UNCHANGED <<sums, configured, clash, reply>>
    BY <1>20 DEF CustomTarget
  <2>2. \A a, w : Origin(a, w) => Origin(a, w)'
    BY <2>1 DEF Origin, Handled, Begun, BuiltinKinds
  <2> QED BY <1>1, <2>1, <2>2 DEF ClashInv
<1>21. ASSUME Answer PROVE ClashInv'
  <2>1. /\ stage' = "idle" /\ current' = NoWorkload
        /\ UNCHANGED <<configured, clash>>
    BY <1>21 DEF Answer
  <2>2. PICK refused \in Refused : reply' = IF refused THEN "error" ELSE "data"
    BY <1>21 DEF Answer
  <2>3. refused => clash \/ Clashing
    BY <2>2 DEF Refused
  <2>4. reply' = "error" => clash \/ Clashing
    BY <2>2, <2>3
  <2> QED BY <1>1, <2>1, <2>4 DEF ClashInv
<1>22. ASSUME UNCHANGED vars PROVE Same
  BY <1>22 DEF vars
<1> HIDE DEF Same, clusterVars, agentVars, loopVars, historyVars, OnlyLoop, OnlyReads, Running
<1> QED
  BY <1>2, <1>3, <1>4, <1>5, <1>6, <1>7, <1>8, <1>9, <1>10, <1>12, <1>13, <1>14,
     <1>16, <1>17, <1>18, <1>19, <1>20, <1>21, <1>22, NextCases

-----------------------------------------------------------------------------
(* The samples of nodes and pods.                                          *)

\* Events outside of the followed collector only shrink what was listed all
\* along, and they do not make a failed scrape clean.
Outside ==
  /\ UNCHANGED <<collector, loopVars>>
  /\ steady' \subseteq steady /\ seen \subseteq seen' /\ served' \subseteq served
  /\ UNCHANGED <<configured, mapper>>
  /\ clean' => clean
  /\ reply' = "data" => reply = "data"
  /\ stage = "idle" => reply' = reply

LEMMA OutsideSteps ==
  ASSUME TypeOK,
         \/ \E o \in Objects : Change(o) \/ Inform(o)
         \/ \E k \in Kinds : ChangeKind(k)
         \/ Ticker \/ ClusterState \/ UNCHANGED vars
  PROVE  Outside
<1> USE DEF clusterVars, agentVars, loopVars, historyVars
<1>1. ASSUME NEW o \in Objects, Change(o) PROVE Outside
  BY <1>1 DEF Outside, Change
<1>2. ASSUME NEW o \in Objects, Inform(o) PROVE Outside
  BY <1>2 DEF Outside, Inform
<1>3. ASSUME NEW k \in Kinds, ChangeKind(k) PROVE Outside
  BY <1>3 DEF Outside, ChangeKind
<1>4. ASSUME Ticker PROVE Outside
  BY <1>4 DEF Outside, Ticker, CollectNodeMetrics, CollectPodMetrics
<1>5. ASSUME ClusterState PROVE Outside
  <2>1. clean' => clean
    BY <1>5, CallType DEF ClusterState
  <2> QED BY <1>5, <2>1 DEF Outside, ClusterState, Running
<1>6. ASSUME UNCHANGED vars PROVE Outside
  BY <1>6 DEF Outside, vars
<1> HIDE DEF clusterVars, agentVars, loopVars, historyVars
<1> QED BY <1>1, <1>2, <1>3, <1>4, <1>5, <1>6

\* The steps of a scrape, and the process starting again.
LEMMA ScrapeCases ==
  ASSUME NEW P, TypeOK, Next \/ UNCHANGED vars,
         Outside => P, Restart => P, Gather => P, Collect => P, Answer => P
  PROVE  P
BY OutsideSteps, NextParts

LEMMA CollectorKept == TypeOK /\ [Next]_vars => collector' = collector
<1> SUFFICES ASSUME TypeOK, [Next]_vars PROVE collector' = collector
  OBVIOUS
<1>1. ASSUME Outside PROVE collector' = collector
  BY <1>1 DEF Outside
<1>2. ASSUME Restart PROVE collector' = collector
  BY <1>2 DEF Restart
<1>3. ASSUME Gather PROVE collector' = collector
  BY <1>3 DEF Gather
<1>4. ASSUME Collect PROVE collector' = collector
  BY <1>4, CollectKeeps DEF OnlyLoop
<1>5. ASSUME Answer PROVE collector' = collector
  BY <1>5 DEF Answer
<1> QED BY <1>1, <1>2, <1>3, <1>4, <1>5, ScrapeCases

\* Each collector takes its own steps.
NodeSteps == ListNodes \/ QueryAllNodesUsage \/ \E n \in Nodes : NodeCost(n) \/ NodeUsage(n)
PodSteps == ListPods \/ QueryAllPodsUsage \/ \E p \in Pods : PodCost(p) \/ PodUsage(p)
WorkloadSteps ==
  \/ \E w \in Workloads :
       BuiltinWorkload(w) \/ BadSelector(w) \/ CustomWorkload(w) \/ ScriptFails(w)
  \/ WorkloadUsage \/ NextKind \/ \E t \in Targets : CustomTarget(t)

LEMMA OwnSteps ==
  ASSUME LoopInv, Collect
  PROVE  \/ NodeSteps /\ stage \in {"nodes", "nodeCost", "nodeUsage"}
         \/ PodSteps /\ stage \in {"pods", "podCost", "podUsage"}
         \/ WorkloadSteps /\ stage \in {"custom"} \cup BuiltinKinds
<1>1. NodeSteps => stage \in {"nodes", "nodeCost", "nodeUsage"}
  BY DEF NodeSteps, ListNodes, QueryAllNodesUsage, Loop, NodeCost, NodeUsage, Turn
<1>2. PodSteps => stage \in {"pods", "podCost", "podUsage"}
  BY DEF PodSteps, ListPods, QueryAllPodsUsage, Loop, PodCost, PodUsage, Turn
<1>3. ASSUME NEW w \in Workloads,
             BuiltinWorkload(w) \/ BadSelector(w) \/ CustomWorkload(w) \/ ScriptFails(w)
      PROVE  stage \in {"custom"} \cup BuiltinKinds
  BY <1>3 DEF BuiltinWorkload, BadSelector, CustomWorkload, ScriptFails
<1>4. WorkloadUsage => stage \in {"custom"} \cup BuiltinKinds
  BY DEF WorkloadUsage, LoopInv
<1>5. NextKind => stage \in {"custom"} \cup BuiltinKinds
  BY DEF NextKind
<1>6. ASSUME NEW t \in Targets, CustomTarget(t) PROVE stage \in {"custom"} \cup BuiltinKinds
  BY <1>6 DEF CustomTarget
<1>7. WorkloadSteps => stage \in {"custom"} \cup BuiltinKinds
  BY <1>3, <1>4, <1>5, <1>6 DEF WorkloadSteps
<1>8. NodeSteps \/ PodSteps \/ WorkloadSteps
  BY DEF Collect, NodeSteps, PodSteps, WorkloadSteps
<1> QED BY <1>1, <1>2, <1>7, <1>8

LEMMA NodeStep ==
  TypeOK /\ HistoryInv /\ StageInv /\ LoopInv /\ NodeInv /\ [Next]_vars => NodeInv'
<1> SUFFICES ASSUME TypeOK, HistoryInv, StageInv, LoopInv, NodeInv, [Next]_vars
             PROVE  NodeInv'
  OBVIOUS
<1> SUFFICES ASSUME collector = "node" PROVE NodeInv'
  BY CollectorKept DEF NodeInv
<1> USE DEF clusterVars, agentVars, loopVars, historyVars, OnlyLoop, OnlyReads, Running
<1>1. ASSUME Outside PROVE NodeInv'
  <2>1. UNCHANGED <<collector, stage, todo, snap, out>>
    BY <1>1 DEF Outside
  <2> QED BY <1>1, <2>1 DEF Outside, NodeInv, CostOfNode
<1>2. ASSUME Restart PROVE NodeInv'
  BY <1>2 DEF NodeInv, Restart
<1>3. ASSUME Gather PROVE NodeInv'
  BY <1>3, FirstStages DEF NodeInv, Gather
<1>4. ASSUME Collect PROVE NodeInv'
  <2>1. /\ stage \in {"nodes", "nodeCost", "nodeUsage"} /\ reply' = "none"
        /\ UNCHANGED <<collector, steady>>
        /\ clean' => clean
    BY <1>4, CollectKeeps DEF StageInv
  <2>2. CASE ListNodes
    BY <2>1, <2>2 DEF NodeInv, ListNodes, Loop, HistoryInv
  <2>3. CASE QueryAllNodesUsage
    BY <2>1, <2>3 DEF NodeInv, QueryAllNodesUsage, Loop, CostOfNode
  <2>4. ASSUME NEW n \in Nodes, NodeCost(n) PROVE NodeInv'
    <3>1. PICK ok \in BOOLEAN :
            /\ Call(ok) /\ todo' = todo \ {n}
            /\ Turn(n, "nodeCost", IF ok THEN {<<"cost", n>>} ELSE {})
      BY <2>4 DEF NodeCost
    <3>2. clean' => ok
      BY <3>1, CallType
    <3>3. /\ stage = "nodeCost" /\ stage' = stage
          /\ out' = out \cup IF ok THEN {<<"cost", n>>} ELSE {}
      BY <3>1 DEF Turn
    <3> QED BY <2>1, <3>1, <3>2, <3>3 DEF NodeInv, CostOfNode
  <2>5. ASSUME NEW n \in Nodes, NodeUsage(n) PROVE NodeInv'
    <3>1. /\ stage = "nodeUsage" /\ stage' = stage /\ snap' = snap
          /\ todo' = todo \ {n} /\ out \subseteq out'
      BY <2>5 DEF NodeUsage, Turn, AfterUnknownNode
    <3>2. n \notin steady \/ ~clean' \/ <<"usage", n>> \in out'
      <4>1. n \notin listed => n \notin steady
        BY DEF HistoryInv
      <4>2. ASSUME NEW ok \in BOOLEAN, Call(ok),
                   Turn(n, "nodeUsage", IF ok THEN {<<"usage", n>>} ELSE {})
            PROVE  ~clean' \/ <<"usage", n>> \in out'
        BY <4>2, CallType DEF Turn
      <4> QED BY <2>5, <4>1, <4>2 DEF NodeUsage
    <3> QED BY <2>1, <3>1, <3>2 DEF NodeInv, CostOfNode
  <2>6. NodeSteps
    BY <1>4, <2>1, OwnSteps DEF BuiltinKinds
  <2> QED BY <2>2, <2>3, <2>4, <2>5, <2>6 DEF NodeSteps
<1>5. ASSUME Answer PROVE NodeInv'
  <2>1. /\ stage = "nodeUsage" /\ stage' = "idle"
        /\ UNCHANGED <<collector, steady, out, snap, todo, clean>>
    BY <1>5 DEF Answer, StageInv
  <2> QED BY <2>1 DEF NodeInv, CostOfNode
<1> HIDE DEF clusterVars, agentVars, loopVars, historyVars, OnlyLoop, OnlyReads, Running
<1> QED BY <1>1, <1>2, <1>3, <1>4, <1>5, ScrapeCases

LEMMA PodStep ==
  TypeOK /\ HistoryInv /\ StageInv /\ LoopInv /\ PodInv /\ [Next]_vars => PodInv'
<1> SUFFICES ASSUME TypeOK, HistoryInv, StageInv, LoopInv, PodInv, [Next]_vars
             PROVE  PodInv'
  OBVIOUS
<1> SUFFICES ASSUME collector = "pod" PROVE PodInv'
  BY CollectorKept DEF PodInv
<1> USE DEF clusterVars, agentVars, loopVars, historyVars, OnlyLoop, OnlyReads, Running
<1>1. ASSUME Outside PROVE PodInv'
  <2>1. UNCHANGED <<collector, stage, todo, snap, out>>
    BY <1>1 DEF Outside
  <2>2. \A p : CostOfPod(p) => CostOfPod(p)'
    BY <1>1, <2>1 DEF Outside, CostOfPod
  <2> QED BY <1>1, <2>1, <2>2 DEF Outside, PodInv
<1>2. ASSUME Restart PROVE PodInv'
  BY <1>2 DEF PodInv, Restart
<1>3. ASSUME Gather PROVE PodInv'
  BY <1>3, FirstStages DEF PodInv, Gather
<1>4. ASSUME Collect PROVE PodInv'
  <2>1. /\ stage \in {"pods", "podCost", "podUsage"} /\ reply' = "none"
        /\ UNCHANGED <<collector, steady>>
        /\ clean' => clean
    BY <1>4, CollectKeeps DEF StageInv
  <2>2. CASE ListPods
    BY <2>1, <2>2 DEF PodInv, ListPods, Loop, HistoryInv
  <2>3. CASE QueryAllPodsUsage
    BY <2>1, <2>3 DEF PodInv, QueryAllPodsUsage, Loop, CostOfPod
  <2>4. ASSUME NEW p \in Pods, PodCost(p) PROVE PodInv'
    <3>1. PICK ok \in BOOLEAN :
            /\ Call(ok) /\ todo' = todo \ {p}
            /\ Turn(p, "podCost",
                    {<<IF ok /\ NodeOf[p] \in listed THEN "cost" ELSE "zero", p>>})
      BY <2>4 DEF PodCost
    <3>2. clean' => ok
      BY <3>1, CallType
    <3>3. /\ stage = "podCost" /\ stage' = stage
          /\ out' = out \cup
               {<<IF ok /\ NodeOf[p] \in listed THEN "cost" ELSE "zero", p>>}
      BY <3>1 DEF Turn
    <3>4. NodeOf[p] \notin listed => NodeOf[p] \notin steady
      BY DEF HistoryInv
    <3> QED BY <2>1, <3>1, <3>2, <3>3, <3>4 DEF PodInv, CostOfPod
  <2>5. ASSUME NEW p \in Pods, PodUsage(p) PROVE PodInv'
    <3>1. /\ stage = "podUsage" /\ stage' = stage /\ snap' = snap
          /\ p \in todo /\ todo \subseteq snap /\ out \subseteq out'
          /\ p \in listed => todo' = todo \ {p} /\ <<"usage", p>> \in out'
      BY <2>5 DEF PodUsage, Turn, LoopInv
    <3>2. snap \subseteq steady => p \in listed
      BY <3>1 DEF HistoryInv
    <3> QED BY <2>1, <3>1, <3>2 DEF PodInv, CostOfPod
  <2>6. PodSteps
    BY <1>4, <2>1, OwnSteps DEF BuiltinKinds
  <2> QED BY <2>2, <2>3, <2>4, <2>5, <2>6 DEF PodSteps
<1>5. ASSUME Answer PROVE PodInv'
  <2>1. /\ stage = "podUsage" /\ stage' = "idle"
        /\ UNCHANGED <<collector, steady, out, snap, todo, clean>>
    BY <1>5 DEF Answer, StageInv
  <2> QED BY <2>1 DEF PodInv, CostOfPod
<1> HIDE DEF clusterVars, agentVars, loopVars, historyVars, OnlyLoop, OnlyReads, Running
<1> QED BY <1>1, <1>2, <1>3, <1>4, <1>5, ScrapeCases

-----------------------------------------------------------------------------
(* The samples of workloads.                                               *)

LEMMA SumOfFields ==
  ASSUME NEW what, NEW a, NEW w, NEW P
  PROVE  LET s == SumOf(what, a, w, P)
         IN  s.what = what /\ s.name = a /\ s.workload = w /\ s.pods = P
BY DEF SumOf

\* Samples stay, what was listed all along shrinks, what was listed at times grows.
LEMMA CoversKept ==
  ASSUME NEW a, NEW w, NEW M, Covers(a, w, M),
         sums \subseteq sums', steady' \subseteq steady, seen \subseteq seen'
  PROVE  Covers(a, w, M)'
<1>1. PICK s \in sums, c \in sums, u \in sums :
        /\ \A r \in {s, c, u} : r.name = a /\ r.workload = w /\ r.pods \subseteq s.pods
        /\ <<s.what, c.what, u.what>> = <<"count", "cost", "usage">>
        /\ M \cap steady \subseteq s.pods /\ s.pods \subseteq M \cap seen
        /\ {p \in M \cap steady : NodeOf[p] \in steady} \subseteq c.pods
  BY DEF Covers
<1>2. /\ M \cap steady' \subseteq s.pods /\ s.pods \subseteq M \cap seen'
      /\ {p \in M \cap steady' : NodeOf[p] \in steady'} \subseteq c.pods
  BY <1>1
<1>3. s \in sums' /\ c \in sums' /\ u \in sums'
  BY <1>1
<1> QED BY <1>1, <1>2, <1>3 DEF Covers

LEMMA PendingKept ==
  ASSUME NEW a, NEW w, NEW M, Pending(a, w, M), current' = current,
         sums \subseteq sums', steady' \subseteq steady, seen \subseteq seen'
  PROVE  Pending(a, w, M)'
<1>1. PICK C \in SUBSET current[3] :
        /\ SumOf("cost", a, w, C) \in sums
        /\ {p \in M \cap steady : NodeOf[p] \in steady} \subseteq C
  BY DEF Pending
<1>2. {p \in M \cap steady' : NodeOf[p] \in steady'} \subseteq C
  BY <1>1
<1>3. SumOf("cost", a, w, C) \in sums'
  BY <1>1
<1>4. \E D \in SUBSET current'[3] :
        /\ SumOf("cost", a, w, D) \in sums'
        /\ {p \in M \cap steady' : NodeOf[p] \in steady'} \subseteq D
  BY <1>1, <1>2, <1>3
<1>5. /\ current' # NoWorkload /\ current'[1] = a /\ current'[2] = w
      /\ current'[3] \subseteq M \cap seen' /\ M \cap steady' \subseteq current'[3]
      /\ SumOf("count", a, w, current'[3]) \in sums'
  BY DEF Pending
<1> QED BY <1>4, <1>5 DEF Pending, SumOf

LEMMA ReportedKept ==
  ASSUME NEW a, NEW w, NEW M, Reported(a, w, M), current' = current,
         sums \subseteq sums', steady' \subseteq steady, seen \subseteq seen'
  PROVE  Reported(a, w, M)'
BY CoversKept, PendingKept DEF Reported

\* The samples of the pods a workload selects, of those that are listed now.
LEMMA SummedPends ==
  ASSUME TypeOK, HistoryInv, NEW a, NEW w, NEW M, NEW P, P = M \cap listed,
         Summed(a, w, P), stage # "idle", clean', UNCHANGED <<steady, seen>>
  PROVE  Pending(a, w, M)'
<1>1. PICK C \in SUBSET P :
        /\ Priced(P, C)
        /\ sums' = sums \cup {SumOf("count", a, w, P), SumOf("cost", a, w, C)}
        /\ current' = <<a, w, P>>
  BY DEF Summed
<1>2. C = {p \in P : NodeOf[p] \in listed}
  BY <1>1, PricedCalls
<1>3. steady \subseteq listed /\ listed \subseteq seen
  BY DEF HistoryInv
<1>4. {p \in M \cap steady' : NodeOf[p] \in steady'} \subseteq C
  BY <1>2, <1>3
<1>5. P \subseteq M \cap seen' /\ M \cap steady' \subseteq P
  BY <1>3
<1>6. current' # NoWorkload /\ current'[1] = a /\ current'[2] = w /\ current'[3] = P
  BY <1>1 DEF NoWorkload
<1>7. SumOf("count", a, w, P) \in sums' /\ SumOf("cost", a, w, C) \in sums'
  BY <1>1
<1> QED BY <1>4, <1>5, <1>6, <1>7 DEF Pending, SumOf

\* Its usage, that of the pods which are cached, follows.
LEMMA UsageCovers ==
  ASSUME NEW a, NEW w, NEW M, WorkloadUsage, Pending(a, w, M)
  PROVE  Covers(a, w, M)'
<1>1. /\ sums' = sums \cup {SumOf("usage", a, w, UsedOf(current[3]))}
      /\ UNCHANGED <<steady, seen>>
  BY DEF WorkloadUsage, OnlyReads, OnlyLoop, historyVars, Pending
<1>2. PICK P, U : P = current[3] /\ U = UsedOf(P)
  OBVIOUS
<1>3. U \subseteq P
  BY <1>2 DEF UsedOf
<1>4. PICK C \in SUBSET P :
        /\ SumOf("cost", a, w, C) \in sums
        /\ {p \in M \cap steady : NodeOf[p] \in steady} \subseteq C
  BY <1>2 DEF Pending
<1>5. PICK s, c, u : /\ s = SumOf("count", a, w, P) /\ c = SumOf("cost", a, w, C)
                     /\ u = SumOf("usage", a, w, U)
  OBVIOUS
<1>6. s \in sums' /\ c \in sums' /\ u \in sums'
  BY <1>1, <1>2, <1>4, <1>5 DEF Pending
<1>7. /\ \A r \in {s, c, u} : r.name = a /\ r.workload = w /\ r.pods \subseteq s.pods
      /\ <<s.what, c.what, u.what>> = <<"count", "cost", "usage">>
      /\ s.pods = P /\ c.pods = C
  BY <1>3, <1>4, <1>5, SumOfFields
<1>8. M \cap steady' \subseteq P /\ P \subseteq M \cap seen'
  BY <1>1, <1>2 DEF Pending
<1>9. {p \in M \cap steady' : NodeOf[p] \in steady'} \subseteq C
  BY <1>1, <1>4
<1> QED BY <1>6, <1>7, <1>8, <1>9 DEF Covers

LEMMA WorkloadStep ==
  TypeOK /\ HistoryInv /\ StageInv /\ LoopInv /\ WorkloadInv /\ [Next]_vars => WorkloadInv'
<1> SUFFICES ASSUME TypeOK, HistoryInv, StageInv, LoopInv, WorkloadInv, [Next]_vars
             PROVE  WorkloadInv'
  OBVIOUS
<1> SUFFICES ASSUME collector = "workload" PROVE WorkloadInv'
  BY CollectorKept DEF WorkloadInv
<1> USE DEF clusterVars, agentVars, loopVars, historyVars, OnlyLoop, OnlyReads, Running
<1>1. ASSUME Outside PROVE WorkloadInv'
  <2>1. /\ UNCHANGED <<collector, stage, todo, target, targetsLeft, current, sums>>
        /\ UNCHANGED <<configured, mapper>> /\ served' \subseteq served
        /\ clean' => clean
        /\ reply' = "data" => reply = "data"
        /\ stage = "idle" => reply' = reply
    BY <1>1 DEF Outside
  <2>2. Begun' = Begun
    BY <2>1 DEF Begun
  <2>3. \A a, w, M : Reported(a, w, M) => Reported(a, w, M)'
    BY <1>1, <2>1, ReportedKept DEF Outside
  <2> QED BY <2>1, <2>2, <2>3 DEF WorkloadInv
<1>2. ASSUME Restart PROVE WorkloadInv'
  <2>1. Begun' = {} /\ stage' = "idle" /\ reply' = "none"
    BY <1>2 DEF Restart, Begun
  <2> QED BY <2>1 DEF WorkloadInv
<1>3. ASSUME Gather PROVE WorkloadInv'
  <2>1. /\ stage' = "deployment" /\ todo' = WorkloadsOf("deployment") /\ reply' = "none"
        /\ Begun' = {"deployment"}
    BY <1>3, FirstStages DEF Gather, Begun
  <2> QED BY <2>1 DEF WorkloadInv
<1>4. ASSUME Collect PROVE WorkloadInv'
  <2>1. /\ stage \in {"custom"} \cup BuiltinKinds /\ stage # "idle" /\ reply' = "none"
        /\ UNCHANGED <<collector, steady, seen, configured, mapper, served>>
        /\ clean' => clean
    BY <1>4, CollectKeeps DEF StageInv, BuiltinKinds
  <2>2. ASSUME NEW w \in Workloads, BuiltinWorkload(w) PROVE WorkloadInv'
    <3>1. PICK k, P : k = stage /\ P = Selected[w] \cap listed
      OBVIOUS
    <3>2. /\ k \in BuiltinKinds /\ w \in todo /\ stage' = k
          /\ current = NoWorkload /\ Summed(k, w, P) /\ todo' = todo \ {w}
      BY <2>2, <3>1 DEF BuiltinWorkload
    <3>3. clean' => Pending(k, w, Selected[w])'
      BY <2>1, <3>1, <3>2, SummedPends
    <3>4. sums \subseteq sums'
      BY <3>2 DEF Summed
    <3>5. \A a, v, M : Reported(a, v, M) => Reported(a, v, M)'
      BY <2>1, <3>2, <3>4, CoversKept DEF Reported, Pending
    <3>6. Begun' = Begun
      BY <3>1, <3>2 DEF Begun, BuiltinKinds
    <3>7. k # "custom"
      BY <3>2 DEF BuiltinKinds
    <3> QED BY <2>1, <3>1, <3>2, <3>3, <3>5, <3>6, <3>7 DEF WorkloadInv, Reported
  <2>3. ASSUME NEW w \in Workloads, CustomWorkload(w) PROVE WorkloadInv'
    <3>1. PICK t, P : t = target /\ P = Selects(w)
      OBVIOUS
    <3>2. /\ w \in todo /\ stage = "custom" /\ UNCHANGED <<stage, target, targetsLeft>>
          /\ current = NoWorkload /\ Summed(Alias[t], w, P) /\ todo' = todo \ {w}
      BY <2>3, <3>1 DEF CustomWorkload, NameOf
    <3>3. P = InNamespaceOf(w) \cap listed
      BY <3>1 DEF Selects, InNamespaceOf
    <3>4. clean' => Pending(Alias[t], w, InNamespaceOf(w))'
      BY <2>1, <3>2, <3>3, SummedPends
    <3>5. sums \subseteq sums'
      BY <3>2 DEF Summed
    <3>6. \A a, v, M : Reported(a, v, M) => Reported(a, v, M)'
      BY <2>1, <3>2, <3>5, CoversKept DEF Reported, Pending
    <3>7. Begun' = Begun /\ stage \notin BuiltinKinds
      BY <3>2 DEF Begun, BuiltinKinds
    <3> QED BY <2>1, <3>1, <3>2, <3>4, <3>6, <3>7 DEF WorkloadInv, Reported
  <2>4. ASSUME NEW w \in Workloads, BadSelector(w) \/ ScriptFails(w) PROVE WorkloadInv'
    <3>1. ~clean'
      BY <2>4, CallType DEF BadSelector, ScriptFails
    <3> QED BY <3>1 DEF WorkloadInv
  <2>5. ASSUME WorkloadUsage PROVE WorkloadInv'
    <3>1. /\ UNCHANGED <<stage, todo, target, targetsLeft>> /\ sums \subseteq sums'
      BY <2>5 DEF WorkloadUsage
    <3>2. \A a, v, M : Reported(a, v, M) => Reported(a, v, M)'
      BY <2>1, <2>5, <3>1, CoversKept, UsageCovers DEF Reported
    <3>3. Begun' = Begun
      BY <2>1, <3>1 DEF Begun, BuiltinKinds
    <3> QED BY <2>1, <3>1, <3>2, <3>3 DEF WorkloadInv
  <2>6. ASSUME NextKind PROVE WorkloadInv'
    <3>1. /\ todo = {} /\ UNCHANGED <<current, sums, target>>
          /\ \/ stage = "deployment" /\ stage' = "daemonset"
             \/ stage = "daemonset" /\ stage' = "statefulset"
             \/ stage = "statefulset" /\ stage' = "custom" /\ targetsLeft' = configured
      BY <2>6 DEF NextKind
    <3>2. \A a, v, M : Reported(a, v, M) => Reported(a, v, M)'
      BY <2>1, <3>1, ReportedKept
    <3>3. Begun' \subseteq Begun \cup {stage'}
      BY <3>1 DEF Begun, BuiltinKinds
    <3>4. stage' \in BuiltinKinds => todo' = WorkloadsOf(stage')
      BY <2>6, WorkloadsOfType DEF NextKind
    <3> QED BY <2>1, <3>1, <3>2, <3>3, <3>4 DEF WorkloadInv
  <2>7. ASSUME NEW t \in Targets, CustomTarget(t) PROVE WorkloadInv'
    <3>1. /\ stage = "custom" /\ todo = {} /\ UNCHANGED <<stage, current, sums>>
          /\ targetsLeft' = targetsLeft \ {t} /\ target' = t
      BY <2>7 DEF CustomTarget
    <3>2. \A a, v, M : Reported(a, v, M) => Reported(a, v, M)'
      BY <2>1, <3>1, ReportedKept
    <3>3. Begun' = Begun /\ stage \notin BuiltinKinds
      BY <3>1 DEF Begun, BuiltinKinds
    <3>4. clean' /\ Target[t] \in mapper \cap served => todo' = WorkloadsOf(Target[t])
      BY <2>7, CallType DEF CustomTarget, HistoryInv
    <3> QED BY <2>1, <3>1, <3>2, <3>3, <3>4 DEF WorkloadInv
  <2>8. WorkloadSteps
    BY <1>4, <2>1, OwnSteps DEF BuiltinKinds
  <2> QED BY <2>2, <2>3, <2>4, <2>5, <2>6, <2>7, <2>8 DEF WorkloadSteps
<1>5. ASSUME Answer PROVE WorkloadInv'
  <2>1. /\ stage = "custom" /\ stage' = "idle" /\ todo = {} /\ targetsLeft = {}
        /\ UNCHANGED <<collector, steady, seen, configured, mapper, served, clean,
                       todo, targetsLeft, current, sums>>
    BY <1>5 DEF Answer, StageInv, BuiltinKinds
  <2>2. \A a, v, M : Reported(a, v, M) => Reported(a, v, M)'
    BY <2>1, ReportedKept
  <2>3. Begun = BuiltinKinds /\ Begun' \subseteq BuiltinKinds
    BY <2>1, BegunDef DEF Begun
  <2> QED BY <2>1, <2>2, <2>3 DEF WorkloadInv
<1> HIDE DEF clusterVars, agentVars, loopVars, historyVars, OnlyLoop, OnlyReads, Running
<1> QED BY <1>1, <1>2, <1>3, <1>4, <1>5, ScrapeCases

-----------------------------------------------------------------------------
(* The refusal of workloads of one name.                                   *)

\* A workload that a list has had is in the samples, under the name it got.
LEMMA HadReported ==
  ASSUME TypeOK, WorkloadInv, collector = "workload", clean,
         stage # "idle" \/ reply = "data", NEW x \in Taken, NEW w \in Had(x)
  PROVE  \E s \in sums : s.name = NameIn(x) /\ s.workload = w
<1>1. ASSUME NEW a, NEW M, Reported(a, w, M)
      PROVE  \E s \in sums : s.name = a /\ s.workload = w
  <2>1. CASE Pending(a, w, M)
    <3>1. PICK s : s = SumOf("count", a, w, current[3])
      OBVIOUS
    <3> QED BY <2>1, <3>1, SumOfFields DEF Pending
  <2>2. CASE Covers(a, w, M)
    BY <2>2 DEF Covers
  <2> QED BY <1>1, <2>1, <2>2 DEF Reported
<1>2. CASE x \in BuiltinKinds
  <2>1. x \in Begun /\ w \in WorkloadsOf(x) /\ ~(stage = x /\ w \in todo) /\ NameIn(x) = x
    BY <1>2 DEF Had, NameIn
  <2>2. Reported(x, w, Selected[w])
    BY <1>2, <2>1 DEF WorkloadInv
  <2> QED BY <1>1, <2>1, <2>2
<1>3. CASE x \notin BuiltinKinds
  <2>1. /\ x \in configured /\ Target[x] \in mapper \cap served /\ NameIn(x) = Alias[x]
        /\ stage \in {"custom", "idle"} /\ x \notin targetsLeft
        /\ w \in WorkloadsOf(Target[x]) /\ ~(x = target /\ w \in todo)
    BY <1>3 DEF Had, Taken, NameIn
  <2>2. Reported(Alias[x], w, InNamespaceOf(w))
    BY <2>1 DEF WorkloadInv
  <2> QED BY <1>1, <2>1, <2>2
<1> QED BY <1>2, <1>3

\* A step by which no list has had more.
LEMMA RefuseKept ==
  ASSUME RefuseInv, collector = "workload", clean' => clean, clash' = clash,
         stage' # "idle" \/ reply' = "data" => stage # "idle" \/ reply = "data",
         reply' = "data" => ~clash, Taken' \subseteq Taken,
         clean' /\ (stage' # "idle" \/ reply' = "data") =>
           \A x \in Taken' : Had(x)' \subseteq Had(x)
  PROVE  RefuseInv'
<1> SUFFICES ASSUME clean', stage' # "idle" \/ reply' = "data"
             PROVE  \A x, y \in Taken' : \A v \in Had(x)', w \in Had(y)' :
                      x # y /\ NameIn(x)' = NameIn(y)' /\ LabelsOf[v] = LabelsOf[w] => clash
  BY DEF RefuseInv
<1>1. \A x : NameIn(x)' = NameIn(x)
  BY DEF NameIn
<1> QED BY <1>1 DEF RefuseInv

\* A turn of the list z.
LEMMA RefuseSummed ==
  ASSUME RefuseInv, TypeOK, WorkloadInv, collector = "workload", clean' => clean,
         NEW z, NEW w, NEW P, Summed(NameIn(z), w, P), stage # "idle", reply' = "none",
         Taken' \subseteq Taken,
         \A x \in Taken' : Had(x)' \subseteq Had(x) \cup (IF x = z THEN {w} ELSE {})
  PROVE  RefuseInv'
<1> SUFFICES ASSUME clean', NEW x \in Taken', NEW y \in Taken', NEW u \in Had(x)',
                    NEW v \in Had(y)', x # y, NameIn(x) = NameIn(y),
                    LabelsOf[u] = LabelsOf[v]
             PROVE  clash'
  BY DEF RefuseInv, NameIn
<1>1. clash' = (clash \/ \E s \in sums : s.name = NameIn(z) /\ LabelsOf[s.workload] = LabelsOf[w])
  BY DEF Summed
<1>2. CASE u \in Had(x) /\ v \in Had(y)
  BY <1>1, <1>2 DEF RefuseInv
<1>3. CASE x = z /\ u = w
  <2>1. v \in Had(y) /\ y \in Taken
    BY <1>3
  <2>2. \E s \in sums : s.name = NameIn(y) /\ s.workload = v
    BY <2>1, HadReported
  <2> QED BY <1>1, <1>3, <2>2
<1>4. CASE y = z /\ v = w
  <2>1. u \in Had(x) /\ x \in Taken
    BY <1>4
  <2>2. \E s \in sums : s.name = NameIn(x) /\ s.workload = u
    BY <2>1, HadReported
  <2> QED BY <1>1, <1>4, <2>2
<1> QED BY <1>2, <1>3, <1>4

LEMMA RefuseStep ==
  /\ TypeOK /\ HistoryInv /\ StageInv /\ LoopInv /\ WorkloadInv /\ RefuseInv
  /\ [Next]_vars
  => RefuseInv'
<1> SUFFICES ASSUME TypeOK, HistoryInv, StageInv, LoopInv, WorkloadInv, RefuseInv,
                    [Next]_vars
             PROVE  RefuseInv'
  OBVIOUS
<1> SUFFICES ASSUME collector = "workload" PROVE RefuseInv'
  BY CollectorKept DEF RefuseInv
<1> USE DEF clusterVars, agentVars, loopVars, historyVars, OnlyLoop, OnlyReads, Running
<1>1. ASSUME Outside PROVE RefuseInv'
  <2>1. /\ UNCHANGED <<stage, todo, target, targetsLeft, clash>>
        /\ UNCHANGED <<configured, mapper>> /\ served' \subseteq served
        /\ clean' => clean
        /\ reply' = "data" => reply = "data"
        /\ stage = "idle" => reply' = reply
    BY <1>1 DEF Outside
  <2>2. Begun' = Begun
    BY <2>1 DEF Begun
  <2>3. Taken' \subseteq Taken /\ \A x : Had(x)' = Had(x)
    BY <2>1, <2>2 DEF Taken, Had
  <2>4. CASE clean'
    <3>1. reply' = "data" => ~clash
      BY <2>1, <2>4 DEF RefuseInv
    <3> QED BY <2>1, <2>3, <3>1, RefuseKept
  <2>5. CASE ~clean'
    BY <2>5 DEF RefuseInv
  <2> QED BY <2>4, <2>5
<1>2. ASSUME Restart PROVE RefuseInv'
  BY <1>2 DEF RefuseInv, Restart
<1>3. ASSUME Gather PROVE RefuseInv'
  <2>1. /\ stage' = "deployment" /\ todo' = WorkloadsOf("deployment") /\ reply' = "none"
        /\ Begun' = {"deployment"}
    BY <1>3, FirstStages DEF Gather, Begun
  <2>2. \A x : Had(x)' = {}
    BY <2>1 DEF Had, BuiltinKinds
  <2> QED BY <2>1, <2>2 DEF RefuseInv
<1>4. ASSUME Collect PROVE RefuseInv'
  <2>1. /\ stage \in {"custom"} \cup BuiltinKinds /\ stage # "idle" /\ reply' = "none"
        /\ UNCHANGED <<collector, configured, mapper, served>>
        /\ clean' => clean
    BY <1>4, CollectKeeps DEF StageInv, BuiltinKinds
  <2>2. Taken' = Taken /\ Taken \subseteq BuiltinKinds \cup configured
    BY <2>1 DEF Taken
  <2>3. ASSUME NEW w \in Workloads, BuiltinWorkload(w) PROVE RefuseInv'
    <3>1. PICK k, P : k = stage /\ P = Selected[w] \cap listed
      OBVIOUS
    <3>2. /\ k \in BuiltinKinds /\ NameIn(k) = k /\ Summed(k, w, P)
          /\ UNCHANGED <<stage, target, targetsLeft>> /\ todo' = todo \ {w}
      BY <2>3, <3>1 DEF BuiltinWorkload, NameIn
    <3>3. Begun' = Begun /\ k # "custom" /\ k # "idle"
      BY <3>1, <3>2 DEF Begun, BuiltinKinds
    <3>4. \A x : Had(x)' \subseteq Had(x) \cup (IF x = k THEN {w} ELSE {})
      BY <3>1, <3>2, <3>3 DEF Had
    <3> QED BY <2>1, <2>2, <3>2, <3>4, RefuseSummed
  <2>4. ASSUME NEW w \in Workloads, CustomWorkload(w) PROVE RefuseInv'
    <3>1. PICK t, P : t = target /\ P = Selects(w)
      OBVIOUS
    <3>2. /\ t \notin BuiltinKinds /\ NameIn(t) = Alias[t]
          /\ Summed(Alias[t], w, P) /\ stage = "custom"
          /\ UNCHANGED <<stage, target, targetsLeft>> /\ todo' = todo \ {w}
      BY <2>4, <3>1, TargetsAssumption DEF CustomWorkload, NameOf, NameIn, LoopInv, TypeOK
    <3>3. Begun' = Begun /\ stage \notin BuiltinKinds
      BY <3>2 DEF Begun, BuiltinKinds
    <3>4. \A x : Had(x)' \subseteq Had(x) \cup (IF x = t THEN {w} ELSE {})
      BY <3>1, <3>2, <3>3 DEF Had
    <3> QED BY <2>1, <2>2, <3>2, <3>4, RefuseSummed
  <2>5. ASSUME NEW w \in Workloads, BadSelector(w) \/ ScriptFails(w) PROVE RefuseInv'
    <3>1. ~clean'
      BY <2>5, CallType DEF BadSelector, ScriptFails
    <3> QED BY <3>1 DEF RefuseInv
  <2>6. ASSUME WorkloadUsage PROVE RefuseInv'
    <3>1. UNCHANGED <<stage, todo, target, targetsLeft, clash>>
      BY <2>6 DEF WorkloadUsage
    <3>2. Begun' = Begun
      BY <2>1, <3>1 DEF Begun, BuiltinKinds
    <3>3. \A x : Had(x)' = Had(x)
      BY <3>1, <3>2 DEF Had
    <3> QED BY <2>1, <2>2, <3>1, <3>3, RefuseKept
  <2>7. ASSUME NextKind PROVE RefuseInv'
    <3>1. /\ todo = {} /\ UNCHANGED <<target, clash>>
          /\ \/ stage = "deployment" /\ stage' = "daemonset"
             \/ stage = "daemonset" /\ stage' = "statefulset"
             \/ stage = "statefulset" /\ stage' = "custom" /\ targetsLeft' = configured
      BY <2>7 DEF NextKind
    <3>2. Begun' \subseteq Begun \cup {stage'}
      BY <3>1 DEF Begun, BuiltinKinds
    <3>3. stage' \in BuiltinKinds => todo' = WorkloadsOf(stage')
      BY <2>7, WorkloadsOfType DEF NextKind
    <3>4. \A x \in Taken : Had(x)' \subseteq Had(x)
      BY <2>2, <3>1, <3>2, <3>3 DEF Had, BuiltinKinds
    <3> QED BY <2>1, <2>2, <3>1, <3>4, RefuseKept
  <2>8. ASSUME NEW t \in Targets, CustomTarget(t) PROVE RefuseInv'
    <3>1. /\ stage = "custom" /\ todo = {} /\ UNCHANGED <<stage, clash>>
          /\ targetsLeft' = targetsLeft \ {t} /\ target' = t
      BY <2>8 DEF CustomTarget
    <3>2. Begun' = Begun /\ stage \notin BuiltinKinds
      BY <3>1 DEF Begun, BuiltinKinds
    <3>3. clean' /\ t \in Taken /\ t \notin BuiltinKinds => todo' = WorkloadsOf(Target[t])
      BY <2>8, CallType DEF CustomTarget, HistoryInv, Taken
    <3>4. clean' => \A x \in Taken : Had(x)' \subseteq Had(x)
      BY <3>1, <3>2, <3>3 DEF Had
    <3> QED BY <2>1, <2>2, <3>1, <3>4, RefuseKept
  <2>9. WorkloadSteps
    BY <1>4, <2>1, OwnSteps DEF BuiltinKinds
  <2> QED BY <2>3, <2>4, <2>5, <2>6, <2>7, <2>8, <2>9 DEF WorkloadSteps
<1>5. ASSUME Answer PROVE RefuseInv'
  <2>1. /\ stage = "custom" /\ stage' = "idle" /\ todo = {} /\ targetsLeft = {}
        /\ UNCHANGED <<configured, mapper, served, clean, todo, targetsLeft, clash>>
        /\ reply' = IF clash THEN "error" ELSE "data"
    BY <1>5 DEF Answer, Refused, StageInv, BuiltinKinds
  <2>2. Begun = BuiltinKinds /\ Begun' \subseteq BuiltinKinds
    BY <2>1, BegunDef DEF Begun
  <2>3. Taken' = Taken /\ \A x : Had(x)' \subseteq Had(x)
    BY <2>1, <2>2 DEF Taken, Had, BuiltinKinds
  <2> QED BY <2>1, <2>3, RefuseKept
<1> HIDE DEF clusterVars, agentVars, loopVars, historyVars, OnlyLoop, OnlyReads, Running
<1> QED BY <1>1, <1>2, <1>3, <1>4, <1>5, ScrapeCases

-----------------------------------------------------------------------------
(* Whose samples there are.                                                *)

\* Samples of objects that were listed.
LEMMA TurnListed ==
  ASSUME TypeOK, ListedInv, NEW o, NEW in, NEW S, Turn(o, in, S), todo' \subseteq todo,
         \A x \in S : x[2] \in seen
  PROVE  ListedInv'
<1>1. /\ out' = out \cup S /\ UNCHANGED <<stage, sums, current, seen>>
  BY DEF Turn, OnlyLoop, historyVars
<1> QED BY <1>1 DEF ListedInv, OnlyListedIsReported

\* Samples of a workload, of pods that are listed and that it selects.
LEMMA SummedListed ==
  ASSUME TypeOK, HistoryInv, ListedInv, NEW a, NEW w, NEW P, Summed(a, w, P),
         P \subseteq Selected[w] \cap listed, stage \in {"custom"} \cup BuiltinKinds,
         UNCHANGED <<stage, out, seen>>
  PROVE  ListedInv'
<1>1. PICK C \in SUBSET P :
        /\ sums' = sums \cup {SumOf("count", a, w, P), SumOf("cost", a, w, C)}
        /\ current' = <<a, w, P>>
  BY DEF Summed
<1>2. P \subseteq Selected[w] \cap seen
  BY DEF HistoryInv, BuiltinKinds
<1>3. PICK s, c : s = SumOf("count", a, w, P) /\ c = SumOf("cost", a, w, C)
  OBVIOUS
<1>4. s.workload = w /\ s.pods = P /\ c.workload = w /\ c.pods = C
  BY <1>3, SumOfFields
<1>5. \A r \in sums' : r.pods \subseteq Selected[r.workload] \cap seen
  BY <1>1, <1>2, <1>3, <1>4 DEF ListedInv, OnlyListedIsReported
<1>6. current'[2] = w /\ current'[3] = P
  BY <1>1
<1>7. stage' \notin {"nodeCost", "podCost"}
  BY DEF BuiltinKinds
<1> QED BY <1>2, <1>5, <1>6, <1>7 DEF ListedInv, OnlyListedIsReported

LEMMA ListedStep ==
  TypeOK /\ HistoryInv /\ LoopInv /\ ListedInv /\ [Next]_vars => ListedInv'
<1> SUFFICES ASSUME TypeOK, HistoryInv, LoopInv, ListedInv, [Next]_vars
             PROVE  ListedInv'
  OBVIOUS
<1> USE DEF clusterVars, agentVars, loopVars, historyVars, OnlyLoop, OnlyReads, Running
<1>1. ASSUME Outside PROVE ListedInv'
  <2>1. UNCHANGED <<stage, todo, out, sums, current>> /\ seen \subseteq seen'
    BY <1>1 DEF Outside
  <2> QED BY <2>1 DEF ListedInv, OnlyListedIsReported
<1>2. ASSUME Restart PROVE ListedInv'
  BY <1>2 DEF ListedInv, OnlyListedIsReported, Restart
<1>3. ASSUME Gather PROVE ListedInv'
  <2>1. out' = {} /\ sums' = {} /\ current' = NoWorkload
    BY <1>3 DEF Gather, LoopInv, BuiltinKinds
  <2>2. stage' \notin {"nodeCost", "podCost"}
    BY <1>3, FirstStages DEF Gather, TypeOK
  <2> QED BY <2>1, <2>2 DEF ListedInv, OnlyListedIsReported
<1>4. ASSUME Collect PROVE ListedInv'
  <2>1. stage # "idle" /\ listed \subseteq seen
    BY <1>4, CollectKeeps DEF HistoryInv
  <2>2. ASSUME ListNodes \/ ListPods PROVE ListedInv'
    <3>1. UNCHANGED <<out, sums, current, seen>> /\ todo' \subseteq seen'
      BY <2>1, <2>2 DEF ListNodes, ListPods, Loop
    <3> QED BY <3>1 DEF ListedInv, OnlyListedIsReported
  <2>3. ASSUME QueryAllNodesUsage \/ QueryAllPodsUsage PROVE ListedInv'
    <3>1. UNCHANGED <<out, sums, current, seen>> /\ stage' \in {"nodeUsage", "podUsage"}
      BY <2>3 DEF QueryAllNodesUsage, QueryAllPodsUsage, Loop
    <3> QED BY <3>1 DEF ListedInv, OnlyListedIsReported
  <2>4. ASSUME NEW n \in Nodes, NodeCost(n) PROVE ListedInv'
    <3>1. n \in seen
      BY <2>4 DEF NodeCost, Turn, ListedInv
    <3>2. PICK S : /\ S \subseteq {<<"cost", n>>} /\ Turn(n, "nodeCost", S)
                   /\ todo' \subseteq todo
      BY <2>4 DEF NodeCost
    <3> QED BY <3>1, <3>2, TurnListed
  <2>5. ASSUME NEW n \in Nodes, NodeUsage(n) PROVE ListedInv'
    <3>1. PICK S : /\ S \subseteq {<<"usage", n>>} /\ Turn(n, "nodeUsage", S)
                   /\ n \notin listed => S = {}
                   /\ todo' \subseteq todo
      BY <2>5 DEF NodeUsage, AfterUnknownNode
    <3> QED BY <2>1, <3>1, TurnListed
  <2>6. ASSUME NEW p \in Pods, PodCost(p) PROVE ListedInv'
    <3>1. p \in seen
      BY <2>6 DEF PodCost, Turn, ListedInv
    <3>2. PICK c : Turn(p, "podCost", {<<c, p>>}) /\ todo' \subseteq todo
      BY <2>6 DEF PodCost
    <3> QED BY <3>1, <3>2, TurnListed
  <2>7. ASSUME NEW p \in Pods, PodUsage(p) PROVE ListedInv'
    <3>1. PICK S : /\ S \subseteq {<<"usage", p>>} /\ Turn(p, "podUsage", S)
                   /\ p \notin listed => S = {}
                   /\ todo' \subseteq todo
      BY <2>7 DEF PodUsage
    <3> QED BY <2>1, <3>1, TurnListed
  <2>8. ASSUME NEW w \in Workloads, BuiltinWorkload(w) PROVE ListedInv'
    BY <2>8, SummedListed DEF BuiltinWorkload
  <2>9. ASSUME NEW w \in Workloads, CustomWorkload(w) PROVE ListedInv'
    BY <2>9, SummedListed DEF CustomWorkload, Selects
  <2>10. ASSUME WorkloadUsage PROVE ListedInv'
    <3>1. PICK s : /\ s = SumOf("usage", current[1], current[2], UsedOf(current[3]))
                   /\ sums' = sums \cup {s}
      BY <2>10 DEF WorkloadUsage
    <3>2. s.workload = current[2] /\ s.pods \subseteq current[3]
      BY <3>1, SumOfFields DEF UsedOf
    <3>3. current # NoWorkload /\ current' = NoWorkload /\ UNCHANGED <<stage, todo, out, seen>>
      BY <2>10 DEF WorkloadUsage
    <3> QED BY <3>1, <3>2, <3>3 DEF ListedInv, OnlyListedIsReported
  <2>11. ASSUME NEW w \in Workloads, BadSelector(w) \/ ScriptFails(w) PROVE ListedInv'
    BY <2>11 DEF BadSelector, ScriptFails, ListedInv, OnlyListedIsReported, BuiltinKinds
  <2>12. ASSUME NextKind \/ \E t \in Targets : CustomTarget(t) PROVE ListedInv'
    <3>1. UNCHANGED <<out, sums, current, seen>> /\ stage' \in {"custom"} \cup BuiltinKinds
      BY <2>12 DEF NextKind, CustomTarget, BuiltinKinds
    <3> QED BY <3>1 DEF ListedInv, OnlyListedIsReported, BuiltinKinds
  <2> QED
    BY <1>4, <2>2, <2>3, <2>4, <2>5, <2>6, <2>7, <2>8, <2>9, <2>10, <2>11, <2>12
       DEF Collect
<1>5. ASSUME Answer PROVE ListedInv'
  <2>1. UNCHANGED <<out, sums, current, seen>> /\ stage' = "idle"
    BY <1>5 DEF Answer
  <2> QED BY <2>1 DEF ListedInv, OnlyListedIsReported
<1> HIDE DEF clusterVars, agentVars, loopVars, historyVars, OnlyLoop, OnlyReads, Running
<1> QED BY <1>1, <1>2, <1>3, <1>4, <1>5, ScrapeCases

-----------------------------------------------------------------------------
(* The invariant and what follows from it.                                 *)

LEMMA InvInit == Init => IInv
<1> SUFFICES ASSUME Init PROVE IInv
  OBVIOUS
<1>1. stage = "idle" /\ reply = "none" /\ active = "todo" /\ current = NoWorkload
      /\ steady = {} /\ served = {}
  BY DEF Init
<1>2. Begun = {}
  BY <1>1 DEF Begun
<1>3. HistoryInv /\ StageInv
  BY <1>1 DEF HistoryInv, StageInv
<1>4. LoopInv
  BY <1>1 DEF LoopInv, BuiltinKinds
<1>5. NodeInv /\ PodInv
  BY <1>1 DEF NodeInv, PodInv
<1>6. WorkloadInv
  BY <1>1, <1>2 DEF WorkloadInv
<1>7. ListedInv
  BY DEF Init, ListedInv, OnlyListedIsReported
<1>8. RefuseInv
  BY <1>1 DEF RefuseInv
<1> QED BY <1>3, <1>4, <1>5, <1>6, <1>7, <1>8, TypeInit, ClashInit DEF IInv

LEMMA InvStep == IInv /\ [Next]_vars => IInv'
BY TypeStep, HistoryStep, StageInvStep, LoopStep, ClashStep, NodeStep, PodStep, WorkloadStep,
   RefuseStep, ListedStep DEF IInv

LEMMA InvReports == IInv => SteadyIsReported
<1> SUFFICES ASSUME IInv, reply = "data", clean
             PROVE  SteadyIsReported
  BY DEF SteadyIsReported
<1>1. /\ stage = "idle" /\ todo = {} /\ targetsLeft = {} /\ current = NoWorkload
      /\ active = "sent"
  BY DEF IInv, TypeOK, StageInv, LoopInv, BuiltinKinds
<1>2. collector = "node" =>
        \A n \in steady \cap Nodes :
          <<"cost", n>> \in out /\ (n \in snap => <<"usage", n>> \in out)
  BY <1>1 DEF IInv, NodeInv, CostOfNode
<1>3. collector = "pod" =>
        \A p \in steady \cap Pods :
          /\ <<"cost", p>> \in out \/ (<<"zero", p>> \in out /\ NodeOf[p] \notin steady)
          /\ snap \subseteq steady /\ p \in snap => <<"usage", p>> \in out
  BY <1>1 DEF IInv, PodInv, CostOfPod
<1>4. ASSUME collector = "workload"
      PROVE  /\ \A k \in BuiltinKinds : \A w \in WorkloadsOf(k) : Covers(k, w, Selected[w])
             /\ \A t \in configured :
                  Target[t] \in mapper \cap served =>
                    \A w \in WorkloadsOf(Target[t]) : Covers(Alias[t], w, InNamespaceOf(w))
  <2>1. Begun = BuiltinKinds
    BY <1>1 DEF Begun
  <2>2. \A a, w, M : Reported(a, w, M) => Covers(a, w, M)
    BY <1>1 DEF Reported, Pending
  <2>3. WorkloadInv
    BY DEF IInv
  <2> QED BY <1>1, <1>4, <2>1, <2>2, <2>3 DEF WorkloadInv
<1> QED BY <1>1, <1>2, <1>3, <1>4 DEF SteadyIsReported

LEMMA InvRefuses == IInv => ClashesAreRefused
<1> SUFFICES ASSUME IInv PROVE ClashesAreRefused
  OBVIOUS
<1>1. reply = "error" => Clashing
  BY DEF IInv, ClashInv
<1>2. ASSUME reply = "data", clean, collector = "workload",
             NEW x \in Taken, NEW y \in Taken, Clash(x, y)
      PROVE  FALSE
  <2>1. stage = "idle" /\ todo = {} /\ targetsLeft = {}
    BY <1>2 DEF IInv, StageInv, LoopInv
  <2>2. \A z \in Taken : Had(z) = WorkloadsOf(KindIn(z))
    BY <1>2, <2>1, BegunDef DEF Had, KindIn
  <2>3. PICK v \in WorkloadsOf(KindIn(x)), w \in WorkloadsOf(KindIn(y)) :
          LabelsOf[v] = LabelsOf[w]
    BY <1>2 DEF Clash
  <2>4. x # y /\ NameIn(x) = NameIn(y)
    BY <1>2 DEF Clash
  <2> QED BY <1>2, <2>2, <2>3, <2>4 DEF IInv, RefuseInv
<1> QED BY <1>1, <1>2 DEF ClashesAreRefused

LEMMA AlwaysInv == Spec => []IInv
BY InvInit, InvStep, PTL DEF Spec

\* The loops of the collectors keep to the objects, workloads and entries they
\* iterate over, whatever the informers, the ticker and the faults do meanwhile
\* (node_metrics.go:226-306, pod_metrics.go:138-210, workload_metrics.go:90-387).
THEOREM ScrapeTypeCorrect == Spec => []TypeOK
BY AlwaysInv, PTL DEF IInv

\* A scrape that answers, and none of whose calls failed, has reported all that
\* was listed from its beginning to its end: costs and cached usages of nodes and
\* pods, and the sums of the workloads of builtin kinds and of the custom kinds
\* that were served and known.
THEOREM SteadyAlwaysReported == Spec => []SteadyIsReported
BY AlwaysInv, InvReports, PTL

\* Every sample is of a node or a pod that was listed at a time of its scrape, and
\* a workload is charged for pods that it selects only, although the loops go over
\* the cache and the listers change between two turns.
THEOREM OnlyListedAlwaysReported == Spec => []OnlyListedIsReported
BY AlwaysInv, PTL DEF IInv, ListedInv

\* The registry refuses a scrape for a name given to two workloads of the same
\* labels by two lists, of builtin kinds or of entries, and for nothing else; and
\* when it has refused none although no call failed, no two lists whose kinds were
\* known and served all along give one (workload_metrics.go:316-387).
THEOREM ClashesAlwaysRefused == Spec => []ClashesAreRefused
BY AlwaysInv, InvRefuses, PTL
=============================================================================

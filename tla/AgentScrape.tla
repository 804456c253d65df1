---------------------------- MODULE AgentScrape ----------------------------
(***************************************************************************)
(* A scrape of the agent: what the collectors report, from listers that    *)
(* follow the cluster, a cache of usages that is refreshed in two parts,   *)
(* a mapper of kinds and calls to other servers.                           *)
(*                                                                         *)
(* Source: pkg/agent/metrics/core and metrics/cache, agent/utils,          *)
(* agent/reference.  The lock and the ledger of the node collector are in  *)
(* NodeMetrics, the elections in AgentElection, prices in AckPrice.        *)
(*                                                                         *)
(* The registry calls the collectors in parallel.  They write nothing that *)
(* another reads, so a behaviour follows one of them and the collector of  *)
(* the cluster's state, which can end the process.  One registry gathers   *)
(* the samples of all, so that two workloads of one name refuse the scrape *)
(* whichever collector is followed.  Quantities are left out: a sample     *)
(* says whose it is, and of which pods it is the sum.                      *)
(***************************************************************************)
EXTENDS Integers, FiniteSets

CONSTANTS
  Pods, Nodes, NodeOf,  \* NodeOf[p]: the node of pod p
  Initially,            \* the pods and nodes there are when the agent starts
  Workloads, KindsOf,   \* KindsOf[w]: the kinds, each of one API version, in which
                        \* workload w is served
  LabelsOf,             \* its name, namespace and labels, as its samples carry them
  NamespaceOf,          \* the namespace of a pod or a workload
  Selected,             \* Selected[w]: the pods, of any namespace, that w selects
  Targets, Target, Alias, \* entries of custom configurations: their kind, which may
                        \* be a builtin one, and alias
  MaxEvents,            \* bound on changes of the cluster and restarts
  MaxFaults,            \* bound on calls that fail
  NoTarget

BuiltinKinds == {"deployment", "daemonset", "statefulset"}
Kinds == {Target[t] : t \in Targets}
Objects == Pods \cup Nodes

ASSUME ObjectsAssumption ==
  /\ Pods \cap Nodes = {} /\ NodeOf \in [Pods -> Nodes]
  /\ Initially \subseteq Objects
  /\ DOMAIN NamespaceOf = Pods \cup Workloads
ASSUME WorkloadsAssumption ==
  /\ KindsOf \in [Workloads -> SUBSET (BuiltinKinds \cup Kinds)]
  /\ Selected \in [Workloads -> SUBSET Pods]
\* A name is given once in a kind and a namespace.
ASSUME NamesAssumption ==
  \A v, w \in Workloads :
    KindsOf[v] \cap KindsOf[w] # {} /\ LabelsOf[v] = LabelsOf[w] => v = w
ASSUME TargetsAssumption ==
  /\ DOMAIN Target = Targets /\ DOMAIN Alias = Targets
  /\ NoTarget \notin Targets /\ Targets \cap BuiltinKinds = {}
ASSUME BoundsAssumption == {MaxEvents, MaxFaults} \subseteq Nat

VARIABLES
  there, listed,           \* the pods and nodes that exist, that the listers have
  kinds, mapper,           \* the targets' kinds served, and known to the mapper
  configured,              \* the entries of the custom configurations
  cached, tick,            \* the usages in the cache; the part to refresh next
  events, faults,
  collector, stage, todo,  \* the collector that is followed, and its loop
  snap,                    \* what its last query of the cache returned
  target, targetsLeft, current, \* its loop over custom configurations; the
                           \* samples of a workload whose usage is to follow
  active,                  \* the collector of the cluster's state
  out, sums, clash, reply, \* the samples of objects and of workloads, two of one
                           \* name, and the answer
  steady, seen, served, clean
                           \* history, since the scrape began: the objects listed
                           \* all along and at times, the kinds served all along,
                           \* no call of the scrape failed

clusterVars == <<there, kinds, configured>>
agentVars == <<listed, mapper, cached, tick>>
loopVars == <<stage, todo, snap, target, targetsLeft, current, out, sums, clash>>
historyVars == <<steady, seen, served>>
vars == <<clusterVars, agentVars, events, faults, collector, loopVars, active, reply,
          historyVars, clean>>

Stages == {"idle", "nodes", "nodeCost", "nodeUsage", "pods", "podCost", "podUsage",
           "custom"} \cup BuiltinKinds
First == [node |-> "nodes", pod |-> "pods", workload |-> "deployment"]

WorkloadsOf(k) == {w \in Workloads : k \in KindsOf[w]}
Names == BuiltinKinds \cup {Alias[t] : t \in Targets}
Samples == {"cost", "zero", "usage"} \X Objects
Sums == [what : {"count", "cost", "usage"}, name : Names, workload : Workloads,
         pods : SUBSET Pods]

NoWorkload == <<>>

\* The lists of workloads a scrape goes through, their kinds, and the names that
\* the workloads in them are to get.
Lists == BuiltinKinds \cup configured
KindIn(x) == IF x \in BuiltinKinds THEN x ELSE Target[x]
NameIn(x) == IF x \in BuiltinKinds THEN x ELSE Alias[x]

\* Two lists give two workloads of the same labels one name, or a workload twice.
Clash(x, y) ==
  /\ x # y /\ NameIn(x) = NameIn(y)
  /\ \E v \in WorkloadsOf(KindIn(x)), w \in WorkloadsOf(KindIn(y)) : LabelsOf[v] = LabelsOf[w]

\* The builtin kinds have different names.
Clashing == \E t \in configured : \E x \in Lists : Clash(t, x)

TypeOK ==
  /\ {there, listed, cached} \subseteq SUBSET Objects
  /\ {kinds, mapper} \subseteq SUBSET Kinds /\ configured \subseteq Targets
  /\ tick \in {"nodes", "pods"} /\ events \in 0 .. MaxEvents /\ faults \in 0 .. MaxFaults
  /\ collector \in DOMAIN First /\ stage \in Stages
  /\ todo \subseteq Objects \cup Workloads /\ snap \subseteq Objects
  /\ target \in configured \cup {NoTarget} /\ targetsLeft \subseteq configured
  /\ current \in {NoWorkload} \cup (Names \X Workloads \X SUBSET Pods)
  /\ active \in {"todo", "sent", "unpriced"} /\ reply \in {"none", "data", "error", "crash"}
  /\ out \subseteq Samples /\ sums \subseteq Sums /\ {clash, clean} \subseteq BOOLEAN
  /\ steady \subseteq seen /\ seen \subseteq Objects /\ served \subseteq Kinds

\* The agent serves once its listers have synced, with an empty cache and with
\* the kinds there are; the builtin ones are always served, and a collector that
\* does not ask for kinds is followed with all of them.
Init ==
  /\ collector \in DOMAIN First
  /\ there = Initially /\ listed = there
  /\ kinds \in SUBSET Kinds /\ BuiltinKinds \cap Kinds \subseteq kinds /\ mapper = kinds
  /\ collector # "workload" => kinds = Kinds
  /\ configured \in SUBSET Targets
  /\ cached = {} /\ tick = "nodes" /\ events = 0 /\ faults = 0
  /\ stage = "idle" /\ todo = {} /\ snap = {}
  /\ target = NoTarget /\ targetsLeft = {} /\ current = NoWorkload
  /\ active = "todo" /\ out = {} /\ sums = {} /\ clash = FALSE /\ reply = "none"
  /\ steady = {} /\ seen = {} /\ served = {} /\ clean = TRUE

-----------------------------------------------------------------------------
(* The cluster and the informers *)

Event == events < MaxEvents /\ events' = events + 1

\* An object is created, or deleted.
Change(o) ==
  /\ Event
  /\ there' = IF o \in there THEN there \ {o} ELSE there \cup {o}
  /\ UNCHANGED <<kinds, configured, agentVars, faults, collector, loopVars,
                 active, reply, historyVars, clean>>

\* A kind that is not builtin is installed, or removed; the other collectors do not
\* ask for kinds.
ChangeKind(k) ==
  /\ Event /\ collector = "workload"
  /\ kinds' = IF k \in kinds THEN kinds \ {k} ELSE kinds \cup {k}
  /\ served' = served \cap kinds'
  /\ UNCHANGED <<there, configured, agentVars, faults, collector, loopVars,
                 active, reply, steady, seen, clean>>

Inform(o) ==
  /\ (o \in there) # (o \in listed)
  /\ listed' = IF o \in there THEN listed \cup {o} ELSE listed \ {o}
  /\ steady' = steady \cap listed' /\ seen' = seen \cup (IF stage = "idle" THEN {} ELSE listed')
  /\ UNCHANGED <<clusterVars, mapper, cached, tick, events, faults, collector, loopVars,
                 active, reply, served, clean>>

\* The process ends, in a crash of the scrape or for another reason, among them the
\* panics of the node collector (NodeMetrics), and starts again: its listers sync,
\* its cache is empty, its mapper asks for the kinds.  No other action renews the
\* mapper: the ticker that should is stopped by the function that starts it.
Restart ==
  /\ IF reply = "crash" THEN UNCHANGED events ELSE Event
  /\ listed' = there /\ cached' = {} /\ tick' = "nodes" /\ mapper' = kinds
  /\ stage' = "idle" /\ todo' = {} /\ snap' = {} /\ target' = NoTarget
  /\ targetsLeft' = {} /\ current' = NoWorkload /\ out' = {} /\ sums' = {} /\ clash' = FALSE
  /\ active' = "todo" /\ reply' = "none"
  /\ steady' = {} /\ seen' = {} /\ served' = {} /\ clean' = TRUE
  /\ UNCHANGED <<clusterVars, faults, collector>>

-----------------------------------------------------------------------------
(* The usage cache: the ticker refreshes the nodes, then the pods *)

\* Of the cache, what the followed collector reads is kept.
Read == IF collector = "node" THEN Nodes ELSE Pods

Refreshed(Part) == (cached \ Part) \cup (there \cap Part \cap Read)

\* Mutant: a refresh that fails ends the loop of the ticker.
Continues_NoFault == faults = 0

\* Whether the ticker's goroutine is still in its loop.
Continues == TRUE

CollectNodeMetrics ==
  /\ tick = "nodes" /\ reply # "crash" /\ Continues
  /\ \/ cached' = Refreshed(Nodes) /\ tick' = "pods" /\ UNCHANGED faults
     \/ /\ faults < MaxFaults /\ faults' = faults + 1
        /\ tick' = "pods" /\ UNCHANGED cached
  /\ UNCHANGED <<clusterVars, listed, mapper, events, collector, loopVars, active, reply,
                 historyVars, clean>>

CollectPodMetrics ==
  /\ tick = "pods" /\ reply # "crash" /\ Continues
  /\ \/ cached' = Refreshed(Pods) /\ UNCHANGED faults
     \/ faults < MaxFaults /\ faults' = faults + 1 /\ UNCHANGED cached
  /\ tick' = "nodes"
  /\ UNCHANGED <<clusterVars, listed, mapper, events, collector, loopVars, active, reply,
                 historyVars, clean>>

-----------------------------------------------------------------------------
(* The scrape *)

Running == stage # "idle" /\ reply = "none"

\* A call of the scrape to another server, for a price, a list or a script.
Call(ok) ==
  IF ok THEN UNCHANGED <<faults, clean>>
  ELSE faults < MaxFaults /\ faults' = faults + 1 /\ clean' = FALSE

\* What a step of the followed collector leaves alone.
OnlyLoop == UNCHANGED <<clusterVars, agentVars, events, collector, active, reply, historyVars>>
OnlyReads == OnlyLoop /\ UNCHANGED <<faults, clean>>

Gather ==
  /\ stage = "idle" /\ reply # "crash"
  /\ stage' = First[collector] /\ reply' = "none" /\ active' = "todo"
  /\ todo' = IF collector = "workload" THEN WorkloadsOf("deployment") ELSE {}
  /\ out' = {} /\ sums' = {} /\ clash' = FALSE /\ snap' = {} /\ targetsLeft' = {}
  /\ steady' = listed /\ seen' = listed /\ served' = kinds
  /\ clean' = TRUE
  /\ UNCHANGED <<clusterVars, agentVars, events, faults, collector, target, current>>

\* The price of the first node tells the region; without one the collector sends
\* nothing.  Without a node there is no first: the panic of a goroutine of the
\* registry ends the process.
ClusterState ==
  /\ Running /\ active = "todo"
  /\ IF listed \cap Nodes = {}
     THEN reply' = "crash" /\ UNCHANGED <<active, faults, clean>>
     ELSE \E ok \in BOOLEAN : /\ Call(ok) /\ UNCHANGED reply
                              /\ active' = IF ok THEN "sent" ELSE "unpriced"
  /\ UNCHANGED <<clusterVars, agentVars, events, collector, loopVars, historyVars>>

\* A loop over the listed objects, or over those of a query of the cache.
Loop(from, to, S) ==
  /\ Running /\ stage = from /\ todo = {}
  /\ stage' = to /\ todo' = S
  /\ UNCHANGED <<target, targetsLeft, current, out, sums, clash>> /\ OnlyReads

Turn(o, in, S) ==
  /\ Running /\ stage = in /\ o \in todo
  /\ out' = out \cup S
  /\ UNCHANGED <<stage, snap, target, targetsLeft, current, sums, clash>> /\ OnlyLoop

ListNodes == Loop("nodes", "nodeCost", listed \cap Nodes) /\ UNCHANGED snap
QueryAllNodesUsage ==
  Loop("nodeCost", "nodeUsage", cached \cap Nodes) /\ snap' = cached \cap Nodes
ListPods == Loop("pods", "podCost", listed \cap Pods) /\ UNCHANGED snap
QueryAllPodsUsage ==
  Loop("podCost", "podUsage", cached \cap Pods) /\ snap' = cached \cap Pods

\* A node without a price has no samples.
NodeCost(n) ==
  \E ok \in BOOLEAN :
    /\ Turn(n, "nodeCost", IF ok THEN {<<"cost", n>>} ELSE {})
    /\ Call(ok) /\ todo' = todo \ {n}

\* Mutant: as with the pods, a node that is not listed ends the loop.
AfterUnknownNode_Return(n) == {}

AfterUnknownNode(n) == todo \ {n}

NodeUsage(n) ==
  \/ /\ n \notin listed /\ Turn(n, "nodeUsage", {})
     /\ todo' = AfterUnknownNode(n) /\ UNCHANGED <<faults, clean>>
  \/ /\ n \in listed
     /\ \E ok \in BOOLEAN :
          /\ Turn(n, "nodeUsage", IF ok THEN {<<"usage", n>>} ELSE {})
          /\ Call(ok) /\ todo' = todo \ {n}

\* A pod whose node is not listed, or has no price, costs 0.
PodCost(p) ==
  \E ok \in BOOLEAN :
    /\ NodeOf[p] \notin listed => ok
    /\ Turn(p, "podCost", {<<IF ok /\ NodeOf[p] \in listed THEN "cost" ELSE "zero", p>>})
    /\ Call(ok) /\ todo' = todo \ {p}

\* Mutant: the usage is sent without a look at the lister.
PodUsage_Unlisted(p) ==
  Turn(p, "podUsage", {<<"usage", p>>}) /\ todo' = todo \ {p} /\ UNCHANGED <<faults, clean>>

\* A cached pod that is not listed ends the loop.
PodUsage(p) ==
  /\ Turn(p, "podUsage", IF p \in listed THEN {<<"usage", p>>} ELSE {})
  /\ todo' = IF p \in listed THEN todo \ {p} ELSE {}
  /\ UNCHANGED <<faults, clean>>

SumOf(what, a, w, P) == [what |-> what, name |-> a, workload |-> w, pods |-> P]

\* ParsePodResourceCost of the pods P: those of C have a price, the others, whose
\* node is not listed or not priced, cost 0.
Priced(P, C) ==
  LET known == {p \in P : NodeOf[p] \in listed}
  IN  \/ C = known /\ Call(TRUE)
      \/ Call(FALSE) /\ \E p \in known : C = known \ {p}

\* The samples of workload w, called a, of the pods P.  Two of one name and the same
\* labels make the registry give up.  The requests are sums over the pods that are
\* counted.
Summed(a, w, P) ==
  \E C \in SUBSET P :
    /\ Priced(P, C)
    /\ sums' = sums \cup {SumOf("count", a, w, P), SumOf("cost", a, w, C)}
    /\ clash' = (clash \/ \E s \in sums : s.name = a /\ LabelsOf[s.workload] = LabelsOf[w])
    /\ current' = <<a, w, P>>

UsedOf(P) == P \cap cached

WorkloadUsage ==
  /\ Running /\ current # NoWorkload
  /\ sums' = sums \cup {SumOf("usage", current[1], current[2], UsedOf(current[3]))}
  /\ current' = NoWorkload
  /\ UNCHANGED <<stage, todo, snap, target, targetsLeft, out, clash>> /\ OnlyReads

\* The pods of a deployment, a daemon set or a stateful set are listed in all
\* namespaces.
BuiltinWorkload(w) ==
  /\ Running /\ stage \in BuiltinKinds /\ w \in todo /\ current = NoWorkload
  /\ Summed(stage, w, Selected[w] \cap listed)
  /\ todo' = todo \ {w}
  /\ UNCHANGED <<stage, snap, target, targetsLeft, out>> /\ OnlyLoop

\* A selector that cannot be parsed ends the loop over its kind.
BadSelector(w) ==
  /\ Running /\ stage \in BuiltinKinds /\ w \in todo /\ current = NoWorkload
  /\ Call(FALSE) /\ todo' = {}
  /\ UNCHANGED <<stage, snap, target, targetsLeft, current, out, sums, clash>> /\ OnlyLoop

NextKind ==
  /\ Running /\ stage \in BuiltinKinds /\ todo = {} /\ current = NoWorkload
  /\ \/ stage = "deployment" /\ stage' = "daemonset" /\ UNCHANGED targetsLeft
     \/ stage = "daemonset" /\ stage' = "statefulset" /\ UNCHANGED targetsLeft
     \/ stage = "statefulset" /\ stage' = "custom" /\ targetsLeft' = configured
  /\ todo' = {w \in WorkloadsOf(stage') : stage' \in BuiltinKinds}
  /\ UNCHANGED <<snap, target, current, out, sums, clash>> /\ OnlyReads

\* Mutant: a workload is reported by its kind.
NameOf_Kind(t) == Target[t]

NameOf(t) == Alias[t]

\* A kind the mapper does not know, or whose list fails, is left out.
CustomTarget(t) ==
  /\ Running /\ stage = "custom" /\ todo = {} /\ current = NoWorkload /\ t \in targetsLeft
  /\ targetsLeft' = targetsLeft \ {t}
  /\ \E ok \in BOOLEAN :
       /\ ~(Target[t] \in mapper /\ Target[t] \in kinds) => ok
       /\ Call(ok)
       /\ todo' = IF ok /\ Target[t] \in mapper \cap kinds THEN WorkloadsOf(Target[t]) ELSE {}
  /\ target' = t
  /\ UNCHANGED <<stage, snap, current, out, sums, clash>> /\ OnlyLoop

\* The pods of a custom workload are listed in its namespace.
Selects(w) == {p \in Selected[w] \cap listed : NamespaceOf[p] = NamespaceOf[w]}

CustomWorkload(w) ==
  /\ Running /\ stage = "custom" /\ w \in todo /\ current = NoWorkload
  /\ todo' = todo \ {w}
  /\ Summed(NameOf(target), w, Selects(w))
  /\ UNCHANGED <<stage, snap, target, targetsLeft, out>> /\ OnlyLoop

\* The script of a workload fails, or runs for longer than a second.
ScriptFails(w) ==
  /\ Running /\ stage = "custom" /\ w \in todo /\ current = NoWorkload
  /\ Call(FALSE) /\ todo' = todo \ {w}
  /\ UNCHANGED <<stage, snap, target, targetsLeft, current, out, sums, clash>> /\ OnlyLoop

\* Whether the registry refuses the samples: those of the workloads, if they are
\* not followed, are refused at most if lists clash.
Refused == IF collector = "workload" THEN {clash} ELSE {FALSE, Clashing}

\* All collectors have returned.
Answer ==
  /\ Running /\ active # "todo"
  /\ stage \in {"nodeUsage", "podUsage", "custom"}
  /\ todo = {} /\ targetsLeft = {} /\ current = NoWorkload
  /\ stage' = "idle" /\ target' = NoTarget
  /\ \E refused \in Refused : reply' = IF refused THEN "error" ELSE "data"
  /\ UNCHANGED <<clusterVars, agentVars, events, faults, collector, todo, snap, targetsLeft,
                 current, out, sums, clash, active, historyVars, clean>>

Collect ==
  \/ ListNodes \/ QueryAllNodesUsage \/ ListPods \/ QueryAllPodsUsage
  \/ \E n \in Nodes : NodeCost(n) \/ NodeUsage(n)
  \/ \E p \in Pods : PodCost(p) \/ PodUsage(p)
  \/ \E w \in Workloads :
       BuiltinWorkload(w) \/ BadSelector(w) \/ CustomWorkload(w) \/ ScriptFails(w)
  \/ WorkloadUsage \/ NextKind \/ \E t \in Targets : CustomTarget(t)

Informers == \E o \in Objects : Inform(o)
Ticker == CollectNodeMetrics \/ CollectPodMetrics
Scrape == Gather \/ ClusterState \/ Collect \/ Answer

Next ==
  \/ \E o \in Objects : Change(o)
  \/ \E k \in Kinds \ BuiltinKinds : ChangeKind(k)
  \/ Restart
  \/ Informers \/ Ticker \/ Scrape

Spec == Init /\ [][Next]_vars

\* The informers follow the cluster, the ticker ticks, the
\* agent is scraped again and again, and a container that ended is started again.
Fairness ==
  /\ WF_vars(Informers) /\ WF_vars(Ticker) /\ WF_vars(Scrape)
  /\ WF_vars(reply = "crash" /\ Restart)

FairSpec == Spec /\ Fairness

-----------------------------------------------------------------------------
(* Properties *)

\* Of all pods that match, those listed all along are counted, and no other than
\* those listed at times; their cost is that of the pods with a node, their usage
\* that of the pods which were cached.
Covers(a, w, Matching) ==
  \E s \in sums, c \in sums, u \in sums :
    /\ \A r \in {s, c, u} : r.name = a /\ r.workload = w /\ r.pods \subseteq s.pods
    /\ <<s.what, c.what, u.what>> = <<"count", "cost", "usage">>
    /\ Matching \cap steady \subseteq s.pods /\ s.pods \subseteq Matching \cap seen
    /\ {p \in Matching \cap steady : NodeOf[p] \in steady} \subseteq c.pods

InNamespaceOf(w) == {p \in Selected[w] : NamespaceOf[p] = NamespaceOf[w]}

\* A scrape none of whose calls failed reports every node and pod that was listed
\* all along, whatever comes and goes meanwhile: its cost, its usage if it was
\* cached - that of the pods only if none of the cached pods was forgotten - and
\* the workloads, those of custom kinds that were served all along and when the
\* agent started (node_metrics.go:238-306, pod_metrics.go:145-186,
\* workload_metrics.go:116-387).
SteadyIsReported ==
  reply = "data" /\ clean =>
    /\ active = "sent"
    /\ collector = "node" =>
         \A n \in steady \cap Nodes :
           <<"cost", n>> \in out /\ (n \in snap => <<"usage", n>> \in out)
    /\ collector = "pod" =>
         \A p \in steady \cap Pods :
           /\ <<"cost", p>> \in out \/ (<<"zero", p>> \in out /\ NodeOf[p] \notin steady)
           /\ snap \subseteq steady /\ p \in snap => <<"usage", p>> \in out
    /\ collector = "workload" =>
         /\ \A k \in BuiltinKinds : \A w \in WorkloadsOf(k) : Covers(k, w, Selected[w])
         /\ \A t \in configured :
              Target[t] \in mapper \cap served =>
                \A w \in WorkloadsOf(Target[t]) : Covers(Alias[t], w, InNamespaceOf(w))

\* No sample is of a pod or a node that was gone before the scrape began, although
\* the cache may have its usage still, and no workload is charged for a pod it does
\* not select, nor for one that was gone (node_metrics.go:295, pod_metrics.go:147,
\* workload_metrics.go:145).
OnlyListedIsReported ==
  /\ \A x \in out : x[2] \in seen
  /\ \A s \in sums : s.pods \subseteq Selected[s.workload] \cap seen

\* The entries whose workloads a scrape lists whenever no call fails.
Taken == BuiltinKinds \cup {t \in configured : Target[t] \in mapper \cap served}

\* The registry refuses a scrape if two lists give workloads of the same name,
\* namespace and labels one name - two entries for one kind or for two, or for two
\* versions of one, or an entry that gives a name of a builtin kind - and for no
\* other reason, however often the loops are disturbed; and while both kinds are
\* known and served, only a failed call lets a scrape through
\* (workload_metrics.go:316-387).
ClashesAreRefused ==
  /\ reply = "error" => Clashing
  /\ reply = "data" /\ clean /\ collector = "workload" =>
       \A x, y \in Taken : ~Clash(x, y)

\* Once the cluster, as long as it has nodes, and the calls settle, and unless the
\* configurations clash, the agent is up and its scrapes are answered and report the
\* usage of every pod and node again, however the cache and the listers disagreed
\* before (usage_cache.go:60-110, pod_metrics.go:138-210, cluster_metrics.go:64).
UsageReported ==
  reply = "data" =>
    \A o \in there : (collector = "pod" /\ o \in Pods) \/ (collector = "node" /\ o \in Nodes)
                       => <<"usage", o>> \in out

UsageComesBack ==
  <>[](there \cap Nodes # {} /\ ~Clashing) => []<>(reply = "data") /\ <>[]UsageReported
=============================================================================

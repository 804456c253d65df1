--------------------------- MODULE ClusterSummary ---------------------------
(***************************************************************************)
(* The summaries of clusters that the cost analyzer serves: the costs of   *)
(* the month and the current resources, of all clusters or of one, and the *)
(* history of a cluster's resources.                                       *)
(*                                                                         *)
(* Source: pkg/analyzer/server/implementation/cluster_metrics.go,          *)
(* cluster_cost.go, the handlers cluster_summary.go and cluster_details.go *)
(* that call them, GetClusterDetailsStartEndStepTime of analyzer/utils.    *)
(*                                                                         *)
(* A request first asks who the clusters are, then asks for their data,    *)
(* and joins the two answers, while agents report, fall silent and come    *)
(* back.  Every query is evaluated at an instant of its own.  Values are   *)
(* left out: a sample <<m, c>> says that metric m of cluster c is there.   *)
(* A resource metric stands for its two series, cpu and memory.            *)
(*                                                                         *)
(* The errors of a fan-out may be lost, which QueryFanout shows; here the  *)
(* request then goes on without that data.                                 *)
(***************************************************************************)
EXTENDS Integers, FiniteSets

CONSTANTS
  Cluster,
  Quantities, \* the sums over a cluster's nodes: total, usage, request, ...
  Reports,    \* the sets of metrics an agent may report at once
  Spans,      \* how long ago, in seconds, the oldest sample of a cluster is
  Limit,      \* the backend's limit of points per series, 11000
  Period,     \* MetricsPeriodInSeconds, 15
  MaxEvents,  \* bound on reports, silences and new months
  MaxHoles    \* bound on the queries of a request that go wrong

Metrics == {"active", "nodeCost", "podsScheduled", "podsUnscheduled", "cpuCost"}
             \cup Quantities
PodStatuses == {"podsScheduled", "podsUnscheduled"}
Forms == {"costs", "clusterCosts", "resources", "clusterResources", "details"}

ASSUME QuantitiesAssumption ==
  "total" \in Quantities /\
  Quantities \subseteq {"total", "usage", "request", "available", "system"}
ASSUME ReportsAssumption == Reports \subseteq SUBSET Metrics
ASSUME NumbersAssumption ==
  /\ Spans \subseteq Nat /\ Spans # {} /\ {Limit, Period} \subseteq Nat \ {0}
  /\ {MaxEvents, MaxHoles} \subseteq Nat

VARIABLES
  form, target, span,     \* the request; its cluster, if it names one
  ever, month, fresh,     \* the metrics of a cluster in the last two months, in
                          \* this month, and recent enough for an instant query
  events,
  stage, asked, answer,   \* the queries evaluated, and the samples they returned
  failed, fine,           \* a query returned an error; a query did not
  holes,                  \* how many queries did not return what there was
  steady, heard,          \* history, since the request came: the samples that were
                          \* fresh all along, the clusters that were active at times
  reply, items, described, fields
                          \* the response: its items, those with a property, and
                          \* the samples its items hold

storeVars == <<ever, month, fresh, events>>
requestVars == <<form, target, span>>
replyVars == <<reply, items, described, fields>>
vars == <<requestVars, storeVars, stage, asked, answer, failed, fine, holes, steady, heard,
          replyVars>>

Samples == Metrics \X Cluster
All(store) == {s \in Samples : s[1] \in store[s[2]]}

-----------------------------------------------------------------------------
(* The queries of a form, the metrics and the window of each *)

ForAll == form \in {"costs", "resources"}

\* Who the clusters are: when they were active, and whether they are.
PropertyQueries == IF form = "details" THEN {"firstSeen"} ELSE {"activeTime", "activity"}

AllCostQueries == {"monthTime", "monthActivity", "monthCost", "cpuCost", "cpuCount"}
ClusterCostQueries == {"monthTime", "monthActivity", "monthCost", "cpuCost", "cpuCount"}
AllResourceQueries == {"nodes", "pods"} \cup Quantities
ClusterResourceQueries == {"nodes", "pods"} \cup Quantities
DetailQueries == Quantities

BodyQueries ==
  CASE form = "costs" -> AllCostQueries
    [] form = "clusterCosts" -> ClusterCostQueries
    [] form = "resources" -> AllResourceQueries
    [] form = "clusterResources" -> ClusterResourceQueries
    [] form = "details" -> DetailQueries

Queries == IF stage = "property" THEN PropertyQueries ELSE BodyQueries

MetricsOf(q) ==
  CASE q \in {"firstSeen", "activeTime", "activity", "monthTime", "monthActivity"} -> {"active"}
    [] q \in {"nodes", "monthCost"} -> {"nodeCost"}
    [] q = "pods" -> PodStatuses
    [] q = "cpuCount" -> {"total"}
    [] OTHER -> {q}

\* Mutant: whether a cluster is there is asked of the whole window.
Window_NoLookback(q) ==
  CASE q \in {"firstSeen", "activeTime", "activity"} \/ form = "details" -> ever
    [] q \in {"monthTime", "monthCost", "cpuCost", "cpuCount"} -> month
    [] OTHER -> fresh

\* activity is an instant query, whose window is the lookback of the backend.
Window(q) ==
  CASE q \in {"firstSeen", "activeTime"} \/ form = "details" -> ever
    [] q \in {"monthTime", "monthCost", "cpuCost", "cpuCount"} -> month
    [] OTHER -> fresh

\* What the backend has for a query now.
Sees(q) ==
  {s \in All(Window(q)) : s[1] \in MetricsOf(q) /\ (~ForAll => s[2] = target)}

\* The step of the history: a 11000th of the time the cluster has been known,
\* rounded down, then up to a multiple of the period.
RoundUp(n) == IF n % Period # 0 THEN (n \div Period) * Period + Period ELSE n
StepOf(n) == RoundUp(IF n \div Limit <= 0 THEN Period ELSE n \div Limit)
TooManyPoints == form = "details" /\ stage = "body" /\ span \div StepOf(span) > Limit

-----------------------------------------------------------------------------
TypeOK ==
  /\ form \in Forms /\ target \in Cluster /\ span \in Spans
  /\ {ever, month, fresh} \subseteq [Cluster -> SUBSET Metrics]
  /\ events \in 0 .. MaxEvents
  /\ stage \in {"idle", "property", "body", "done"}
  /\ asked \subseteq PropertyQueries \cup BodyQueries
  /\ \A a \in answer : a[1] \in asked /\ a[2] \in Samples /\ a[2][1] \in MetricsOf(a[1])
  /\ {failed, fine} \subseteq BOOLEAN /\ holes \in 0 .. MaxHoles
  /\ steady \subseteq Samples /\ heard \subseteq Cluster
  /\ reply \in {"none", "data", "error", "notFound", "panic", "crash"}
  /\ described \subseteq items /\ items \subseteq Cluster
  /\ fields \subseteq Metrics \X items

Init ==
  /\ form \in Forms /\ target \in Cluster
  /\ span \in (IF form = "details" THEN Spans ELSE {CHOOSE n \in Spans : TRUE})
  /\ ever = [c \in Cluster |-> {}] /\ month = ever /\ fresh = ever
  /\ events = 0
  /\ stage = "idle" /\ asked = {} /\ answer = {}
  /\ failed = FALSE /\ fine = FALSE /\ holes = 0
  /\ steady = {} /\ heard = {}
  /\ reply = "none" /\ items = {} /\ described = {} /\ fields = {}

-----------------------------------------------------------------------------
(* The agents and the metrics store *)

Event == events < MaxEvents /\ stage # "done" /\ events' = events + 1

Report(c, r) ==
  /\ Event
  /\ ever' = [ever EXCEPT ![c] = @ \cup r]
  /\ month' = [month EXCEPT ![c] = @ \cup r]
  /\ fresh' = [fresh EXCEPT ![c] = @ \cup r]
  /\ heard' = heard \cup (IF "active" \in r THEN {c} ELSE {})
  /\ UNCHANGED <<requestVars, stage, asked, answer, failed, fine, holes, steady, replyVars>>

\* Nothing was heard of a cluster for as long as an instant query looks back.
FallSilent(c) ==
  /\ Event /\ fresh[c] # {}
  /\ fresh' = [fresh EXCEPT ![c] = {}]
  /\ steady' = {s \in steady : s[2] # c}
  /\ UNCHANGED <<requestVars, ever, month, stage, asked, answer, failed, fine, holes, heard, replyVars>>

\* A new month begins: what is older is no longer of this month.
NewMonth ==
  /\ Event /\ month # fresh
  /\ month' = fresh
  /\ UNCHANGED <<requestVars, ever, fresh, stage, asked, answer, failed, fine, holes, steady,
                 heard, replyVars>>

-----------------------------------------------------------------------------
(* The request *)

Request ==
  /\ stage = "idle"
  /\ stage' = "property"
  /\ steady' = All(fresh)
  /\ heard' = {c \in Cluster : "active" \in fresh[c]}
  /\ UNCHANGED <<requestVars, storeVars, asked, answer, failed, fine, holes, replyVars>>

Ask(q) == /\ stage \in {"property", "body"} /\ q \in Queries \ asked
          /\ asked' = asked \cup {q}

\* The queries that must return something for the one cluster that is asked for:
\* those of its property, of the property that its active time is taken from, and
\* those of its history, each of which is to be one series.
Required ==
  IF ForAll THEN {}
  ELSE IF stage = "property" THEN PropertyQueries
  ELSE IF form = "clusterCosts" THEN {"monthTime", "monthActivity"}
  ELSE IF form = "details" THEN DetailQueries ELSE {}

\* A query returns the samples S; nothing is an error if something is required.
Returns(q, S) ==
  /\ Ask(q) /\ ~TooManyPoints
  /\ answer' = answer \cup {<<q, s>> : s \in S}
  /\ IF S = {} /\ q \in Required THEN failed' = TRUE /\ UNCHANGED fine
                                 ELSE fine' = TRUE /\ UNCHANGED failed
  /\ UNCHANGED <<requestVars, storeVars, stage, steady, heard, replyVars>>

Evaluate(q) == Returns(q, Sees(q)) /\ UNCHANGED holes

\* A body that cannot be decoded is no data and no error.
Garble(q) == holes < MaxHoles /\ Returns(q, {}) /\ holes' = holes + 1

\* The backend fails, or refuses a query for too many points.
QueryFails(q) ==
  /\ Ask(q) /\ failed' = TRUE
  /\ IF TooManyPoints THEN UNCHANGED holes
     ELSE holes < MaxHoles /\ holes' = holes + 1
  /\ UNCHANGED <<requestVars, storeVars, stage, answer, fine, steady, heard, replyVars>>

Joined == stage \in {"property", "body"} /\ Queries \subseteq asked

Returned(q) == {a[2] : a \in {b \in answer : b[1] = q}}

Missing == {q \in Required : Returned(q) = {}}

\* Mutant: the aggregate of no errors is taken for an error.
JoinFails_Always == TRUE

JoinFails == failed

\* The queries went through a fan-out, where one that returned no error may hide
\* the errors of the others.
MayLose == fine /\ (form # "details" \/ stage = "body")

\* The status of a failure: a cluster's costs are "not found" whatever the error.
Status(st) == IF st = "property" /\ form = "clusterCosts" THEN "notFound" ELSE "error"

Fail ==
  /\ Joined /\ JoinFails
  /\ stage' = "done" /\ reply' = Status(stage)
  /\ UNCHANGED <<requestVars, storeVars, asked, answer, failed, fine, holes, steady, heard,
                 items, described, fields>>

\* The first elements of the answers are read; that of an empty one is not there.
\* The handler's goroutine recovers from the panic, the one that asks for the
\* active time of the month does not.
Reads == IF form \in {"clusterCosts", "clusterResources"} THEN Missing ELSE {}

IndexPanic ==
  /\ Joined /\ MayLose /\ Reads # {}
  /\ stage' = "done" /\ reply' = IF stage = "body" THEN "crash" ELSE "panic"
  /\ UNCHANGED <<requestVars, storeVars, asked, answer, failed, fine, holes, steady, heard,
                 items, described, fields>>

GoesOn == Joined /\ (JoinFails => MayLose /\ Reads = {})

PropertyKnown ==
  /\ GoesOn /\ stage = "property"
  /\ stage' = "body" /\ failed' = FALSE /\ fine' = FALSE
  /\ UNCHANGED <<requestVars, storeVars, asked, answer, holes, steady, heard, replyVars>>

-----------------------------------------------------------------------------
(* The response *)

ClustersOf(q) == {s[2] : s \in Returned(q)}

\* Mutant: the search for the other answer ends after the first cluster.
Described_FirstOnly ==
  LET both == ClustersOf("activeTime") \cap ClustersOf("activity")
  IN  IF both = {} THEN {} ELSE {CHOOSE c \in both : TRUE}

\* The clusters that have a property: both answers name them.
Described == ClustersOf("activeTime") \cap ClustersOf("activity")

\* The clusters whose costs are listed, by the property of the month.
Costed == ClustersOf("monthTime") \cap ClustersOf("monthActivity")

\* Mutant: the samples of clusters that are not listed are kept.
Of_Everyone(S, C) == S

BodySamples == UNION {Returned(q) : q \in BodyQueries}
Of(S, C) == {s \in S : s[2] \in C}

\* A cost per core of a cluster without cores is no number, and has no JSON.
Unencodable(C) == \E c \in C : c \notin ClustersOf("cpuCount")

Respond(how, C, D, S) ==
  /\ stage' = "done" /\ reply' = how
  /\ items' = C /\ described' = D /\ fields' = S
  /\ UNCHANGED <<requestVars, storeVars, asked, answer, failed, fine, holes, steady, heard>>

Nothing(how) == Respond(how, {}, {}, {})

\* Every cluster with costs gets its property, through a pointer that is nil if
\* the first answer did not have the cluster.
CostsList ==
  /\ form = "costs"
  /\ IF ~(Costed \subseteq Described) THEN Nothing("panic")
     ELSE IF Unencodable(Costed) THEN Nothing("error")
     ELSE Respond("data", Costed, Costed, Of(BodySamples, Costed))

ClusterCosts ==
  /\ form = "clusterCosts"
  /\ IF Unencodable({target}) THEN Nothing("error")
     ELSE Respond("data", {target}, {target}, BodySamples)

\* Mutant: the nodes, whose records replace what there is, are merged last.
Merged_NodesLast(S) ==
  {s \in S : s[1] = "nodeCost" \/ <<"nodeCost", s[2]>> \notin S}

\* The nodes come first and make the records, the others add to them.
Merged(S) == S

\* The number of pods is overwritten by that of the other schedule status: which
\* of the two is kept is left to the order of the answer.
Overwritten(S, L) ==
  /\ L \subseteq S
  /\ \A c \in Cluster : LET both == PodStatuses \X {c}
                      IN  Cardinality(L \cap both) = IF both \subseteq S THEN 1 ELSE 0

\* A cluster that the first answer did not have is listed without its property.
ResourcesList ==
  /\ form = "resources"
  /\ LET C == {s[2] : s \in BodySamples}
     IN \E lost \in SUBSET (PodStatuses \X C) :
          /\ Overwritten(BodySamples, lost)
          /\ Respond("data", C, C \cap Described, Merged(BodySamples \ lost))

ClusterResources ==
  /\ form = "clusterResources"
  /\ Respond("data", {target}, {target}, BodySamples)

\* The step within the limit is what the range queries are for.
Details ==
  /\ form = "details"
  /\ Respond("data", {target}, {target}, BodySamples)

Convert ==
  /\ GoesOn /\ stage = "body"
  /\ CostsList \/ ClusterCosts \/ ResourcesList \/ ClusterResources \/ Details

Next ==
  \/ \E c \in Cluster, r \in Reports : Report(c, r)
  \/ \E c \in Cluster : FallSilent(c)
  \/ NewMonth
  \/ Request
  \/ \E q \in Queries : Evaluate(q) \/ Garble(q) \/ QueryFails(q)
  \/ Fail \/ IndexPanic \/ PropertyKnown \/ Convert

Spec == Init /\ [][Next]_vars

-----------------------------------------------------------------------------
(* Properties *)

\* The clusters a request depends on.
Concerned == IF ForAll THEN Cluster ELSE {target}

SteadyActive(c) == <<"active", c>> \in steady

\* A request is answered with data if its queries are and every cluster it
\* depends on reports all metrics all along, or never has: the two rounds of
\* queries may then fall anywhere among the agents' reports.
SteadyIsAnswered ==
  /\ holes = 0
  /\ form = "details" => span \div StepOf(span) <= Limit
  /\ \A c \in Concerned :
       (\A m \in Metrics : <<m, c>> \in steady) \/ (ForAll /\ ever[c] = {})
  => reply \in {"none", "data"}

\* What was reported all along is in the response, under the cluster that
\* reported it; only one of the two schedule statuses of a cluster's pods may be
\* missing where all clusters are listed (cluster_metrics.go:597).
BodyMetrics == UNION {MetricsOf(q) : q \in BodyQueries}

SteadyIsListed ==
  reply = "data" /\ holes = 0 =>
    \A s \in steady :
      s[1] \in BodyMetrics /\ s[2] \in Concerned /\ SteadyActive(s[2]) =>
        /\ s[2] \in described
        /\ \/ s \in fields
           \/ /\ form = "resources" /\ s[1] \in PodStatuses
              /\ \E p \in PodStatuses : <<p, s[2]>> \in fields

\* A panic needs a query without its answer, or a cluster that was silent for some
\* of the request; the summaries of all resources and the histories never panic,
\* and only the costs of one cluster end the process.
PanicIsExplained ==
  /\ reply \in {"panic", "crash"} =>
       /\ form \notin {"resources", "details"}
       /\ holes > 0 \/ \E c \in Concerned : "active" \in ever[c] /\ ~SteadyActive(c)
  /\ reply = "crash" => form = "clusterCosts"

\* A summary describes no cluster that was silent throughout the request: its
\* property, which says "running", needs an answer to an instant query.
DescribedIsHeard == form # "details" => described \subseteq heard

\* utils.go:126: "The max point number is 11000, or the query will fail".
StepWithinLimit == ~TooManyPoints
=============================================================================

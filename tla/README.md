# A verification development for KubeFin

KubeFin measures what Kubernetes clusters cost. A **kubefin-agent** in every
cluster turns the cluster's objects into Prometheus metrics; a
**kubefin-cost-analyzer** answers requests about costs out of Prometheus
queries. This directory holds TLA+ modules that model parts of the two programs,
the configurations under which TLC checks them, and theorems about them that
TLAPS proves. `PROJECT.json` relates every definition to the lines it models,
and lists the runs, their mutants, the findings, the hazards and the theorems.

    tlc -workers 2 -config NodeMetricsLedger.cfg MCNodeMetrics.tla
    tlapm NodeMetricsProofs.tla

## 1. Inventory

| Component (source) | State | Operations | What is hard | What makes it correct |
|---|---|---|---|---|
| Node collector (`pkg/agent/metrics/core/node_metrics.go`) | `nodeResource`: per node the allocatable and requested quantities; `mutex` | node and pod event handlers, `Collect` | two listener goroutines and scrapes share one map; one handler takes no lock; notifications of pods and nodes are not ordered; relists | requested quantity = requests of the pods on the node, at every instant and after every history |
| Usage cache (`metrics/cache/usage_cache.go`) | last node usage, last pod usage, two RW locks | ticker, queries | the parts are refreshed separately, an error keeps the old one | a scrape reports samples of one period, of pods that exist |
| Pod, workload, cluster collectors (`metrics/core`) | none but the mapper of the workload collector | `Collect`, mapper refresh | cache and listers are at different times; one bad object ends a loop; the mapper's ticker | every existing pod and workload is reported, once |
| Price providers (`cloudprice`) | ACK: specifications and prices per node type, one lock | `GetNodeHourlyPrice` | HTTP under a lock, without timeout; cache replaced on errors | a known price survives the failure of another query |
| Agent lifecycle (`cmd/kubefin-agent/app`) | lease, server, informers | start, lead, stop | leadership lost during start, shutdown against `klog.Fatalf` | at most one replica serves, a stopped one does not come back half alive |
| Lua scripts, helpers (`agent/reference`, `agent/utils`) | none | pure functions, a script with a deadline | user code | - |
| Query fan-out (`pkg/analyzer/server/implementation`) | `err`, `errs`, a WaitGroup per request | one goroutine per query | unsynchronised shared variables | a failed query fails the request, nothing else does, and every request is answered |
| Merging (`implementation`, the `parse...` functions) | maps by namespace or workload and timestamp | merge of four to seven answers | answers that disagree on keys, nil maps, division by zero | every sample lands in the record of its key and time |
| Query client, windows, handlers (`query`, `utils`, `router`, `*_handler`) | none | HTTP exchange, time ranges and steps | errors swallowed when decoding, limits of the backend | a step within the limit of the backend |

Interactions. Inside the agent the client-go informers (external) call the node
collector's handlers; Prometheus calls `Collect` of all collectors, in parallel;
the collectors call the price provider and read the usage cache and the listers.
Inside the analyzer a handler calls one `Query...` function, which starts the
goroutines of the fan-out, each of which uses the query client, and merges what
they return. Agent and analyzer meet only in the metrics store.

`PROJECT.json` lists every component with its status, and the hazards line by line.

## 2. Plan

In the order of importance; done but for point 8.

1. `NodeMetrics` - the ledger of requested resources, its abstract specification
   `PodLedger`, the refinement, the proofs. *(done)*
2. `QueryFanout` - the shared error of the analyzer's goroutines, the proofs.
   *(done for the common form; what a lost error leads to in the form of
   `QueryClusterBasicProperty` is in `ClusterSummary`)*
3. `CostMerge` - the tables that the answers of one request are merged into,
   the proofs. *(done)*
4. `AgentElection` - two replicas, lease, server, shutdown and fatal exits, with
   clocks, the proofs. *(done)*
5. `ClusterSummary` - the summaries and histories of clusters, which relate
   answers queried one after the other, and the step of a range query, the
   proofs. *(done)*
6. `AgentScrape` - usage cache, mapper, listers and collectors at different
   times, the proofs. *(done)*
7. `AckPrice` - the cache of specifications and prices under failing queries, its
   abstract specification `PriceHistory`, the refinement, the proofs. *(done)*
8. The nested fan-out of the workload costs (`workload_cost.go`), a fan-out whose
   goroutines each hold one.
9. Further proofs: `DriftIsBounded` for every number of relists, the safety of
   `AgentScrape`. *(done)*

## 3. The node collector

### NodeMetrics

A requested quantity is kept as a formal sum: a *claim* is the request of one
container for one resource, and `ledger[n][c]` counts how often claim `c` is in
the quantity of node `n`. Adding and subtracting `resource.Quantity` values is
exact, so this loses nothing, and it tells apart what sums would confuse. A
negative count is possible, as a negative quantity is.

| Code | Model |
|---|---|
| `nodeResource` (its keys; `allocatableResource`; the keys and values of `requestedResource`) | `known`, `allocatable`, `keys`, `ledger` |
| `mutex` | `mutex`: free, held by the node listener, or by a scrape; a pod handler that holds it is one action, for nothing it does under the lock is visible to a process that respects the lock |
| `handleNodeAddition` | `NodeAdditionKnown`, or `NodeAdditionLock` then `NodeAdditionInsert`: the lookup at line 137 is outside the lock, and the unlocked pod handler may run in between |
| `handleNodeDeletion`, with its inverted guard | `HandleNodeDeletion`, `DeletedEntry` |
| `handlePodAddition`, `handlePodUpdate`, `handlePodDeletion`, `DeleteFunc` | `HandlePodAddition`, `HandlePodUpdate`, `HandlePodDeletion`, `DropTombstone` |
| `deletePodResourceRequested` without the lock (line 209) | `ShedClaim`, one action per turn of the loop, in any order: the requests are a map |
| `Collect` | `ScrapeList`, `ScrapeNode`, `ScrapeLock`, `ScrapeSend`: one lock section per resource |
| concurrent map access | `MapRace`: the runtime may end the process |
| write to a nil map | `status = "panic"` |
| informers (client-go, external) | `PodWatch`, `PodRelist`, `NodeWatch`: an indexer and a queue per listener; a watch event is a legal step of a pod's life, a relist compares with the indexer by name |
| restart of the container (external) | `Restart`: everything empty, then listed anew |

`told` is a history variable: the state of each pod in the last notification
that was run. `WatchSpec` has no relists, `Spec` has up to `MaxRelists`.

Left out: `collectNodeCost` and `collectNodeResourceUsage`, which read and change
nothing of the ledger (they are in `AgentScrape`), and what the samples say. In the code the HTTP server
starts after the caches have synced; in the model a scrape may come at any time,
which allows more behaviours, not fewer. Both listeners run from the start, as
in the code: a synced cache says nothing of the handlers.

### PodLedger

What the node collector promises: a claim is charged together with all claims
of its pod or not at all (`Charge`), to one node, and released once (`Release`,
claim by claim, because the unlocked loop is seen half way), until the ledger
starts anew (`Clear`). `LedgerSpec` in `NodeMetrics` instantiates it with
`charge <- ledger`.

### Runs

| Run | Instance | Checks |
|---|---|---|
| `node_ledger` | 2 nodes (symmetric), 2 pods, 4 claims (two containers asking for the same resource, and a second resource), 1 scrape, queues of 1; 1.1 million states | `TypeOK`, `LedgerExact`, `LedgerSpec` |
| `node_live` | 1 node, 1 pod, 2 scrapes, queues of 2 | `LedgerCatchesUp` |
| `node_relist` | 2 nodes, 1 pod, 2 relists; 0.7 million states | `DriftIsBounded` |
| `node_unknown` | 1 node, 1 pod | `UnknownNodeIsAWarning` is violated |

Why these bounds. A claim never depends on the claims of other pods but through
the keys, the entry of the node and the lock, so two pods and two nodes show
every interference; two containers with one resource in common are what makes
the loop of a pod subtract twice from one quantity. The listeners handle one
notification at a time, so a longer queue only delays; the liveness run, where
delay matters, has queues of 2. The passing runs fire all actions between them,
the panic, the race and the restart included.

Findings. A pod notification handled before the one of its node ends the agent
(`node_unknown`), although the code warns and means to go on.

Also seen in the model. A relist may leave the requested quantity wrong for good:
a pod deleted and created again under its name during a broken watch is an update
to the informer, whose old and new object the handler takes for one pod;
`DriftIsBounded` says how wrong: one charge per relist, until the next restart. A
node keeps the allocatable resources of its first registration, because no
`UpdateFunc` is set for nodes and a deletion, whose guard at line 152 is inverted,
keeps the entry. On the other hand the inverted guard protects `LedgerExact`: the
mutant that corrects it alone violates the property, because the requests of pods
that are still bound are zeroed when the node returns.

Fairness. `LedgerCatchesUp` assumes strong fairness of the two listeners and
weak fairness of releasing the lock (`ScrapeSend`). The lock is free again and
again while scrapes compete for it, so weak fairness would let a listener
starve. Go's `sync.Mutex` enters its starvation mode after a waiter has waited
for a millisecond and then hands the lock over in order, which is strong
fairness. Nothing is assumed of informers, of scrapes starting, or of restarts.

### Proofs (`NodeMetricsProofs`, `NodeDriftProofs`)

For any sets of nodes, pods, resources, claims, sizes and scrapers and any
bounds, from the named assumptions of `NodeMetrics` only:

- `TypeCorrect`: `Spec => []TypeOK`.
- `LedgerAlwaysExact`: `WatchSpec => []LedgerExact`.
- `LedgerImplemented`: `WatchSpec => LedgerSpec`.
- `DriftAlwaysBounded`: `Spec => []DriftIsBounded`.
- `AlwaysCountedOnce`: `LedgerSpec => []Ledger!CountedOnce`, so `PodLedger` never
  counts a claim on two nodes, or twice; and with the refinement
  `CollectorCountsOnce`: `WatchSpec => []Ledger!CountedOnce`.

`LedgerExact` is not inductive: a deletion notification of a pod that is not in
the ledger would break it. `IInv` adds what rules that out:

- `NodeLockInv`: when the node listener holds the lock, the head of its queue is
  the addition of an unknown node;
- `ChainInv`: the pending notifications of a pod form a chain from `told` to
  `podStore`, so `old` in a notification is what the handlers were told last
  (`LinksInv`), and each is what one watch event says (`Legal`);
- `ShedInv`: what the unlocked loop has left belongs to one pod, which has
  finished on the loop's node;
- `KeysInv`: a claim that is counted has its node's entry and its resource's
  key, so no subtraction is skipped;
- `LedgerInv`: `LedgerExact` itself.

The proof has one step per action and below it one per conjunct the action
disturbs. The refinement is proved from the same invariant: the steps of the pod
listener map to `Charge` and `Release`, the restart to `Clear`, all others to a
stutter.

`Legal` is where the proof needs an unbroken watch: a relist's update need not be
a legal step of a pod's life. `LinksInv` holds with relists too, and with it
`DriftInv`, the invariant behind `DriftAlwaysBounded`, which keeps `ShedInv` and
puts in the place of `KeysInv` and `LedgerExact`:

- `QueueInv`: a waiting notification is legal, or it is an update or a tombstone;
- `ZeroInv`: what has no entry or no key, so that it cannot be subtracted from,
  is zero: a skipped subtraction corrects an error and never makes one;
- `BudgetInv`: there is a bound of the error before each waiting notification
  is handled, which grows by one over a notification that is not legal, by none
  over a legal one, and never exceeds `relists`. A relist pays when it queues its
  notification; the handlers only spend what was paid.

## 4. The fan-out of the cost analyzer

### QueryFanout

One request. Each goroutine runs `Return` (the query returns and assigns the
shared `err`), `AppendRead`, `AppendArgument` and `AppendStore` (the append reads
the slice, loads `err` and stores the slice; then `wg.Done`). `Answer` is what
follows `wg.Wait`. The accesses are a data race, whose outcomes the model leaves
open: a store that another append overlaps undoes that append, or leaves the
three words of the slice out of step (`torn`), after which data, an error and a
panic are all possible. `raced` is a history variable: two goroutines were
between the return of their query and `wg.Done` at one time.

A query that succeeds is one whose client returned no error; that the client
does so for a body it could not decode is a hazard of its own.

| Run | Instance | Checks |
|---|---|---|
| `fanout` | 4 queries, as in `QueryAllClustersCurrentMonthCost`; 0.6 million states | `TypeOK`, `NoFalseAlarm`, `LostOnlyInARace`, `Answered` |
| `fanout_lost` | 2 queries | `FailureIsReported` is violated, with no torn slice |

Three overlapping appends are needed for a store to undo two others; four is the
number most of the code's fan-outs have. The request ends, so these runs do not
check deadlock; `Answered` says it ends with an answer.

Fairness: weak fairness of every goroutine and of the answer. Go's scheduler is
preemptive, and the HTTP client of the queries gives up after 30 seconds
(`InitPromQueryClient`), so a query returns.

### Proofs (`QueryFanoutProofs`)

For any finite number of queries: `FanoutTypeCorrect`, `NeverAFalseAlarm`
(`Spec => []NoFalseAlarm`) and `OnlyARaceLoses` (`Spec => []LostOnlyInARace`). The
invariant `Inv` adds to the types that a result is set once (`ResultInv`), that
every error in `err`, `errs` or a goroutine's copies comes from a failed query
(`BlameInv`), and that without a race at most one goroutine reports at a time,
finds `err` and `errs` as it left them, and leaves its failure in `errs`
(`RaceFreeInv`).

## 5. The merging of answers

### CostMerge

One request for a table of costs, while the agents' reports keep coming in. A
sample `<<f, k, t>>` stands for a value of field `f` for key `k` at timestamp
`t`; the value itself, and how it is scaled, is left out, for the question is
which record it comes to stand in. `form` selects one of the four tables, which
share the steps and differ in the order of the answers, in which query answers
which fields, and in what happens to a key that the costs do not have.

| Code | Model |
|---|---|
| the metrics store and what agents report (external; `pod_metrics.go:80`, `:101`) | `stored`, `Scrape`: one report of a name has several fields |
| a `query...` function, `QueryRangeWithStep` | `Query`: evaluated at a time of its own; fails; or returns nothing for a body that cannot be decoded |
| the check after `wg.Wait` | `Fail`, or going on although a query failed, which `QueryFanout` shows to be possible |
| the calls of the `parse...` functions, in order | `stage`, `NextAnswer`, and the sequences of `Stages` |
| the outer loop of a `parse...` function, over a Go map | `todo`, `MergeKey`, in any order |
| `parse...TotalCost`: a new map for the key | `MergeCost`, `Replaced` |
| the other `parse...` functions | `Merge`, `FillRecords`; `Writes` is whether the map variable they write is the one they created |
| `convert...ToList` | `Convert` |

The inner loop, over the timestamps of one key, is one action: nothing happens
between its turns that another part of the program sees.

| Run | Instance | Checks |
|---|---|---|
| `cost_merge` | 2 names, 2 timestamps, 2 reports taken in, each with all fields, without requests of memory, or without any; 2.9 million states | `TypeOK`, `Merged`, `NothingLost`, `PanicIsAGap` |

A key meets only its own records and its own map, so two keys suffice for what
the order of keys can do; two timestamps are needed for a later answer to have a
record that the costs do not have, and two reports for answers that differ in
more than one way. A request ends, so the run does not check deadlock. No
liveness is stated: a loop over a finite map ends.

The functions of `namespace_cost.go` create the map of a namespace that the costs
do not have, but write to the nil map they looked up before (lines 100-106; the
functions for pods and workloads do it right). `PanicIsAGap` says that a request
panics exactly if an answer names a namespace that the costs do not: no query has
to fail for that, a report that arrives between two queries is enough.

### Proofs (`CostMergeProofs`)

For any names, timestamps, reports and bound: `MergeTypeCorrect`, `MergeIsExact`
(`Spec => []Merged`), `NothingIsLost` (`Spec => []NothingLost`) and
`PanicExactlyInAGap` (`Spec => []PanicIsAGap`). `Merged` speaks of the end of a
request only; the invariant says what the table is at every step. With `Out`, the
samples merged so far, `TableInv` says that keys, records and fields are those of
`Out`; `QueryInv` relates answers to the queries evaluated and lets merging start
after the last; `GapInv` says that a namespace in the table has costs; `StoreInv`
says that what was stored when the request came is in every answer evaluated.
The step that needs an argument is `MergeCost`, which drops the records of a key:
`CostFirst` shows that there are none, because the costs are first in `Stages`.

## 6. The replicas of the agent

### AgentElection

The charts deploy two replicas, each a pod with a collector sidecar of its own
that scrapes the agent next to it. Two replicas that serve at once report every
node and pod twice, so what the election is for is that one serves and, as far
as the durations allow, no two.

| Code | Model |
|---|---|
| `NewLeaderElector` and `Run` of client-go with `LeaseDuration` 15 s, `RenewDeadline` 10 s, `RetryPeriod` 5 s (`agent.go:182-206`; the elector of client-go and the API server are external) | `GetLease`, `GetFails`, `ApplyUpdate`, `UpdateFails`, `UpdateSucceeds`, `BeginRound`, `GiveUp`; `holder`, `elector`, `timer`, `due`, `call`, `lag`, `seen`, `seenAge` |
| the identity of a replica, its pod's IP | `Restart`: the container comes back as the holder it was, or, in a new pod, the lease names a holder that is `Gone` |
| `runFunc`: price provider, collectors, caches, `ListenAndServe` | `BuildCollectors`, `Listen` |
| `stopFun`, the end of `main`, `klog.Fatalf` | `Shutdown`, `Exit`, `Ends` |
| SIGTERM, crashes, a broken connection (external) | `Terminate`, `Crash`, `Disconnect`, `Reconnect` |

Time is discrete; no two processes share a clock, each measures ages. Time does
not pass while a process is to act (`Urgent`), and a response takes at most
`MaxLag`.

| Run | Instance | Checks |
|---|---|---|
| `election` | 2 replicas, a unit of 2.5 s: lease 6, deadline 4, retry 2, polls of at most 4, responses within 1; 3 faults; 444 000 states | `TypeOK`, `OverlapIsBounded`, `LostMeansGone`, `ServedForGood` |

Two replicas are what the charts deploy. Three faults let the leader lose its
connection while the other crashes or is terminated and comes back. The unit
divides all durations of the code; the longest poll is that of client-go's jitter
rounded down.

What it shows. `RetryPeriod` and `RenewDeadline` add up to `LeaseDuration`: a
leader may begin its last round `RetryPeriod` after its last success and give up
`RenewDeadline` later, which is when its lease expires *if the response to its
last update took no time*. So two replicas may serve at once for as long as that
response took, and no longer (`OverlapIsBounded`). The informers run on the
context of the process and not on that of the leadership, so a replica that loses
the lease while its caches sync goes on to `ListenAndServe`; the server was shut
down, the call returns at once, and its return ends the process
(`LostMeansGone`). The same `klog.Fatalf` ends the process as soon as `Shutdown`
closes the listener, so the minute of grace that `stopFun` allows is never used.

Fairness: time passes, processes run, requests are answered, a broken connection
comes back, the kubelet restarts a container. `ServedForGood` needs a response
time of less than half of what `LeaseDuration` exceeds `RetryPeriod` by.

### Proofs (`AgentElectionProofs`)

For any finite number of replicas and any durations with `ShortLag` (a response
is faster than a lease expires, and a leader that lost its lease has given up
before the next one expires; both hold of the code's values for responses of less
than 15 seconds): `ElectionTypeCorrect`, `OverlapAlwaysBounded`
(`Spec => []OverlapIsBounded`) and `LostIsGone` (`Spec => LostMeansGone`). The
durations are constants, and the argument is one about ages:

- `ProcessInv`, `TimerInv`: where a process can be, how far its timers run;
- `CallInv`: an update on its way finds the record free, or is not applied; one
  that was applied is still the record;
- `LeaderInv`: what a leader's lease is known for to others is at most as old as
  the leader's last success (`Since`) and a response; a leader whose lease was
  taken has outlived it, and the new record is as new as that;
- `StaleInv`: only one leader at a time has lost its lease;
- `OverlapInv`: `overlap` is at most the time by which that leader has outlived it.

The key lemma is `TakenFrom`: a lease is taken from a leader only when it has
outlived it.

## 7. The summaries of clusters

### ClusterSummary

A request for a summary first asks who the clusters are and when they were
active, then for their data, and joins the two by cluster, while agents report,
fall silent and come back. `form` selects the costs of the month of all clusters
or of one, the resources of all or of one, or the history of one. A sample
`<<m, c>>` says that metric `m` of cluster `c` is there. What a query sees is what
its window covers: two months (`ever`), this month (`month`), or the lookback of
an instant query (`fresh`).

| Code | Model |
|---|---|
| agents and the metrics store (external; mimir's lookback of three minutes, `config_template/third_party/mimir_config.yaml:54`) | `Report`, `FallSilent`, `NewMonth` |
| `QueryClusterBasicProperty`, `QueryClusterActiveTime`, the handlers' first calls | `Request`, stage `property`, `PropertyQueries`, `PropertyKnown` |
| the goroutines of a request, the `query...` functions | `Evaluate`, `Garble` (a body that cannot be decoded is no data), `QueryFails`; `MetricsOf`, `Window` |
| `errs` after `wg.Wait`, which `QueryFanout` shows to lose errors | `Fail`, or `GoesOn` if `MayLose` |
| indexing the first series of an answer (`cluster_metrics.go:283`) | `IndexPanic`: a recovered panic of the handler, or the end of the analyzer where a goroutine asks (`cluster_cost.go:166`) |
| `parse...`, `convert...` and the joins by cluster | `Described`, `Costed`, `Merged`, `Overwritten`, `CostsList`, `ClusterCosts`, `ResourcesList`, `ClusterResources`, `Details` |
| `GetClusterDetailsStartEndStepTime` | `StepOf`, `TooManyPoints` |

| Run | Instance | Checks |
|---|---|---|
| `summary` | 2 clusters (symmetric), 2 quantities, 3 kinds of reports, 3 events, 1 query that goes wrong; 1.5 million states | `TypeOK`, `SteadyIsAnswered`, `SteadyIsListed`, `PanicIsExplained`, `DescribedIsHeard` |
| `details_step` | the same, with histories of 165 000 and 170 000 s | `StepWithinLimit` is violated |

Clusters meet only in the loop that finds a property and in the encoding of the
whole answer, so two suffice; an event is needed for a cluster to be known, a
second for it to fall silent, a third for another to come between the rounds. A
request ends, so the runs do not check deadlock.

`Merged` is the identity because of the order in which the code merges: the nodes,
whose loop replaces the record of a cluster, come first, and the loops after them
add to it; a mutant has the nodes come last.

Findings. The comment says "The max point number is 11000, or the query will fail"
(`utils.go:126`), and the next line computes a step to respect it; the step is
rounded down before it is made a multiple of the period, so a history of 165 015
to 175 999 seconds (46 to 49 hours) keeps a step of 15 seconds and has more than
11 000 points, as have histories just above every further multiple of 165 000
seconds (`details_step`).

The comment of `queryAllClustersPodsNumber` says that it "maps [cluster
id][schedule status]count" (`cluster_metrics.go:587`). Each sample replaces the map
of its cluster (`cluster_metrics.go:597`), so that of the scheduled and the
unscheduled pods of a cluster only one number is kept, where all clusters are
listed. No run is about this; it is the exception in `SteadyIsListed`.

Also seen in the model.

- An instant query returns the time of its evaluation and looks back no further
  than the three minutes after which a cluster counts as lost: a cluster is
  running or is not listed at all, and "connect_failed" is never reported.
- The costs of all clusters take the property of each through a pointer
  (`cluster_metrics.go:337`) which is nil if the cluster is in the second answer
  and not in the first: a cluster that starts to report between the two is enough
  for a panic. The resources of all clusters check, and list it without property.
- A cluster without samples of its cores in this month makes the cost per core no
  number, which JSON cannot say: the costs of *all* clusters are then an error.
- The costs of a cluster answer "not found" to every failure of the first round.

### Proofs (`ClusterSummaryProofs`)

For any clusters, quantities, reports, spans and bounds, `Spec => []P` for
`TypeOK` and the four properties: `SummaryTypeCorrect`, `SteadyAnswered`,
`SteadyListed`, `PanicExplained`, `DescribedHeard`. The properties speak of the
response; the invariant is about the request under way:

- `StoreInv`: the windows contain each other, and what was reported all along is
  in the smallest;
- `StageInv`: the order of the rounds;
- `AnswerInv`: an answer is about its query, was reported, and, for an instant
  query, by a cluster that was heard since the request came;
- `CompleteInv`: if nothing went wrong, every query evaluated has what was
  reported all along - whenever it was evaluated;
- `FailedInv`, `KnownInv`: why a request that nothing went wrong for fails, and
  what is known of the one cluster that was asked for.

The steps that end a request then follow by cases of its form (`RespondInv`).
`SteadyAnswered` is the contrapositive in each: an answer that is missing is one
of a cluster that was silent.

## 8. A scrape of the agent

### AgentScrape

A scrape runs all collectors in parallel while the informers follow the cluster
and a ticker refreshes the usage cache, first the nodes, then the pods. The
collectors write nothing another one reads, so a behaviour follows one of them
(`collector`) and, beside it, the collector of the cluster's state, which can end
the process; the interleavings of the others are those of their runs apart. What
they do share is the registry, which gathers the samples of all of them and
refuses the whole answer, with a status of 500, if two have the same labels
(`promhttp.Handler()`, `agent.go:155`). Only samples of workloads can be twice
there: `clash` says so if they are followed, and if they are not, `Answer` may
refuse whenever the configurations make it possible (`Refused`, `Clashing`).
`snap` is what the cache returned to the followed collector.

A list of a scrape (`Lists`) is that of a builtin kind, whose workloads get the
kind for a name, or of an entry of the configurations, whose workloads get its
alias (`NameIn`). A workload may be served in several kinds, where a kind stands
for a kind in one API version (`KindsOf`), and an entry may be about a builtin
one: neither the target nor the alias of an entry is restricted by its schema.
Samples of workloads are compared as the registry compares them, by the name they
got and by the name, namespace and labels of the object (`LabelsOf`,
`workload_metrics.go:345-352`); that these identify an object among those of one
kind is `NamesAssumption`.

| Code | Model |
|---|---|
| informers and listers (external) | `there`, `listed`, `Change`, `Inform` |
| `ClusterResourceUsageCache`, its ticker | `cached`, `tick`, `CollectNodeMetrics`, `CollectPodMetrics`; an error keeps the old part |
| the resource mapper of the workload collector | `kinds`, `mapper`: filled at the start and, because `defer ticker.Stop()` runs when `refreshResourceMapper` returns (`workload_metrics.go:451`), never again |
| `clusterLevelMetricsCollector` | `ClusterState`: `nodes[0]` |
| `collectNodeCost`, `collectNodeResourceUsage` | `ListNodes`, `NodeCost`, `QueryAllNodesUsage`, `NodeUsage` |
| `podLevelMetricsCollector` | `ListPods`, `PodCost`, `QueryAllPodsUsage`, `PodUsage`, in which a forgotten pod ends the loop (`pod_metrics.go:150`) |
| `workloadLevelMetricsCollector` | `BuiltinWorkload`, `NextKind`, `CustomTarget`, `CustomWorkload`, `ScriptFails`, `WorkloadUsage`; `BadSelector` ends the loop over a builtin kind (`workload_metrics.go:131`) |
| the registry (external) | `Gather`, `Answer`: two workloads of the same labels under one name refuse the scrape |
| calls for a price, a list, a script | `Call(ok)` |

| Run | Instance | Checks |
|---|---|---|
| `scrape` | 2 pods in two namespaces on 2 nodes; a deployment that selects the pod of the other namespace and a workload of a custom kind that selects both, of the same name and labels; two entries for the custom kind, one with an alias of its own and one with the deployments' name; 2 changes or restarts, 1 failing call; any of the entries configured, the custom kind served or not; 0.9 million states | `TypeOK`, `SteadyIsReported`, `OnlyListedIsReported`, `ClashesAreRefused`, `UsageComesBack` |

An object is disturbed only by another of the same loop, so two of each are
enough; a change and the restart or a second change cover a pod that is deleted
while its usage is cached and one that comes back. Two lists clash or not whatever
the other lists are: of the four sets of entries two have a clash, of a builtin
kind with a custom one, and two have none. The other reasons for a clash - one
alias for two versions of a kind, for two custom kinds, for one kind twice, or an
entry about a builtin kind - differ only in the constants, and
`ClashesAlwaysRefused` is for all of them. `kinds` matters to the workload
collector alone, so the behaviours of the other two start with all kinds. Deadlock
is checked: the agent can always be scraped again.

Not a finding of a run, but seen in the model: the comment says "The API resources
may change during the lifetime of the agent, so we need to refresh the resource
mapper periodically" (`workload_metrics.go:452`); the ticker for it is stopped by
the deferred call of the line above as soon as the goroutine that waits for it has
been started, so a kind that is installed later is not known until the agent
restarts. `mapper` changes in `Restart` only, and `SteadyIsReported` asks for the
kinds that it has.

What it shows, beside what `SteadyIsReported` names as exceptions: a deployment
is charged for the pods of other namespaces that its selector matches
(`workload_metrics.go:145`), while a custom workload is not; a pod whose node is
not listed, or has no price, costs 0 without a trace; a cluster without nodes ends
the agent. Entries that clash take the metrics of pods and nodes with those of the
workloads, for as long as they are configured: this is the premise of
`UsageComesBack`, which also asks for nodes, and `ClashesAreRefused` says that
there is no other reason for a refusal, and no way around it but a call that fails.

The agent may end for other reasons than those of a scrape, among them the panics
of the node collector's handlers (`NodeMetrics`). All of them are `Restart`, at any
time, within the bound on events, so `UsageComesBack` is about an agent that comes
to an end only finitely often; that it ends and starts again for good is not
excluded by anything in the code.

Fairness, of `UsageComesBack`: the informers, the ticker and the scrapes go on,
and a container that ended is started again. Nothing is assumed of the calls; that
they settle follows from the bound on failures, as the property's comment says.

Left out: containers, the requests of a workload, which are sums over the pods
that `count` counts, and changes of the workloads and of the configurations.

### Proofs (`AgentScrapeProofs`)

For any pods, nodes, workloads, selections, entries of the configurations and
bounds, from the named assumptions of `AgentScrape`: `ScrapeTypeCorrect`,
`SteadyAlwaysReported` (`Spec => []SteadyIsReported`), `OnlyListedAlwaysReported`
(`Spec => []OnlyListedIsReported`) and `ClashesAlwaysRefused`
(`Spec => []ClashesAreRefused`): a lower and an upper bound of what a scrape
reports, and when it is refused. The properties speak of the samples and of
the answer, the invariant `IInv` of every step towards them:

- `HistoryInv`: what was listed all along is listed, and what is listed was listed
  at times;
- `StageInv`, `LoopInv`: the stages of each collector, and what its loop has left;
  the entry whose workloads are in turn is one that is configured and taken;
- `ClashInv`: every sum comes from a turn of its workload (`Origin`), of a builtin
  kind or of an entry whose list it was in. So when a turn finds a sum of its own
  name, of a workload of the same labels, there are two lists that clash: it would
  otherwise be of the same list, hence by `NamesAssumption` of the same workload,
  which has one turn there;
- `RefuseInv`, for the converse: of the workloads that two lists had (`Had`), those
  of one name and the same labels were noticed. It needs `WorkloadInv`: what a list
  had is among the sums, for the turn of the second list to find (`HadReported`);
- `NodeInv`, `PodInv`: a node or pod listed all along is still to come or has its
  samples. That a pod is in `snap` and forgotten is the exception in the property,
  and `HistoryInv` says that it can come only of that;
- `WorkloadInv`: a workload that had its turn is `Reported`: its samples cover what
  was listed all along (`Covers`), or all but the usage do (`Pending`), which is
  the next step. `Covers` is stable under every step of the environment
  (`CoversKept`), for `steady` only shrinks and `seen` only grows;
- `ListedInv`: beside the samples, the loops over costs and the pods of the sums
  that wait for their usage are among what was listed. The loops over the cache
  are not, which is why the look at the lister in each of their turns is needed
  (a mutant drops that of the pods).

The steps outside of the followed collector share one lemma (`OutsideSteps`), and
each collector takes only its own steps (`OwnSteps`), so `NodeInv`, `PodInv` and
`WorkloadInv` are each disturbed by a handful of actions. The proof found an error of the
model: `NextKind` went from the stateful sets to the entries with the workloads of
a kind called "custom" in its loop, which no assumption made empty; the code has
no such loop, and `todo` is empty there now.

## 9. The prices of nodes

### AckPrice

The provider for Alibaba Cloud keeps specifications and prices by node type, and
fills them by two queries under one lock. A price is the number of the price list
it was quoted from, so that an old price is told from a new one.

| Code (`cloudprice/ack/provider.go`) | Model |
|---|---|
| `nodeSpecMap`, `nodeSpecLock` | `nodeSpecMap`, `isNil`, `lock` |
| `GetNodeHourlyPrice` up to the lock | `Ask`, `Lock` |
| a known type and price | `Hit` |
| the query for the specifications, whose answer replaces the cache | `SpecsReceived`, `SpecsFail`: a failed query returns a nil map; the status of a response is not looked at, so its body may be an empty map |
| the query for the price | `PriceReceived`, `PriceFails`; `PriceMissing`: no amount is a price of 0, no error |
| the cloud (external) | `NewList`, `ChangeOffer`, `Evaluate`: an answer may be old when it is received |

| Run | Instance | Checks |
|---|---|---|
| `price` | 2 callers, 2 types, 2 events, 1 fault; 144 000 states | `TypeOK`, `OnlyOwnFailures`, `PricesMoveForward`, `HistorySpec`, `CallsReturn` |

Two callers and types show one caller throwing away the price of the other's
type, which is what `OnlyOwnFailures` and `PricesMoveForward` are about. They hold
because a call keeps the lock from the look-up to the store. What the model shows
beside: a type that the cloud does not list replaces the cache at every scrape;
and only that ever refreshes a price, a known one is otherwise kept for good.

Fairness: strong of `Lock` (Go's mutex hands over in order after a millisecond of
waiting), weak of the steps of the caller that holds it. Whether the cloud answers
is not assumed, for the HTTP client has no timeout: `CallsReturn` is conditional on
`NoneHangs`, and one query that hangs blocks all callers.

### PriceHistory

The abstract specification: no lock, no cache, no queries. There is one history
of prices for each type, and a call is answered in one step, with the last price
of the history or with a later one, which becomes the last; or it fails, or finds
no price, and leaves the history alone. `HistorySpec` is its specification under
`latest <- list` (the cloud's lists), `price <- best` (the history variable of
`AckPrice`: the last list a price of the type was returned from) and `asks <-
Asks` (the type of a call under way). Only the return of a call is a step of it;
the look-up, the lock and the two queries are stutters. `nodeSpecMap` does not
appear: that it is replaced as a whole must not show.

### Proofs (`AckPriceProofs`)

For any callers, types and bounds: `PriceTypeCorrect` (with mutual exclusion),
`NobodyElsesFailure` (`Spec => []OnlyOwnFailures`) and `PricesNeverGoBack`
(`Spec => []PricesMoveForward`). `HolderInv` says what the holder of the lock knows
of the cache and that nobody else has a query under way, `AnswerInv` that an
answer is of a list not older than the caller's `floor`, `OrderInv` that a price in
the cache is the latest that was returned for its type - which makes a hit safe -
and `ListInv` that the lists are within their bound. All returns share the lemma
`ReturnInv`.

`HistoryImplemented` (`Spec => HistorySpec`) uses that invariant: initial states
map to initial states, and `HistorySteps` maps each action to a step or a stutter.
A return with a price is a `Quote` (`QuoteStep`), and it needs `OrderInv` for a
hit and `AnswerInv` for an answer of the cloud, which say that what is returned
is neither older than `best` nor newer than `list`; the others are a `Fail`
(`FailStep`), which needs that the type asked for is settled (`AsksSettled`).

## 10. What is only model-checked, and what is not modelled

Only checked by TLC: the liveness properties (`LedgerCatchesUp`, `Answered`,
`ServedForGood`, `UsageComesBack`, `CallsReturn`), since fairness and ENABLED are
out of the prover's reach; and the violations (`UnknownNodeIsAWarning`,
`FailureIsReported`, `StepWithinLimit`), which need an instance. Every
invariant, every safety property of an action and both refinements that a passing
run checks are also theorems.

Not modelled:

- the nested fan-out of the workload costs (see the plan);
- the price providers other than Alibaba Cloud's: a table, a file, or one query
  without state;
- the parsing of requests and time windows, but for the step of a history;
- conversions: quantities, units, labels, names of metrics, the Lua machine, whose
  scripts are calls that succeed or fail;
- the dashboard, charts, scripts and generated clients.

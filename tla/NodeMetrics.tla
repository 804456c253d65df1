---------------------------- MODULE NodeMetrics ----------------------------
(***************************************************************************)
(* The request ledger of the agent's node collector                        *)
(* (pkg/agent/metrics/core/node_metrics.go).                               *)
(*                                                                         *)
(* Three kinds of goroutine meet on one nodeMetricsCollector:              *)
(*   - the pod informer's listener, which runs handlePodAddition,          *)
(*     handlePodUpdate and handlePodDeletion one notification at a time;   *)
(*   - the node informer's listener, which runs handleNodeAddition and     *)
(*     handleNodeDeletion one notification at a time;                      *)
(*   - the scrapes, which run Collect, several at once if Prometheus asks. *)
(* The informers (client-go) are external: they keep an indexer, the       *)
(* stores below, and queue a notification for every change of it.          *)
(*                                                                         *)
(* A requested quantity is kept as a formal sum.  A claim is the request   *)
(* of one container for one resource; ledger[n][c] says how many times     *)
(* claim c is counted in requestedResource[ResourceOf[c]] of node n.       *)
(***************************************************************************)
EXTENDS Integers, Sequences, FiniteSets

CONSTANTS
  Nodes,        \* node names
  Pods,         \* pod names (the informer's key, namespace/name)
  Resources,    \* resource names a container may request
  Claims,       \* the requests of all containers of all pods
  PodOf,        \* the pod a claim belongs to
  ResourceOf,   \* the resource a claim asks for
  Sizes,        \* values of node.Status.Allocatable
  Scrapers,     \* concurrent calls of Collect
  NoNode,       \* the empty Spec.NodeName, and "no such node"
  NoSize,       \* no such node in the node informer's store
  MaxQueue,     \* bound: notifications waiting at a listener
  MaxRelists    \* bound: notifications produced by a relist

ASSUME NodesAssumption == NoNode \notin Nodes
ASSUME SizesAssumption == NoSize \notin Sizes /\ Sizes # {}
ASSUME ClaimsAssumption ==
  PodOf \in [Claims -> Pods] /\ ResourceOf \in [Claims -> Resources]
ASSUME ScrapersAssumption == "free" \notin Scrapers /\ "node" \notin Scrapers
ASSUME BoundsAssumption == MaxQueue \in Nat \ {0} /\ MaxRelists \in Nat

VARIABLES
  podStore,    \* pod informer: the indexed state of each pod
  podQueue,    \* pod informer: notifications the listener has not run yet
  told,        \* state of each pod after the last notification that was run
  nodeStore,   \* node informer: the indexed nodes, what nodeLister reads
  nodeQueue,   \* node informer: notifications the listener has not run yet
  known,       \* the keys of nodeResource
  allocatable, \* nodeResource[n].allocatableResource
  keys,        \* the keys of nodeResource[n].requestedResource
  ledger,      \* the values of nodeResource[n].requestedResource
  shed,        \* the loop of deletePodResourceRequested run without the lock
  mutex,       \* the holder of nodeMetricsCollector.mutex
  scrape,      \* the progress of each Collect
  status,      \* the agent process
  relists      \* relist notifications so far (bound)

podVars    == <<podStore, podQueue, told>>
nodeVars   == <<nodeStore, nodeQueue>>
entryVars  == <<known, allocatable>>
ledgerVars == <<keys, ledger>>
vars == <<podVars, nodeVars, entryVars, ledgerVars,
          shed, mutex, scrape, status, relists>>

-----------------------------------------------------------------------------
(* Pods, notifications and the informers.                                  *)

Absent == [node |-> NoNode, phase |-> "None"]

LiveStates == [node : Nodes \cup {NoNode}, phase : {"Alive", "Done"}]
PodStates  == LiveStates \cup {Absent}

IsBound(s) == s.node # NoNode
IsDone(s)  == s.phase = "Done"          \* PodFailed or PodSucceeded

\* The pod holds resources of node n.
Occupies(s, n) == s.node = n /\ s.phase = "Alive"

ClaimsOf(p) == {c \in Claims : PodOf[c] = p}

PodNotifications ==
  [type : {"Add", "Update", "Delete", "Tombstone"},
   pod : Pods, old : PodStates, new : PodStates]

NodeNotifications == [type : {"Add", "Delete"}, node : Nodes, size : Sizes]

\* What one watch event may do to a pod: it appears, it goes, or it changes;
\* it is bound once and a finished pod stays finished.
WatchStep(old, new) ==
  \/ old = Absent /\ new # Absent
  \/ old # Absent /\ new = Absent
  \/ /\ old # Absent
     /\ new # Absent
     /\ IsBound(old) => new.node = old.node
     /\ IsDone(old) => IsDone(new)

WatchType(old, new) ==
  CASE old = Absent -> "Add"
    [] old # Absent /\ new = Absent -> "Delete"
    [] OTHER -> "Update"

Notify(p, type, new) ==
  /\ podStore' = [podStore EXCEPT ![p] = new]
  /\ podQueue' = Append(podQueue, [type |-> type, pod |-> p,
                                   old |-> podStore[p], new |-> new])

NoShed == [node |-> NoNode, left |-> {}]

Idle == [todo |-> {}, node |-> NoNode, section |-> 0]

\* collectNodeResourceMetrics locks once per resource, in this order.
CollectOrder == <<"cpu", "memory", "gpu">>

-----------------------------------------------------------------------------
TypeOK ==
  /\ podStore \in [Pods -> PodStates]
  /\ podQueue \in Seq(PodNotifications)
  /\ told \in [Pods -> PodStates]
  /\ nodeStore \in [Nodes -> Sizes \cup {NoSize}]
  /\ nodeQueue \in Seq(NodeNotifications)
  /\ known \in SUBSET Nodes
  /\ allocatable \in [Nodes -> Sizes \cup {NoSize}]
  /\ keys \in [Nodes -> SUBSET Resources]
  /\ ledger \in [Nodes -> [Claims -> Int]]
  /\ shed \in [node : Nodes \cup {NoNode}, left : SUBSET Claims]
  /\ mutex \in Scrapers \cup {"free", "node"}
  /\ scrape \in [Scrapers -> [todo : SUBSET Nodes, node : Nodes \cup {NoNode},
                              section : 0..Len(CollectOrder)]]
  /\ status \in {"up", "panic", "fatal"}
  /\ relists \in Nat

\* A process that has just started: empty indexers, an empty nodeResource.
Init ==
  /\ podStore = [p \in Pods |-> Absent]
  /\ podQueue = <<>>
  /\ told = [p \in Pods |-> Absent]
  /\ nodeStore = [n \in Nodes |-> NoSize]
  /\ nodeQueue = <<>>
  /\ known = {}
  /\ allocatable = [n \in Nodes |-> NoSize]
  /\ keys = [n \in Nodes |-> {}]
  /\ ledger = [n \in Nodes |-> [c \in Claims |-> 0]]
  /\ shed = NoShed
  /\ mutex = "free"
  /\ scrape = [s \in Scrapers |-> Idle]
  /\ status = "up"
  /\ relists = 0

-----------------------------------------------------------------------------
(* The informers.                                                          *)

PodWatch(p, new) ==
  /\ status = "up"
  /\ Len(podQueue) < MaxQueue
  /\ WatchStep(podStore[p], new)
  /\ Notify(p, WatchType(podStore[p], new), new)
  /\ UNCHANGED <<told, nodeVars, entryVars, ledgerVars,
                 shed, mutex, scrape, status, relists>>

\* After a broken watch the informer lists again.  It compares the list with
\* its indexer by name only: a missed deletion becomes a
\* DeletedFinalStateUnknown, a missed deletion and creation one update.
PodRelist(p, new) ==
  /\ status = "up"
  /\ relists < MaxRelists
  /\ Len(podQueue) < MaxQueue
  /\ podStore[p] # Absent
  /\ Notify(p, IF new = Absent THEN "Tombstone" ELSE "Update", new)
  /\ relists' = relists + 1
  /\ UNCHANGED <<told, nodeVars, entryVars, ledgerVars,
                 shed, mutex, scrape, status>>

\* Updates of nodes reach the lister but no handler: there is no UpdateFunc.
NodeWatch(n, size) ==
  /\ status = "up"
  /\ Len(nodeQueue) < MaxQueue
  /\ size # nodeStore[n]
  /\ nodeStore' = [nodeStore EXCEPT ![n] = size]
  /\ nodeQueue' =
       CASE nodeStore[n] = NoSize ->
              Append(nodeQueue, [type |-> "Add", node |-> n, size |-> size])
         [] size = NoSize ->
              Append(nodeQueue, [type |-> "Delete", node |-> n,
                                 size |-> nodeStore[n]])
         [] OTHER -> nodeQueue
  /\ UNCHANGED <<podVars, entryVars, ledgerVars,
                 shed, mutex, scrape, status, relists>>

-----------------------------------------------------------------------------
(* The node listener.                                                      *)

NodeHead == Head(nodeQueue)

NodeTaken == nodeQueue' = Tail(nodeQueue) /\ UNCHANGED nodeStore

\* handleNodeAddition of a node that has an entry already: nothing is done.
NodeAdditionKnown ==
  /\ status = "up" /\ nodeQueue # <<>>
  /\ NodeHead.type = "Add"
  /\ NodeHead.node \in known
  /\ NodeTaken
  /\ UNCHANGED <<podVars, entryVars, ledgerVars,
                 shed, mutex, scrape, status, relists>>

\* handleNodeAddition of a new node: the lock, then the new entry.
NodeAdditionLock ==
  /\ status = "up" /\ nodeQueue # <<>> /\ mutex = "free"
  /\ NodeHead.type = "Add"
  /\ NodeHead.node \notin known
  /\ mutex' = "node"
  /\ UNCHANGED <<podVars, nodeVars, entryVars, ledgerVars,
                 shed, scrape, status, relists>>

NodeAdditionInsert ==
  /\ status = "up" /\ mutex = "node"
  /\ known' = known \cup {NodeHead.node}
  /\ allocatable' = [allocatable EXCEPT ![NodeHead.node] = NodeHead.size]
  /\ keys' = [keys EXCEPT ![NodeHead.node] = {}]
  /\ ledger' = [ledger EXCEPT ![NodeHead.node] = [c \in Claims |-> 0]]
  /\ mutex' = "free"
  /\ NodeTaken
  /\ UNCHANGED <<podVars, shed, scrape, status, relists>>

\* Mutant: the entry is deleted when it was found, the requests with it.
DeletedEntry_WhenFound(n) == IF n \in known THEN {n} ELSE {}

\* The entry that is deleted from nodeResource when no entry was found.
DeletedEntry(n) == IF n \notin known THEN {n} ELSE {}

HandleNodeDeletion ==
  /\ status = "up" /\ nodeQueue # <<>>
  /\ NodeHead.type = "Delete"
  /\ DeletedEntry(NodeHead.node) # {} => mutex = "free"
  /\ known' = known \ DeletedEntry(NodeHead.node)
  /\ NodeTaken
  /\ UNCHANGED <<podVars, allocatable, ledgerVars,
                 shed, mutex, scrape, status, relists>>

NodeListener ==
  NodeAdditionKnown \/ NodeAdditionLock \/ NodeAdditionInsert
    \/ HandleNodeDeletion

-----------------------------------------------------------------------------
(* The pod listener.                                                       *)

PodHead == Head(podQueue)

PodReady == status = "up" /\ podQueue # <<>> /\ shed.left = {}

PodTaken ==
  /\ podQueue' = Tail(podQueue)
  /\ told' = [told EXCEPT ![PodHead.pod] = PodHead.new]
  /\ UNCHANGED podStore

\* addPodResourceRequested: every claim is added; a write to an entry that
\* does not exist is a write to a nil map.
AddPodResourceRequested(p, n) ==
  IF n \in known \/ ClaimsOf(p) = {}
  THEN /\ ledger' = [ledger EXCEPT ![n] =
                       [c \in Claims |-> IF c \in ClaimsOf(p) THEN @[c] + 1
                                                              ELSE @[c]]]
       /\ keys' = [keys EXCEPT ![n] = @ \cup {ResourceOf[c] : c \in ClaimsOf(p)}]
       /\ PodTaken
       /\ UNCHANGED status
  ELSE /\ status' = "panic"
       /\ UNCHANGED <<podVars, ledgerVars>>

\* The claims deletePodResourceRequested subtracts: those whose resource has
\* a quantity already, the others are skipped.
Subtractable(n, C) == {c \in C : n \in known /\ ResourceOf[c] \in keys[n]}

DeletePodResourceRequested(n, C) ==
  ledger' = [ledger EXCEPT ![n] =
               [c \in Claims |-> IF c \in Subtractable(n, C) THEN @[c] - 1
                                                             ELSE @[c]]]

HandlePodAddition ==
  /\ PodReady
  /\ PodHead.type = "Add"
  /\ \/ /\ ~IsBound(PodHead.new) \/ IsDone(PodHead.new)
        /\ PodTaken
        /\ UNCHANGED <<ledgerVars, status>>
     \/ /\ IsBound(PodHead.new) /\ ~IsDone(PodHead.new)
        /\ mutex = "free"
        /\ AddPodResourceRequested(PodHead.pod, PodHead.new.node)
  /\ UNCHANGED <<nodeVars, entryVars, shed, mutex, scrape, relists>>

\* Mutant: an update of a pod that was bound before counts it again.
Binds_Again(old, new) == IsBound(new) /\ ~IsDone(new)

\* handlePodUpdate of a pod that has just been bound.
Binds(old, new) == IsBound(new) /\ ~IsBound(old) /\ ~IsDone(new)

\* Mutant: a finished pod keeps its requests until it is deleted (issue 28).
Finishes_Never(old, new) == FALSE

\* Mutant: every update of a finished pod releases its requests again.
Finishes_Again(old, new) == IsBound(new) /\ IsBound(old) /\ IsDone(new)

\* handlePodUpdate of a bound pod that has just finished.
Finishes(old, new) == IsBound(new) /\ IsBound(old) /\ ~IsDone(old) /\ IsDone(new)

HandlePodUpdate ==
  /\ PodReady
  /\ PodHead.type = "Update"
  /\ \/ /\ ~Binds(PodHead.old, PodHead.new)
        /\ ~Finishes(PodHead.old, PodHead.new)
        /\ PodTaken
        /\ UNCHANGED <<ledgerVars, shed, status>>
     \/ /\ Binds(PodHead.old, PodHead.new)
        /\ mutex = "free"
        /\ AddPodResourceRequested(PodHead.pod, PodHead.new.node)
        /\ UNCHANGED shed
     \/ /\ Finishes(PodHead.old, PodHead.new)
        /\ shed' = [node |-> PodHead.new.node, left |-> ClaimsOf(PodHead.pod)]
        /\ PodTaken
        /\ UNCHANGED <<ledgerVars, status>>
  /\ UNCHANGED <<nodeVars, entryVars, mutex, scrape, relists>>

\* One turn of deletePodResourceRequested as handlePodUpdate calls it: no
\* lock is held, so the turns interleave with the other goroutines.
ShedClaim(c) ==
  /\ status = "up"
  /\ c \in shed.left
  /\ DeletePodResourceRequested(shed.node, {c})
  /\ shed' = IF shed.left = {c} THEN NoShed
                                ELSE [shed EXCEPT !.left = @ \ {c}]
  /\ UNCHANGED <<podVars, nodeVars, entryVars, keys, mutex, scrape, status, relists>>

HandlePodDeletion ==
  /\ PodReady
  /\ PodHead.type = "Delete"
  /\ \/ /\ ~IsBound(PodHead.old) \/ IsDone(PodHead.old)
        /\ UNCHANGED ledger
     \/ /\ IsBound(PodHead.old) /\ ~IsDone(PodHead.old)
        /\ mutex = "free"
        /\ DeletePodResourceRequested(PodHead.old.node, ClaimsOf(PodHead.pod))
  /\ PodTaken
  /\ UNCHANGED <<nodeVars, entryVars, keys, shed, mutex, scrape, status, relists>>

\* DeleteFunc drops what is not a *corev1.Pod.
DropTombstone ==
  /\ PodReady
  /\ PodHead.type = "Tombstone"
  /\ PodTaken
  /\ UNCHANGED <<nodeVars, entryVars, ledgerVars,
                 shed, mutex, scrape, status, relists>>

PodListener ==
  \/ HandlePodAddition
  \/ HandlePodUpdate
  \/ \E c \in Claims : ShedClaim(c)
  \/ HandlePodDeletion
  \/ DropTombstone

-----------------------------------------------------------------------------
(* Collect.                                                                *)

ScrapeList(s) ==
  /\ status = "up"
  /\ scrape[s] = Idle
  /\ LET listed == {n \in Nodes : nodeStore[n] # NoSize}
     IN  /\ listed # {}
         /\ scrape' = [scrape EXCEPT ![s].todo = listed]
  /\ UNCHANGED <<podVars, nodeVars, entryVars, ledgerVars,
                 shed, mutex, status, relists>>

\* getNodeCostInfo asks the lister again, and the provider may fail; either
\* error skips the node.
ScrapeNode(s, n) ==
  /\ status = "up"
  /\ scrape[s].section = 0
  /\ n \in scrape[s].todo
  /\ \/ scrape' = [scrape EXCEPT ![s].todo = @ \ {n}]
     \/ /\ nodeStore[n] # NoSize
        /\ scrape' = [scrape EXCEPT ![s] =
                        [todo |-> @.todo \ {n}, node |-> n, section |-> 1]]
  /\ UNCHANGED <<podVars, nodeVars, entryVars, ledgerVars,
                 shed, mutex, status, relists>>

ScrapeLock(s) ==
  /\ status = "up"
  /\ scrape[s].section > 0
  /\ mutex = "free"
  /\ mutex' = s
  /\ UNCHANGED <<podVars, nodeVars, entryVars, ledgerVars,
                 shed, scrape, status, relists>>

\* Mutant: the sections are counted past the last one.
AfterSection_PastLast(sc) == [sc EXCEPT !.section = @ + 1]

\* The next resource of the node, or the next node.
AfterSection(sc) ==
  IF sc.section < Len(CollectOrder)
  THEN [sc EXCEPT !.section = @ + 1]
  ELSE [sc EXCEPT !.node = NoNode, !.section = 0]

\* The samples of one resource are sent and the lock is released.
ScrapeSend(s) ==
  /\ status = "up"
  /\ mutex = s
  /\ mutex' = "free"
  /\ scrape' = [scrape EXCEPT ![s] = AfterSection(@)]
  /\ UNCHANGED <<podVars, nodeVars, entryVars, ledgerVars,
                 shed, status, relists>>

Scrape(s) ==
  \/ ScrapeList(s)
  \/ \E n \in Nodes : ScrapeNode(s, n)
  \/ ScrapeLock(s)
  \/ ScrapeSend(s)

-----------------------------------------------------------------------------
(* Go's maps are not safe for concurrent use: when the unlocked loop meets *)
(* a scrape that reads the same requestedResource, or the insertion of a   *)
(* node into nodeResource, the runtime may end the process.                *)

MapRace ==
  /\ status = "up"
  /\ shed.left # {}
  /\ \/ mutex = "node"
     \/ /\ shed.node \in known
        /\ \E s \in Scrapers : /\ mutex = s
                               /\ scrape[s].node = shed.node
  /\ status' = "fatal"
  /\ UNCHANGED <<podVars, nodeVars, entryVars, ledgerVars,
                 shed, mutex, scrape, relists>>

\* The agent's pod is restarted; the new process lists everything again.
Restart ==
  /\ status # "up"
  /\ podStore' = [p \in Pods |-> Absent]
  /\ podQueue' = <<>>
  /\ told' = [p \in Pods |-> Absent]
  /\ nodeStore' = [n \in Nodes |-> NoSize]
  /\ nodeQueue' = <<>>
  /\ known' = {}
  /\ allocatable' = [n \in Nodes |-> NoSize]
  /\ keys' = [n \in Nodes |-> {}]
  /\ ledger' = [n \in Nodes |-> [c \in Claims |-> 0]]
  /\ shed' = NoShed
  /\ mutex' = "free"
  /\ scrape' = [s \in Scrapers |-> Idle]
  /\ status' = "up"
  /\ UNCHANGED relists

-----------------------------------------------------------------------------
Agent ==
  \/ NodeListener
  \/ PodListener
  \/ \E s \in Scrapers : Scrape(s)
  \/ MapRace
  \/ Restart

\* As long as the watch is never interrupted.
WatchNext ==
  \/ \E p \in Pods, new \in PodStates : PodWatch(p, new)
  \/ \E n \in Nodes, size \in Sizes \cup {NoSize} : NodeWatch(n, size)
  \/ Agent

Next ==
  \/ WatchNext
  \/ \E p \in Pods, new \in PodStates : PodRelist(p, new)

WatchSpec == Init /\ [][WatchNext]_vars
Spec == Init /\ [][Next]_vars

-----------------------------------------------------------------------------
(* Properties.                                                             *)

\* Claim c is counted on node n: the handlers were last told that its pod
\* occupies n, or the unlocked loop has yet to subtract it.
Counted(c, n) ==
  \/ Occupies(told[PodOf[c]], n)
  \/ n = shed.node /\ c \in shed.left

\* At every instant, also under a scrape's lock and half way through the
\* unlocked loop of handlePodUpdate, requestedResource is the sum of exactly
\* the requests of the pods the handlers were last told occupy the node: no
\* pod is counted twice or on two nodes, and nothing is left behind when a
\* pod finishes or goes, when a node is deleted and registered again, or when
\* the agent restarts (handlePodAddition, handlePodUpdate, handlePodDeletion,
\* handleNodeAddition, handleNodeDeletion).
LedgerExact ==
  \A n \in Nodes, c \in Claims :
    ledger[n][c] = IF Counted(c, n) THEN 1 ELSE 0

\* Each relist may displace the requests of its pod, and by no more than one
\* charge: what handlers and relists do afterwards, in whatever order, does
\* not let the difference grow (handlePodUpdate, handlePodDeletion and
\* DeleteFunc, which drops the tombstone).
DriftIsBounded ==
  \A n \in Nodes, c \in Claims :
    LET due == IF Counted(c, n) THEN 1 ELSE 0
    IN  ledger[n][c] \in (due - relists)..(due + relists)

\* The ledger is an implementation of PodLedger: requests are charged as a
\* whole, to one node, and released once.
Ledger == INSTANCE PodLedger WITH charge <- ledger

LedgerSpec == Ledger!Spec

\* Go's mutexes hand over to a waiter within a millisecond, so a listener that
\* keeps asking for the lock gets it (strong fairness); a scrape that holds it
\* releases it.
Fairness ==
  /\ SF_vars(PodListener)
  /\ SF_vars(NodeListener)
  /\ \A s \in Scrapers : WF_vars(ScrapeSend(s))

FairWatchSpec == WatchSpec /\ Fairness

Settled(p, n) ==
  \A c \in ClaimsOf(p) :
    ledger[n][c] = IF Occupies(podStore[p], n) THEN 1 ELSE 0

\* Whatever the informer knows of a pod reaches the ledger: the requests of a
\* pod that occupies a node are counted there, those of a pod that no longer
\* does are released, unless the pod changes again or the agent ends first.
LedgerCatchesUp ==
  \A p \in Pods, n \in Nodes :
    /\ Occupies(podStore[p], n)
         ~> Settled(p, n) \/ ~Occupies(podStore[p], n) \/ status # "up"
    /\ ~Occupies(podStore[p], n)
         ~> Settled(p, n) \/ Occupies(podStore[p], n) \/ status # "up"

\* What node_metrics.go:181 and :200 say, "Node %s not found in cluster" as a
\* warning: a pod on a node without an entry does not end the agent.
UnknownNodeIsAWarning == status # "panic"

=============================================================================

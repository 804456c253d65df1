----------------------------- MODULE CostMerge -----------------------------
(***************************************************************************)
(* How the cost analyzer merges the answers of one request's queries into  *)
(* one table (the query... and parse... functions of                       *)
(* pkg/analyzer/server/implementation), while the metrics store goes on    *)
(* taking in what the agents scrape.                                       *)
(*                                                                         *)
(* The table maps a key (a namespace, workload or pod) to a map from       *)
(* timestamps to records, and each answer fills one field of the records.  *)
(* The costs of resources have no key: their one map is that of Cluster.   *)
(* A sample <<f, k, t>> is a value of field f; what matters is where it    *)
(* comes to stand.  The answers are merged in a fixed order, the keys of   *)
(* an answer in the random order of Go's maps.                             *)
(*                                                                         *)
(* That the error of a failed query may be lost is shown by QueryFanout;   *)
(* here a request with a failed query fails, or goes on without its data.  *)
(***************************************************************************)
EXTENDS Naturals, Sequences, FiniteSets

CONSTANTS
  Names,      \* namespaces, workloads or pods
  Cluster,    \* the key of a table that has none
  Times,      \* timestamps of a range query
  Reports,    \* the metrics the agent reports of one name at one time
  MaxScrapes  \* bound: reports taken in

Fields == {"cost", "pods", "cpuRequest", "ramRequest", "cpuUsage", "ramUsage",
           "billing", "resourceCost", "cpuTotal", "ramTotal"}

Forms == {"namespace", "workload", "pod", "resource"}

ASSUME NamesAssumption == Cluster \notin Names
ASSUME ReportsAssumption == Reports \subseteq SUBSET Fields
ASSUME BoundAssumption == MaxScrapes \in Nat

VARIABLES
  form,      \* which of the four requests it is
  stored,    \* the samples in the metrics store
  scrapes,   \* reports taken in so far (bound)
  before,    \* history: the samples stored when the request came
  asked,     \* the fields whose query has been evaluated
  answer,    \* the samples of the answers
  failed,    \* a query returned an error
  hole,      \* history: a query returned nothing of what is stored
  stage,     \* the answer being merged
  todo,      \* its keys not merged yet
  maps,      \* the keys of the table
  rows,      \* the records of the table, <<k, t>>
  filled,    \* the fields of the records that have been set
  reply      \* what becomes of the request

tableVars == <<maps, rows, filled>>
storeVars == <<stored, scrapes>>
vars == <<form, storeVars, before, asked, answer, failed, hole,
          stage, todo, tableVars, reply>>

-----------------------------------------------------------------------------
AllKeys == Names \cup {Cluster}

Keys == IF form = "resource" THEN {Cluster} ELSE Names

\* Mutant: the timestamps of an answer are ranged over instead of its keys.
KeysOf_Timestamps(S, f) == {s[3] : s \in {x \in S : x[1] = f}}

KeysOf(S, f) == {s[2] : s \in {x \in S : x[1] = f}}

\* The answers in the order they are merged.
NamespaceStages ==
  <<"cost", "pods", "cpuRequest", "ramRequest", "cpuUsage", "ramUsage">>
WorkloadStages ==
  <<"cost", "pods", "cpuRequest", "ramRequest", "cpuUsage", "ramUsage">>
PodStages ==
  <<"cost", "cpuRequest", "ramRequest", "cpuUsage", "ramUsage">>
ResourceStages ==
  <<"cost", "billing", "resourceCost", "cpuTotal", "ramTotal", "cpuUsage",
    "ramUsage">>

\* Mutant: the costs, which start the maps of their keys, are merged last.
Stages_CostLast ==
  CASE form = "resource" -> Append(Tail(ResourceStages), "cost")
    [] form = "pod" -> Append(Tail(PodStages), "cost")
    [] OTHER -> Append(Tail(WorkloadStages), "cost")

Stages ==
  CASE form = "namespace" -> NamespaceStages
    [] form = "workload" -> WorkloadStages
    [] form = "pod" -> PodStages
    [] form = "resource" -> ResourceStages

Asked == {Stages[i] : i \in DOMAIN Stages}

\* The fields one query answers, split by its resource label; every other
\* query answers one field.
NamespaceSplit == {{"cpuRequest", "ramRequest"}, {"cpuUsage", "ramUsage"}}
WorkloadSplit  == {{"cpuRequest", "ramRequest"}, {"cpuUsage", "ramUsage"}}
PodSplit       == {{"cpuRequest", "ramRequest"}, {"cpuUsage", "ramUsage"}}

Split ==
  CASE form = "namespace" -> NamespaceSplit
    [] form = "workload" -> WorkloadSplit
    [] form = "pod" -> PodSplit
    [] form = "resource" -> {}

Queries == Split \cup {{f} : f \in Asked \ UNION Split}

-----------------------------------------------------------------------------
TypeOK ==
  /\ form \in Forms
  /\ stored \in SUBSET (Fields \X AllKeys \X Times)
  /\ scrapes \in Nat
  /\ before \in SUBSET (Fields \X AllKeys \X Times)
  /\ asked \in SUBSET Fields
  /\ answer \in SUBSET (Fields \X AllKeys \X Times)
  /\ failed \in BOOLEAN
  /\ hole \in BOOLEAN
  /\ stage \in 0..Len(Stages)
  /\ todo \in SUBSET AllKeys
  /\ maps \in SUBSET AllKeys
  /\ rows \in SUBSET (AllKeys \X Times)
  /\ filled \in SUBSET (Fields \X AllKeys \X Times)
  /\ reply \in {"none", "waiting", "data", "error", "panic"}

Init ==
  /\ form \in Forms
  /\ stored = {} /\ scrapes = 0
  /\ before = {}
  /\ asked = {} /\ answer = {}
  /\ failed = FALSE /\ hole = FALSE
  /\ stage = 0 /\ todo = {}
  /\ maps = {} /\ rows = {} /\ filled = {}
  /\ reply = "none"

-----------------------------------------------------------------------------
\* The metrics store takes in what an agent reports of k in the period t.
Scrape(k, t, r) ==
  /\ scrapes < MaxScrapes
  /\ reply \in {"none", "waiting"}
  /\ stored' = stored \cup ((r \cap Asked) \X {k} \X {t})
  /\ scrapes' = scrapes + 1
  /\ UNCHANGED <<form, before, asked, answer, failed, hole, stage, todo,
                 tableVars, reply>>

Request ==
  /\ reply = "none"
  /\ before' = stored
  /\ reply' = "waiting"
  /\ UNCHANGED <<form, storeVars, asked, answer, failed, hole, stage, todo,
                 tableVars>>

\* A query is evaluated at some time while the request waits for it.  The
\* client logs a body it cannot decode and returns no data and no error.
Query(Q) ==
  /\ reply = "waiting"
  /\ Q \in Queries /\ Q \cap asked = {}
  /\ asked' = asked \cup Q
  /\ \/ /\ answer' = answer \cup {s \in stored : s[1] \in Q}
        /\ UNCHANGED <<failed, hole>>
     \/ /\ hole' = TRUE
        /\ UNCHANGED <<answer, failed>>
     \/ /\ failed' = TRUE /\ hole' = TRUE
        /\ UNCHANGED answer
  /\ UNCHANGED <<form, storeVars, before, stage, todo, tableVars, reply>>

\* After wg.Wait: the error of a failed query, if it was not lost.
Fail ==
  /\ reply = "waiting"
  /\ asked = Asked /\ stage = 0
  /\ failed
  /\ reply' = "error"
  /\ UNCHANGED <<form, storeVars, before, asked, answer, failed, hole,
                 stage, todo, tableVars>>

\* The next answer, whose keys are ranged over.
NextAnswer ==
  /\ reply = "waiting"
  /\ asked = Asked
  /\ todo = {} /\ stage < Len(Stages)
  /\ stage' = stage + 1
  /\ todo' = KeysOf(answer, Stages[stage'])
  /\ UNCHANGED <<form, storeVars, before, asked, answer, failed, hole,
                 tableVars, reply>>

-----------------------------------------------------------------------------
\* The answer's samples of field f for key k, and the records of samples.
Answered(f, k) == {s \in answer : s[1] = f /\ s[2] = k}

At(S) == {<<s[2], s[3]>> : s \in S}

\* The fields that new records have at once: a pod counts as one.
NewRecord == IF form = "pod" THEN {"pods"} ELSE {}

Fresh(R) == {<<f, r[1], r[2]>> : f \in NewRecord, r \in R}

\* The records the costs replace: all of a key, for its map is made anew; the
\* one map of the resources is kept.
Replaced(k) ==
  {r \in rows : r[1] = k /\ (form = "resource" => r \in At(Answered("cost", k)))}

\* The costs of a key: a new record for every timestamp.
MergeCost(k) ==
  LET new == Answered("cost", k)
  IN  /\ maps' = maps \cup {k}
      /\ rows' = (rows \ Replaced(k)) \cup At(new)
      /\ filled' = {s \in filled : <<s[2], s[3]>> \notin Replaced(k)}
                     \cup new \cup Fresh(At(new))
      /\ UNCHANGED reply

\* Mutant: a record is created whether or not there is one already.
FillRecords_Afresh(new) ==
  /\ rows' = rows \cup At(new)
  /\ filled' = {s \in filled : <<s[2], s[3]>> \notin At(new)}
                 \cup new \cup Fresh(At(new))

\* A field of a key's records; a record that does not exist is created.
FillRecords(new) ==
  /\ rows' = rows \cup At(new)
  /\ filled' = filled \cup new \cup Fresh(At(new) \ rows)

\* Mutant: the map of a new key is not put into the variable that is written.
Writes_Stale(k) == k \in maps

\* The map that is written is there.  For pods and workloads a missing one is
\* created and used; for namespaces it is created, but the variable that is
\* written still holds the nil map of the lookup.
Writes(k) == form # "namespace" \/ k \in maps

Merge(f, k) ==
  /\ maps' = maps \cup {k}
  /\ \/ /\ Writes(k) \/ Answered(f, k) = {}
        /\ FillRecords(Answered(f, k))
        /\ UNCHANGED reply
     \/ /\ ~Writes(k) /\ Answered(f, k) # {}
        /\ reply' = "panic"
        /\ UNCHANGED <<rows, filled>>

MergeKey(k) ==
  /\ reply = "waiting"
  /\ k \in todo
  /\ todo' = todo \ {k}
  /\ IF Stages[stage] = "cost" THEN MergeCost(k) ELSE Merge(Stages[stage], k)
  /\ UNCHANGED <<form, storeVars, before, asked, answer, failed, hole, stage>>

\* The table is turned into a list, sorted by timestamp.
Convert ==
  /\ reply = "waiting"
  /\ stage = Len(Stages) /\ todo = {}
  /\ reply' = "data"
  /\ UNCHANGED <<form, storeVars, before, asked, answer, failed, hole,
                 stage, todo, tableVars>>

Next ==
  \/ \E k \in Keys, t \in Times, r \in Reports : Scrape(k, t, r)
  \/ Request
  \/ \E Q \in Queries : Query(Q)
  \/ Fail
  \/ NextAnswer
  \/ \E k \in todo : MergeKey(k)
  \/ Convert

Spec == Init /\ [][Next]_vars

-----------------------------------------------------------------------------
(* Properties.                                                             *)

\* Some answer has a key that the answer with the costs does not have.
Gap == \E s \in answer : s[2] \notin KeysOf(answer, "cost")

\* The table a caller is given holds every sample of the answers in the record
\* of its key and time, and nothing else, whatever the order the maps are
\* ranged over (the parse... functions).
Merged ==
  reply = "data" =>
    /\ maps = {s[2] : s \in answer}
    /\ rows = At(answer)
    /\ filled = answer \cup Fresh(rows)

\* From end to end: if every query is answered, what was stored when the
\* request came is reported, and what is reported is stored, although the
\* queries see different states of the store.
NothingLost ==
  reply = "data" /\ ~hole =>
    /\ before \subseteq filled
    /\ filled \subseteq stored \cup Fresh(rows)

\* The merge panics for namespaces only, exactly when the answers have a gap,
\* whichever key comes first (the parse functions of namespace_cost.go).
PanicIsAGap ==
  /\ reply = "panic" => form = "namespace" /\ Gap
  /\ reply = "data" /\ form = "namespace" => ~Gap

=============================================================================

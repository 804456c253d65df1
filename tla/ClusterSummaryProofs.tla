------------------------ MODULE ClusterSummaryProofs ------------------------
(***************************************************************************)
(* The properties of ClusterSummary for any clusters, quantities, reports  *)
(* and bounds.                                                             *)
(***************************************************************************)
EXTENDS ClusterSummary, TLAPS, FiniteSetTheorems

\* A query is about a sample.
About(q, s) == s \in Samples /\ s[1] \in MetricsOf(q) /\ (~ForAll => s[2] = target)

Got(q, s) == <<q, s>> \in answer

\* The history asks for more points than the backend gives.
TooMany == form = "details" /\ span \div StepOf(span) > Limit

\* What an instant query sees is seen by the others, and is heard of during a
\* request; what was there all along is there.
StoreInv ==
  /\ \A c \in Cluster : fresh[c] \subseteq month[c] /\ month[c] \subseteq ever[c]
  /\ steady \subseteq All(fresh)
  /\ stage # "idle" => \A c \in Cluster : "active" \in fresh[c] => c \in heard

\* The order of a request.
StageInv ==
  /\ stage = "idle" => asked = {} /\ answer = {} /\ ~failed /\ ~fine
  /\ stage = "property" => asked \subseteq PropertyQueries
  /\ stage \in {"body", "done"} => PropertyQueries \subseteq asked
  /\ stage # "done" => reply = "none" /\ described = {}

\* An answer is about its query, and was there when it was evaluated.
AnswerInv ==
  \A a \in answer :
    /\ a[1] \in asked /\ About(a[1], a[2]) /\ a[2][1] \in ever[a[2][2]]
    /\ form # "details" /\ a[1] = "activity" => a[2][2] \in heard

\* If nothing went wrong, an answer has what was there all along.
CompleteInv ==
  holes = 0 =>
    \A q \in asked : q \in PropertyQueries \/ ~TooMany =>
      \A s \in steady : About(q, s) => Got(q, s)

\* A query fails because something went wrong, for too many points, or for want
\* of an answer; with too many points every query of the history does.
FailedInv ==
  /\ stage \in {"property", "body"} /\ failed /\ holes = 0 =>
       \/ TooMany /\ stage = "body"
       \/ \E q \in Required \cap asked : Returned(q) = {}
  /\ stage = "body" /\ TooMany => ~fine /\ (asked \cap BodyQueries # {} => failed)

\* The property of the one cluster that is asked for is known before its data is
\* asked for, and a query for it that did not fail has found it.
KnownInv ==
  /\ stage = "property" /\ fine /\ ~ForAll => \E q \in PropertyQueries : Returned(q) # {}
  /\ stage = "property" /\ ~failed /\ ~ForAll => \A q \in asked : Returned(q) # {}
  /\ stage = "body" /\ form \in {"clusterCosts", "clusterResources"} =>
       \A q \in PropertyQueries : Returned(q) # {}

RequestInv == StoreInv /\ StageInv /\ AnswerInv /\ CompleteInv /\ FailedInv /\ KnownInv

ReplyInv == SteadyIsAnswered /\ SteadyIsListed /\ PanicIsExplained /\ DescribedIsHeard

IInv == TypeOK /\ RequestInv /\ ReplyInv

USE QuantitiesAssumption, ReportsAssumption, NumbersAssumption

-----------------------------------------------------------------------------
(* Queries and samples *)

\* What the queries that the properties speak of are about.
LEMMA MetricsOfQueries ==
  /\ MetricsOf("firstSeen") = {"active"} /\ MetricsOf("activeTime") = {"active"}
  /\ MetricsOf("activity") = {"active"} /\ MetricsOf("monthTime") = {"active"}
  /\ MetricsOf("monthActivity") = {"active"} /\ MetricsOf("cpuCount") = {"total"}
BY DEF MetricsOf

\* Every query is about some metric.
LEMMA MetricsOfSome ==
  ASSUME form \in Forms, NEW q \in PropertyQueries \cup BodyQueries
  PROVE  MetricsOf(q) \subseteq Metrics /\ \E m \in Metrics : m \in MetricsOf(q)
<1>1. q \in {"firstSeen", "activeTime", "activity", "monthTime", "monthActivity",
             "monthCost", "cpuCost", "cpuCount", "nodes", "pods"} \cup Quantities
  BY DEF PropertyQueries, BodyQueries, Forms, AllCostQueries, ClusterCostQueries,
         AllResourceQueries, ClusterResourceQueries, DetailQueries
<1>2. {"active", "nodeCost", "cpuCost", "total"} \cup PodStatuses \cup Quantities \subseteq Metrics
  BY DEF Metrics, PodStatuses
<1>3. CASE q \in Quantities
  <2>1. MetricsOf(q) = {q}
    BY <1>3 DEF MetricsOf
  <2>2. QED
    BY <1>2, <1>3, <2>1
<1>4. CASE q \notin Quantities
  BY <1>1, <1>2, <1>4 DEF MetricsOf, PodStatuses
<1>5. QED
  BY <1>3, <1>4

\* The forms and their queries stay as they are.
LEMMA QueriesKept ==
  ASSUME UNCHANGED requestVars
  PROVE  /\ UNCHANGED <<form, target, span>>
         /\ PropertyQueries' = PropertyQueries /\ BodyQueries' = BodyQueries
         /\ ForAll' = ForAll /\ TooMany' = TooMany
         /\ \A q, s : About(q, s)' <=> About(q, s)
<1>1. UNCHANGED <<form, target, span>>
  BY DEF requestVars
<1>2. PropertyQueries' = PropertyQueries /\ BodyQueries' = BodyQueries
  BY <1>1 DEF PropertyQueries, BodyQueries
<1>3. ForAll' = ForAll
  BY <1>1 DEF ForAll
<1>4. TooMany' = TooMany
  BY <1>1 DEF TooMany
<1>5. \A q, s : About(q, s)' <=> About(q, s)
  BY <1>1, <1>3 DEF About
<1>6. QED
  BY <1>1, <1>2, <1>3, <1>4, <1>5

\* The names of the two rounds of queries differ.
LEMMA RoundsDiffer == form \in Forms => PropertyQueries \cap BodyQueries = {}
BY DEF Forms, PropertyQueries, BodyQueries, AllCostQueries, ClusterCostQueries,
       AllResourceQueries, ClusterResourceQueries, DetailQueries

\* A query sees what it is about and was reported; of that, everything fresh.
LEMMA SeesWhatIsThere ==
  ASSUME TypeOK, StoreInv, NEW q
  PROVE  /\ \A s \in Sees(q) : About(q, s) /\ s[1] \in ever[s[2]]
         /\ \A s \in All(fresh) : About(q, s) => s \in Sees(q)
         /\ form # "details" => \A s \in Sees("activity") : s[1] \in fresh[s[2]]
<1>1. Window(q) \in {ever, month, fresh}
  BY DEF Window
<1>2. \A s \in Samples : s[1] \in Metrics /\ s[2] \in Cluster
  BY DEF Samples
<1>3. \A s \in Samples : s[1] \in fresh[s[2]] => s[1] \in Window(q)[s[2]]
  BY <1>1, <1>2 DEF StoreInv
<1>4. \A s \in Samples : s[1] \in Window(q)[s[2]] => s[1] \in ever[s[2]]
  BY <1>1, <1>2 DEF StoreInv
<1>5. form # "details" => Window("activity") = fresh
  BY DEF Window
<1>6. QED
  BY <1>3, <1>4, <1>5 DEF Sees, All, About

\* The invariant holds before the request comes.
LEMMA InitInv == Init => IInv
<1> SUFFICES ASSUME Init PROVE IInv
  OBVIOUS
<1>1. TypeOK
  <2>1. span \in Spans
    BY DEF Init
  <2>2. {ever, month, fresh} \subseteq [Cluster -> SUBSET Metrics]
    BY DEF Init
  <2>3. {failed, fine} \subseteq BOOLEAN
    BY DEF Init
  <2>4. fields \subseteq Metrics \X items /\ events \in 0 .. MaxEvents /\ holes \in 0 .. MaxHoles
    BY DEF Init
  <2>5. QED
    BY <2>1, <2>2, <2>3, <2>4 DEF Init, TypeOK
<1>2. RequestInv
  BY DEF Init, RequestInv, StoreInv, StageInv, AnswerInv, CompleteInv, FailedInv, KnownInv
<1>3. ReplyInv
  BY DEF Init, ReplyInv, SteadyIsAnswered, SteadyIsListed, PanicIsExplained, DescribedIsHeard
<1>4. QED
  BY <1>1, <1>2, <1>3 DEF IInv

-----------------------------------------------------------------------------
(* The agents and the metrics store *)

\* What happens to the store while a request is under way: metrics come to ever and
\* fresh, or go from fresh; what was fresh all along is.
LEMMA StoreChanged ==
  ASSUME IInv, stage # "done", UNCHANGED requestVars,
         UNCHANGED <<stage, asked, answer, failed, fine, holes, replyVars>>,
         {ever, month, fresh}' \subseteq [Cluster -> SUBSET Metrics],
         events' \in 0 .. MaxEvents,
         \A c \in Cluster : /\ fresh'[c] \subseteq month'[c] /\ month'[c] \subseteq ever'[c]
                            /\ ever[c] \subseteq ever'[c],
         steady' \subseteq steady, \A s \in steady' : s[1] \in fresh'[s[2]],
         heard \subseteq heard', heard' \subseteq Cluster,
         \A c \in Cluster : "active" \in fresh'[c] => "active" \in fresh[c] \/ c \in heard'
  PROVE  IInv'
<1>0. /\ UNCHANGED <<form, target, span>>
      /\ PropertyQueries' = PropertyQueries /\ BodyQueries' = BodyQueries
      /\ ForAll' = ForAll /\ TooMany' = TooMany
      /\ \A q, s : About(q, s)' <=> About(q, s)
  BY QueriesKept
<1>1. UNCHANGED <<reply, items, described, fields>>
  BY DEF replyVars
<1>2. TypeOK'
  <2>1. /\ form' \in Forms /\ target' \in Cluster /\ span' \in Spans
        /\ stage' \in {"idle", "property", "body", "done"}
        /\ asked' \subseteq PropertyQueries' \cup BodyQueries'
        /\ {failed, fine}' \subseteq BOOLEAN /\ holes' \in 0 .. MaxHoles
    BY <1>0 DEF IInv, TypeOK
  <2>2. \A a \in answer' : a[1] \in asked' /\ a[2] \in Samples /\ a[2][1] \in MetricsOf(a[1])
    BY DEF IInv, TypeOK
  <2>3. steady' \subseteq Samples
    BY DEF IInv, TypeOK
  <2>4. /\ reply' \in {"none", "data", "error", "notFound", "panic", "crash"}
        /\ described' \subseteq items' /\ items' \subseteq Cluster
        /\ fields' \subseteq Metrics \X items'
    BY <1>1 DEF IInv, TypeOK
  <2>5. QED
    BY <2>1, <2>2, <2>3, <2>4 DEF TypeOK
<1>3. StoreInv'
  <2>1. steady' \subseteq All(fresh)'
    BY DEF All, IInv, TypeOK
  <2>2. QED
    BY <2>1 DEF IInv, RequestInv, StoreInv
<1>4. StageInv'
  BY <1>0, <1>1 DEF IInv, RequestInv, StageInv
<1>5. AnswerInv'
  <2>1. \A a \in answer : a[2][2] \in Cluster
    BY DEF IInv, TypeOK, Samples
  <2>2. QED
    BY <1>0, <2>1 DEF IInv, RequestInv, AnswerInv
<1>6. CompleteInv'
  BY <1>0 DEF IInv, RequestInv, CompleteInv, Got
<1>7. FailedInv' /\ KnownInv'
  <2>1. Required' = Required
    BY <1>0 DEF Required, DetailQueries
  <2>2. \A q : Returned(q)' = Returned(q)
    BY DEF Returned
  <2>3. FailedInv'
    BY <1>0, <2>1, <2>2 DEF IInv, RequestInv, FailedInv
  <2>4. KnownInv'
    BY <1>0, <2>2 DEF IInv, RequestInv, KnownInv
  <2>5. QED
    BY <2>3, <2>4
<1>8. ReplyInv'
  <2>1. reply' = "none" /\ described' = {}
    BY <1>1 DEF IInv, RequestInv, StageInv
  <2>2. QED
    BY <2>1 DEF ReplyInv, SteadyIsAnswered, SteadyIsListed, PanicIsExplained, DescribedIsHeard
<1>9. QED
  BY <1>2, <1>3, <1>4, <1>5, <1>6, <1>7, <1>8 DEF IInv, RequestInv

\* An agent reports.
LEMMA ReportInv ==
  ASSUME NEW c \in Cluster, NEW r \in Reports PROVE IInv /\ Report(c, r) => IInv'
<1> SUFFICES ASSUME IInv, Report(c, r) PROVE IInv'
  OBVIOUS
<1>1. /\ stage # "done" /\ events' \in 0 .. MaxEvents
      /\ ever' = [ever EXCEPT ![c] = @ \cup r] /\ month' = [month EXCEPT ![c] = @ \cup r]
      /\ fresh' = [fresh EXCEPT ![c] = @ \cup r]
      /\ heard' = heard \cup (IF "active" \in r THEN {c} ELSE {})
      /\ UNCHANGED <<requestVars, stage, asked, answer, failed, fine, holes, steady, replyVars>>
  BY DEF Report, Event, IInv, TypeOK
<1>2. {ever, month, fresh}' \subseteq [Cluster -> SUBSET Metrics]
  BY <1>1 DEF IInv, TypeOK
<1>3. /\ \A d \in Cluster : /\ fresh'[d] \subseteq month'[d] /\ month'[d] \subseteq ever'[d]
                           /\ ever[d] \subseteq ever'[d] /\ fresh[d] \subseteq fresh'[d]
      /\ \A d \in Cluster : "active" \in fresh'[d] => "active" \in fresh[d] \/ d \in heard'
  BY <1>1 DEF IInv, TypeOK, RequestInv, StoreInv
<1>4. \A s \in steady : s[1] \in fresh'[s[2]]
  BY <1>1, <1>3 DEF IInv, RequestInv, StoreInv, All, Samples
<1>5. heard \subseteq heard' /\ heard' \subseteq Cluster
  BY <1>1 DEF IInv, TypeOK
<1>6. QED
  BY <1>1, <1>2, <1>3, <1>4, <1>5, StoreChanged

\* A cluster falls silent.
LEMMA FallSilentInv == ASSUME NEW c \in Cluster PROVE IInv /\ FallSilent(c) => IInv'
<1> SUFFICES ASSUME IInv, FallSilent(c) PROVE IInv'
  OBVIOUS
<1>1. /\ stage # "done" /\ events' \in 0 .. MaxEvents
      /\ fresh' = [fresh EXCEPT ![c] = {}] /\ steady' = {s \in steady : s[2] # c}
      /\ UNCHANGED <<ever, month, heard>> /\ UNCHANGED requestVars
      /\ UNCHANGED <<stage, asked, answer, failed, fine, holes, replyVars>>
  BY DEF FallSilent, Event, IInv, TypeOK
<1>2. {ever, month, fresh}' \subseteq [Cluster -> SUBSET Metrics] /\ heard \subseteq Cluster
  BY <1>1 DEF IInv, TypeOK
<1>3. \A d \in Cluster : /\ fresh'[d] \subseteq month[d] /\ month[d] \subseteq ever[d]
                         /\ "active" \in fresh'[d] => "active" \in fresh[d]
  BY <1>1 DEF IInv, TypeOK, RequestInv, StoreInv
<1>4. steady' \subseteq steady /\ \A s \in steady' : s[1] \in fresh'[s[2]]
  BY <1>1 DEF IInv, TypeOK, RequestInv, StoreInv, All, Samples
<1>5. QED
  BY <1>1, <1>2, <1>3, <1>4, StoreChanged

\* A month begins.
LEMMA NewMonthInv == IInv /\ NewMonth => IInv'
<1> SUFFICES ASSUME IInv, NewMonth PROVE IInv'
  OBVIOUS
<1>1. /\ stage # "done" /\ events' \in 0 .. MaxEvents /\ month' = fresh
      /\ UNCHANGED <<ever, fresh, heard, steady>> /\ UNCHANGED requestVars
      /\ UNCHANGED <<stage, asked, answer, failed, fine, holes, replyVars>>
  BY DEF NewMonth, Event, IInv, TypeOK
<1>2. {ever, month, fresh}' \subseteq [Cluster -> SUBSET Metrics] /\ heard \subseteq Cluster
  BY <1>1 DEF IInv, TypeOK
<1>3. \A d \in Cluster : fresh[d] \subseteq ever[d]
  BY DEF IInv, RequestInv, StoreInv
<1>4. \A s \in steady : s[1] \in fresh[s[2]]
  BY DEF IInv, RequestInv, StoreInv, All
<1>5. QED
  BY <1>1, <1>2, <1>3, <1>4, StoreChanged

-----------------------------------------------------------------------------
(* The request *)

\* A request comes: what is fresh now is what may be fresh all along.
LEMMA RequestComesInv == IInv /\ Request => IInv'
<1> SUFFICES ASSUME IInv, Request PROVE IInv'
  OBVIOUS
<1>1. /\ stage = "idle" /\ stage' = "property" /\ steady' = All(fresh)
      /\ heard' = {c \in Cluster : "active" \in fresh[c]}
      /\ UNCHANGED requestVars /\ UNCHANGED <<ever, month, fresh, events>>
      /\ UNCHANGED <<asked, answer, failed, fine, holes>> /\ UNCHANGED replyVars
  BY DEF Request, storeVars
<1>2. /\ UNCHANGED <<form, target, span>>
      /\ PropertyQueries' = PropertyQueries /\ BodyQueries' = BodyQueries
  BY <1>1, QueriesKept
<1>3. UNCHANGED <<reply, items, described, fields>>
  BY <1>1 DEF replyVars
<1>4. /\ asked = {} /\ answer = {} /\ ~failed /\ ~fine /\ reply = "none" /\ described = {}
  BY <1>1 DEF IInv, RequestInv, StageInv
<1>5. TypeOK'
  <2>1. steady' \subseteq Samples /\ heard' \subseteq Cluster
    BY <1>1 DEF All
  <2>2. /\ form' \in Forms /\ target' \in Cluster /\ span' \in Spans
        /\ {ever, month, fresh}' \subseteq [Cluster -> SUBSET Metrics]
        /\ events' \in 0 .. MaxEvents /\ holes' \in 0 .. MaxHoles
        /\ {failed, fine}' \subseteq BOOLEAN
    BY <1>1, <1>2 DEF IInv, TypeOK
  <2>3. /\ described' \subseteq items' /\ items' \subseteq Cluster
        /\ fields' \subseteq Metrics \X items'
        /\ reply' \in {"none", "data", "error", "notFound", "panic", "crash"}
    BY <1>3 DEF IInv, TypeOK
  <2>4. QED
    BY <1>1, <1>4, <2>1, <2>2, <2>3 DEF TypeOK
<1>6. StoreInv'
  BY <1>1 DEF IInv, RequestInv, StoreInv, All
<1>7. StageInv' /\ AnswerInv' /\ CompleteInv' /\ FailedInv' /\ KnownInv'
  BY <1>1, <1>2, <1>3, <1>4 DEF StageInv, AnswerInv, CompleteInv, FailedInv, KnownInv
<1>8. ReplyInv'
  BY <1>3, <1>4 DEF ReplyInv, SteadyIsAnswered, SteadyIsListed, PanicIsExplained, DescribedIsHeard
<1>9. QED
  BY <1>5, <1>6, <1>7, <1>8 DEF IInv, RequestInv

\* A query that is asked is a query of its round; with too many points it fails.
LEMMA Asked ==
  ASSUME IInv, NEW q, Ask(q)
  PROVE  /\ stage \in {"property", "body"} /\ q \notin asked /\ asked' = asked \cup {q}
         /\ stage = "property" => q \in PropertyQueries
         /\ stage = "body" => q \in BodyQueries /\ q \notin PropertyQueries
         /\ q \notin PropertyQueries /\ TooMany => TooManyPoints
         /\ Returned(q) = {}
<1>1. /\ stage \in {"property", "body"} /\ q \in Queries \ asked /\ asked' = asked \cup {q}
  BY DEF Ask
<1>2. /\ stage = "property" => q \in PropertyQueries
      /\ stage = "body" => q \in BodyQueries /\ q \notin PropertyQueries
  BY <1>1, RoundsDiffer DEF Queries, IInv, TypeOK
<1>3. q \notin PropertyQueries /\ TooMany => TooManyPoints
  BY <1>1, <1>2 DEF TooMany, TooManyPoints
<1>4. Returned(q) = {}
  BY <1>1 DEF Returned, IInv, RequestInv, AnswerInv
<1>5. QED
  BY <1>1, <1>2, <1>3, <1>4

\* A query has the samples S that it sees, or none.
LEMMA ReturnsInv ==
  ASSUME IInv, NEW q, NEW S, Returns(q, S), S = Sees(q) \/ (S = {} /\ holes' > 0),
         holes' \in 0 .. MaxHoles, holes' >= holes
  PROVE  IInv'
<1>1. /\ Ask(q) /\ ~TooManyPoints
      /\ answer' = answer \cup {<<q, s>> : s \in S}
      /\ IF S = {} /\ q \in Required THEN failed' = TRUE /\ UNCHANGED fine
                                     ELSE fine' = TRUE /\ UNCHANGED failed
      /\ UNCHANGED requestVars /\ UNCHANGED <<ever, month, fresh, events>>
      /\ UNCHANGED <<stage, steady, heard>> /\ UNCHANGED <<reply, items, described, fields>>
  BY DEF Returns, storeVars, replyVars
<1>2. /\ UNCHANGED <<form, target, span>>
      /\ PropertyQueries' = PropertyQueries /\ BodyQueries' = BodyQueries
      /\ ForAll' = ForAll /\ TooMany' = TooMany
      /\ \A p, s : About(p, s)' <=> About(p, s)
  BY <1>1, QueriesKept
<1>3. /\ stage \in {"property", "body"} /\ q \notin asked /\ asked' = asked \cup {q}
      /\ stage = "property" => q \in PropertyQueries
      /\ stage = "body" => q \in BodyQueries /\ q \notin PropertyQueries
      /\ q \in PropertyQueries \/ ~TooMany
      /\ Returned(q) = {}
  BY <1>1, Asked
<1>4. /\ \A s \in S : About(q, s) /\ s[1] \in ever[s[2]]
      /\ holes' = 0 => \A s \in steady : About(q, s) => s \in S
      /\ form # "details" /\ q = "activity" => \A s \in S : s[2] \in heard
  <2>1. /\ \A s \in Sees(q) : About(q, s) /\ s[1] \in ever[s[2]]
        /\ \A s \in steady : About(q, s) => s \in Sees(q)
        /\ form # "details" => \A s \in Sees("activity") : s[1] \in fresh[s[2]]
    BY SeesWhatIsThere DEF IInv, RequestInv, StoreInv
  <2>2. \A s \in Sees("activity") : s[1] = "active" /\ s[2] \in Cluster
    BY MetricsOfQueries DEF Sees, All, Samples
  <2>3. \A c \in Cluster : "active" \in fresh[c] => c \in heard
    BY <1>3 DEF IInv, RequestInv, StoreInv
  <2>4. form # "details" => \A s \in Sees("activity") : s[2] \in heard
    BY <2>1, <2>2, <2>3
  <2>5. QED
    BY <2>1, <2>4
<1>5. TypeOK'
  <2>1. asked' \subseteq PropertyQueries' \cup BodyQueries'
    BY <1>2, <1>3 DEF IInv, TypeOK
  <2>2. \A a \in answer' : a[1] \in asked' /\ a[2] \in Samples /\ a[2][1] \in MetricsOf(a[1])
    BY <1>1, <1>3, <1>4 DEF IInv, TypeOK, About
  <2>3. {failed, fine}' \subseteq BOOLEAN
    BY <1>1 DEF IInv, TypeOK
  <2>4. QED
    BY <1>1, <1>2, <2>1, <2>2, <2>3 DEF IInv, TypeOK
<1>6. StoreInv' /\ StageInv'
  BY <1>1, <1>2, <1>3 DEF IInv, RequestInv, StoreInv, StageInv, All
<1>7. AnswerInv'
  BY <1>1, <1>2, <1>3, <1>4 DEF IInv, RequestInv, AnswerInv
<1>8. CompleteInv'
  BY <1>1, <1>2, <1>3, <1>4 DEF IInv, TypeOK, RequestInv, CompleteInv, Got
<1>9. Required' = Required
  BY <1>1, <1>2 DEF Required, DetailQueries
<1>10. /\ \A p \in asked : Returned(p)' = Returned(p)
       /\ S = {} => Returned(q)' = {}
       /\ S # {} => Returned(q)' # {}
       /\ \A p : Returned(p) \subseteq Returned(p)'
  <2>1. \A p : {b \in answer : b[1] = p} \subseteq {b \in answer' : b[1] = p}
    BY <1>1
  <2>2. \A p \in asked : {b \in answer' : b[1] = p} = {b \in answer : b[1] = p}
    BY <1>1, <1>3
  <2>3. {b \in answer' : b[1] = q} = {<<q, s>> : s \in S}
    <3>1. \A b \in answer : b[1] # q
      BY <1>3 DEF IInv, RequestInv, AnswerInv
    <3>2. QED
      BY <1>1, <3>1
  <2>4. \A p \in asked : Returned(p)' = Returned(p)
    BY <2>2 DEF Returned
  <2>5. S = {} => Returned(q)' = {}
    BY <2>3 DEF Returned
  <2>6. ASSUME S # {} PROVE Returned(q)' # {}
    <3>1. PICK s \in S : TRUE
      BY <2>6
    <3>2. <<q, s>> \in {b \in answer' : b[1] = q} /\ <<q, s>>[2] = s
      BY <2>3
    <3>3. s \in Returned(q)'
      BY <3>2 DEF Returned
    <3>4. QED
      BY <3>3
  <2>7. \A p : Returned(p) \subseteq Returned(p)'
    BY <2>1 DEF Returned
  <2>8. QED
    BY <2>4, <2>5, <2>6, <2>7
<1>11. FailedInv'
  <2>1. ASSUME failed', holes' = 0
        PROVE  (TooMany /\ stage = "body") \/ \E p \in Required \cap asked' : Returned(p)' = {}
    <3>1. CASE S = {} /\ q \in Required
      BY <1>3, <1>10, <3>1
    <3>2. CASE ~(S = {} /\ q \in Required)
      <4>0. UNCHANGED failed
        BY <1>1, <3>2
      <4>1. failed /\ holes = 0
        BY <2>1, <4>0 DEF IInv, TypeOK
      <4>2. QED
        BY <1>3, <1>10, <4>1 DEF IInv, RequestInv, FailedInv
    <3>3. QED
      BY <3>1, <3>2
  <2>2. ~(stage = "body" /\ TooMany)
    BY <1>3
  <2>3. QED
    BY <1>1, <1>2, <1>9, <2>1, <2>2 DEF FailedInv
<1>12. KnownInv'
  <2>1. ASSUME stage = "property", fine', ~ForAll
        PROVE  \E p \in PropertyQueries : Returned(p)' # {}
    <3>1. Required = PropertyQueries
      BY <2>1 DEF Required
    <3>2. CASE S = {}
      BY <1>1, <1>3, <1>10, <2>1, <3>1, <3>2 DEF IInv, RequestInv, KnownInv
    <3>3. CASE S # {}
      BY <1>3, <1>10, <2>1, <3>3
    <3>4. QED
      BY <3>2, <3>3
  <2>2. ASSUME stage = "property", ~failed', ~ForAll
        PROVE  \A p \in asked' : Returned(p)' # {}
    <3>1. Required = PropertyQueries
      BY <2>2 DEF Required
    <3>2. S # {} /\ ~failed
      BY <1>1, <1>3, <2>2, <3>1
    <3>3. QED
      BY <1>3, <1>10, <2>2, <3>2 DEF IInv, RequestInv, KnownInv
  <2>3. ASSUME stage = "body", form \in {"clusterCosts", "clusterResources"}
        PROVE  \A p \in PropertyQueries : Returned(p)' # {}
    BY <1>10, <2>3 DEF IInv, RequestInv, KnownInv
  <2>4. QED
    BY <1>1, <1>2, <2>1, <2>2, <2>3 DEF KnownInv
<1>13. ReplyInv'
  <2>1. reply' = "none" /\ described' = {}
    BY <1>1, <1>3 DEF IInv, RequestInv, StageInv
  <2>2. QED
    BY <2>1 DEF ReplyInv, SteadyIsAnswered, SteadyIsListed, PanicIsExplained, DescribedIsHeard
<1>14. QED
  BY <1>5, <1>6, <1>7, <1>8, <1>11, <1>12, <1>13 DEF IInv, RequestInv

\* A query is evaluated, or its answer cannot be decoded.
LEMMA EvaluateInv == ASSUME NEW q PROVE IInv /\ (Evaluate(q) \/ Garble(q)) => IInv'
<1> SUFFICES ASSUME IInv, Evaluate(q) \/ Garble(q) PROVE IInv'
  OBVIOUS
<1>1. CASE Evaluate(q)
  <2>1. Returns(q, Sees(q)) /\ holes' = holes /\ holes \in 0 .. MaxHoles
    BY <1>1 DEF Evaluate, IInv, TypeOK
  <2>2. QED
    BY <2>1, ReturnsInv
<1>2. CASE Garble(q)
  <2>1. /\ Returns(q, {}) /\ holes' = holes + 1 /\ holes < MaxHoles
        /\ holes \in 0 .. MaxHoles
    BY <1>2 DEF Garble, IInv, TypeOK
  <2>2. QED
    BY <2>1, ReturnsInv
<1>3. QED
  BY <1>1, <1>2

\* A query fails: something went wrong, or there are too many points.
LEMMA QueryFailsInv == ASSUME NEW q PROVE IInv /\ QueryFails(q) => IInv'
<1> SUFFICES ASSUME IInv, QueryFails(q) PROVE IInv'
  OBVIOUS
<1>1. /\ Ask(q) /\ failed' = TRUE /\ UNCHANGED <<answer, fine, stage, steady, heard>>
      /\ UNCHANGED requestVars /\ UNCHANGED <<ever, month, fresh, events>>
      /\ UNCHANGED <<reply, items, described, fields>>
      /\ IF TooManyPoints THEN UNCHANGED holes ELSE holes < MaxHoles /\ holes' = holes + 1
  BY DEF QueryFails, storeVars, replyVars
<1>2. /\ UNCHANGED <<form, target, span>>
      /\ PropertyQueries' = PropertyQueries /\ BodyQueries' = BodyQueries
      /\ ForAll' = ForAll /\ TooMany' = TooMany
      /\ \A p, s : About(p, s)' <=> About(p, s)
  BY <1>1, QueriesKept
<1>3. /\ stage \in {"property", "body"} /\ q \notin asked /\ asked' = asked \cup {q}
      /\ stage = "property" => q \in PropertyQueries
      /\ stage = "body" => q \in BodyQueries /\ q \notin PropertyQueries
  BY <1>1, Asked
<1>4. /\ holes' \in 0 .. MaxHoles /\ holes' >= holes /\ holes \in Nat
      /\ holes' = 0 => TooManyPoints /\ TooMany /\ stage = "body" /\ holes = 0
  BY <1>1 DEF IInv, TypeOK, TooManyPoints, TooMany
<1>5. TypeOK'
  <2>1. asked' \subseteq PropertyQueries' \cup BodyQueries'
    BY <1>2, <1>3 DEF IInv, TypeOK
  <2>2. {failed, fine}' \subseteq BOOLEAN
    BY <1>1 DEF IInv, TypeOK
  <2>3. QED
    BY <1>1, <1>2, <1>3, <1>4, <2>1, <2>2 DEF IInv, TypeOK
<1>6. StoreInv' /\ StageInv' /\ AnswerInv'
  BY <1>1, <1>2, <1>3 DEF IInv, RequestInv, StoreInv, StageInv, AnswerInv, All
<1>7. CompleteInv'
  BY <1>1, <1>2, <1>3, <1>4 DEF IInv, RequestInv, CompleteInv, Got
<1>8. Required' = Required /\ \A p : Returned(p)' = Returned(p)
  BY <1>1, <1>2 DEF Required, DetailQueries, Returned
<1>9. FailedInv'
  BY <1>1, <1>2, <1>4, <1>8 DEF IInv, RequestInv, FailedInv
<1>10. KnownInv'
  BY <1>1, <1>2, <1>8 DEF IInv, RequestInv, KnownInv
<1>11. ReplyInv'
  <2>1. reply' = "none" /\ described' = {}
    BY <1>1, <1>3 DEF IInv, RequestInv, StageInv
  <2>2. QED
    BY <2>1 DEF ReplyInv, SteadyIsAnswered, SteadyIsListed, PanicIsExplained, DescribedIsHeard
<1>12. QED
  BY <1>5, <1>6, <1>7, <1>9, <1>10, <1>11 DEF IInv, RequestInv

-----------------------------------------------------------------------------
(* The end of a request *)

\* The step of a history is a positive number of seconds.
LEMMA StepIsPositive == \A n \in Nat : StepOf(n) \in Nat \ {0}
<1> SUFFICES ASSUME NEW n \in Nat PROVE StepOf(n) \in Nat \ {0}
  OBVIOUS
<1> DEFINE raw == IF n \div Limit <= 0 THEN Period ELSE n \div Limit
<1>1. Limit \in Nat \ {0} /\ Period \in Nat \ {0}
  OBVIOUS
<1>2. n \div Limit \in Int
  BY <1>1
<1>3. raw \in Nat \ {0}
  BY <1>1, <1>2
<1> HIDE DEF raw
<1>4. raw % Period \in 0 .. Period - 1 /\ raw \div Period \in Nat
  BY <1>1, <1>3
<1>5. (raw \div Period) * Period \in Nat
  BY <1>1, <1>4
<1>6. RoundUp(raw) \in Nat \ {0}
  BY <1>1, <1>3, <1>4, <1>5 DEF RoundUp
<1>7. QED
  BY <1>6 DEF StepOf, raw

\* What an answer holds.
LEMMA ReturnedIs ==
  ASSUME IInv, NEW q, NEW s \in Returned(q)
  PROVE  /\ q \in asked /\ About(q, s) /\ s[1] \in ever[s[2]]
         /\ s = <<s[1], s[2]>> /\ s[1] \in Metrics /\ s[2] \in Cluster
         /\ form # "details" /\ q = "activity" => s[2] \in heard
<1>1. PICK a \in answer : a[1] = q /\ a[2] = s
  BY DEF Returned
<1>2. q \in asked /\ About(q, s) /\ s[1] \in ever[s[2]]
      /\ (form # "details" /\ q = "activity" => s[2] \in heard)
  BY <1>1 DEF IInv, RequestInv, AnswerInv
<1>3. s \in Samples
  BY <1>2 DEF About
<1>4. QED
  BY <1>2, <1>3 DEF Samples

\* When the queries of a round have ended, what was there all along was returned.
LEMMA JoinedHasSteady ==
  ASSUME IInv, Joined, holes = 0, ~TooMany \/ stage = "property"
  PROVE  /\ \A q \in Queries, s \in steady : About(q, s) => s \in Returned(q)
         /\ \A q \in PropertyQueries, s \in steady : About(q, s) => s \in Returned(q)
<1>1. stage \in {"property", "body"} /\ Queries \subseteq asked
  BY DEF Joined
<1>2. PropertyQueries \subseteq asked
  BY <1>1 DEF IInv, RequestInv, StageInv, Queries
<1>3. \A q \in Queries : q \in PropertyQueries \/ ~TooMany
  BY DEF Queries
<1>4. \A q, s : Got(q, s) => s \in Returned(q)
  <2>1. SUFFICES ASSUME NEW q, NEW s, Got(q, s) PROVE s \in Returned(q)
    OBVIOUS
  <2>2. <<q, s>> \in {b \in answer : b[1] = q} /\ <<q, s>>[2] = s
    BY <2>1 DEF Got
  <2>3. QED
    BY <2>2 DEF Returned
<1>5. QED
  BY <1>1, <1>2, <1>3, <1>4 DEF IInv, RequestInv, CompleteInv

\* A query that found nothing is about a metric that was not there all along, unless
\* something went wrong.
LEMMA MissingIsNotSteady ==
  ASSUME IInv, Joined, holes = 0, ~TooMany \/ stage = "property",
         NEW q \in Required, Returned(q) = {}
  PROVE  /\ ~ForAll /\ \E m \in Metrics : <<m, target>> \notin steady
         /\ "active" \in MetricsOf(q) => ~SteadyActive(target)
<1>1. ~ForAll /\ q \in Queries /\ q \in PropertyQueries \cup BodyQueries
  BY DEF Required, Queries, Joined, BodyQueries, ClusterCostQueries, DetailQueries
<1>2. PICK m \in Metrics : m \in MetricsOf(q)
  BY <1>1, MetricsOfSome DEF IInv, TypeOK
<1>3. \A n \in Metrics : n \in MetricsOf(q) => <<n, target>> \notin steady
  <2>1. SUFFICES ASSUME NEW n \in Metrics, n \in MetricsOf(q), <<n, target>> \in steady
                 PROVE  FALSE
    OBVIOUS
  <2>2. About(q, <<n, target>>)
    BY <2>1 DEF About, Samples, IInv, TypeOK
  <2>3. QED
    BY <1>1, <2>1, <2>2, JoinedHasSteady
<1>4. "active" \in Metrics
  BY DEF Metrics
<1>5. QED
  BY <1>1, <1>2, <1>3, <1>4 DEF SteadyActive

\* A step that ends the request leaves everything but the response as it is: what is
\* left to show is that the response is right.
LEMMA EndInv ==
  ASSUME IInv, Joined, stage' = "done", UNCHANGED requestVars, UNCHANGED storeVars,
         UNCHANGED <<asked, answer, failed, fine, holes, steady, heard>>,
         reply' \in {"data", "error", "notFound", "panic", "crash"},
         described' \subseteq items', items' \subseteq Cluster,
         fields' \subseteq Metrics \X items',
         ReplyInv'
  PROVE  IInv'
<1>1. /\ UNCHANGED <<form, target, span>>
      /\ PropertyQueries' = PropertyQueries /\ BodyQueries' = BodyQueries
      /\ ForAll' = ForAll /\ TooMany' = TooMany
      /\ \A p, s : About(p, s)' <=> About(p, s)
  BY QueriesKept
<1>2. UNCHANGED <<ever, month, fresh, events>>
  BY DEF storeVars
<1>3. TypeOK'
  <2>1. \A a \in answer' : a[1] \in asked' /\ a[2] \in Samples /\ a[2][1] \in MetricsOf(a[1])
    BY DEF IInv, TypeOK
  <2>2. /\ form' \in Forms /\ target' \in Cluster /\ span' \in Spans
        /\ {ever, month, fresh}' \subseteq [Cluster -> SUBSET Metrics]
        /\ events' \in 0 .. MaxEvents /\ holes' \in 0 .. MaxHoles
        /\ {failed, fine}' \subseteq BOOLEAN
        /\ asked' \subseteq PropertyQueries' \cup BodyQueries'
        /\ steady' \subseteq Samples /\ heard' \subseteq Cluster
    BY <1>1, <1>2 DEF IInv, TypeOK
  <2>3. QED
    BY <2>1, <2>2 DEF TypeOK
<1>4. PropertyQueries \subseteq asked
  BY DEF Joined, Queries, IInv, RequestInv, StageInv
<1>5. StoreInv' /\ StageInv'
  BY <1>1, <1>2, <1>4 DEF Joined, IInv, RequestInv, StoreInv, StageInv, All
<1>6. AnswerInv' /\ CompleteInv'
  BY <1>1, <1>2 DEF IInv, RequestInv, AnswerInv, CompleteInv, Got
<1>7. FailedInv' /\ KnownInv'
  BY DEF FailedInv, KnownInv
<1>8. QED
  BY <1>3, <1>5, <1>6, <1>7 DEF IInv, RequestInv

\* A failure is answered with its status: not when all is well, since then no query
\* that needs an answer is without one.
LEMMA FailInv == IInv /\ Fail => IInv'
<1> SUFFICES ASSUME IInv, Fail PROVE IInv'
  OBVIOUS
<1>1. /\ Joined /\ failed /\ stage \in {"property", "body"} /\ stage' = "done"
      /\ reply' \in {"error", "notFound"}
      /\ UNCHANGED requestVars /\ UNCHANGED storeVars
      /\ UNCHANGED <<asked, answer, failed, fine, holes, steady, heard>>
      /\ UNCHANGED <<items, described, fields>>
  BY DEF Fail, JoinFails, Status, Joined
<1>2. /\ UNCHANGED <<form, target, span>> /\ ForAll' = ForAll /\ TooMany' = TooMany
      /\ UNCHANGED ever
  BY <1>1, QueriesKept DEF storeVars
<1>3. described = {} /\ described \subseteq items /\ items \subseteq Cluster
      /\ fields \subseteq Metrics \X items
  BY <1>1 DEF IInv, TypeOK, RequestInv, StageInv
<1>4. SteadyIsAnswered'
  <2>1. SUFFICES ASSUME holes = 0, ~TooMany,
                        ~ForAll => \A m \in Metrics : <<m, target>> \in steady
                 PROVE  FALSE
    <3>1. Concerned' = Concerned /\ StepOf(span)' = StepOf(span)
      BY <1>2 DEF Concerned, StepOf, RoundUp
    <3>2. ~ForAll => Concerned = {target}
      BY DEF Concerned
    <3>3. span \in Nat /\ StepOf(span) \in Nat \ {0}
      BY StepIsPositive DEF IInv, TypeOK
    <3>4. span \div StepOf(span) \in Int /\ Limit \in Int
      BY <3>3
    <3>5. QED
      BY <1>1, <1>2, <3>1, <3>2, <3>4 DEF SteadyIsAnswered, TooMany
  <2>2. PICK q \in Required \cap asked : Returned(q) = {}
    BY <1>1, <2>1 DEF IInv, RequestInv, FailedInv
  <2>3. QED
    BY <1>1, <2>1, <2>2, MissingIsNotSteady
<1>5. SteadyIsListed' /\ PanicIsExplained' /\ DescribedIsHeard'
  BY <1>1, <1>3 DEF SteadyIsListed, PanicIsExplained, DescribedIsHeard
<1>6. QED
  BY <1>1, <1>3, <1>4, <1>5, EndInv DEF ReplyInv

\* What a summary of one cluster reads the first element of is about its activity.
LEMMA ReadsActivity ==
  ASSUME IInv, Joined, NEW q \in Reads
  PROVE  /\ q \in Required /\ Returned(q) = {} /\ MetricsOf(q) = {"active"}
         /\ form \in {"clusterCosts", "clusterResources"} /\ ~ForAll
         /\ stage = "body" => form = "clusterCosts"
<1>1. form \in {"clusterCosts", "clusterResources"} /\ q \in Missing
  BY DEF Reads
<1>2. q \in Required /\ Returned(q) = {}
  BY <1>1 DEF Missing
<1>3. ~ForAll
  BY <1>1 DEF ForAll
<1>4. q \in {"activeTime", "activity", "monthTime", "monthActivity"}
      /\ (stage = "body" => form = "clusterCosts")
  BY <1>1, <1>2, <1>3 DEF Required, PropertyQueries
<1>5. QED
  BY <1>1, <1>2, <1>3, <1>4, MetricsOfQueries

\* An answer that is not there is read: its query went wrong, or the cluster, which
\* another answer knows, was silent.
LEMMA IndexPanicInv == IInv /\ IndexPanic => IInv'
<1> SUFFICES ASSUME IInv, IndexPanic PROVE IInv'
  OBVIOUS
<1>1. /\ Joined /\ MayLose /\ stage \in {"property", "body"} /\ stage' = "done"
      /\ reply' = IF stage = "body" THEN "crash" ELSE "panic"
      /\ UNCHANGED requestVars /\ UNCHANGED storeVars
      /\ UNCHANGED <<asked, answer, failed, fine, holes, steady, heard>>
      /\ UNCHANGED <<items, described, fields>>
  BY DEF IndexPanic, Joined
<1>2. /\ UNCHANGED <<form, target, span>> /\ ForAll' = ForAll /\ UNCHANGED ever
  BY <1>1, QueriesKept DEF storeVars
<1>3. described = {} /\ described \subseteq items /\ items \subseteq Cluster
      /\ fields \subseteq Metrics \X items
  BY <1>1 DEF IInv, TypeOK, RequestInv, StageInv
<1>4. PICK q \in Reads : TRUE
  BY DEF IndexPanic
<1>5. /\ q \in Required /\ Returned(q) = {} /\ MetricsOf(q) = {"active"}
      /\ form \in {"clusterCosts", "clusterResources"} /\ ~ForAll
      /\ stage = "body" => form = "clusterCosts"
  BY <1>1, <1>4, ReadsActivity
<1>6. holes = 0 => ~SteadyActive(target)
  BY <1>1, <1>5, MissingIsNotSteady DEF TooMany
<1>7. "active" \in ever[target]
  <2>1. PICK p \in PropertyQueries : Returned(p) # {}
    <3>1. PropertyQueries # {}
      BY DEF PropertyQueries
    <3>2. fine
      BY <1>1 DEF MayLose
    <3>3. QED
      BY <1>1, <1>5, <3>1, <3>2 DEF IInv, RequestInv, KnownInv
  <2>2. PICK s \in Returned(p) : TRUE
    BY <2>1
  <2>3. About(p, s) /\ s[1] \in ever[s[2]]
    BY <2>2, ReturnedIs
  <2>4. MetricsOf(p) = {"active"}
    BY <2>1, MetricsOfQueries DEF PropertyQueries
  <2>5. QED
    BY <1>5, <2>3, <2>4 DEF About
<1>8. SteadyIsAnswered'
  <2>1. "active" \in Metrics
    BY DEF Metrics
  <2>2. QED
    BY <1>1, <1>2, <1>5, <1>6, <2>1 DEF SteadyIsAnswered, Concerned, SteadyActive
<1>9. PanicIsExplained'
  <2>1. holes \in Nat
    BY DEF IInv, TypeOK
  <2>2. QED
    BY <1>1, <1>2, <1>5, <1>6, <1>7, <2>1 DEF PanicIsExplained, Concerned, SteadyActive
<1>10. SteadyIsListed' /\ DescribedIsHeard'
  BY <1>1, <1>3 DEF SteadyIsListed, DescribedIsHeard
<1>11. QED
  BY <1>1, <1>3, <1>8, <1>9, <1>10, EndInv DEF ReplyInv

\* The property is known: a cluster that was asked for was found by both queries.
LEMMA PropertyKnownInv == IInv /\ PropertyKnown => IInv'
<1> SUFFICES ASSUME IInv, PropertyKnown PROVE IInv'
  OBVIOUS
<1>1. /\ GoesOn /\ Joined /\ stage = "property" /\ stage' = "body" /\ ~failed' /\ ~fine'
      /\ failed' = FALSE /\ fine' = FALSE
      /\ UNCHANGED requestVars /\ UNCHANGED <<ever, month, fresh, events>>
      /\ UNCHANGED <<asked, answer, holes, steady, heard>>
      /\ UNCHANGED <<reply, items, described, fields>>
  BY DEF PropertyKnown, GoesOn, storeVars, replyVars
<1>2. /\ UNCHANGED <<form, target, span>>
      /\ PropertyQueries' = PropertyQueries /\ BodyQueries' = BodyQueries
      /\ ForAll' = ForAll /\ TooMany' = TooMany
      /\ \A p, s : About(p, s)' <=> About(p, s)
  BY <1>1, QueriesKept
<1>3. PropertyQueries \subseteq asked /\ asked \subseteq PropertyQueries
  BY <1>1 DEF Joined, Queries, IInv, RequestInv, StageInv
<1>4. TypeOK'
  <2>1. \A a \in answer' : a[1] \in asked' /\ a[2] \in Samples /\ a[2][1] \in MetricsOf(a[1])
    BY <1>1 DEF IInv, TypeOK
  <2>2. asked' \subseteq PropertyQueries' \cup BodyQueries' /\ {failed, fine}' \subseteq BOOLEAN
    BY <1>1, <1>2 DEF IInv, TypeOK
  <2>3. QED
    BY <1>1, <1>2, <2>1, <2>2 DEF IInv, TypeOK
<1>5. StoreInv' /\ StageInv' /\ AnswerInv' /\ CompleteInv'
  BY <1>1, <1>2, <1>3 DEF IInv, RequestInv, StoreInv, StageInv, AnswerInv, CompleteInv, All, Got
<1>6. FailedInv'
  <2>1. PropertyQueries \cap BodyQueries = {}
    BY RoundsDiffer DEF IInv, TypeOK
  <2>2. QED
    BY <1>1, <1>2, <1>3, <2>1 DEF FailedInv
<1>7. KnownInv'
  <2>1. SUFFICES ASSUME form \in {"clusterCosts", "clusterResources"}, NEW q \in PropertyQueries
                 PROVE  Returned(q) # {}
    BY <1>1, <1>2 DEF KnownInv, Returned
  <2>2. ~ForAll /\ Required = PropertyQueries
    BY <1>1, <2>1 DEF ForAll, Required
  <2>3. CASE ~failed
    BY <1>1, <1>3, <2>2, <2>3 DEF IInv, RequestInv, KnownInv
  <2>4. CASE failed
    BY <1>1, <2>1, <2>2, <2>4 DEF GoesOn, JoinFails, Reads, Missing
  <2>5. QED
    BY <2>3, <2>4
<1>8. ReplyInv'
  <2>1. reply' = "none" /\ described' = {}
    BY <1>1 DEF IInv, RequestInv, StageInv
  <2>2. QED
    BY <2>1 DEF ReplyInv, SteadyIsAnswered, SteadyIsListed, PanicIsExplained, DescribedIsHeard
<1>9. QED
  BY <1>4, <1>5, <1>6, <1>7, <1>8 DEF IInv, RequestInv

-----------------------------------------------------------------------------
(* The response *)

\* Every cluster that the request depends on reports everything all along, or never.
AllSteady ==
  \A c \in Concerned : (\A m \in Metrics : <<m, c>> \in steady) \/ (ForAll /\ ever[c] = {})

\* A response is right if it is data when all is well, has what was there all along,
\* describes who was heard, and panics over a cluster that was silent.
LEMMA RespondInv ==
  ASSUME IInv, Joined, stage = "body", NEW how, NEW C, NEW D, NEW S,
         Respond(how, C, D, S), how \in {"data", "error", "panic"},
         D \subseteq C, C \subseteq Cluster, S \subseteq Metrics \X C,
         holes = 0 /\ ~TooMany /\ AllSteady => how = "data",
         how = "data" /\ holes = 0 =>
           \A s \in steady :
             s[1] \in BodyMetrics /\ s[2] \in Concerned /\ SteadyActive(s[2]) =>
               /\ s[2] \in D
               /\ \/ s \in S
                  \/ /\ form = "resources" /\ s[1] \in PodStatuses
                     /\ \E p \in PodStatuses : <<p, s[2]>> \in S,
         how = "panic" =>
           /\ form \notin {"resources", "details"}
           /\ holes > 0 \/ \E c \in Concerned : "active" \in ever[c] /\ ~SteadyActive(c),
         form # "details" => D \subseteq heard
  PROVE  IInv'
<1>1. /\ stage' = "done" /\ reply' = how /\ items' = C /\ described' = D /\ fields' = S
      /\ UNCHANGED requestVars /\ UNCHANGED storeVars
      /\ UNCHANGED <<asked, answer, failed, fine, holes, steady, heard>>
  BY DEF Respond
<1>2. /\ UNCHANGED <<form, target, span>> /\ ForAll' = ForAll /\ BodyQueries' = BodyQueries
      /\ UNCHANGED ever
  BY <1>1, QueriesKept DEF storeVars
<1>3. /\ Concerned' = Concerned /\ BodyMetrics' = BodyMetrics
      /\ StepOf(span)' = StepOf(span)
  BY <1>2 DEF Concerned, BodyMetrics, StepOf, RoundUp
<1>4. \A c : SteadyActive(c)' <=> SteadyActive(c)
  BY <1>1 DEF SteadyActive
<1>5. SteadyIsAnswered'
  <2>1. span \in Nat /\ StepOf(span) \in Nat \ {0}
    BY StepIsPositive DEF IInv, TypeOK
  <2>2. span \div StepOf(span) \in Int /\ Limit \in Int
    BY <2>1
  <2>3. QED
    BY <1>1, <1>2, <1>3, <2>2 DEF SteadyIsAnswered, TooMany, AllSteady
<1>6. SteadyIsListed'
  BY <1>1, <1>2, <1>3, <1>4 DEF SteadyIsListed
<1>7. PanicIsExplained' /\ DescribedIsHeard'
  BY <1>1, <1>2, <1>3, <1>4 DEF PanicIsExplained, DescribedIsHeard
<1>8. QED
  BY <1>1, <1>5, <1>6, <1>7, EndInv DEF ReplyInv

\* The samples of the second round are of the clusters the request depends on, and
\* with every answer hold what was there all along.
LEMMA BodySamplesAre ==
  ASSUME IInv, Joined, stage = "body"
  PROVE  /\ \A s \in BodySamples : /\ s = <<s[1], s[2]>> /\ s[1] \in Metrics
                                   /\ s[2] \in Concerned /\ s[2] \in Cluster
         /\ holes = 0 /\ ~TooMany =>
              \A s \in steady : s[1] \in BodyMetrics /\ s[2] \in Concerned => s \in BodySamples
<1>1. \A s \in BodySamples : /\ s = <<s[1], s[2]>> /\ s[1] \in Metrics
                             /\ s[2] \in Concerned /\ s[2] \in Cluster
  <2>1. SUFFICES ASSUME NEW q \in BodyQueries, NEW s \in Returned(q)
                 PROVE  /\ s = <<s[1], s[2]>> /\ s[1] \in Metrics
                        /\ s[2] \in Concerned /\ s[2] \in Cluster
    BY DEF BodySamples
  <2>2. QED
    BY ReturnedIs DEF About, Concerned
<1>2. ASSUME holes = 0, ~TooMany, NEW s \in steady, s[1] \in BodyMetrics, s[2] \in Concerned
      PROVE  s \in BodySamples
  <2>1. PICK q \in BodyQueries : s[1] \in MetricsOf(q)
    BY <1>2 DEF BodyMetrics
  <2>2. About(q, s)
    BY <1>2, <2>1 DEF About, Concerned, IInv, TypeOK
  <2>3. q \in Queries
    BY DEF Queries
  <2>4. s \in Returned(q)
    BY <1>2, <2>2, <2>3, JoinedHasSteady
  <2>5. QED
    BY <2>4 DEF BodySamples
<1>3. QED
  BY <1>1, <1>2

\* A query about activity, or the count of cores, names the clusters for which that
\* was there all along.
LEMMA SteadyIsNamed ==
  ASSUME IInv, Joined, stage = "body", holes = 0, ~TooMany,
         NEW c \in Concerned, NEW m \in {"active", "total"}, <<m, c>> \in steady,
         NEW q \in PropertyQueries \cup BodyQueries, MetricsOf(q) = {m}
  PROVE  c \in ClustersOf(q)
<1>1. About(q, <<m, c>>)
  BY DEF About, Concerned, IInv, TypeOK
<1>2. <<m, c>> \in Returned(q)
  BY <1>1, JoinedHasSteady DEF Queries
<1>3. QED
  BY <1>2 DEF ClustersOf

\* Those that have a property are clusters that were heard; who was active all along
\* has one.
LEMMA DescribedAre ==
  ASSUME IInv, Joined, stage = "body", form # "details"
  PROVE  /\ Described \subseteq heard /\ Described \subseteq Cluster
         /\ holes = 0 => \A c \in Concerned : SteadyActive(c) => c \in Described
<1>1. Described \subseteq heard /\ Described \subseteq Cluster
  <2>1. \A s \in Returned("activity") : s[2] \in heard /\ s[2] \in Cluster
    BY ReturnedIs
  <2>2. QED
    BY <2>1 DEF Described, ClustersOf
<1>2. ASSUME holes = 0, NEW c \in Concerned, SteadyActive(c) PROVE c \in Described
  <2>1. {"activeTime", "activity"} \subseteq PropertyQueries /\ ~TooMany
    BY DEF PropertyQueries, TooMany
  <2>2. c \in ClustersOf("activeTime") /\ c \in ClustersOf("activity")
    BY <1>2, <2>1, SteadyIsNamed, MetricsOfQueries DEF SteadyActive
  <2>3. QED
    BY <2>2 DEF Described
<1>3. QED
  BY <1>1, <1>2

\* The one cluster that is asked for was heard.
LEMMA TargetIsHeard ==
  ASSUME IInv, Joined, stage = "body", form \in {"clusterCosts", "clusterResources"}
  PROVE  target \in heard
<1>1. PICK s \in Returned("activity") : TRUE
  BY DEF IInv, RequestInv, KnownInv, PropertyQueries
<1>2. About("activity", s) /\ s[2] \in heard
  BY <1>1, ReturnedIs
<1>3. QED
  BY <1>2 DEF About, ForAll

\* The costs of all clusters.
LEMMA CostsListInv == IInv /\ Joined /\ stage = "body" /\ CostsList => IInv'
<1> SUFFICES ASSUME IInv, Joined, stage = "body", CostsList PROVE IInv'
  OBVIOUS
<1>1. form = "costs" /\ ForAll /\ Concerned = Cluster /\ ~TooMany
      /\ BodyQueries = {"monthTime", "monthActivity", "monthCost", "cpuCost", "cpuCount"}
  BY DEF CostsList, ForAll, Concerned, TooMany, BodyQueries, AllCostQueries
<1>2. \A c \in Costed : c \in Cluster /\ "active" \in ever[c]
  <2>1. \A s \in Returned("monthTime") : s[2] \in Cluster /\ "active" \in ever[s[2]]
    BY ReturnedIs, MetricsOfQueries DEF About
  <2>2. QED
    BY <2>1 DEF Costed, ClustersOf
<1>3. "active" \in Metrics /\ "total" \in Metrics
  BY DEF Metrics
<1>4. holes = 0 => \A c \in Cluster : SteadyActive(c) => c \in Described /\ c \in Costed
  <2>1. ASSUME holes = 0, NEW c \in Cluster, SteadyActive(c) PROVE c \in Described
    BY <1>1, <2>1, DescribedAre
  <2>2. ASSUME holes = 0, NEW c \in Cluster, SteadyActive(c) PROVE c \in Costed
    <3>1. c \in ClustersOf("monthTime") /\ c \in ClustersOf("monthActivity")
      BY <1>1, <2>2, SteadyIsNamed, MetricsOfQueries DEF SteadyActive
    <3>2. QED
      BY <3>1 DEF Costed
  <2>3. QED
    BY <2>1, <2>2
<1>5. AllSteady => \A c \in Costed : SteadyActive(c) /\ <<"total", c>> \in steady
  BY <1>1, <1>2, <1>3 DEF AllSteady, SteadyActive
<1>6. holes \in Nat
  BY DEF IInv, TypeOK
<1>7. CASE ~(Costed \subseteq Described)
  <2>1. Respond("panic", {}, {}, {})
    BY <1>7 DEF CostsList, Nothing
  <2>2. PICK c \in Costed : c \notin Described
    BY <1>7
  <2>3. holes = 0 => ~SteadyActive(c)
    BY <1>2, <1>4, <2>2
  <2>4. holes = 0 /\ ~TooMany => ~AllSteady
    BY <1>5, <2>2, <2>3
  <2>5. holes > 0 \/ \E d \in Concerned : "active" \in ever[d] /\ ~SteadyActive(d)
    BY <1>1, <1>2, <1>6, <2>2, <2>3
  <2>6. QED
    BY <1>1, <2>1, <2>4, <2>5, RespondInv
<1>8. CASE Costed \subseteq Described /\ Unencodable(Costed)
  <2>1. Respond("error", {}, {}, {})
    BY <1>8 DEF CostsList, Nothing
  <2>2. PICK c \in Costed : c \notin ClustersOf("cpuCount")
    BY <1>8 DEF Unencodable
  <2>3. holes = 0 => <<"total", c>> \notin steady
    BY <1>1, <1>2, <2>2, SteadyIsNamed, MetricsOfQueries
  <2>4. holes = 0 /\ ~TooMany => ~AllSteady
    BY <1>5, <2>2, <2>3
  <2>5. QED
    BY <2>1, <2>4, RespondInv
<1>9. CASE Costed \subseteq Described /\ ~Unencodable(Costed)
  <2>1. Respond("data", Costed, Costed, Of(BodySamples, Costed))
    BY <1>9 DEF CostsList
  <2>2. Costed \subseteq Cluster /\ Costed \subseteq heard
    BY <1>1, <1>2, <1>9, DescribedAre
  <2>3. Of(BodySamples, Costed) \subseteq Metrics \X Costed
    BY BodySamplesAre DEF Of
  <2>4. ASSUME holes = 0, NEW s \in steady, s[1] \in BodyMetrics, s[2] \in Concerned,
               SteadyActive(s[2])
        PROVE  s[2] \in Costed /\ s \in Of(BodySamples, Costed)
    BY <1>1, <1>4, <2>4, BodySamplesAre DEF Of
  <2>5. QED
    BY <2>1, <2>2, <2>3, <2>4, RespondInv
<1>10. QED
  BY <1>7, <1>8, <1>9

\* The samples of the one cluster that is asked for are its own, and all that was
\* there all along.
LEMMA OneCluster ==
  ASSUME IInv, Joined, stage = "body", ~ForAll
  PROVE  /\ Concerned = {target} /\ target \in Cluster
         /\ BodySamples \subseteq Metrics \X {target}
         /\ holes = 0 /\ ~TooMany =>
              \A s \in steady : s[1] \in BodyMetrics /\ s[2] \in Concerned =>
                s[2] \in {target} /\ s \in BodySamples
<1>1. Concerned = {target} /\ target \in Cluster
  BY DEF Concerned, IInv, TypeOK
<1>2. BodySamples \subseteq Metrics \X {target}
  BY <1>1, BodySamplesAre
<1>3. QED
  BY <1>1, <1>2, BodySamplesAre

\* The costs of a cluster.
LEMMA ClusterCostsInv == IInv /\ Joined /\ stage = "body" /\ ClusterCosts => IInv'
<1> SUFFICES ASSUME IInv, Joined, stage = "body", ClusterCosts PROVE IInv'
  OBVIOUS
<1>1. form = "clusterCosts" /\ ~ForAll /\ ~TooMany /\ "cpuCount" \in BodyQueries
  BY DEF ClusterCosts, ForAll, TooMany, BodyQueries, ClusterCostQueries
<1>2. Concerned = {target} /\ target \in heard /\ target \in Cluster
  BY <1>1, OneCluster, TargetIsHeard
<1>3. CASE Unencodable({target})
  <2>1. Respond("error", {}, {}, {})
    BY <1>3 DEF ClusterCosts, Nothing
  <2>2. holes = 0 => <<"total", target>> \notin steady
    BY <1>1, <1>2, <1>3, SteadyIsNamed, MetricsOfQueries DEF Unencodable
  <2>3. holes = 0 => ~AllSteady
    BY <1>1, <1>2, <2>2 DEF AllSteady, Metrics
  <2>4. QED
    BY <2>1, <2>3, RespondInv
<1>4. CASE ~Unencodable({target})
  <2>1. Respond("data", {target}, {target}, BodySamples)
    BY <1>4 DEF ClusterCosts
  <2>2. QED
    BY <1>1, <1>2, <2>1, OneCluster, RespondInv
<1>5. QED
  BY <1>3, <1>4

\* The resources of a cluster.
LEMMA ClusterResourcesInv == IInv /\ Joined /\ stage = "body" /\ ClusterResources => IInv'
<1> SUFFICES ASSUME IInv, Joined, stage = "body", ClusterResources PROVE IInv'
  OBVIOUS
<1>1. form = "clusterResources" /\ ~ForAll /\ ~TooMany
  BY DEF ClusterResources, ForAll, TooMany
<1>2. target \in heard
  BY <1>1, TargetIsHeard
<1>3. Respond("data", {target}, {target}, BodySamples)
  BY DEF ClusterResources
<1>4. QED
  BY <1>1, <1>2, <1>3, OneCluster, RespondInv

\* The history of a cluster: with too many points the request has failed before.
LEMMA DetailsInv == IInv /\ GoesOn /\ stage = "body" /\ Details => IInv'
<1> SUFFICES ASSUME IInv, GoesOn, stage = "body", Details PROVE IInv'
  OBVIOUS
<1>1. form = "details" /\ ~ForAll /\ Joined /\ (failed => fine)
  BY DEF Details, ForAll, GoesOn, JoinFails, MayLose
<1>2. asked \cap BodyQueries # {}
  <2>1. "total" \in BodyQueries /\ BodyQueries \subseteq asked
    BY <1>1 DEF BodyQueries, DetailQueries, Joined, Queries
  <2>2. QED
    BY <2>1
<1>3. ~TooMany
  BY <1>1, <1>2 DEF IInv, RequestInv, FailedInv
<1>4. Respond("data", {target}, {target}, BodySamples)
  BY DEF Details
<1>5. QED
  BY <1>1, <1>3, <1>4, OneCluster, RespondInv

\* Of two pod statuses that were both returned, the overwritten one is not both.
LEMMA OneStatusLeft ==
  ASSUME NEW S, NEW L, Overwritten(S, L), NEW c \in Cluster, NEW s \in L,
         s \in PodStatuses \X {c}
  PROVE  \E p \in PodStatuses : <<p, c>> \in S \ L
<1> DEFINE a == <<"podsScheduled", c>>
           b == <<"podsUnscheduled", c>>
           both == PodStatuses \X {c}
<1>1. both = {a, b} /\ a # b
  BY DEF PodStatuses
<1>2. L \subseteq S /\ Cardinality(L \cap both) = IF both \subseteq S THEN 1 ELSE 0
  BY DEF Overwritten
<1>3. s \in L \cap both
  OBVIOUS
<1> HIDE DEF a, b, both
<1>4. IsFiniteSet(L \cap both)
  <2>1. IsFiniteSet(({} \cup {a}) \cup {b})
    BY FS_EmptySet, FS_AddElement
  <2>2. both = ({} \cup {a}) \cup {b}
    BY <1>1
  <2>3. QED
    BY <2>1, <2>2, FS_Subset
<1>5. both \subseteq S
  <2>1. Cardinality(L \cap both) # 0
    BY <1>3, <1>4, FS_EmptySet
  <2>2. QED
    BY <1>2, <2>1
<1>6. ~(both \subseteq L)
  <2>1. SUFFICES ASSUME both \subseteq L PROVE FALSE
    OBVIOUS
  <2>2. L \cap both = both /\ Cardinality(both) = 1
    BY <1>2, <1>5, <2>1
  <2>3. PICK x : both = {x}
    BY <1>4, <2>2, FS_Singleton
  <2>4. a \in both /\ b \in both
    BY <1>1
  <2>5. QED
    BY <1>1, <2>3, <2>4
<1>7. PICK x \in both : x \notin L
  BY <1>6
<1>8. x \in S /\ \E p \in PodStatuses : x = <<p, c>>
  BY <1>1, <1>5, <1>7 DEF a, b, PodStatuses
<1>9. QED
  BY <1>7, <1>8

\* The resources of all clusters.
LEMMA ResourcesListInv == IInv /\ Joined /\ stage = "body" /\ ResourcesList => IInv'
<1> SUFFICES ASSUME IInv, Joined, stage = "body", ResourcesList PROVE IInv'
  OBVIOUS
<1> DEFINE C == {s[2] : s \in BodySamples}
<1>1. form = "resources" /\ ForAll /\ Concerned = Cluster /\ ~TooMany
  BY DEF ResourcesList, ForAll, Concerned, TooMany
<1>2. PICK lost \in SUBSET (PodStatuses \X C) :
        /\ Overwritten(BodySamples, lost)
        /\ Respond("data", C, C \cap Described, BodySamples \ lost)
  BY DEF ResourcesList, Merged
<1>3. \A s \in BodySamples : s = <<s[1], s[2]>> /\ s[1] \in Metrics /\ s[2] \in Cluster
                             /\ s[2] \in C
  BY BodySamplesAre
<1>4. C \subseteq Cluster
  BY <1>3
<1> HIDE DEF C
<1>5. BodySamples \ lost \subseteq Metrics \X C
  BY <1>3
<1>6. C \cap Described \subseteq heard
  BY <1>1, DescribedAre
<1>7. ASSUME holes = 0, NEW s \in steady, s[1] \in BodyMetrics, s[2] \in Concerned,
             SteadyActive(s[2])
      PROVE  /\ s[2] \in C \cap Described
             /\ \/ s \in BodySamples \ lost
                \/ /\ form = "resources" /\ s[1] \in PodStatuses
                   /\ \E p \in PodStatuses : <<p, s[2]>> \in BodySamples \ lost
  <2>1. s \in BodySamples /\ s[2] \in C /\ s[2] \in Cluster
    BY <1>1, <1>3, <1>7, BodySamplesAre
  <2>2. s[2] \in Described
    BY <1>1, <1>7, DescribedAre
  <2>3. CASE s \in lost
    <3>1. s[1] \in PodStatuses /\ s \in PodStatuses \X {s[2]}
      BY <1>2, <2>3
    <3>2. QED
      BY <1>1, <1>2, <2>1, <2>2, <2>3, <3>1, OneStatusLeft
  <2>4. QED
    BY <2>1, <2>2, <2>3
<1>8. QED
  BY <1>1, <1>2, <1>4, <1>5, <1>6, <1>7, RespondInv

\* The answers become a response.
LEMMA ConvertInv == IInv /\ Convert => IInv'
BY CostsListInv, ClusterCostsInv, ResourcesListInv, ClusterResourcesInv, DetailsInv
   DEF Convert, GoesOn

-----------------------------------------------------------------------------
(* The theorems *)

\* Every step keeps the invariant.
LEMMA NextInv == IInv /\ [Next]_vars => IInv'
<1> SUFFICES ASSUME IInv, [Next]_vars PROVE IInv'
  OBVIOUS
<1>1. ASSUME NEW c \in Cluster, NEW r \in Reports, Report(c, r) PROVE IInv'
  BY <1>1, ReportInv
<1>2. ASSUME NEW c \in Cluster, FallSilent(c) PROVE IInv'
  BY <1>2, FallSilentInv
<1>3. ASSUME NEW q \in Queries, Evaluate(q) \/ Garble(q) \/ QueryFails(q) PROVE IInv'
  BY <1>3, EvaluateInv, QueryFailsInv
<1>4. CASE UNCHANGED vars
  <2>1. /\ UNCHANGED requestVars /\ UNCHANGED <<form, target, span>>
        /\ UNCHANGED <<ever, month, fresh, events>>
        /\ UNCHANGED <<stage, asked, answer, failed, fine, holes, steady, heard>>
        /\ UNCHANGED <<reply, items, described, fields>>
    BY <1>4 DEF vars, requestVars, storeVars, replyVars
  <2>2. /\ PropertyQueries' = PropertyQueries /\ BodyQueries' = BodyQueries
        /\ ForAll' = ForAll /\ TooMany' = TooMany
        /\ \A p, s : About(p, s)' <=> About(p, s)
    BY <2>1, QueriesKept
  <2>3. Required' = Required /\ \A p : Returned(p)' = Returned(p)
    BY <2>1, <2>2 DEF Required, DetailQueries, Returned
  <2>4. TypeOK'
    <3>1. \A a \in answer' : a[1] \in asked' /\ a[2] \in Samples /\ a[2][1] \in MetricsOf(a[1])
      BY <2>1 DEF IInv, TypeOK
    <3>2. asked' \subseteq PropertyQueries' \cup BodyQueries'
      BY <2>1, <2>2 DEF IInv, TypeOK
    <3>3. QED
      BY <2>1, <3>1, <3>2 DEF IInv, TypeOK
  <2>5. StoreInv' /\ StageInv' /\ AnswerInv' /\ CompleteInv'
    BY <2>1, <2>2 DEF IInv, RequestInv, StoreInv, StageInv, AnswerInv, CompleteInv, All, Got
  <2>6. FailedInv' /\ KnownInv'
    BY <2>1, <2>2, <2>3 DEF IInv, RequestInv, FailedInv, KnownInv
  <2>7. ReplyInv'
    <3>1. /\ Concerned' = Concerned /\ BodyMetrics' = BodyMetrics
          /\ StepOf(span)' = StepOf(span) /\ \A c : SteadyActive(c)' <=> SteadyActive(c)
      BY <2>1, <2>2 DEF Concerned, BodyMetrics, StepOf, RoundUp, SteadyActive
    <3>2. SteadyIsAnswered'
      BY <2>1, <2>2, <3>1 DEF IInv, ReplyInv, SteadyIsAnswered
    <3>3. SteadyIsListed'
      BY <2>1, <3>1 DEF IInv, ReplyInv, SteadyIsListed
    <3>4. PanicIsExplained' /\ DescribedIsHeard'
      BY <2>1, <3>1 DEF IInv, ReplyInv, PanicIsExplained, DescribedIsHeard
    <3>5. QED
      BY <3>2, <3>3, <3>4 DEF ReplyInv
  <2>8. QED
    BY <2>4, <2>5, <2>6, <2>7 DEF IInv, RequestInv
<1>5. QED
  BY <1>1, <1>2, <1>3, <1>4, NewMonthInv, RequestComesInv, FailInv, IndexPanicInv,
     PropertyKnownInv, ConvertInv DEF Next

\* The inductive invariant of the summaries.
LEMMA Invariant == Spec => []IInv
BY InitInv, NextInv, PTL DEF Spec

\* Every variable has its type: an answer is about what its query asks for.
THEOREM SummaryTypeCorrect == Spec => []TypeOK
<1>1. IInv => TypeOK
  BY DEF IInv
<1>2. QED
  BY Invariant, <1>1, PTL

\* A request over clusters that report everything all along, or never, is answered
\* with data, however its two rounds of queries and the reports interleave.
THEOREM SteadyAnswered == Spec => []SteadyIsAnswered
<1>1. IInv => SteadyIsAnswered
  BY DEF IInv, ReplyInv
<1>2. QED
  BY Invariant, <1>1, PTL

\* What was reported all along is in the response, but for one of the two schedule
\* statuses of the pods where all clusters are listed.
THEOREM SteadyListed == Spec => []SteadyIsListed
<1>1. IInv => SteadyIsListed
  BY DEF IInv, ReplyInv
<1>2. QED
  BY Invariant, <1>1, PTL

\* A panic needs a query that went wrong or a cluster that was silent for some time.
THEOREM PanicExplained == Spec => []PanicIsExplained
<1>1. IInv => PanicIsExplained
  BY DEF IInv, ReplyInv
<1>2. QED
  BY Invariant, <1>1, PTL

\* A cluster that was silent throughout a request is not described as running.
THEOREM DescribedHeard == Spec => []DescribedIsHeard
<1>1. IInv => DescribedIsHeard
  BY DEF IInv, ReplyInv
<1>2. QED
  BY Invariant, <1>1, PTL
=============================================================================

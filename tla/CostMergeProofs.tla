-------------------------- MODULE CostMergeProofs --------------------------
(***************************************************************************)
(* Proofs about CostMerge, for any names, timestamps and reports: its type *)
(* correctness, that the table given to a caller is exactly that of the    *)
(* answers, that the merge panics exactly when namespaces have a gap, and  *)
(* that nothing is lost between the store and the caller.                  *)
(***************************************************************************)
EXTENDS CostMerge, TLAPS

-----------------------------------------------------------------------------
(* The order of the answers.                                               *)

\* Each form has its fields once, the costs first.
LEMMA StagesFacts ==
  ASSUME form \in Forms
  PROVE  /\ Len(Stages) \in Nat \ {0}
         /\ DOMAIN Stages = 1..Len(Stages)
         /\ \A i \in 1..Len(Stages) : Stages[i] \in Fields
         /\ \A i, j \in 1..Len(Stages) : Stages[i] = Stages[j] => i = j
         /\ Stages[1] = "cost"
<1> USE DEF Fields
<1>1. CASE form = "namespace"
  <2>1. Stages = NamespaceStages
    BY <1>1 DEF Stages
  <2> QED
    BY <2>1 DEF NamespaceStages
<1>2. CASE form = "workload"
  <2>1. Stages = WorkloadStages
    BY <1>2 DEF Stages
  <2> QED
    BY <2>1 DEF WorkloadStages
<1>3. CASE form = "pod"
  <2>1. Stages = PodStages
    BY <1>3 DEF Stages
  <2> QED
    BY <2>1 DEF PodStages
<1>4. CASE form = "resource"
  <2>1. Stages = ResourceStages
    BY <1>4 DEF Stages
  <2> QED
    BY <2>1 DEF ResourceStages
<1> QED
  BY <1>1, <1>2, <1>3, <1>4 DEF Forms

\* A query asks for something, and only for fields that are merged.
LEMMA QueriesFacts ==
  ASSUME form \in Forms, NEW Q \in Queries
  PROVE  Q # {} /\ Q \subseteq Asked
<1>1. CASE Q \in Split
  <2>1. form \in {"namespace", "workload", "pod"}
        /\ Q \in {{"cpuRequest", "ramRequest"}, {"cpuUsage", "ramUsage"}}
    BY <1>1 DEF Split, Forms, NamespaceSplit, WorkloadSplit, PodSplit
  <2>2. {"cpuRequest", "ramRequest", "cpuUsage", "ramUsage"} \subseteq Asked
    <3>1. CASE form = "pod"
      <4>1. Asked = {PodStages[i] : i \in DOMAIN PodStages}
        BY <3>1 DEF Asked, Stages
      <4> QED
        BY <4>1 DEF PodStages
    <3>2. CASE form = "namespace"
      <4>1. Asked = {NamespaceStages[i] : i \in DOMAIN NamespaceStages}
        BY <3>2 DEF Asked, Stages
      <4> QED
        BY <4>1 DEF NamespaceStages
    <3>3. CASE form = "workload"
      <4>1. Asked = {WorkloadStages[i] : i \in DOMAIN WorkloadStages}
        BY <3>3 DEF Asked, Stages
      <4> QED
        BY <4>1 DEF WorkloadStages
    <3> QED
      BY <2>1, <3>1, <3>2, <3>3
  <2> QED
    BY <2>1, <2>2
<1>2. CASE Q \notin Split
  BY <1>2 DEF Queries
<1> QED
  BY <1>1, <1>2

\* What is asked for are fields.
LEMMA AskedFields ==
  ASSUME form \in Forms
  PROVE  Asked \subseteq Fields
BY StagesFacts DEF Asked

-----------------------------------------------------------------------------
(* Type correctness.                                                       *)

Samples == Fields \X AllKeys \X Times

\* The records and the keys of samples, and the fields of new records.
LEMMA SampleTypes ==
  /\ \A S \in SUBSET Samples : At(S) \in SUBSET (AllKeys \X Times)
  /\ \A S \in SUBSET Samples, f \in Fields : KeysOf(S, f) \in SUBSET AllKeys
  /\ \A R \in SUBSET (AllKeys \X Times) : Fresh(R) \in SUBSET Samples
BY DEF Samples, At, KeysOf, Fresh, NewRecord, Fields

\* Keys wait to be merged only once an answer is being merged.
TypeInv == TypeOK /\ (stage = 0 => todo = {})

LEMMA InitType == Init => TypeInv
<1> SUFFICES ASSUME Init PROVE TypeInv
  OBVIOUS
<1>1. form \in Forms
  BY DEF Init
<1>2. Len(Stages) \in Nat \ {0}
  BY <1>1, StagesFacts
<1>3. stage \in 0..Len(Stages)
  BY <1>2 DEF Init
<1> QED
  BY <1>1, <1>3 DEF Init, TypeOK, TypeInv

LEMMA NextType == TypeInv /\ [Next]_vars => TypeInv'
<1> SUFFICES ASSUME TypeInv, [Next]_vars PROVE TypeInv'
  OBVIOUS
<1> USE DEF TypeOK, TypeInv
<1>0. /\ Len(Stages) \in Nat \ {0}
      /\ \A i \in 1..Len(Stages) : Stages[i] \in Fields
      /\ Asked \subseteq Fields
  BY StagesFacts, AskedFields
<1>f. ASSUME UNCHANGED form PROVE Stages' = Stages
  BY <1>f DEF Stages
<1>1. ASSUME NEW k \in Keys, NEW t \in Times, NEW r \in Reports, Scrape(k, t, r)
      PROVE  TypeInv'
  <2>1. Stages' = Stages
    BY <1>1, <1>f DEF Scrape
  <2>2. (r \cap Asked) \X {k} \X {t} \subseteq Fields \X AllKeys \X Times
    BY <1>0 DEF Keys, AllKeys
  <2>3. stored' \in SUBSET (Fields \X AllKeys \X Times)
    BY <1>1, <2>2 DEF Scrape
  <2>4. scrapes' \in Nat
    BY <1>1 DEF Scrape
  <2> QED
    BY <1>1, <2>1, <2>3, <2>4 DEF Scrape, tableVars
<1>2. CASE Request
  <2>1. Stages' = Stages
    BY <1>2, <1>f DEF Request
  <2> QED
    BY <1>2, <2>1 DEF Request, tableVars, storeVars
<1>3. ASSUME NEW Q \in Queries, Query(Q) PROVE TypeInv'
  <2>1. Stages' = Stages
    BY <1>3, <1>f DEF Query
  <2>2. Q \subseteq Fields
    BY <1>0, QueriesFacts
  <2>3. asked' \in SUBSET Fields /\ answer' \in SUBSET (Fields \X AllKeys \X Times)
    BY <1>3, <2>2 DEF Query
  <2>4. failed' \in BOOLEAN /\ hole' \in BOOLEAN
    BY <1>3 DEF Query
  <2> QED
    BY <1>3, <2>1, <2>3, <2>4 DEF Query, tableVars, storeVars
<1>4. CASE Fail
  <2>1. Stages' = Stages
    BY <1>4, <1>f DEF Fail
  <2> QED
    BY <1>4, <2>1 DEF Fail, tableVars, storeVars
<1>5. CASE NextAnswer
  <2>1. Stages' = Stages
    BY <1>5, <1>f DEF NextAnswer
  <2>2. stage' \in 1..Len(Stages)
    BY <1>0, <1>5 DEF NextAnswer
  <2>3. todo' \in SUBSET AllKeys
    BY <1>0, <1>5, <2>2, SampleTypes DEF NextAnswer, Samples
  <2> QED
    BY <1>5, <2>1, <2>2, <2>3 DEF NextAnswer, tableVars, storeVars
<1>6. ASSUME NEW k \in todo, MergeKey(k) PROVE TypeInv'
  <2>1. Stages' = Stages
    BY <1>6, <1>f DEF MergeKey
  <2>2. todo' \in SUBSET AllKeys /\ k \in AllKeys
    BY <1>6 DEF MergeKey
  <2>3. /\ maps' \in SUBSET AllKeys
        /\ rows' \in SUBSET (AllKeys \X Times)
        /\ filled' \in SUBSET Samples
        /\ reply' \in {reply, "panic"}
    <3>1. \A f : Answered(f, k) \in SUBSET Samples
      BY DEF Answered, Samples
    <3>2. \A f : At(Answered(f, k)) \in SUBSET (AllKeys \X Times)
      BY <3>1, SampleTypes
    <3>3. CASE MergeCost(k)
      <4>1. Fresh(At(Answered("cost", k))) \in SUBSET Samples
        BY <3>2, SampleTypes
      <4> QED
        BY <2>2, <3>1, <3>2, <3>3, <4>1 DEF MergeCost, Samples
    <3>4. ASSUME NEW f \in Fields, Merge(f, k)
          PROVE  /\ maps' \in SUBSET AllKeys
                 /\ rows' \in SUBSET (AllKeys \X Times)
                 /\ filled' \in SUBSET Samples
                 /\ reply' \in {reply, "panic"}
      <4>1. Fresh(At(Answered(f, k)) \ rows) \in SUBSET Samples
        BY <3>2, SampleTypes
      <4> QED
        BY <2>2, <3>1, <3>2, <3>4, <4>1 DEF Merge, FillRecords, Samples
    <3>5. Stages[stage] \in Fields
      BY <1>0
    <3> QED
      BY <1>6, <3>3, <3>4, <3>5 DEF MergeKey
  <2> QED
    BY <1>6, <2>1, <2>2, <2>3 DEF MergeKey, Samples, storeVars
<1>7. CASE Convert
  <2>1. Stages' = Stages
    BY <1>7, <1>f DEF Convert
  <2> QED
    BY <1>7, <2>1 DEF Convert, tableVars, storeVars
<1>8. CASE UNCHANGED vars
  <2>1. Stages' = Stages
    BY <1>8, <1>f DEF vars
  <2> QED
    BY <1>8, <2>1 DEF vars, tableVars, storeVars
<1> QED
  BY <1>1, <1>2, <1>3, <1>4, <1>5, <1>6, <1>7, <1>8 DEF Next

\* Every variable keeps its type (CostMerge!TypeOK).
THEOREM MergeTypeCorrect == Spec => []TypeOK
<1>1. TypeInv => TypeOK
  BY DEF TypeInv
<1> QED
  BY <1>1, InitType, NextType, PTL DEF Spec

-----------------------------------------------------------------------------
(* The table.                                                              *)

\* The fields merged before the present one, and the samples merged so far.
Done == {Stages[i] : i \in 1..(stage - 1)}

IsOut(s) ==
  \/ s[1] \in Done
  \/ stage # 0 /\ s[1] = Stages[stage] /\ s[2] \notin todo

Out == {s \in answer : IsOut(s)}

\* The answers belong to the queries evaluated; merging starts after the last.
QueryInv ==
  /\ asked \subseteq Asked
  /\ \A s \in answer : s[1] \in asked
  /\ stage # 0 => asked = Asked /\ todo \subseteq KeysOf(answer, Stages[stage])
  /\ reply = "none" => asked = {} /\ stage = 0
  /\ reply = "data" => stage = Len(Stages) /\ todo = {}

\* The table is that of the samples merged so far.
TableInv ==
  reply # "panic" =>
    /\ maps = {s[2] : s \in Out}
    /\ rows = At(Out)
    /\ filled = Out \cup Fresh(rows)

\* A namespace is merged only if it has costs; a panic names one that has not.
GapInv ==
  /\ form = "namespace" /\ reply # "panic" =>
       maps \subseteq KeysOf(answer, "cost")
  /\ reply = "panic" => form = "namespace" /\ Gap

\* Every query that is not a hole answers with what is stored at its time.
StoreInv ==
  /\ before \subseteq stored /\ answer \subseteq stored
  /\ \A s \in stored : s[1] \in Asked
  /\ ~hole => \A s \in before : s[1] \in asked => s \in answer

Inv == TypeInv /\ QueryInv /\ TableInv /\ GapInv /\ StoreInv

LEMMA AtUnion == ASSUME NEW S, NEW T PROVE At(S \cup T) = At(S) \cup At(T)
BY DEF At

LEMMA FreshUnion ==
  ASSUME NEW R, NEW S
  PROVE  Fresh(R) \cup Fresh(S \ R) = Fresh(R \cup S)
BY DEF Fresh

\* Steps that neither merge nor touch an answer leave the table invariant.
LEMMA FrameTable ==
  ASSUME TableInv, UNCHANGED <<form, answer, stage, todo, tableVars>>,
         reply' # "panic" => reply # "panic"
  PROVE  TableInv'
<1>1. Stages' = Stages
  BY DEF Stages
<1>2. Done' = Done
  BY <1>1 DEF Done
<1>3. Out' = Out
  BY <1>1, <1>2 DEF Out, IsOut
<1>4. Fresh(rows)' = Fresh(rows) /\ At(Out)' = At(Out)
  BY <1>3 DEF Fresh, NewRecord, At, tableVars
<1> QED
  BY <1>3, <1>4 DEF TableInv, tableVars

LEMMA FrameGap ==
  ASSUME GapInv, UNCHANGED <<form, answer, maps>>,
         reply' = "panic" <=> reply = "panic"
  PROVE  GapInv'
BY DEF GapInv, Gap, KeysOf

LEMMA FrameQuery ==
  ASSUME QueryInv, UNCHANGED <<form, answer, stage, todo, asked>>
  PROVE  /\ Asked' = Asked
         /\ Stages' = Stages
         /\ asked' \subseteq Asked'
         /\ \A s \in answer' : s[1] \in asked'
         /\ stage' # 0 => asked' = Asked' /\ todo' \subseteq KeysOf(answer', Stages'[stage'])
<1>1. Stages' = Stages
  BY DEF Stages
<1>2. Asked' = Asked
  BY <1>1 DEF Asked
<1> QED
  BY <1>1, <1>2 DEF QueryInv

\* Before the first answer is merged, nothing is.
LEMMA NothingOut == ASSUME stage = 0 PROVE Out = {}
BY DEF Out, IsOut, Done

LEMMA InitInv == Init => Inv
<1> SUFFICES ASSUME Init PROVE Inv
  OBVIOUS
<1>1. TypeInv
  BY InitType
<1>2. Out = {}
  BY NothingOut DEF Init
<1>3. At(Out) = {} /\ Fresh(rows) = {}
  BY <1>2 DEF At, Fresh, Init
<1>4. TableInv
  BY <1>2, <1>3 DEF TableInv, Init
<1>5. QueryInv /\ GapInv /\ StoreInv
  BY DEF Init, QueryInv, GapInv, StoreInv
<1> QED
  BY <1>1, <1>4, <1>5 DEF Inv

LEMMA StoreStep ==
  ASSUME Inv, UNCHANGED <<form, storeVars, before, asked, answer, hole>>
  PROVE  StoreInv'
<1>1. Asked' = Asked
  BY DEF Asked, Stages
<1> QED
  BY <1>1 DEF Inv, StoreInv, storeVars

LEMMA ScrapeStep ==
  ASSUME Inv, NEW k \in Keys, NEW t \in Times, NEW r \in Reports, Scrape(k, t, r)
  PROVE  QueryInv' /\ TableInv' /\ GapInv' /\ StoreInv'
<1> USE DEF Inv
<1>1. TableInv' /\ GapInv'
  BY FrameTable, FrameGap DEF Scrape, tableVars
<1>2. QueryInv'
  BY FrameQuery DEF Scrape, QueryInv
<1>3. StoreInv'
  <2>1. Asked' = Asked
    BY DEF Scrape, Asked, Stages
  <2>2. \A s \in (r \cap Asked) \X {k} \X {t} : s[1] \in Asked
    OBVIOUS
  <2> QED
    BY <2>1, <2>2 DEF StoreInv, Scrape
<1> QED
  BY <1>1, <1>2, <1>3

LEMMA RequestStep ==
  ASSUME Inv, Request
  PROVE  QueryInv' /\ TableInv' /\ GapInv' /\ StoreInv'
<1> USE DEF Inv
<1>1. TableInv' /\ GapInv'
  BY FrameTable, FrameGap DEF Request, tableVars
<1>2. QueryInv'
  BY FrameQuery DEF Request, QueryInv
<1>3. StoreInv'
  <2>1. Asked' = Asked
    BY DEF Request, Asked, Stages
  <2> QED
    BY <2>1 DEF StoreInv, Request, storeVars, QueryInv
<1> QED
  BY <1>1, <1>2, <1>3

LEMMA QueryStep ==
  ASSUME Inv, NEW Q \in Queries, Query(Q)
  PROVE  QueryInv' /\ TableInv' /\ GapInv' /\ StoreInv'
<1> USE DEF Inv
<1>1. Asked' = Asked /\ Q # {} /\ Q \subseteq Asked
  BY QueriesFacts DEF Query, Asked, Stages, TypeInv, TypeOK
<1>2. stage = 0 /\ stage' = 0 /\ todo = {} /\ todo' = {}
  BY <1>1 DEF Query, QueryInv, TypeInv
<1>3. answer' \subseteq answer \cup {s \in stored : s[1] \in Q}
  BY DEF Query
<1>4. QueryInv'
  BY <1>1, <1>2, <1>3 DEF Query, QueryInv
<1>5. TableInv'
  <2>1. Out = {} /\ Out' = {}
    BY <1>2, NothingOut DEF Out, IsOut, Done
  <2>2. maps = {} /\ rows = {} /\ filled = {}
    BY <2>1 DEF TableInv, At, Fresh, Query
  <2> QED
    BY <2>1, <2>2 DEF TableInv, At, Fresh, Query, tableVars
<1>6. GapInv'
  <2>1. maps = {} /\ maps' = {}
    BY <1>2, NothingOut DEF TableInv, Query, tableVars
  <2> QED
    BY <2>1 DEF GapInv, Query
<1>7. StoreInv'
  BY <1>1, <1>3 DEF StoreInv, Query, storeVars
<1> QED
  BY <1>4, <1>5, <1>6, <1>7

LEMMA FailStep ==
  ASSUME Inv, Fail
  PROVE  QueryInv' /\ TableInv' /\ GapInv' /\ StoreInv'
<1> USE DEF Inv
<1>1. TableInv' /\ GapInv' /\ StoreInv'
  BY FrameTable, FrameGap, StoreStep DEF Fail, tableVars
<1>2. QueryInv'
  BY FrameQuery DEF Fail, QueryInv
<1> QED
  BY <1>1, <1>2

LEMMA ConvertStep ==
  ASSUME Inv, Convert
  PROVE  QueryInv' /\ TableInv' /\ GapInv' /\ StoreInv'
<1> USE DEF Inv
<1>1. TableInv' /\ GapInv' /\ StoreInv'
  BY FrameTable, FrameGap, StoreStep DEF Convert, tableVars
<1>2. QueryInv'
  <2>1. Len(Stages)' = Len(Stages)
    BY DEF Convert, Stages
  <2> QED
    BY <2>1, FrameQuery DEF Convert, QueryInv
<1> QED
  BY <1>1, <1>2

LEMMA StutterStep ==
  ASSUME Inv, UNCHANGED vars
  PROVE  QueryInv' /\ TableInv' /\ GapInv' /\ StoreInv'
<1> USE DEF Inv
<1>1. TableInv' /\ GapInv' /\ StoreInv'
  BY FrameTable, FrameGap, StoreStep DEF vars, tableVars
<1>2. QueryInv'
  <2>1. Len(Stages)' = Len(Stages)
    BY DEF vars, Stages
  <2> QED
    BY <2>1, FrameQuery DEF vars, QueryInv
<1> QED
  BY <1>1, <1>2

LEMMA NextAnswerStep ==
  ASSUME Inv, NextAnswer
  PROVE  QueryInv' /\ TableInv' /\ GapInv' /\ StoreInv'
<1> USE DEF Inv
<1>1. /\ Stages' = Stages /\ Asked' = Asked
      /\ stage \in 0..Len(Stages) /\ Len(Stages) \in Nat
      /\ todo = {} /\ stage' = stage + 1 /\ stage' \in 1..Len(Stages)
  <2>1. Stages' = Stages
    BY DEF NextAnswer, Stages
  <2>2. Asked' = Asked
    BY <2>1 DEF Asked
  <2>3. stage \in 0..Len(Stages) /\ Len(Stages) \in Nat
    BY StagesFacts DEF TypeInv, TypeOK
  <2> QED
    BY <2>1, <2>2, <2>3 DEF NextAnswer
<1>2. GapInv' /\ StoreInv'
  BY FrameGap, StoreStep DEF NextAnswer, tableVars
<1>3. QueryInv'
  BY <1>1 DEF NextAnswer, QueryInv
<1>4. Out' = Out
  <2>1. Done' = {Stages[i] : i \in 1..stage}
    BY <1>1 DEF Done
  <2>2. \A s \in answer : IsOut(s)' <=> s[1] \in Done'
    <3>1. \A s \in answer : s[1] = Stages[stage'] => s[2] \in todo'
      BY DEF NextAnswer, KeysOf
    <3> QED
      BY <1>1, <3>1 DEF IsOut
  <2>3. \A s \in answer : IsOut(s) <=> s[1] \in Done'
    BY <1>1, <2>1 DEF IsOut, Done
  <2> QED
    BY <2>2, <2>3 DEF Out, NextAnswer
<1>5. TableInv'
  BY <1>4 DEF TableInv, NextAnswer, tableVars, At, Fresh, NewRecord
<1> QED
  BY <1>2, <1>3, <1>5

\* Merging a key adds its samples of the field to what is out.
LEMMA MergeOut ==
  ASSUME Inv, NEW k \in todo, MergeKey(k)
  PROVE  /\ Stages' = Stages /\ Asked' = Asked
         /\ stage \in 1..Len(Stages)
         /\ Answered(Stages[stage], k) # {}
         /\ Out' = Out \cup Answered(Stages[stage], k)
<1> USE DEF Inv
<1>1. Stages' = Stages /\ Asked' = Asked
  BY DEF MergeKey, Stages, Asked
<1>2. stage \in 1..Len(Stages)
  BY StagesFacts DEF TypeInv, TypeOK
<1>3. k \in KeysOf(answer, Stages[stage])
  BY <1>2 DEF QueryInv
<1>4. Done' = Done
  BY <1>1 DEF Done, MergeKey
<1>5. \A s \in answer :
        IsOut(s)' <=> IsOut(s) \/ (s[1] = Stages[stage] /\ s[2] = k)
  BY <1>1, <1>2, <1>4 DEF IsOut, MergeKey
<1> QED
  BY <1>1, <1>2, <1>3, <1>5 DEF Out, Answered, KeysOf, MergeKey

\* The costs come first: no record of a key is there when they are merged.
LEMMA CostFirst ==
  ASSUME Inv, NEW k \in todo, MergeKey(k), Stages[stage] = "cost",
         reply # "panic"
  PROVE  Replaced(k) = {}
<1> USE DEF Inv
<1>1. stage = 1
  BY MergeOut, StagesFacts DEF TypeInv, TypeOK
<1>2. Done = {}
  BY <1>1 DEF Done
<1>3. \A s \in Out : s[2] # k
  BY <1>2 DEF Out, IsOut
<1>4. \A r \in rows : \E s \in Out : r = <<s[2], s[3]>>
  BY DEF TableInv, At
<1>5. \A r \in rows : r[1] # k
  BY <1>3, <1>4
<1> QED
  BY <1>5 DEF Replaced

LEMMA MergeKeyStep ==
  ASSUME Inv, NEW k \in todo, MergeKey(k)
  PROVE  QueryInv' /\ TableInv' /\ GapInv' /\ StoreInv'
<1> DEFINE f == Stages[stage]
           new == Answered(f, k)
<1> USE DEF Inv
<1>1. /\ Stages' = Stages /\ Asked' = Asked
      /\ stage \in 1..Len(Stages)
      /\ new # {}
      /\ Out' = Out \cup new
      /\ reply = "waiting"
  BY MergeOut DEF MergeKey
<1>2. StoreInv'
  BY StoreStep DEF MergeKey
<1>3. reply' \in {"waiting", "panic"}
  BY <1>1 DEF MergeKey, MergeCost, Merge
<1>4. QueryInv'
  BY <1>1, <1>3 DEF MergeKey, QueryInv
<1>5. maps' = maps \cup {k}
  BY DEF MergeKey, MergeCost, Merge
<1>6. {s[2] : s \in Out'} = {s[2] : s \in Out} \cup {k}
  BY <1>1 DEF Answered
<1>7. At(Out') = At(Out) \cup At(new)
  BY <1>1, AtUnion
<1>8. TableInv'
  <2>1. SUFFICES ASSUME reply' # "panic"
                 PROVE  /\ maps' = {s[2] : s \in Out'}
                        /\ rows' = At(Out')
                        /\ filled' = Out' \cup Fresh(rows')
    BY DEF TableInv, At, Fresh, NewRecord, MergeKey
  <2>2. /\ maps = {s[2] : s \in Out}
        /\ rows = At(Out)
        /\ filled = Out \cup Fresh(rows)
    BY <1>1 DEF TableInv
  <2>3. /\ rows' = rows \cup At(new)
        /\ filled' = filled \cup new \cup Fresh(At(new) \ rows)
    <3>1. CASE f = "cost"
      <4>1. Replaced(k) = {}
        BY <1>1, <3>1, CostFirst
      <4>2. MergeCost(k)
        BY <3>1 DEF MergeKey
      <4>3. Fresh(rows) \cup Fresh(At(new)) = Fresh(rows) \cup Fresh(At(new) \ rows)
        BY DEF Fresh
      <4> QED
        BY <2>2, <3>1, <4>1, <4>2, <4>3 DEF MergeCost
    <3>2. CASE f # "cost"
      BY <2>1, <3>2 DEF MergeKey, Merge, FillRecords
    <3> QED
      BY <3>1, <3>2
  <2>4. Fresh(rows) \cup Fresh(At(new) \ rows) = Fresh(rows')
    BY <2>3, FreshUnion
  <2> QED
    BY <1>1, <1>5, <1>6, <1>7, <2>2, <2>3, <2>4
<1>9. GapInv'
  <2>1. KeysOf(answer, "cost")' = KeysOf(answer, "cost") /\ Gap' = Gap
    BY DEF MergeKey, KeysOf, Gap
  <2>2. CASE f = "cost"
    <3>1. k \in KeysOf(answer, "cost")
      BY <1>1, <2>2 DEF QueryInv
    <3>2. reply' = reply
      BY <2>2 DEF MergeKey, MergeCost
    <3> QED
      BY <1>1, <1>5, <2>1, <3>1, <3>2 DEF GapInv, MergeKey
  <2>3. CASE f # "cost" /\ reply' = "panic"
    <3>1. form = "namespace" /\ k \notin maps
      BY <1>1, <2>3 DEF MergeKey, Merge, Writes
    <3>2. "cost" \in Done
      <4>1. stage # 1
        BY <2>3, StagesFacts DEF TypeInv, TypeOK
      <4>2. 1 \in 1..(stage - 1)
        BY <1>1, <4>1, StagesFacts DEF TypeInv, TypeOK
      <4> QED
        BY <4>2, StagesFacts DEF Done, TypeInv, TypeOK
    <3>3. k \notin KeysOf(answer, "cost")
      BY <1>1, <3>1, <3>2 DEF KeysOf, TableInv, Out, IsOut
    <3>4. Gap
      BY <1>1, <3>3 DEF Gap, Answered
    <3> QED
      BY <2>1, <2>3, <3>1, <3>4 DEF GapInv, MergeKey
  <2>4. CASE f # "cost" /\ reply' # "panic"
    <3>1. form = "namespace" => k \in maps
      BY <1>1, <2>4 DEF MergeKey, Merge, Writes
    <3> QED
      BY <1>1, <1>5, <2>1, <2>4, <3>1 DEF GapInv, MergeKey
  <2> QED
    BY <2>2, <2>3, <2>4
<1> QED
  BY <1>2, <1>4, <1>8, <1>9

LEMMA NextInv == Inv /\ [Next]_vars => Inv'
<1> SUFFICES ASSUME Inv, [Next]_vars PROVE Inv'
  OBVIOUS
<1>1. TypeInv'
  BY NextType DEF Inv
<1>2. QueryInv' /\ TableInv' /\ GapInv' /\ StoreInv'
  BY ScrapeStep, RequestStep, QueryStep, FailStep, NextAnswerStep,
     MergeKeyStep, ConvertStep, StutterStep DEF Next
<1> QED
  BY <1>1, <1>2 DEF Inv

-----------------------------------------------------------------------------
(* What a caller is given.                                                 *)

\* Once the last answer is merged, everything is out.
LEMMA AllOut == ASSUME Inv, reply = "data" PROVE Out = answer
<1> USE DEF Inv
<1>1. /\ stage = Len(Stages) /\ stage \in 1..Len(Stages)
      /\ asked = Asked /\ todo = {}
  BY StagesFacts DEF QueryInv, TypeInv, TypeOK
<1>2. \A s \in answer : \E i \in 1..Len(Stages) : s[1] = Stages[i]
  BY <1>1, StagesFacts DEF QueryInv, Asked, TypeInv, TypeOK
<1>3. \A i \in 1..Len(Stages) : i = stage \/ i \in 1..(stage - 1)
  BY <1>1
<1>4. \A s \in answer : IsOut(s)
  BY <1>1, <1>2, <1>3 DEF IsOut, Done
<1> QED
  BY <1>4 DEF Out

LEMMA InvImplies == Inv => Merged /\ NothingLost /\ PanicIsAGap
<1> SUFFICES ASSUME Inv PROVE Merged /\ NothingLost /\ PanicIsAGap
  OBVIOUS
<1> USE DEF Inv
<1>1. Merged
  BY AllOut DEF Merged, TableInv
<1>2. NothingLost
  <2> SUFFICES ASSUME reply = "data", ~hole
               PROVE  before \subseteq filled /\ filled \subseteq stored \cup Fresh(rows)
    BY DEF NothingLost
  <2>1. filled = answer \cup Fresh(rows)
    BY <1>1 DEF Merged
  <2>2. asked = Asked
    BY StagesFacts DEF QueryInv, TypeInv, TypeOK
  <2>3. before \subseteq answer
    BY <2>2 DEF StoreInv
  <2> QED
    BY <2>1, <2>3 DEF StoreInv
<1>3. PanicIsAGap
  <2>1. reply = "panic" => form = "namespace" /\ Gap
    BY DEF GapInv
  <2>2. ASSUME reply = "data", form = "namespace" PROVE ~Gap
    <3>1. {s[2] : s \in answer} \subseteq KeysOf(answer, "cost")
      BY <1>1, <2>2 DEF Merged, GapInv
    <3> QED
      BY <3>1 DEF Gap
  <2> QED
    BY <2>1, <2>2 DEF PanicIsAGap
<1> QED
  BY <1>1, <1>2, <1>3

LEMMA InvAlways == Spec => []Inv
BY InitInv, NextInv, PTL DEF Spec

\* The table given to a caller is that of the answers, in whatever order their
\* keys are ranged over (the parse... functions).
THEOREM MergeIsExact == Spec => []Merged
BY InvAlways, InvImplies, PTL

\* What was stored when a request came is reported, and nothing that is not
\* stored, if every query of the request is answered (the query... functions).
THEOREM NothingIsLost == Spec => []NothingLost
BY InvAlways, InvImplies, PTL

\* Only the merge of namespaces panics, exactly when some answer has a
\* namespace without costs (the parse functions of namespace_cost.go).
THEOREM PanicExactlyInAGap == Spec => []PanicIsAGap
BY InvAlways, InvImplies, PTL

=============================================================================

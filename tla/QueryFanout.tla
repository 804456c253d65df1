---------------------------- MODULE QueryFanout ----------------------------
(***************************************************************************)
(* How the cost analyzer answers one request out of several Prometheus     *)
(* queries (pkg/analyzer/server/implementation).  A Query... function of   *)
(* the package starts one goroutine per query,                             *)
(*                                                                         *)
(*     go func() {                                                         *)
(*         defer wg.Done()                                                 *)
(*         data, err = query(...)                                          *)
(*         errs = append(errs, err)                                        *)
(*     }()                                                                 *)
(*                                                                         *)
(* waits for all of them, and fails if errs holds an error.  Each data is  *)
(* a variable of its own.  err and errs are variables of the enclosing     *)
(* function: the goroutines share them and no lock protects them.          *)
(*                                                                         *)
(* append reads the slice, loads err and writes the slice.  Two appends    *)
(* that overlap are a data race: the later write undoes the earlier one,   *)
(* or the two leave the words of the slice (base, len, cap) out of step, a *)
(* torn slice, of which nothing is certain.                                *)
(***************************************************************************)
EXTENDS Naturals, Sequences, FiniteSets

CONSTANT Queries   \* the goroutines of one request

ASSUME QueriesAssumption == IsFiniteSet(Queries) /\ Queries # {}

VARIABLES
  pc,      \* where each goroutine is; wg counts those that are not "done"
  result,  \* what its query returned
  err,     \* the shared err
  errs,    \* the elements of the shared slice
  torn,    \* the words of the shared slice are out of step
  read,    \* the elements each goroutine's append has read
  loaded,  \* the err each goroutine's append has loaded
  reply,   \* what the handler is given: the data, an error, or a panic
  raced    \* history: two goroutines reported their results at one time

vars == <<pc, result, err, errs, torn, read, loaded, reply, raced>>

Results == {"ok", "failed"}
Errors  == {"nil", "error"}

TypeOK ==
  /\ pc \in [Queries -> {"query", "append", "argument", "store", "done"}]
  /\ result \in [Queries -> Results \cup {"none"}]
  /\ err \in Errors
  /\ errs \in Seq(Errors)
  /\ torn \in BOOLEAN
  /\ read \in [Queries -> Seq(Errors)]
  /\ loaded \in [Queries -> Errors]
  /\ reply \in {"none", "data", "error", "panic"}
  /\ raced \in BOOLEAN

Init ==
  /\ pc = [q \in Queries |-> "query"]
  /\ result = [q \in Queries |-> "none"]
  /\ err = "nil"
  /\ errs = <<>>
  /\ torn = FALSE
  /\ read = [q \in Queries |-> <<>>]
  /\ loaded = [q \in Queries |-> "nil"]
  /\ reply = "none"
  /\ raced = FALSE

-----------------------------------------------------------------------------
Goto(q, l) == pc' = [pc EXCEPT ![q] = l]

\* The result is known and wg.Done has not been called.
Reporting(q) == pc[q] \in {"append", "argument", "store"}

\* Mutant: the goroutine assigns what the query returned, not its error.
ErrorOf_Raw(r) == r

ErrorOf(r) == IF r = "failed" THEN "error" ELSE "nil"

\* The query returns, and the shared err is assigned.  A query always returns:
\* the HTTP client gives up after 30 seconds.
Return(q, r) ==
  /\ pc[q] = "query"
  /\ result' = [result EXCEPT ![q] = r]
  /\ err' = ErrorOf(r)
  /\ raced' = (raced \/ \E p \in Queries : Reporting(p))
  /\ Goto(q, "append")
  /\ UNCHANGED <<errs, torn, read, loaded, reply>>

AppendRead(q) ==
  /\ pc[q] = "append"
  /\ read' = [read EXCEPT ![q] = errs]
  /\ Goto(q, "argument")
  /\ UNCHANGED <<result, err, errs, torn, loaded, reply, raced>>

AppendArgument(q) ==
  /\ pc[q] = "argument"
  /\ loaded' = [loaded EXCEPT ![q] = err]
  /\ Goto(q, "store")
  /\ UNCHANGED <<result, err, errs, torn, read, reply, raced>>

\* Mutant: wg.Done is not deferred, and a failing goroutine returns early.
Done_OnSuccess(q) == Goto(q, IF loaded[q] = "error" THEN "returned" ELSE "done")

\* The deferred wg.Done, whatever the query returned.
Done(q) == Goto(q, "done")

\* The slice is written and the goroutine ends.
AppendStore(q) ==
  /\ pc[q] = "store"
  /\ errs' = Append(read[q], loaded[q])
  /\ \/ torn' = torn
     \/ errs # read[q] /\ torn' = TRUE
  /\ Done(q)
  /\ UNCHANGED <<result, err, read, loaded, reply, raced>>

\* errors.NewAggregate keeps what is not nil.
Aggregate(es) == {i \in DOMAIN es : es[i] # "nil"}

\* Mutant: errs is compared with nil, without NewAggregate.
Verdict_AnyAppend == IF errs = <<>> THEN "data" ELSE "error"

\* Mutant: err is looked at instead of errs.
Verdict_LastErr == IF err = "nil" THEN "data" ELSE "error"

Verdict == IF Aggregate(errs) = {} THEN "data" ELSE "error"

\* After wg.Wait: the error or the data.
Answer ==
  /\ \A q \in Queries : pc[q] = "done"
  /\ reply = "none"
  /\ \/ reply' = Verdict
     \/ torn /\ reply' \in {"data", "error", "panic"}
  /\ UNCHANGED <<pc, result, err, errs, torn, read, loaded, raced>>

Goroutine(q) ==
  \/ \E r \in Results : Return(q, r)
  \/ AppendRead(q)
  \/ AppendArgument(q)
  \/ AppendStore(q)

Next == (\E q \in Queries : Goroutine(q)) \/ Answer

Spec == Init /\ [][Next]_vars

\* The scheduler of Go starves no goroutine.
Fairness == WF_vars(Answer) /\ \A q \in Queries : WF_vars(Goroutine(q))

FairSpec == Spec /\ Fairness

-----------------------------------------------------------------------------
(* Properties.                                                             *)

\* A request fails only if one of its queries did, in whatever order the
\* goroutines write err and errs, as long as the slice is not torn.
NoFalseAlarm ==
  reply = "error" /\ ~torn => \E q \in Queries : result[q] = "failed"

\* A failed query is kept from the caller only by a race: if no two goroutines
\* ever reported at one time, data is returned only when every query succeeded.
LostOnlyInARace ==
  reply = "data" /\ ~raced => \A q \in Queries : result[q] = "ok"

\* Every request is answered: wg reaches zero whatever the queries return.
Answered == <>(reply # "none")

\* What the handlers' documentation says, for one costs_handler/
\* cluster_namespace.go:43 "@Failure 500 {object} types.StatusError": when a
\* query fails the caller is not given data as if it were complete, at least
\* when the slice is not torn.
FailureIsReported ==
  reply = "data" /\ ~torn => \A q \in Queries : result[q] = "ok"

=============================================================================

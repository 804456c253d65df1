------------------------- MODULE QueryFanoutProofs -------------------------
(***************************************************************************)
(* The safety properties of QueryFanout for any number of queries.         *)
(***************************************************************************)
EXTENDS QueryFanout, TLAPS, SequenceTheorems

AnyFailed == \E q \in Queries : result[q] = "failed"

\* A goroutine has a result once its query has returned.
ResultInv ==
  /\ \A q \in Queries : pc[q] = "query" <=> result[q] = "none"
  /\ reply # "none" => \A q \in Queries : pc[q] = "done"

\* Every error that is anywhere comes from a query that failed.
BlameInv ==
  /\ err = "error" => AnyFailed
  /\ \A q \in Queries : loaded[q] = "error" => AnyFailed
  /\ \A i \in 1..Len(errs) : errs[i] = "error" => AnyFailed
  /\ \A q \in Queries : \A i \in 1..Len(read[q]) :
       read[q][i] = "error" => AnyFailed
  /\ reply = "error" /\ ~torn => AnyFailed

\* The goroutines report one after the other.
Alone == \A p, q \in Queries : Reporting(p) /\ Reporting(q) => p = q

\* What one goroutine has taken from the shared variables is still there.
Undisturbed(q) ==
  /\ Reporting(q) => err = ErrorOf(result[q])
  /\ pc[q] \in {"argument", "store"} => read[q] = errs
  /\ pc[q] = "store" => loaded[q] = err

\* A failure is in errs from the moment its goroutine is done.
Recorded(q) ==
  pc[q] = "done" /\ result[q] = "failed"
    => \E i \in 1..Len(errs) : errs[i] = "error"

RaceFreeInv ==
  ~raced =>
    /\ Alone
    /\ ~torn
    /\ \A q \in Queries : Undisturbed(q) /\ Recorded(q)
    /\ reply = "data" => \A q \in Queries : result[q] = "ok"

Inv == TypeOK /\ ResultInv /\ BlameInv /\ RaceFreeInv

-----------------------------------------------------------------------------
\* Types are kept: the step of each handler writes what its variables hold.
THEOREM TypeKept == TypeOK /\ [Next]_vars => TypeOK'
<1>1. ASSUME TypeOK, NEW q \in Queries, NEW r \in Results, Return(q, r)
      PROVE  TypeOK'
  BY <1>1 DEF TypeOK, Return, Goto, ErrorOf, Results, Errors
<1>2. ASSUME TypeOK, NEW q \in Queries, AppendRead(q)
      PROVE  TypeOK'
  BY <1>2 DEF TypeOK, AppendRead, Goto
<1>3. ASSUME TypeOK, NEW q \in Queries, AppendArgument(q)
      PROVE  TypeOK'
  BY <1>3 DEF TypeOK, AppendArgument, Goto
<1>4. ASSUME TypeOK, NEW q \in Queries, AppendStore(q)
      PROVE  TypeOK'
  <2>1. Append(read[q], loaded[q]) \in Seq(Errors)
    BY <1>4 DEF TypeOK, Errors
  <2>2. QED
    BY <1>4, <2>1 DEF TypeOK, AppendStore, Done, Goto
<1>5. ASSUME TypeOK, Answer
      PROVE  TypeOK'
  BY <1>5 DEF TypeOK, Answer, Verdict
<1>6. ASSUME TypeOK, UNCHANGED vars
      PROVE  TypeOK'
  BY <1>6 DEF TypeOK, vars
<1>7. QED
  BY <1>1, <1>2, <1>3, <1>4, <1>5, <1>6 DEF Next, Goroutine

\* The fan-out starts well: nothing has run, errs is a nil slice.
THEOREM InitInv == Init => Inv
<1>1. SUFFICES ASSUME Init PROVE Inv
  OBVIOUS
<1>2. <<>> \in Seq(Errors)
  OBVIOUS
<1>3. TypeOK
  BY <1>1, <1>2 DEF Init, TypeOK, Errors
<1>4. ResultInv
  BY <1>1 DEF Init, ResultInv
<1>5. BlameInv
  BY <1>1 DEF Init, BlameInv
<1>6. RaceFreeInv
  BY <1>1 DEF Init, RaceFreeInv, Alone, Reporting, Undisturbed, Recorded
<1>7. QED
  BY <1>3, <1>4, <1>5, <1>6 DEF Inv

\* A result is set once and the reply is the last step.
THEOREM ResultKept == Inv /\ [Next]_vars => ResultInv'
<1>1. ASSUME Inv, NEW q \in Queries, NEW r \in Results, Return(q, r)
      PROVE  ResultInv'
  BY <1>1 DEF Inv, TypeOK, ResultInv, Return, Goto, Results
<1>2. ASSUME Inv, NEW q \in Queries,
             AppendRead(q) \/ AppendArgument(q) \/ AppendStore(q)
      PROVE  ResultInv'
  BY <1>2 DEF Inv, TypeOK, ResultInv, AppendRead, AppendArgument, AppendStore, Done, Goto
<1>3. ASSUME Inv, Answer
      PROVE  ResultInv'
  BY <1>3 DEF Inv, ResultInv, Answer
<1>4. ASSUME Inv, UNCHANGED vars
      PROVE  ResultInv'
  BY <1>4 DEF Inv, ResultInv, vars
<1>5. QED
  BY <1>1, <1>2, <1>3, <1>4 DEF Next, Goroutine

\* A query that has failed stays a failed query.
LEMMA FailedKept == Inv /\ [Next]_vars /\ AnyFailed => AnyFailed'
<1>1. SUFFICES ASSUME Inv, [Next]_vars, AnyFailed PROVE AnyFailed'
  OBVIOUS
<1>2. PICK p \in Queries : result[p] = "failed"
  BY <1>1 DEF AnyFailed
<1>3. ASSUME NEW q \in Queries, NEW r \in Results, Return(q, r)
      PROVE  result'[p] = "failed"
  BY <1>1, <1>2, <1>3 DEF Inv, TypeOK, ResultInv, Return
<1>4. result'[p] = "failed"
  BY <1>1, <1>2, <1>3 DEF Next, Goroutine, vars, AppendRead, AppendArgument,
                          AppendStore, Answer
<1>5. QED
  BY <1>4 DEF AnyFailed

\* Nobody invents an error: each one is written by the goroutine of a failed
\* query, or copied.
THEOREM BlameKept == Inv /\ [Next]_vars => BlameInv'
<1>1. SUFFICES ASSUME Inv, [Next]_vars PROVE BlameInv'
  OBVIOUS
<1>2. AnyFailed => AnyFailed'
  BY <1>1, FailedKept
<1>3. ASSUME AnyFailed'
      PROVE  BlameInv'
  BY <1>3 DEF BlameInv
<1>4. ASSUME ~AnyFailed', NEW q \in Queries, NEW r \in Results, Return(q, r)
      PROVE  BlameInv'
  <2>1. r # "failed"
    BY <1>1, <1>4 DEF AnyFailed, Return, Inv, TypeOK
  <2>2. err' = "nil"
    BY <1>4, <2>1 DEF Return, ErrorOf
  <2>3. QED
    BY <1>1, <1>2, <1>4, <2>2 DEF Inv, BlameInv, Return
<1>5. ASSUME ~AnyFailed', NEW q \in Queries, AppendRead(q)
      PROVE  BlameInv'
  BY <1>1, <1>2, <1>5 DEF Inv, TypeOK, BlameInv, AppendRead
<1>6. ASSUME ~AnyFailed', NEW q \in Queries, AppendArgument(q)
      PROVE  BlameInv'
  BY <1>1, <1>2, <1>6 DEF Inv, TypeOK, BlameInv, AppendArgument
<1>7. ASSUME ~AnyFailed', NEW q \in Queries, AppendStore(q)
      PROVE  BlameInv'
  <2>1. \A i \in 1..Len(errs') : errs'[i] # "error"
    <3>1. read[q] \in Seq(Errors) /\ errs' = Append(read[q], loaded[q])
      BY <1>1, <1>7 DEF Inv, TypeOK, AppendStore
    <3>2. loaded[q] # "error" /\ \A i \in 1..Len(read[q]) : read[q][i] # "error"
      BY <1>1, <1>2, <1>7 DEF Inv, BlameInv
    <3>3. QED
      BY <3>1, <3>2
  <2>2. ~torn' => ~torn
    BY <1>1, <1>7 DEF AppendStore, Inv, TypeOK
  <2>3. QED
    BY <1>1, <1>2, <1>7, <2>1, <2>2 DEF Inv, BlameInv, AppendStore
<1>8. ASSUME ~AnyFailed', Answer
      PROVE  BlameInv'
  <2>1. Aggregate(errs) = {}
    BY <1>1, <1>2, <1>8 DEF Inv, TypeOK, BlameInv, Aggregate, Errors
  <2>2. QED
    BY <1>1, <1>2, <1>8, <2>1 DEF Inv, BlameInv, Answer, Verdict
<1>9. ASSUME ~AnyFailed', UNCHANGED vars
      PROVE  BlameInv'
  BY <1>1, <1>2, <1>9 DEF Inv, BlameInv, vars
<1>10. QED
  BY <1>1, <1>3, <1>4, <1>5, <1>6, <1>7, <1>8, <1>9 DEF Next, Goroutine

\* Without a race each goroutine finds err and errs as it left them.
THEOREM RaceFreeKept == Inv /\ [Next]_vars => RaceFreeInv'
<1>1. SUFFICES ASSUME Inv, [Next]_vars, ~raced' PROVE RaceFreeInv'
  BY DEF RaceFreeInv
<1>2. ~raced
  BY <1>1 DEF Next, Goroutine, Return, AppendRead, AppendArgument, AppendStore,
              Answer, vars, Inv, TypeOK
<1>3. /\ Alone /\ ~torn
      /\ \A q \in Queries : Undisturbed(q) /\ Recorded(q)
      /\ reply = "data" => \A q \in Queries : result[q] = "ok"
  BY <1>1, <1>2 DEF Inv, RaceFreeInv
<1>4. ASSUME NEW q \in Queries, NEW r \in Results, Return(q, r)
      PROVE  RaceFreeInv'
  <2>1. \A p \in Queries : ~Reporting(p)
    BY <1>1, <1>4 DEF Return, Reporting
  <2>2. Alone'
    BY <1>1, <1>4, <2>1 DEF Return, Goto, Alone, Reporting, Inv, TypeOK
  <2>3. reply = "none" /\ reply' = "none"
    BY <1>1, <1>4 DEF Return, Inv, TypeOK, ResultInv
  <2>4. \A p \in Queries : Undisturbed(p)'
    BY <1>1, <1>4, <2>1 DEF Return, Goto, Undisturbed, Reporting, Inv, TypeOK
  <2>5. \A p \in Queries : Recorded(p)'
    BY <1>1, <1>3, <1>4 DEF Return, Goto, Recorded, Inv, TypeOK
  <2>6. QED
    BY <1>3, <1>4, <2>2, <2>3, <2>4, <2>5 DEF RaceFreeInv, Return
<1>5. ASSUME NEW q \in Queries, AppendRead(q) \/ AppendArgument(q)
      PROVE  RaceFreeInv'
  <2>1. Alone'
    BY <1>1, <1>3, <1>5 DEF AppendRead, AppendArgument, Goto, Alone, Reporting,
                            Inv, TypeOK
  <2>2. \A p \in Queries : Undisturbed(p)' /\ Recorded(p)'
    <3>1. ASSUME AppendRead(q) PROVE \A p \in Queries : Undisturbed(p)' /\ Recorded(p)'
      BY <1>1, <1>3, <3>1 DEF AppendRead, Goto, Undisturbed, Recorded, Reporting,
                              Inv, TypeOK
    <3>2. ASSUME AppendArgument(q) PROVE \A p \in Queries : Undisturbed(p)' /\ Recorded(p)'
      BY <1>1, <1>3, <3>2 DEF AppendArgument, Goto, Undisturbed, Recorded, Reporting,
                              Inv, TypeOK
    <3> QED BY <1>5, <3>1, <3>2
  <2>3. QED
    BY <1>3, <1>5, <2>1, <2>2 DEF RaceFreeInv, AppendRead, AppendArgument
<1>6. ASSUME NEW q \in Queries, AppendStore(q)
      PROVE  RaceFreeInv'
  <2>1. \A p \in Queries : p # q => ~Reporting(p)
    BY <1>3, <1>6 DEF Alone, Reporting, AppendStore
  <2>2. pc' = [pc EXCEPT ![q] = "done"] /\ pc[q] = "store"
    BY <1>6 DEF AppendStore, Done, Goto
  <2>3. \A p \in Queries : ~Reporting(p)'
    BY <1>1, <2>1, <2>2 DEF Reporting, Inv, TypeOK
  <2>4. Alone' /\ \A p \in Queries : Undisturbed(p)'
    BY <2>3 DEF Alone, Undisturbed, Reporting
  <2>5. errs \in Seq(Errors) /\ errs' = Append(errs, ErrorOf(result[q]))
    BY <1>1, <1>3, <1>6 DEF Undisturbed, Reporting, AppendStore, Inv, TypeOK
  <2>6. \A p \in Queries : Recorded(p)'
    <3>1. SUFFICES ASSUME NEW p \in Queries, pc'[p] = "done", result[p] = "failed"
                   PROVE  \E i \in 1..Len(errs') : errs'[i] = "error"
      BY <1>6 DEF Recorded, AppendStore
    <3>2. CASE p = q
      <4>1. errs' = Append(errs, "error")
        BY <2>5, <3>1, <3>2 DEF ErrorOf
      <4>2. errs'[Len(errs) + 1] = "error" /\ Len(errs') = Len(errs) + 1
        BY <2>5, <4>1
      <4>3. Len(errs) + 1 \in 1..Len(errs')
        BY <2>5, <4>2
      <4>4. QED
        BY <4>2, <4>3
    <3>3. CASE p # q
      <4>1. PICK i \in 1..Len(errs) : errs[i] = "error"
        BY <1>1, <1>3, <2>2, <3>1, <3>3 DEF Recorded, Inv, TypeOK
      <4>2. i \in 1..Len(errs') /\ errs'[i] = "error"
        BY <2>5, <4>1
      <4>3. QED
        BY <4>2
    <3>4. QED
      BY <3>2, <3>3
  <2>7. ~torn'
    BY <1>3, <1>6 DEF Undisturbed, AppendStore
  <2>8. reply' # "data"
    BY <1>1, <1>6, <2>2 DEF AppendStore, Inv, ResultInv
  <2>9. QED
    BY <2>4, <2>6, <2>7, <2>8 DEF RaceFreeInv
<1>7. ASSUME Answer
      PROVE  RaceFreeInv'
  <2>1. Alone' /\ ~torn' /\ \A q \in Queries : Undisturbed(q)' /\ Recorded(q)'
    BY <1>3, <1>7 DEF Answer, Alone, Undisturbed, Recorded, Reporting
  <2>2. ASSUME reply' = "data", NEW q \in Queries
        PROVE  result'[q] = "ok"
    <3>1. Aggregate(errs) = {}
      BY <1>3, <1>7, <2>2 DEF Answer, Verdict
    <3>2. \A i \in 1..Len(errs) : errs[i] = "nil"
      BY <1>1, <3>1 DEF Aggregate, Inv, TypeOK
    <3>3. result[q] # "failed"
      BY <1>3, <1>7, <3>2 DEF Recorded, Answer
    <3>4. result[q] # "none"
      BY <1>1, <1>7 DEF Inv, ResultInv, Answer
    <3>5. QED
      BY <1>1, <1>7, <3>3, <3>4 DEF Inv, TypeOK, Results, Answer
  <2>3. QED
    BY <2>1, <2>2 DEF RaceFreeInv
<1>8. ASSUME UNCHANGED vars
      PROVE  RaceFreeInv'
  BY <1>3, <1>8 DEF RaceFreeInv, Alone, Undisturbed, Recorded, Reporting, vars
<1>9. QED
  BY <1>1, <1>4, <1>5, <1>6, <1>7, <1>8 DEF Next, Goroutine

-----------------------------------------------------------------------------
\* The conjunction is inductive.
THEOREM Invariance == Spec => []Inv
<1>1. Inv /\ [Next]_vars => Inv'
  BY TypeKept, ResultKept, BlameKept, RaceFreeKept DEF Inv
<1>2. QED
  BY <1>1, InitInv, PTL DEF Spec

\* Every variable of the fan-out always holds what TypeOK says.
THEOREM FanoutTypeCorrect == Spec => []TypeOK
<1>1. Inv => TypeOK
  BY DEF Inv
<1>2. QED
  BY <1>1, Invariance, PTL

\* For any number of queries a request fails only if one of its queries did.
THEOREM NeverAFalseAlarm == Spec => []NoFalseAlarm
<1>1. Inv => NoFalseAlarm
  BY DEF Inv, BlameInv, NoFalseAlarm, AnyFailed
<1>2. QED
  BY <1>1, Invariance, PTL

\* For any number of queries, and whatever the order they report in, a failure
\* can only be lost to a race on err and errs.
THEOREM OnlyARaceLoses == Spec => []LostOnlyInARace
<1>1. Inv => LostOnlyInARace
  BY DEF Inv, RaceFreeInv, LostOnlyInARace
<1>2. QED
  BY <1>1, Invariance, PTL

=============================================================================

--------------------------- MODULE AckPriceProofs ---------------------------
(***************************************************************************)
(* The safety properties of AckPrice for any callers, types and bounds.    *)
(***************************************************************************)
EXTENDS AckPrice, TLAPS

Prices == {Unpriced} \cup Lists
Inside == {"hit"} \cup Querying

\* There are at most as many price lists as changes of the cloud.
ListInv == list <= events + 1

\* What the holder of the lock relies on: a call under way asks for a type; a hit
\* is priced, and the type whose price is asked for is in the cache.
HolderInv ==
  \A c \in Callers :
    /\ pc[c] # "idle" => asked[c] \in Types /\ result[c] = Pending
    /\ pc[c] = "hit" => nodeSpecMap[asked[c]] \in Lists
    /\ pc[c] = "price" => nodeSpecMap[asked[c]] # Absent

\* An answer quotes a price; one without the caller's type, like an offer without
\* it, is blamed.
AnswerInv ==
  \A c \in Callers :
    /\ answered[c] => pc[c] \in Querying /\ quote[c] \in Lists
    /\ answered[c] /\ asked[c] \notin specs[c] => blame[c]
    /\ pc[c] # "idle" /\ asked[c] \notin offered => blame[c]

\* A price in the cache is the latest that was returned for its type, that in the
\* answer of the holder is not older; no list is older than a price.
OrderInv ==
  /\ \A t \in Types :
       /\ best[t] <= list
       /\ nodeSpecMap[t] \in Lists => nodeSpecMap[t] = best[t]
  /\ \A c \in Callers :
       /\ pc[c] # "idle" => floor[c] <= best[asked[c]]
       /\ answered[c] => quote[c] >= best[asked[c]] /\ quote[c] <= list

IInv == TypeOK /\ ListInv /\ HolderInv /\ AnswerInv /\ OrderInv
          /\ OnlyOwnFailures /\ PricesMoveForward

USE NamesAssumption, BoundsAssumption
    DEF Absent, Unpriced, Error, Panic, Pending, Lists, Querying, Prices, Inside

-----------------------------------------------------------------------------
\* Two callers are never inside at once.
LEMMA MutualExclusion ==
  ASSUME TypeOK, NEW c \in Callers, NEW d \in Callers, pc[c] \in Inside, pc[d] \in Inside
  PROVE  c = d
BY DEF TypeOK

\* The invariant holds of a provider that has just been built.
LEMMA InitInv == Init => IInv
<1> SUFFICES ASSUME Init PROVE IInv
  OBVIOUS
<1>1. TypeOK
  <2>1. /\ offered \in SUBSET Types /\ list \in Lists
        /\ events \in 0 .. MaxEvents /\ faults \in 0 .. MaxFaults
    BY DEF Init
  <2>2. /\ nodeSpecMap \in [Types -> {Absent} \cup Prices] /\ isNil \in BOOLEAN
        /\ isNil => \A t \in Types : nodeSpecMap[t] = Absent
    BY DEF Init
  <2>3. /\ lock \in Callers \cup {Free}
        /\ pc \in [Callers -> {"idle", "waiting", "hit"} \cup Querying]
        /\ \A c \in Callers : lock = c <=> pc[c] \in Inside
        /\ asked \in [Callers -> Types \cup {NoType}]
    BY DEF Init
  <2>4. /\ answered \in [Callers -> BOOLEAN] /\ specs \in [Callers -> SUBSET Types]
        /\ quote \in [Callers -> Prices] /\ best \in [Types -> Prices]
        /\ floor \in [Callers -> Prices] /\ blame \in [Callers -> BOOLEAN]
    BY DEF Init
  <2>5. result \in [Callers -> {Pending, Panic, Error} \cup Prices]
    BY DEF Init
  <2>6. QED
    BY <2>1, <2>2, <2>3, <2>4, <2>5 DEF TypeOK
<1>2. ListInv /\ HolderInv /\ AnswerInv /\ OrderInv
  BY DEF Init, ListInv, HolderInv, AnswerInv, OrderInv
<1>3. OnlyOwnFailures /\ PricesMoveForward
  BY DEF Init, OnlyOwnFailures, PricesMoveForward
<1>4. QED
  BY <1>1, <1>2, <1>3 DEF IInv

\* What a return does to the variables it writes: the caller is idle with its
\* result, the lock is free, and the best price of its type is not lowered.
LEMMA Returned ==
  ASSUME IInv, NEW c \in Callers, pc[c] \in Inside,
         NEW r \in {Error, Unpriced} \cup Lists, Return(c, r)
  PROVE  /\ pc' = [pc EXCEPT ![c] = "idle"] /\ result' = [result EXCEPT ![c] = r]
         /\ lock' = Free /\ UNCHANGED <<asked, floor>>
         /\ best' \in [Types -> Prices]
         /\ \A t \in Types : t # asked[c] => best'[t] = best[t]
         /\ best'[asked[c]] >= best[asked[c]]
         /\ best'[asked[c]] = best[asked[c]] \/ (best'[asked[c]] = r /\ r \in Lists)
         /\ r \in Lists => best'[asked[c]] >= r
<1>1. asked[c] \in Types /\ best \in [Types -> Prices]
  BY DEF IInv, HolderInv, TypeOK
<1>2. /\ pc' = [pc EXCEPT ![c] = "idle"] /\ result' = [result EXCEPT ![c] = r]
      /\ lock' = Free /\ UNCHANGED <<asked, floor>>
  BY DEF Return, Unlocked
<1>3. CASE r \in Lists /\ r > best[asked[c]]
  <2>1. best' = [best EXCEPT ![asked[c]] = r]
    BY <1>3 DEF Return
  <2>2. QED
    BY <1>1, <1>2, <1>3, <2>1
<1>4. CASE ~(r \in Lists /\ r > best[asked[c]])
  <2>1. best' = best
    BY <1>4 DEF Return
  <2>2. (r \in Lists => best[asked[c]] >= r) /\ best[asked[c]] >= best[asked[c]]
    <3>1. best[asked[c]] \in Int /\ (r \in Lists => r \in Int)
      BY <1>1
    <3>2. QED
      BY <1>4, <3>1
  <2>3. best'[asked[c]] >= best[asked[c]] /\ (r \in Lists => best'[asked[c]] >= r)
    BY <2>1, <2>2
  <2>4. QED
    BY <1>1, <1>2, <2>1, <2>3, Zenon
<1>5. QED
  BY <1>3, <1>4

-----------------------------------------------------------------------------
(* The cloud *)

\* A new list is newer than every price.
LEMMA NewListInv == IInv /\ NewList => IInv'
<1> SUFFICES ASSUME IInv, NewList PROVE IInv'
  OBVIOUS
<1> USE DEF NewList, Event, cacheVars, queryVars
<1>1. list' \in Lists /\ events' \in 0 .. MaxEvents /\ ListInv' /\ list' > list
  BY DEF IInv, TypeOK, ListInv
<1>2. TypeOK'
  BY <1>1 DEF IInv, TypeOK
<1>3. HolderInv' /\ AnswerInv' /\ OnlyOwnFailures' /\ PricesMoveForward'
  BY DEF IInv, HolderInv, AnswerInv, OnlyOwnFailures, PricesMoveForward
<1>4. OrderInv'
  BY <1>1 DEF IInv, TypeOK, OrderInv
<1>5. QED
  BY <1>1, <1>2, <1>3, <1>4 DEF IInv

\* A type that goes from the offer is blamed for whatever asks for it.
LEMMA ChangeOfferInv == ASSUME NEW t \in Types PROVE IInv /\ ChangeOffer(t) => IInv'
<1> SUFFICES ASSUME IInv, ChangeOffer(t) PROVE IInv'
  OBVIOUS
<1> USE DEF ChangeOffer, Event, cacheVars, queryVars
<1>1. events' \in 0 .. MaxEvents /\ events' >= events /\ offered' \in SUBSET Types
  BY DEF IInv, TypeOK
<1>2. blame' = [c \in Callers |-> blame[c] \/ asked[c] \notin offered']
  OBVIOUS
<1>3. blame' \in [Callers -> BOOLEAN] /\ \A c \in Callers : blame[c] => blame'[c]
  BY <1>2, Zenon DEF IInv, TypeOK
<1>4. \A c \in Callers : asked[c] \notin offered' => blame'[c]
  BY <1>2, Zenon
<1>5. TypeOK'
  BY <1>1, <1>3 DEF IInv, TypeOK
<1>6. ListInv'
  BY <1>1 DEF IInv, TypeOK, ListInv
<1>7. HolderInv' /\ OrderInv' /\ PricesMoveForward'
  BY DEF IInv, HolderInv, OrderInv, PricesMoveForward
<1>8. AnswerInv' /\ OnlyOwnFailures'
  BY <1>3, <1>4 DEF IInv, AnswerInv, OnlyOwnFailures
<1>9. QED
  BY <1>5, <1>6, <1>7, <1>8 DEF IInv

\* An answer has the offer and the prices of now.
LEMMA EvaluateInv == ASSUME NEW c \in Callers PROVE IInv /\ Evaluate(c) => IInv'
<1> SUFFICES ASSUME IInv, Evaluate(c) PROVE IInv'
  OBVIOUS
<1> USE DEF Evaluate, cloudVars, cacheVars
<1>1. TypeOK'
  BY DEF IInv, TypeOK
<1>2. ListInv' /\ HolderInv' /\ OnlyOwnFailures' /\ PricesMoveForward'
  BY DEF IInv, ListInv, HolderInv, OnlyOwnFailures, PricesMoveForward
<1>3. AnswerInv'
  <2>1. /\ quote'[c] \in Lists /\ pc[c] # "idle"
        /\ asked[c] \notin specs'[c] => blame[c]
    BY DEF IInv, TypeOK, AnswerInv
  <2>2. \A d \in Callers \ {c} : /\ answered'[d] = answered[d] /\ specs'[d] = specs[d]
                                /\ quote'[d] = quote[d]
    BY DEF IInv, TypeOK
  <2>3. QED
    BY <2>1, <2>2 DEF IInv, AnswerInv
<1>4. OrderInv'
  <2>1. quote'[c] >= best[asked[c]] /\ quote'[c] <= list
    BY DEF IInv, TypeOK, HolderInv, OrderInv
  <2>2. \A d \in Callers \ {c} : answered'[d] = answered[d] /\ quote'[d] = quote[d]
    BY DEF IInv, TypeOK
  <2>3. QED
    BY <2>1, <2>2 DEF IInv, OrderInv
<1>5. QED
  BY <1>1, <1>2, <1>3, <1>4 DEF IInv
-----------------------------------------------------------------------------
(* GetNodeHourlyPrice *)

\* A caller asks: its floor is the best price so far.
LEMMA AskInv ==
  ASSUME NEW c \in Callers, NEW t \in Types \cup {NoType}
  PROVE  IInv /\ Ask(c, t) => IInv'
<1> SUFFICES ASSUME IInv, Ask(c, t) PROVE IInv'
  OBVIOUS
<1> USE DEF Ask, cloudVars, cacheVars, queryVars
<1>0. \A d \in Callers \ {c} :
        /\ pc'[d] = pc[d] /\ asked'[d] = asked[d] /\ floor'[d] = floor[d]
        /\ blame'[d] = blame[d] /\ result'[d] = result[d]
  BY DEF IInv, TypeOK
<1>1. /\ asked'[c] = t /\ floor'[c] = (IF t = NoType THEN Unpriced ELSE best[t])
      /\ blame'[c] = (t \notin offered)
      /\ result'[c] = (IF t = NoType THEN Error ELSE Pending)
      /\ pc'[c] = (IF t = NoType THEN "idle" ELSE "waiting")
  BY DEF IInv, TypeOK
<1>2. /\ asked' \in [Callers -> Types \cup {NoType}] /\ floor' \in [Callers -> Prices]
      /\ blame' \in [Callers -> BOOLEAN]
      /\ result' \in [Callers -> {Pending, Panic, Error} \cup Prices]
      /\ pc' \in [Callers -> {"idle", "waiting", "hit"} \cup Querying]
  BY DEF IInv, TypeOK
<1>3. \A d \in Callers : lock' = d <=> pc'[d] \in Inside
  BY <1>0, <1>1 DEF IInv, TypeOK
<1>4. TypeOK'
  BY <1>2, <1>3 DEF IInv, TypeOK
<1>5. ListInv'
  BY DEF IInv, ListInv
<1>6. HolderInv'
  BY <1>0, <1>1 DEF IInv, HolderInv
<1>7. AnswerInv'
  <2>1. ~answered[c]
    BY DEF IInv, AnswerInv
  <2>2. t \notin offered => blame'[c]
    BY <1>1, Zenon
  <2>3. \A d \in Callers \ {c} : (pc'[d] # "idle" /\ asked'[d] \notin offered => blame'[d])
    BY <1>0, Zenon DEF IInv, AnswerInv
  <2>4. \A d \in Callers \ {c} :
          /\ answered[d] => pc'[d] \in Querying /\ quote[d] \in Lists
          /\ answered[d] /\ asked'[d] \notin specs[d] => blame'[d]
    BY <1>0, Zenon DEF IInv, AnswerInv
  <2>5. UNCHANGED <<offered, answered, specs, quote>>
    OBVIOUS
  <2>6. QED
    BY <1>1, <2>1, <2>2, <2>3, <2>4, <2>5, Zenon DEF AnswerInv
<1>8. OrderInv'
  <2>1. ~answered[c] /\ (pc'[c] # "idle" => floor'[c] = best[asked'[c]])
    BY <1>1 DEF IInv, AnswerInv
  <2>2. \A u \in Types : best[u] <= best[u]
    BY DEF IInv, TypeOK
  <2>3. QED
    BY <1>0, <1>1, <2>1, <2>2 DEF IInv, OrderInv
<1>9. OnlyOwnFailures' /\ PricesMoveForward'
  <2>1. (result'[c] = Error /\ blame'[c]) \/ result'[c] = Pending
    <3>1. NoType \notin offered
      BY DEF IInv, TypeOK
    <3>2. QED
      BY <1>1, <3>1, Zenon
  <2>2. QED
    BY <1>0, <2>1 DEF IInv, OnlyOwnFailures, PricesMoveForward
<1>10. QED
  BY <1>4, <1>5, <1>6, <1>7, <1>8, <1>9 DEF IInv

\* The lock is free for one caller, which finds its type, or does not.
LEMMA LockInv == ASSUME NEW c \in Callers PROVE IInv /\ Lock(c) => IInv'
<1> SUFFICES ASSUME IInv, Lock(c) PROVE IInv'
  OBVIOUS
<1> USE DEF Lock, MayLock, cloudVars, cacheVars, queryVars
<1>0. \A d \in Callers \ {c} : pc'[d] = pc[d]
  BY DEF IInv, TypeOK
<1>1. asked[c] \in Types /\ result[c] = Pending /\ ~answered[c]
  BY DEF IInv, HolderInv, AnswerInv
<1>2. /\ pc'[c] = Found(asked[c]) /\ pc'[c] \in Inside
      /\ pc' \in [Callers -> {"idle", "waiting", "hit"} \cup Querying]
  BY DEF IInv, TypeOK, Found
<1>3. \A d \in Callers : lock' = d <=> pc'[d] \in Inside
  BY <1>0, <1>2 DEF IInv, TypeOK
<1>4. TypeOK'
  BY <1>2, <1>3 DEF IInv, TypeOK
<1>5. ListInv' /\ OnlyOwnFailures' /\ PricesMoveForward'
  BY DEF IInv, ListInv, OnlyOwnFailures, PricesMoveForward
<1>6. HolderInv'
  <2>1. /\ pc'[c] = "hit" => nodeSpecMap[asked[c]] \in Lists
        /\ pc'[c] = "price" => nodeSpecMap[asked[c]] # Absent
    BY <1>1, <1>2 DEF IInv, TypeOK, Found
  <2>2. QED
    BY <1>0, <1>1, <2>1 DEF IInv, HolderInv
<1>7. AnswerInv' /\ OrderInv'
  BY <1>0, <1>1 DEF IInv, AnswerInv, OrderInv
<1>8. QED
  BY <1>4, <1>5, <1>6, <1>7 DEF IInv

\* A caller that returns r leaves everything but the cache and the faults in order.
LEMMA ReturnInv ==
  ASSUME IInv, NEW c \in Callers, pc[c] \in Inside,
         NEW r \in {Error, Unpriced} \cup Lists, Return(c, r),
         UNCHANGED cloudVars,
         \/ UNCHANGED queryVars /\ ~answered[c]
         \/ Received(c),
         faults' \in 0 .. MaxFaults,
         blame' \in [Callers -> BOOLEAN], \A d \in Callers : blame[d] => blame'[d],
         r \in {Error, Unpriced} => blame'[c],
         r \in Lists => r >= floor[c] /\ r <= list,
         nodeSpecMap' \in [Types -> {Absent} \cup Prices], isNil' \in BOOLEAN,
         isNil' => \A t \in Types : nodeSpecMap'[t] = Absent,
         \A t \in Types : nodeSpecMap'[t] \in Lists => nodeSpecMap'[t] = best'[t]
  PROVE  IInv'
<1> USE DEF cloudVars, queryVars
<1>1. asked[c] \in Types
  BY DEF IInv, HolderInv
<1>2. /\ pc' = [pc EXCEPT ![c] = "idle"] /\ result' = [result EXCEPT ![c] = r]
      /\ lock' = Free /\ UNCHANGED <<asked, floor>>
      /\ best' \in [Types -> Prices]
      /\ \A t \in Types : t # asked[c] => best'[t] = best[t]
      /\ best'[asked[c]] >= best[asked[c]]
      /\ best'[asked[c]] = best[asked[c]] \/ (best'[asked[c]] = r /\ r \in Lists)
  BY Returned
<1>3. /\ ~answered'[c]
      /\ \A d \in Callers \ {c} : /\ answered'[d] = answered[d] /\ specs'[d] = specs[d]
                                 /\ quote'[d] = quote[d]
      /\ answered' \in [Callers -> BOOLEAN] /\ specs' \in [Callers -> SUBSET Types]
      /\ quote' \in [Callers -> Prices]
  BY DEF IInv, TypeOK, Received
<1>4. \A d \in Callers \ {c} :
        /\ pc'[d] = pc[d] /\ result'[d] = result[d] /\ pc[d] \notin Inside /\ ~answered[d]
  BY <1>2, MutualExclusion DEF IInv, TypeOK, AnswerInv
<1>5. pc'[c] = "idle" /\ result'[c] = r
  BY <1>2 DEF IInv, TypeOK
<1>6. TypeOK'
  <2>1. /\ pc' \in [Callers -> {"idle", "waiting", "hit"} \cup Querying]
        /\ result' \in [Callers -> {Pending, Panic, Error} \cup Prices]
    BY <1>2 DEF IInv, TypeOK
  <2>2. \A d \in Callers : lock' = d <=> pc'[d] \in Inside
    BY <1>2, <1>4, <1>5
  <2>3. QED
    BY <1>2, <1>3, <2>1, <2>2 DEF IInv, TypeOK
<1>7. ListInv' /\ HolderInv'
  BY <1>2, <1>4, <1>5 DEF IInv, ListInv, HolderInv
<1>8. AnswerInv'
  BY <1>2, <1>3, <1>4, <1>5 DEF IInv, AnswerInv
<1>9. OrderInv'
  <2>1. \A t \in Types : best'[t] <= list
    BY <1>1, <1>2 DEF IInv, OrderInv
  <2>2. ASSUME NEW d \in Callers, pc'[d] # "idle" PROVE floor'[d] <= best'[asked'[d]]
    <3>1. /\ d # c /\ pc[d] # "idle" /\ asked'[d] = asked[d] /\ asked[d] \in Types
          /\ floor'[d] = floor[d] /\ floor[d] <= best[asked[d]]
      BY <1>2, <1>4, <1>5, <2>2 DEF IInv, HolderInv, OrderInv
    <3>2. best[asked[d]] <= best'[asked[d]]
      BY <1>1, <1>2, <3>1 DEF IInv, TypeOK
    <3>3. floor[d] \in Int /\ best[asked[d]] \in Int /\ best'[asked[d]] \in Int
      BY <1>2, <3>1 DEF IInv, TypeOK
    <3>4. QED
      BY <3>1, <3>2, <3>3
  <2>3. QED
    BY <1>3, <1>4, <2>1, <2>2 DEF OrderInv
<1>10. OnlyOwnFailures'
  BY <1>4, <1>5 DEF IInv, OnlyOwnFailures
<1>11. PricesMoveForward'
  BY <1>2, <1>4, <1>5 DEF IInv, PricesMoveForward
<1>12. QED
  BY <1>6, <1>7, <1>8, <1>9, <1>10, <1>11 DEF IInv

\* A price from the cache is the latest that was returned.
LEMMA HitInv == ASSUME NEW c \in Callers PROVE IInv /\ Hit(c) => IInv'
<1> SUFFICES ASSUME IInv, Hit(c) PROVE IInv'
  OBVIOUS
<1> DEFINE r == nodeSpecMap[asked[c]]
<1>1. /\ asked[c] \in Types /\ r \in Lists /\ pc[c] \in Inside /\ ~answered[c]
      /\ Return(c, r)
      /\ UNCHANGED <<cloudVars, faults, cacheVars, queryVars, blame>>
  BY DEF IInv, HolderInv, AnswerInv, Hit
<1>2. floor[c] <= r /\ r = best[asked[c]] /\ r <= list
  BY <1>1 DEF IInv, OrderInv, Hit
<1>3. r >= floor[c]
  BY <1>1, <1>2 DEF IInv, TypeOK
<1>4. \A t \in Types : nodeSpecMap'[t] \in Lists => nodeSpecMap'[t] = best'[t]
  BY <1>1, <1>2, Returned DEF cacheVars, IInv, OrderInv
<1>5. UNCHANGED <<nodeSpecMap, isNil, faults, blame>>
  BY <1>1 DEF cacheVars
<1>6. QED
  BY <1>1, <1>2, <1>3, <1>4, <1>5, ReturnInv DEF IInv, TypeOK

\* Specifications make a cache without prices.
LEMMA SpecsOfType ==
  ASSUME NEW S \in SUBSET Types
  PROVE  /\ SpecsOf(S) \in [Types -> {Absent} \cup Prices]
         /\ \A t \in Types : SpecsOf(S)[t] \notin Lists
         /\ \A t \in S : SpecsOf(S)[t] # Absent
BY DEF SpecsOf

\* The specifications arrive without the caller's type, which is blamed.
LEMMA SpecsLackInv ==
  ASSUME NEW c \in Callers PROVE IInv /\ SpecsReceived(c) /\ asked[c] \notin specs[c] => IInv'
<1> SUFFICES ASSUME IInv, SpecsReceived(c), asked[c] \notin specs[c] PROVE IInv'
  OBVIOUS
<1>1. /\ pc[c] \in Inside /\ answered[c] /\ Return(c, Error) /\ Received(c)
      /\ UNCHANGED <<cloudVars, faults, blame>>
      /\ nodeSpecMap' = SpecsOf(specs[c]) /\ isNil' = FALSE
  BY DEF SpecsReceived
<1>2. blame'[c]
  BY <1>1 DEF IInv, AnswerInv
<1>3. /\ nodeSpecMap' \in [Types -> {Absent} \cup Prices]
      /\ \A t \in Types : nodeSpecMap'[t] \notin Lists
  BY <1>1, SpecsOfType DEF IInv, TypeOK
<1>4. /\ UNCHANGED <<faults, blame>> /\ faults \in 0 .. MaxFaults
      /\ blame \in [Callers -> BOOLEAN] /\ Error \notin Lists
  BY <1>1 DEF IInv, TypeOK
<1>5. QED
  BY <1>1, <1>2, <1>3, <1>4, ReturnInv

\* They arrive with it: the caller goes on to ask for the price, all prices of the
\* cache are gone.
LEMMA SpecsHaveInv ==
  ASSUME NEW c \in Callers PROVE IInv /\ SpecsReceived(c) /\ asked[c] \in specs[c] => IInv'
<1> SUFFICES ASSUME IInv, SpecsReceived(c), asked[c] \in specs[c] PROVE IInv'
  OBVIOUS
<1> USE DEF cloudVars
<1>1. /\ pc[c] = "specs" /\ pc' = [pc EXCEPT ![c] = "price"]
      /\ nodeSpecMap' = SpecsOf(specs[c]) /\ isNil' = FALSE
      /\ UNCHANGED <<lock, asked, result, best, floor, cloudVars, faults, blame>>
      /\ Received(c)
  BY DEF SpecsReceived
<1>2. /\ nodeSpecMap' \in [Types -> {Absent} \cup Prices]
      /\ \A t \in Types : nodeSpecMap'[t] \notin Lists
      /\ nodeSpecMap'[asked[c]] # Absent
  BY <1>1, SpecsOfType DEF IInv, TypeOK
<1>3. /\ ~answered'[c]
      /\ \A d \in Callers \ {c} : /\ answered'[d] = answered[d] /\ specs'[d] = specs[d]
                                 /\ quote'[d] = quote[d]
      /\ answered' \in [Callers -> BOOLEAN] /\ specs' \in [Callers -> SUBSET Types]
      /\ quote' \in [Callers -> Prices]
  BY <1>1 DEF IInv, TypeOK, Received
<1>4. \A d \in Callers \ {c} : pc'[d] = pc[d] /\ pc[d] \notin Inside
  BY <1>1, MutualExclusion DEF IInv, TypeOK
<1>5. /\ pc'[c] = "price"
      /\ pc' \in [Callers -> {"idle", "waiting", "hit"} \cup Querying]
      /\ \A d \in Callers : lock' = d <=> pc'[d] \in Inside
  BY <1>1 DEF IInv, TypeOK
<1>6. TypeOK'
  BY <1>1, <1>2, <1>3, <1>5 DEF IInv, TypeOK
<1>7. ListInv' /\ OnlyOwnFailures' /\ PricesMoveForward'
  BY <1>1 DEF IInv, ListInv, OnlyOwnFailures, PricesMoveForward
<1>8. HolderInv'
  BY <1>1, <1>2, <1>4, <1>5 DEF IInv, HolderInv
<1>9. AnswerInv' /\ OrderInv'
  BY <1>1, <1>2, <1>3, <1>4, <1>5 DEF IInv, AnswerInv, OrderInv
<1>10. QED
  BY <1>6, <1>7, <1>8, <1>9 DEF IInv

\* They do not arrive: the caller is blamed.
LEMMA SpecsFailInv == ASSUME NEW c \in Callers PROVE IInv /\ SpecsFail(c) => IInv'
<1> SUFFICES ASSUME IInv, SpecsFail(c) PROVE IInv'
  OBVIOUS
<1>1. /\ pc[c] \in Inside /\ Return(c, Error) /\ Received(c) /\ UNCHANGED cloudVars
      /\ nodeSpecMap' = SpecsOf({}) /\ isNil' \in BOOLEAN
      /\ faults < MaxFaults /\ faults' = faults + 1
      /\ blame' = [blame EXCEPT ![c] = TRUE]
  BY DEF SpecsFail, Fault
<1>2. /\ blame'[c] /\ blame' \in [Callers -> BOOLEAN] /\ faults' \in 0 .. MaxFaults
      /\ \A d \in Callers : blame[d] => blame'[d]
  BY <1>1 DEF IInv, TypeOK
<1>3. /\ nodeSpecMap' \in [Types -> {Absent} \cup Prices]
      /\ \A t \in Types : nodeSpecMap'[t] = Absent /\ nodeSpecMap'[t] \notin Lists
  BY <1>1 DEF SpecsOf
<1>4. Error \notin Lists
  OBVIOUS
<1>5. QED
  BY <1>1, <1>2, <1>3, <1>4, ReturnInv

\* While a caller asks for a price the map is not nil: what it receives is stored.
LEMMA Stored ==
  ASSUME IInv, NEW c \in Callers, pc[c] = "price", NEW v \in Prices, Store(c, v)
  PROVE  /\ asked[c] \in Types /\ ~isNil /\ Return(c, v)
         /\ nodeSpecMap' = [nodeSpecMap EXCEPT ![asked[c]] = v]
BY DEF IInv, TypeOK, HolderInv, Store

\* A price that arrives is stored and returned, and is then the best.
LEMMA PriceReceivedInv == ASSUME NEW c \in Callers PROVE IInv /\ PriceReceived(c) => IInv'
<1> SUFFICES ASSUME IInv, PriceReceived(c) PROVE IInv'
  OBVIOUS
<1> DEFINE r == quote[c]
<1>1. /\ pc[c] = "price" /\ answered[c] /\ Store(c, r) /\ Received(c)
      /\ UNCHANGED <<cloudVars, faults, isNil, blame>>
  BY DEF PriceReceived
<1>2. r \in Lists /\ r >= best[asked[c]] /\ r <= list /\ floor[c] <= best[asked[c]]
  BY <1>1 DEF IInv, AnswerInv, OrderInv
<1>3. /\ asked[c] \in Types /\ ~isNil /\ Return(c, r)
      /\ nodeSpecMap' = [nodeSpecMap EXCEPT ![asked[c]] = r]
  BY <1>1, <1>2, Stored
<1>4. r >= floor[c]
  BY <1>2, <1>3 DEF IInv, TypeOK
<1>5. nodeSpecMap' \in [Types -> {Absent} \cup Prices]
  BY <1>2, <1>3 DEF IInv, TypeOK
<1>6. ASSUME NEW t \in Types, nodeSpecMap'[t] \in Lists PROVE nodeSpecMap'[t] = best'[t]
  <2>1. /\ t # asked[c] => best'[t] = best[t]
        /\ best'[asked[c]] = best[asked[c]] \/ best'[asked[c]] = r
        /\ best'[asked[c]] >= r
    BY <1>1, <1>2, <1>3, Returned
  <2>2. best[asked[c]] \in Int /\ r \in Int
    BY <1>2, <1>3 DEF IInv, TypeOK
  <2>3. best'[asked[c]] = r
    BY <1>2, <2>1, <2>2
  <2>4. QED
    BY <1>3, <1>6, <2>1, <2>3 DEF IInv, TypeOK, OrderInv
<1>7. /\ UNCHANGED <<faults, blame>> /\ isNil' = FALSE /\ faults \in 0 .. MaxFaults
      /\ blame \in [Callers -> BOOLEAN] /\ r \notin {Error, Unpriced}
  BY <1>1, <1>2, <1>3 DEF IInv, TypeOK
<1>8. QED
  BY <1>1, <1>2, <1>3, <1>4, <1>5, <1>6, <1>7, ReturnInv

\* A body without a price stores 0: the caller is blamed.
LEMMA PriceMissingInv == ASSUME NEW c \in Callers PROVE IInv /\ PriceMissing(c) => IInv'
<1> SUFFICES ASSUME IInv, PriceMissing(c) PROVE IInv'
  OBVIOUS
<1>1. /\ pc[c] = "price" /\ Store(c, Unpriced) /\ Received(c)
      /\ UNCHANGED <<cloudVars, isNil>>
      /\ faults < MaxFaults /\ faults' = faults + 1
      /\ blame' = [blame EXCEPT ![c] = TRUE]
  BY DEF PriceMissing, Fault
<1>2. /\ asked[c] \in Types /\ ~isNil /\ Return(c, Unpriced)
      /\ nodeSpecMap' = [nodeSpecMap EXCEPT ![asked[c]] = Unpriced]
  BY <1>1, Stored
<1>3. /\ blame'[c] /\ blame' \in [Callers -> BOOLEAN] /\ faults' \in 0 .. MaxFaults
      /\ \A d \in Callers : blame[d] => blame'[d]
  BY <1>1 DEF IInv, TypeOK
<1>4. /\ nodeSpecMap' \in [Types -> {Absent} \cup Prices] /\ Unpriced \notin Lists
      /\ isNil' = FALSE
  BY <1>1, <1>2 DEF IInv, TypeOK
<1>5. ASSUME NEW t \in Types, nodeSpecMap'[t] \in Lists PROVE nodeSpecMap'[t] = best'[t]
  <2>1. t # asked[c]
    BY <1>2, <1>4, <1>5 DEF IInv, TypeOK
  <2>2. best'[t] = best[t]
    BY <1>1, <1>2, <2>1, Returned
  <2>3. QED
    BY <1>2, <1>5, <2>1, <2>2 DEF IInv, TypeOK, OrderInv
<1>6. QED
  BY <1>1, <1>2, <1>3, <1>4, <1>5, ReturnInv

\* A price that does not arrive leaves the cache as it is.
LEMMA PriceFailsInv == ASSUME NEW c \in Callers PROVE IInv /\ PriceFails(c) => IInv'
<1> SUFFICES ASSUME IInv, PriceFails(c) PROVE IInv'
  OBVIOUS
<1>1. /\ pc[c] = "price" /\ Return(c, Error) /\ Received(c)
      /\ UNCHANGED cloudVars /\ UNCHANGED <<nodeSpecMap, isNil>>
      /\ faults < MaxFaults /\ faults' = faults + 1
      /\ blame' = [blame EXCEPT ![c] = TRUE]
  BY DEF PriceFails, Fault, cacheVars
<1>2. /\ blame'[c] /\ blame' \in [Callers -> BOOLEAN] /\ faults' \in 0 .. MaxFaults
      /\ \A d \in Callers : blame[d] => blame'[d]
  BY <1>1 DEF IInv, TypeOK
<1>3. Error \notin Lists
  OBVIOUS
<1>4. best' = best
  BY <1>1, <1>3 DEF Return
<1>5. /\ nodeSpecMap \in [Types -> {Absent} \cup Prices] /\ isNil \in BOOLEAN
      /\ isNil => \A t \in Types : nodeSpecMap[t] = Absent
      /\ \A t \in Types : nodeSpecMap[t] \in Lists => nodeSpecMap[t] = best[t]
  BY DEF IInv, TypeOK, OrderInv
<1>6. QED
  BY <1>1, <1>2, <1>3, <1>4, <1>5, ReturnInv

-----------------------------------------------------------------------------
\* Every step keeps the invariant.
LEMMA NextInv == IInv /\ [Next]_vars => IInv'
<1> SUFFICES ASSUME IInv, [Next]_vars PROVE IInv'
  OBVIOUS
<1>1. CASE NewList
  BY <1>1, NewListInv
<1>2. ASSUME NEW t \in Types, ChangeOffer(t) PROVE IInv'
  BY <1>2, ChangeOfferInv
<1>3. ASSUME NEW c \in Callers, NEW t \in Types \cup {NoType}, Ask(c, t) PROVE IInv'
  BY <1>3, AskInv
<1>4. ASSUME NEW c \in Callers, Evaluate(c) PROVE IInv'
  BY <1>4, EvaluateInv
<1>5. ASSUME NEW c \in Callers, Lock(c) PROVE IInv'
  BY <1>5, LockInv
<1>6. ASSUME NEW c \in Callers, Hit(c) PROVE IInv'
  BY <1>6, HitInv
<1>7. ASSUME NEW c \in Callers, SpecsReceived(c) PROVE IInv'
  BY <1>7, SpecsLackInv, SpecsHaveInv
<1>8. ASSUME NEW c \in Callers, SpecsFail(c) PROVE IInv'
  BY <1>8, SpecsFailInv
<1>9. ASSUME NEW c \in Callers, PriceReceived(c) PROVE IInv'
  BY <1>9, PriceReceivedInv
<1>10. ASSUME NEW c \in Callers, PriceMissing(c) PROVE IInv'
  BY <1>10, PriceMissingInv
<1>11. ASSUME NEW c \in Callers, PriceFails(c) PROVE IInv'
  BY <1>11, PriceFailsInv
<1>12. CASE UNCHANGED vars
  BY <1>12 DEF vars, cloudVars, cacheVars, queryVars, IInv, TypeOK, ListInv, HolderInv,
               AnswerInv, OrderInv, OnlyOwnFailures, PricesMoveForward
<1>13. QED
  BY <1>1, <1>2, <1>3, <1>4, <1>5, <1>6, <1>7, <1>8, <1>9, <1>10, <1>11, <1>12 DEF Next

\* The inductive invariant holds always.
THEOREM PriceInvariant == Spec => []IInv
<1>1. QED
  BY InitInv, NextInv, PTL DEF Spec

\* The cache, the lock and the callers keep their types, and at most one caller is
\* inside the provider, for any callers, node types, prices and failures.
THEOREM PriceTypeCorrect == Spec => []TypeOK
<1>1. IInv => TypeOK
  BY DEF IInv
<1>2. QED
  BY <1>1, PriceInvariant, PTL

\* No caller ever suffers from the query of another: a call panics never, and fails
\* or returns 0 only when a query of its own went wrong or its type was not offered.
THEOREM NobodyElsesFailure == Spec => []OnlyOwnFailures
<1>1. IInv => OnlyOwnFailures
  BY DEF IInv
<1>2. QED
  BY <1>1, PriceInvariant, PTL

\* No call returns a price older than one that was returned before it was made,
\* however often the cache was replaced in between.
THEOREM PricesNeverGoBack == Spec => []PricesMoveForward
<1>1. IInv => PricesMoveForward
  BY DEF IInv
<1>2. QED
  BY <1>1, PriceInvariant, PTL

-----------------------------------------------------------------------------
(* The refinement of PriceHistory.                                         *)

\* Only asking and returning change what a caller asks for.
LEMMA AsksKept ==
  ASSUME NEW c \in Callers, IInv, UNCHANGED asked,
         pc[c] \in Inside \cup {"waiting"}, NEW s \in Inside, pc' = [pc EXCEPT ![c] = s]
  PROVE  Asks' = Asks
BY DEF Asks, IInv, TypeOK

LEMMA AsksSettled ==
  ASSUME NEW c \in Callers, IInv, UNCHANGED asked, pc[c] \in Inside,
         pc' = [pc EXCEPT ![c] = "idle"]
  PROVE  /\ asked[c] \in Types /\ Asks[c] = asked[c]
         /\ Asks' = [Asks EXCEPT ![c] = NoType]
BY DEF Asks, IInv, TypeOK, HolderInv

LEMMA SettleStep ==
  ASSUME IInv, NEW c \in Callers, pc[c] \in Inside, NEW r \in {Error, Unpriced} \cup Lists,
         Return(c, r), list' = list
  PROVE  asked[c] \in Types /\ History!Settle(c, asked[c], r)
<1>1. /\ pc' = [pc EXCEPT ![c] = "idle"] /\ result' = [result EXCEPT ![c] = r]
      /\ UNCHANGED asked
  BY Returned
<1>2. /\ asked[c] \in Types /\ Asks[c] = asked[c]
      /\ Asks' = [Asks EXCEPT ![c] = NoType]
  BY <1>1, AsksSettled
<1> QED BY <1>1, <1>2 DEF History!Settle

\* A call that returns a price moves the history on to it.
LEMMA QuoteStep ==
  ASSUME IInv, NEW c \in Callers, pc[c] \in Inside, NEW r \in Lists, Return(c, r),
         list' = list, r >= best[asked[c]], r <= list
  PROVE  History!Next
<1>1. asked[c] \in Types /\ History!Settle(c, asked[c], r)
  BY SettleStep
<1>2. best \in [Types -> Prices] /\ list \in Nat
  BY DEF IInv, TypeOK
<1>3. best' = [best EXCEPT ![asked[c]] = r]
  <2>1. CASE r > best[asked[c]]
    BY <2>1 DEF Return
  <2>2. CASE r = best[asked[c]]
    <3>1. best' = best
      BY <1>1, <1>2, <2>2 DEF Return
    <3> QED BY <1>1, <1>2, <2>2, <3>1
  <2> QED BY <1>1, <1>2, <2>1, <2>2
<1>4. r \in best[asked[c]] .. list /\ r # Unpriced
  BY <1>1, <1>2
<1>5. History!Quote(c, asked[c])
  BY <1>1, <1>3, <1>4 DEF History!Quote
<1> QED BY <1>1, <1>5 DEF History!Next

\* One that fails, or finds no price, leaves it.
LEMMA FailStep ==
  ASSUME IInv, NEW c \in Callers, pc[c] \in Inside, NEW r \in {Error, Unpriced},
         Return(c, r), list' = list
  PROVE  History!Next
<1>1. asked[c] \in Types /\ History!Settle(c, asked[c], r)
  BY SettleStep
<1>2. r \notin Lists
  OBVIOUS
<1>3. best' = best
  BY <1>2 DEF Return
<1>4. History!Fail(c, asked[c])
  BY <1>1, <1>3 DEF History!Fail
<1> QED BY <1>1, <1>4 DEF History!Next

LEMMA HistorySteps == IInv /\ [Next]_vars => [History!Next]_(History!vars)
<1> DEFINE Same == UNCHANGED <<list, best, Asks, result>>
           Good == History!Next \/ Same
<1> SUFFICES ASSUME IInv, [Next]_vars PROVE Good
  BY DEF History!vars
<1> USE DEF cloudVars, cacheVars, queryVars
<1>1. CASE NewList
  <2>1. Asks' = Asks
    BY <1>1 DEF NewList, Asks
  <2>2. History!Publish
    BY <1>1, <2>1 DEF NewList, History!Publish
  <2> QED BY <2>2 DEF History!Next
<1>2. ASSUME NEW t \in Types, ChangeOffer(t) PROVE Good
  BY <1>2 DEF ChangeOffer, Asks
<1>3. ASSUME NEW c \in Callers, NEW t \in Types \cup {NoType}, Ask(c, t) PROVE Good
  <2>1. /\ Asks[c] = NoType /\ UNCHANGED <<list, best>> /\ pc[c] = "idle"
        /\ asked' = [asked EXCEPT ![c] = t]
        /\ pc \in [Callers -> {"idle", "waiting", "hit"} \cup Querying]
        /\ asked \in [Callers -> Types \cup {NoType}]
    BY <1>3 DEF Ask, Asks, IInv, TypeOK
  <2>2. CASE t = NoType
    <3>1. pc' = pc /\ result' = [result EXCEPT ![c] = Error]
      BY <1>3, <2>2 DEF Ask
    <3>2. Asks' = Asks
      BY <2>1, <3>1 DEF Asks
    <3>3. History!Refuse(c)
      BY <2>1, <3>1, <3>2 DEF History!Refuse
    <3> QED BY <3>3 DEF History!Next
  <2>3. CASE t \in Types
    <3>1. pc' = [pc EXCEPT ![c] = "waiting"] /\ result' = [result EXCEPT ![c] = Pending]
      BY <1>3, <2>3 DEF Ask
    <3>2. Asks' = [Asks EXCEPT ![c] = t]
      BY <2>1, <3>1 DEF Asks
    <3>3. History!Ask(c, t)
      BY <2>1, <3>1, <3>2 DEF History!Ask
    <3> QED BY <2>3, <3>3 DEF History!Next
  <2> QED BY <2>2, <2>3
<1>4. ASSUME NEW c \in Callers, Evaluate(c) PROVE Good
  BY <1>4 DEF Evaluate, Asks
<1>5. ASSUME NEW c \in Callers, Lock(c) PROVE Good
  <2>1. Found(asked[c]) \in Inside
    BY DEF Found
  <2>2. Asks' = Asks
    BY <1>5, <2>1, AsksKept DEF Lock
  <2> QED BY <1>5, <2>2 DEF Lock
\* A hit is of the latest price that was returned.
<1>6. ASSUME NEW c \in Callers, Hit(c) PROVE Good
  <2> DEFINE r == nodeSpecMap[asked[c]]
  <2>1. pc[c] \in Inside /\ Return(c, r) /\ list' = list /\ asked[c] \in Types /\ r \in Lists
    BY <1>6 DEF Hit, IInv, HolderInv
  <2>2. r = best[asked[c]] /\ best[asked[c]] <= list
    BY <2>1 DEF IInv, OrderInv
  <2>3. r >= best[asked[c]] /\ r <= list
    BY <2>1, <2>2
  <2> HIDE DEF r
  <2> QED BY <2>1, <2>3, QuoteStep
<1>7. ASSUME NEW c \in Callers, SpecsReceived(c) PROVE Good
  <2>1. CASE asked[c] \in specs[c]
    <3>1. pc[c] = "specs" /\ pc' = [pc EXCEPT ![c] = "price"]
          /\ UNCHANGED <<asked, result, best, list>>
      BY <1>7, <2>1 DEF SpecsReceived
    <3>2. Asks' = Asks
      BY <3>1, AsksKept
    <3> QED BY <3>1, <3>2
  <2>2. CASE asked[c] \notin specs[c]
    <3>1. pc[c] \in Inside /\ Return(c, Error) /\ list' = list
      BY <1>7, <2>2 DEF SpecsReceived
    <3> QED BY <3>1, FailStep
  <2> QED BY <2>1, <2>2
<1>8. ASSUME NEW c \in Callers, SpecsFail(c) PROVE Good
  <2>1. pc[c] \in Inside /\ Return(c, Error) /\ list' = list
    BY <1>8 DEF SpecsFail
  <2> QED BY <2>1, FailStep
\* The lock is held since the query, so no price was returned after it.
<1>9. ASSUME NEW c \in Callers, PriceReceived(c) PROVE Good
  <2> DEFINE r == quote[c]
  <2>1. pc[c] = "price" /\ answered[c] /\ Store(c, r) /\ list' = list
    BY <1>9 DEF PriceReceived
  <2>2. r \in Lists /\ r >= best[asked[c]] /\ r <= list
    BY <2>1 DEF IInv, AnswerInv, OrderInv
  <2>3. Return(c, r) /\ pc[c] \in Inside
    BY <2>1, <2>2, Stored
  <2> HIDE DEF r
  <2> QED BY <2>1, <2>2, <2>3, QuoteStep
<1>10. ASSUME NEW c \in Callers, PriceMissing(c) PROVE Good
  <2>1. pc[c] = "price" /\ Store(c, Unpriced) /\ list' = list
    BY <1>10 DEF PriceMissing
  <2>2. Return(c, Unpriced) /\ pc[c] \in Inside
    BY <2>1, Stored
  <2> QED BY <2>1, <2>2, FailStep
<1>11. ASSUME NEW c \in Callers, PriceFails(c) PROVE Good
  <2>1. pc[c] \in Inside /\ Return(c, Error) /\ list' = list
    BY <1>11 DEF PriceFails
  <2> QED BY <2>1, FailStep
<1>12. CASE UNCHANGED vars
  BY <1>12 DEF vars, Asks
<1> HIDE DEF Good, cloudVars, cacheVars, queryVars
<1> QED
  BY <1>1, <1>2, <1>3, <1>4, <1>5, <1>6, <1>7, <1>8, <1>9, <1>10, <1>11, <1>12 DEF Next

\* The provider implements PriceHistory: whatever overlaps, fails or is thrown away,
\* the prices that all callers get of a type are read off one history that never
\* returns to an older price list.
THEOREM HistoryImplemented == Spec => HistorySpec
<1>1. Init => History!Init
  BY DEF Init, History!Init, Asks
<1>2. QED
  BY <1>1, PriceInvariant, HistorySteps, PTL DEF Spec, HistorySpec, History!Spec
=============================================================================

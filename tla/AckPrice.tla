------------------------------ MODULE AckPrice ------------------------------
(***************************************************************************)
(* The prices of nodes on Alibaba Cloud: a cache of specifications and     *)
(* prices by node type, filled by two queries to the cloud under the lock  *)
(* of the cache, for collectors that ask in parallel.                      *)
(*                                                                         *)
(* Source: pkg/agent/cloudprice/ack/provider.go; its callers are           *)
(* ParsePodResourceCost and the collectors of AgentScrape.                 *)
(*                                                                         *)
(* A specification is left out but for its presence; a price is the number *)
(* of the price list it was quoted from.                                   *)
(***************************************************************************)
EXTENDS Integers, FiniteSets

CONSTANTS
  Callers,   \* the collectors of one scrape, or of several
  Types,     \* node types
  NoType,    \* of a node without the label
  Free,      \* the lock is free
  MaxEvents, \* bound on price lists and changes of the offer
  MaxFaults  \* bound on queries that go wrong

ASSUME NamesAssumption == Free \notin Callers /\ NoType \notin Types
ASSUME BoundsAssumption == MaxEvents \in Nat /\ MaxFaults \in Nat

\* What the cache has of a type, and what a call returns, beside prices.
Absent == -1
Unpriced == 0
Error == -1
Panic == -2
Pending == -3

Lists == 1 .. MaxEvents + 1
Querying == {"specs", "price"}

VARIABLES
  offered, list,      \* the cloud: the types it lists, its latest price list
  events, faults,
  nodeSpecMap, isNil, \* the cache, and whether it is a nil map
  lock,               \* who holds nodeSpecLock
  pc, asked,          \* where a caller is, and the type it asks for
  answered, specs, quote, \* the cloud has evaluated the caller's query: its answer
  result,
  best, floor, blame  \* history: the latest price returned for a type, the same
                      \* when a caller asked, and whether a query of its own went
                      \* wrong or its type was not offered since

cloudVars == <<offered, list, events>>
cacheVars == <<nodeSpecMap, isNil>>
queryVars == <<answered, specs, quote>>
vars == <<cloudVars, faults, cacheVars, lock, pc, asked, queryVars, result, best, floor,
          blame>>

TypeOK ==
  /\ offered \in SUBSET Types /\ list \in Lists
  /\ events \in 0 .. MaxEvents /\ faults \in 0 .. MaxFaults
  /\ nodeSpecMap \in [Types -> {Absent, Unpriced} \cup Lists] /\ isNil \in BOOLEAN
  /\ isNil => \A t \in Types : nodeSpecMap[t] = Absent
  /\ lock \in Callers \cup {Free}
  /\ pc \in [Callers -> {"idle", "waiting", "hit"} \cup Querying]
  /\ \A c \in Callers : lock = c <=> pc[c] \in {"hit"} \cup Querying
  /\ asked \in [Callers -> Types \cup {NoType}]
  /\ answered \in [Callers -> BOOLEAN]
  /\ specs \in [Callers -> SUBSET Types] /\ quote \in [Callers -> {Unpriced} \cup Lists]
  /\ result \in [Callers -> {Pending, Panic, Error, Unpriced} \cup Lists]
  /\ best \in [Types -> {Unpriced} \cup Lists]
  /\ floor \in [Callers -> {Unpriced} \cup Lists] /\ blame \in [Callers -> BOOLEAN]

Init ==
  /\ offered \in SUBSET Types /\ list = 1 /\ events = 0 /\ faults = 0
  /\ nodeSpecMap = [t \in Types |-> Absent] /\ isNil = FALSE
  /\ lock = Free
  /\ pc = [c \in Callers |-> "idle"] /\ asked = [c \in Callers |-> NoType]
  /\ answered = [c \in Callers |-> FALSE] /\ specs = [c \in Callers |-> {}]
  /\ quote = [c \in Callers |-> Unpriced]
  /\ result = [c \in Callers |-> Pending]
  /\ best = [t \in Types |-> Unpriced] /\ floor = [c \in Callers |-> Unpriced]
  /\ blame = [c \in Callers |-> FALSE]

-----------------------------------------------------------------------------
(* The cloud *)

Event == events < MaxEvents /\ events' = events + 1

NewList ==
  /\ Event /\ list' = list + 1
  /\ UNCHANGED <<offered, faults, cacheVars, lock, pc, asked, queryVars, result, best,
                 floor, blame>>

ChangeOffer(t) ==
  /\ Event
  /\ offered' = IF t \in offered THEN offered \ {t} ELSE offered \cup {t}
  /\ blame' = [c \in Callers |-> blame[c] \/ asked[c] \notin offered']
  /\ UNCHANGED <<list, faults, cacheVars, lock, pc, asked, queryVars, result, best, floor>>

\* The answer is on its way when the cloud has evaluated the query.
Evaluate(c) ==
  /\ pc[c] \in Querying /\ ~answered[c]
  /\ answered' = [answered EXCEPT ![c] = TRUE]
  /\ specs' = [specs EXCEPT ![c] = offered]
  /\ quote' = [quote EXCEPT ![c] = list]
  /\ UNCHANGED <<cloudVars, faults, cacheVars, lock, pc, asked, result, best, floor, blame>>

-----------------------------------------------------------------------------
(* GetNodeHourlyPrice *)

Ask(c, t) ==
  /\ pc[c] = "idle"
  /\ asked' = [asked EXCEPT ![c] = t]
  /\ floor' = [floor EXCEPT ![c] = IF t = NoType THEN Unpriced ELSE best[t]]
  /\ blame' = [blame EXCEPT ![c] = t \notin offered]
  /\ IF t = NoType THEN result' = [result EXCEPT ![c] = Error] /\ UNCHANGED pc
     ELSE result' = [result EXCEPT ![c] = Pending] /\ pc' = [pc EXCEPT ![c] = "waiting"]
  /\ UNCHANGED <<cloudVars, faults, cacheVars, lock, queryVars, best>>

\* Mutant: the cache has no lock.
MayLock_Unlocked(c) == TRUE

MayLock(c) == lock = Free

\* Mutant: a type whose price is still to be asked for is found.
Found_Listed(t) == IF nodeSpecMap[t] = Absent THEN "specs" ELSE "hit"

Found(t) ==
  IF nodeSpecMap[t] = Absent THEN "specs"
  ELSE IF nodeSpecMap[t] = Unpriced THEN "price" ELSE "hit"

Lock(c) ==
  /\ pc[c] = "waiting" /\ MayLock(c)
  /\ lock' = c
  /\ pc' = [pc EXCEPT ![c] = Found(asked[c])]
  /\ UNCHANGED <<cloudVars, faults, cacheVars, asked, queryVars, result, best, floor, blame>>

\* Mutant: an error leaves the lock as it is.
Unlocked_OnSuccess(c, r) == IF r = Error THEN c ELSE Free

Unlocked(c, r) == Free

Return(c, r) ==
  /\ pc' = [pc EXCEPT ![c] = "idle"]
  /\ result' = [result EXCEPT ![c] = r]
  /\ lock' = Unlocked(c, r)
  /\ best' = IF r \in Lists /\ r > best[asked[c]] THEN [best EXCEPT ![asked[c]] = r] ELSE best
  /\ UNCHANGED <<asked, floor>>

\* The answer to a query, or its failure, is used once.
Received(c) ==
  /\ answered' = [answered EXCEPT ![c] = FALSE]
  /\ specs' = [specs EXCEPT ![c] = {}]
  /\ quote' = [quote EXCEPT ![c] = Unpriced]

Fault(c) == /\ faults < MaxFaults /\ faults' = faults + 1
            /\ blame' = [blame EXCEPT ![c] = TRUE]

Hit(c) ==
  /\ pc[c] = "hit"
  /\ Return(c, nodeSpecMap[asked[c]])
  /\ UNCHANGED <<cloudVars, faults, cacheVars, queryVars, blame>>

\* The specifications replace the cache, with every price it had.
SpecsOf(S) == [t \in Types |-> IF t \in S THEN Unpriced ELSE Absent]

SpecsReceived(c) ==
  /\ pc[c] = "specs" /\ answered[c]
  /\ nodeSpecMap' = SpecsOf(specs[c]) /\ isNil' = FALSE
  /\ IF asked[c] \in specs[c]
     THEN pc' = [pc EXCEPT ![c] = "price"] /\ UNCHANGED <<lock, asked, result, best, floor>>
     ELSE Return(c, Error)
  /\ Received(c)
  /\ UNCHANGED <<cloudVars, faults, blame>>

\* A query that fails replaces it by nil; the status of an answer is not looked at,
\* and a body without the list replaces it by an empty map.
SpecsFail(c) ==
  /\ pc[c] = "specs" /\ Fault(c)
  /\ nodeSpecMap' = SpecsOf({}) /\ isNil' \in BOOLEAN
  /\ Return(c, Error) /\ Received(c)
  /\ UNCHANGED cloudVars

\* The price is stored, which ends the process if the map is nil.
Store(c, v) ==
  IF isNil THEN Return(c, Panic) /\ UNCHANGED nodeSpecMap
  ELSE Return(c, v) /\ nodeSpecMap' = [nodeSpecMap EXCEPT ![asked[c]] = v]

PriceReceived(c) ==
  /\ pc[c] = "price" /\ answered[c]
  /\ Store(c, quote[c]) /\ Received(c)
  /\ UNCHANGED <<cloudVars, faults, isNil, blame>>

\* A body without a price is a price of 0, and no error.
PriceMissing(c) ==
  /\ pc[c] = "price" /\ Fault(c)
  /\ Store(c, Unpriced) /\ Received(c)
  /\ UNCHANGED <<cloudVars, isNil>>

PriceFails(c) ==
  /\ pc[c] = "price" /\ Fault(c)
  /\ Return(c, Error) /\ Received(c)
  /\ UNCHANGED <<cloudVars, cacheVars>>

Next ==
  \/ NewList \/ \E t \in Types : ChangeOffer(t)
  \/ \E c \in Callers, t \in Types \cup {NoType} : Ask(c, t)
  \/ \E c \in Callers :
       \/ Evaluate(c) \/ Lock(c) \/ Hit(c)
       \/ SpecsReceived(c) \/ SpecsFail(c)
       \/ PriceReceived(c) \/ PriceMissing(c) \/ PriceFails(c)

Spec == Init /\ [][Next]_vars

\* Go's mutex hands over to a waiter within a millisecond; an answer that was sent
\* is received.  Whether the cloud evaluates a query is not assumed: the client
\* has no timeout.
Fairness ==
  \A c \in Callers :
    SF_vars(Lock(c)) /\ WF_vars(Hit(c)) /\ WF_vars(SpecsReceived(c) \/ PriceReceived(c))

FairSpec == Spec /\ Fairness

-----------------------------------------------------------------------------
(* Properties *)

\* A call fails, or returns a price of 0, only for a query of its own that went
\* wrong or a type the cloud did not list: the queries of others, which replace
\* the cache or make it nil at any time, do it no harm and never make it panic
\* (provider.go:145-172).
OnlyOwnFailures ==
  \A c \in Callers :
    /\ result[c] # Panic
    /\ result[c] \in {Error, Unpriced} => blame[c]

\* The price a call returns is not older than one that was returned for the type
\* before it was made, although the cache is thrown away and filled again, and
\* prices change between a query and its answer (provider.go:148-172).
PricesMoveForward ==
  \A c \in Callers : result[c] \in Lists => result[c] >= floor[c]

\* The provider implements PriceHistory: calls that overlap get their prices as if
\* each were answered at once, although between the look-up and the store of a price
\* two queries go to the cloud and the whole cache may be replaced
\* (provider.go:145-172).
Asks == [c \in Callers |-> IF pc[c] = "idle" THEN NoType ELSE asked[c]]

History == INSTANCE PriceHistory WITH latest <- list, price <- best, asks <- Asks

HistorySpec == History!Spec

\* If no query of anyone hangs for good, every call returns: the lock is handed on
\* on every path, failures included (provider.go:145-146).
NoneHangs == \A c \in Callers : pc[c] \in Querying => answered[c]

CallsReturn ==
  []<>NoneHangs => \A c \in Callers : pc[c] = "waiting" ~> pc[c] = "idle"
=============================================================================

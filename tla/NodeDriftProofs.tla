--------------------------- MODULE NodeDriftProofs ---------------------------
(***************************************************************************)
(* The proof that relists are the only source of error in the ledger of    *)
(* NodeMetrics: each may displace the charges of its pod by one, and no    *)
(* order of handlers, scrapes, restarts and further relists adds to it.    *)
(***************************************************************************)
EXTENDS NodeMetricsProofs

Due(n, c) == IF Counted(c, n) THEN 1 ELSE 0

\* No charge is off by more than d.
Within(d) ==
  \A n \in Nodes, c \in Claims :
    ledger[n][c] \in (Due(n, c) - d)..(Due(n, c) + d)

\* Handling a notification that no single watch event explains may cost one.
Cost(m) == IF Legal(m) THEN 0 ELSE 1

\* Only an update or a tombstone can be such a notification.
QueueInv ==
  \A i \in 1..Len(podQueue) :
    Legal(podQueue[i]) \/ podQueue[i].type \in {"Update", "Tombstone"}

\* What cannot be subtracted from is zero.
ZeroInv ==
  \A n \in Nodes, c \in Claims :
    n \notin known \/ ResourceOf[c] \notin keys[n] => ledger[n][c] = 0

\* b[i] bounds the error before the i-th waiting notification is handled, the
\* last value the error when all are: the relists pay for all of it.
BudgetInv ==
  \E b \in [1..(Len(podQueue) + 1) -> 0..relists] :
    /\ \A i \in 1..Len(podQueue) : b[i] + Cost(podQueue[i]) <= b[i + 1]
    /\ Within(b[1])

DriftInv ==
  /\ TypeOK /\ NodeLockInv
  /\ LinksInv /\ QueueInv
  /\ ShedInv /\ ZeroInv
  /\ BudgetInv

LEMMA OccupiesDef ==
  ASSUME NEW st \in PodStates, NEW n \in Nodes
  PROVE  Occupies(st, n) <=> IsBound(st) /\ ~IsDone(st) /\ st.node = n
BY NodesAssumption DEF PodStates, LiveStates, Absent, IsBound, IsDone, Occupies

\* The claims of other pods are due where they were due.
LEMMA TakenClaims ==
  ASSUME TypeOK, LinksInv, podQueue # <<>>, PodTaken, NEW c \in Claims
  PROVE  /\ PodOf[c] \in Pods
         /\ PodOf[c] # PodHead.pod => told'[PodOf[c]] = told[PodOf[c]]
         /\ PodOf[c] = PodHead.pod => /\ told[PodOf[c]] = PodHead.old
                                      /\ told'[PodOf[c]] = PodHead.new
BY HeadLinked, PodHeadType, ClaimsAssumption DEF TypeOK, PodTaken

LEMMA WithinKept ==
  ASSUME NEW d, Within(d), UNCHANGED <<told, shed, ledger>>
  PROVE  Within(d)'
BY DEF Within, Due, Counted

-----------------------------------------------------------------------------
(* One notification.                                                       *)

\* It leaves the ledger alone: the error grows by at most one, and not at all
\* if the pod stays where it was.
LEMMA DriftSkip ==
  ASSUME TypeOK, LinksInv, PodReady, PodTaken, UNCHANGED ledger, shed'.left = {},
         NEW d \in Nat, Within(d), NEW k \in {0, 1},
         k = 1 \/ \A n \in Nodes : Occupies(PodHead.new, n) <=> Occupies(PodHead.old, n)
  PROVE  Within(d + k)'
<1> SUFFICES ASSUME NEW n \in Nodes, NEW c \in Claims
             PROVE  ledger'[n][c] \in (Due(n, c)' - (d + k))..(Due(n, c)' + (d + k))
  BY DEF Within
<1>1. podQueue # <<>> /\ shed.left = {}
  BY DEF PodReady
<1>2. k = 1 \/ (Counted(c, n)' <=> Counted(c, n))
  BY <1>1, TakenClaims DEF Counted
<1>3. /\ Due(n, c) \in {0, 1} /\ Due(n, c)' \in {0, 1}
      /\ k = 1 \/ Due(n, c)' = Due(n, c)
  BY <1>2 DEF Due
<1>4. /\ ledger'[n][c] = ledger[n][c] /\ ledger[n][c] \in Int
      /\ ledger[n][c] \in (Due(n, c) - d)..(Due(n, c) + d)
  BY DEF Within, TypeOK
<1> HIDE DEF Due
<1> QED BY <1>3, <1>4

\* The pod is charged to the node it comes to occupy.
LEMMA DriftAdd ==
  ASSUME TypeOK, LinksInv, ZeroInv, PodReady, PodTaken, NEW n \in Nodes,
         AddPodResourceRequested(PodHead.pod, n), UNCHANGED <<known, shed>>,
         n \in known \/ ClaimsOf(PodHead.pod) = {},
         NEW d \in Nat, Within(d),
         \A m \in Nodes : ~Occupies(PodHead.old, m),
         \A m \in Nodes : Occupies(PodHead.new, m) <=> m = n
  PROVE  Within(d)' /\ ZeroInv'
<1>1. podQueue # <<>> /\ shed.left = {} /\ shed'.left = {}
  BY DEF PodReady
<1>2. /\ \A m \in Nodes, c \in Claims :
           ledger'[m][c] = IF m = n /\ c \in ClaimsOf(PodHead.pod)
                           THEN ledger[m][c] + 1 ELSE ledger[m][c]
      /\ \A m \in Nodes :
           keys'[m] = IF m = n
                      THEN keys[m] \cup {ResourceOf[c] : c \in ClaimsOf(PodHead.pod)}
                      ELSE keys[m]
  <2>1. /\ ledger' = [ledger EXCEPT ![n] =
                        [c \in Claims |-> IF c \in ClaimsOf(PodHead.pod)
                                          THEN ledger[n][c] + 1 ELSE ledger[n][c]]]
        /\ keys' = [keys EXCEPT ![n] =
                      keys[n] \cup {ResourceOf[c] : c \in ClaimsOf(PodHead.pod)}]
    BY DEF AddPodResourceRequested, TypeOK
  <2>2. ledger \in [Nodes -> [Claims -> Int]] /\ keys \in [Nodes -> SUBSET Resources]
    BY DEF TypeOK
  <2> QED BY <2>1, <2>2
<1>3. ASSUME NEW m \in Nodes, NEW c \in Claims
      PROVE  ledger'[m][c] \in (Due(m, c)' - d)..(Due(m, c)' + d)
  <2>1. /\ Counted(c, m)' <=> Counted(c, m) \/ (m = n /\ c \in ClaimsOf(PodHead.pod))
        /\ c \in ClaimsOf(PodHead.pod) => ~Counted(c, m)
    BY <1>1, TakenClaims DEF Counted, ClaimsOf
  <2>2. /\ Due(m, c) \in {0, 1}
        /\ Due(m, c)' = IF m = n /\ c \in ClaimsOf(PodHead.pod)
                        THEN Due(m, c) + 1 ELSE Due(m, c)
    BY <2>1 DEF Due
  <2>3. ledger[m][c] \in Int /\ ledger[m][c] \in (Due(m, c) - d)..(Due(m, c) + d)
    BY DEF Within, TypeOK
  <2> HIDE DEF Due
  <2> QED BY <1>2, <2>2, <2>3
<1>4. ASSUME NEW m \in Nodes, NEW c \in Claims,
             m \notin known' \/ ResourceOf[c] \notin keys'[m]
      PROVE  ledger'[m][c] = 0
  <2>1. ~(m = n /\ c \in ClaimsOf(PodHead.pod))
    BY <1>2, <1>4
  <2>2. m \notin known \/ ResourceOf[c] \notin keys[m]
    BY <1>2, <1>4
  <2> QED BY <1>2, <2>1, <2>2 DEF ZeroInv
<1> QED BY <1>3, <1>4 DEF Within, ZeroInv

\* Claims that were due on a node no longer are and are subtracted, or were
\* zero and are skipped.
LEMMA DriftSubtract ==
  ASSUME TypeOK, ZeroInv, NEW n \in Nodes, NEW C, DeletePodResourceRequested(n, C),
         UNCHANGED <<known, keys>>, NEW d \in Nat, Within(d),
         \A m \in Nodes, c \in Claims :
           /\ Counted(c, m)' <=> Counted(c, m) /\ ~(m = n /\ c \in C)
           /\ m = n /\ c \in C => Counted(c, m)
  PROVE  Within(d)' /\ ZeroInv'
<1>1. \A m \in Nodes, c \in Claims :
        ledger'[m][c] = IF m = n /\ c \in Subtractable(n, C)
                        THEN ledger[m][c] - 1 ELSE ledger[m][c]
  BY DEF DeletePodResourceRequested, TypeOK
<1>2. ASSUME NEW m \in Nodes, NEW c \in Claims
      PROVE  ledger'[m][c] \in (Due(m, c)' - d)..(Due(m, c)' + d)
  <2>1. ledger[m][c] \in Int /\ ledger[m][c] \in (Due(m, c) - d)..(Due(m, c) + d)
    BY DEF Within, TypeOK
  <2>2. CASE ~(m = n /\ c \in C)
    <3>1. Due(m, c)' = Due(m, c)
      BY <2>2 DEF Due
    <3>2. ledger'[m][c] = ledger[m][c]
      BY <1>1, <2>2 DEF Subtractable
    <3> QED BY <2>1, <3>1, <3>2
  <2>3. CASE m = n /\ c \in C
    <3>1. Due(m, c) = 1 /\ Due(m, c)' = 0
      BY <2>3 DEF Due
    <3>2. CASE c \in Subtractable(n, C)
      <4>1. ledger'[m][c] = ledger[m][c] - 1
        BY <1>1, <2>3, <3>2
      <4> QED BY <2>1, <3>1, <4>1
    <3>3. CASE c \notin Subtractable(n, C)
      <4>1. ledger'[m][c] = 0
        BY <1>1, <2>3, <3>3 DEF Subtractable, ZeroInv
      <4> QED BY <3>1, <4>1
    <3> QED BY <3>2, <3>3
  <2> QED BY <2>2, <2>3
<1>3. ZeroInv'
  BY <1>1 DEF ZeroInv, Subtractable
<1> QED BY <1>2, <1>3 DEF Within

\* The pod has finished: its claims are due until they are shed.
LEMMA DriftFinish ==
  ASSUME TypeOK, LinksInv, PodReady, PodTaken, UNCHANGED ledger, NEW n \in Nodes,
         shed' = [node |-> n, left |-> ClaimsOf(PodHead.pod)],
         PodHead.new.node = n, IsDone(PodHead.new),
         NEW d \in Nat, Within(d), NEW k \in {0, 1},
         k = 1 \/ \A m \in Nodes : Occupies(PodHead.old, m) <=> m = n
  PROVE  Within(d + k)' /\ ShedInv'
<1>1. /\ podQueue # <<>> /\ shed.left = {}
      /\ shed'.left = ClaimsOf(PodHead.pod) /\ shed'.node = n
  BY DEF PodReady
<1>2. \A m \in Nodes : ~Occupies(PodHead.new, m)
  BY DEF Occupies, IsDone
<1>3. ASSUME NEW m \in Nodes, NEW c \in Claims
      PROVE  ledger'[m][c] \in (Due(m, c)' - (d + k))..(Due(m, c)' + (d + k))
  <2>1. k = 1 \/ (Counted(c, m)' <=> Counted(c, m))
    BY <1>1, <1>2, TakenClaims DEF Counted, ClaimsOf
  <2>2. /\ Due(m, c) \in {0, 1} /\ Due(m, c)' \in {0, 1}
        /\ k = 1 \/ Due(m, c)' = Due(m, c)
    BY <2>1 DEF Due
  <2>3. /\ ledger'[m][c] = ledger[m][c] /\ ledger[m][c] \in Int
        /\ ledger[m][c] \in (Due(m, c) - d)..(Due(m, c) + d)
    BY DEF Within, TypeOK
  <2> HIDE DEF Due
  <2> QED BY <2>2, <2>3
<1>4. told'[PodHead.pod] = PodHead.new /\ PodHead.pod \in Pods
  BY <1>1, PodHeadType DEF PodTaken, TypeOK
<1> QED BY <1>1, <1>3, <1>4 DEF Within, ShedInv

-----------------------------------------------------------------------------
(* The handlers.                                                           *)

\* An addition that takes the head did not end the process.
LEMMA AddTaken ==
  ASSUME TypeOK, podQueue # <<>>, PodTaken, NEW n,
         AddPodResourceRequested(PodHead.pod, n)
  PROVE  n \in known \/ ClaimsOf(PodHead.pod) = {}
<1>1. Len(podQueue') # Len(podQueue)
  BY TailOf DEF TypeOK
<1> QED BY <1>1 DEF AddPodResourceRequested, podVars

LEMMA HeadQueued ==
  ASSUME TypeOK, QueueInv, podQueue # <<>>
  PROVE  /\ Legal(PodHead) \/ PodHead.type \in {"Update", "Tombstone"}
         /\ Cost(PodHead) = 0 => Legal(PodHead)
<1>1. PodHead = podQueue[1] /\ 1 \in 1..Len(podQueue)
  BY DEF TypeOK, PodHead
<1> QED BY <1>1 DEF QueueInv, Cost

LEMMA AdditionDrift ==
  ASSUME TypeOK, LinksInv, QueueInv, ShedInv, ZeroInv, HandlePodAddition, PodTaken,
         NEW d \in Nat, Within(d), NEW k \in {0, 1}, k = Cost(PodHead)
  PROVE  Within(d + k)' /\ ShedInv' /\ ZeroInv'
<1>1. /\ podQueue # <<>> /\ PodReady /\ shed.left = {} /\ shed' = shed
      /\ known' = known /\ PodHead.type = "Add"
  BY DEF HandlePodAddition, PodReady, entryVars
<1>2. Legal(PodHead) /\ k = 0 /\ PodHead.old = Absent /\ PodHead.new \in PodStates
  BY <1>1, HeadQueued, PodHeadType DEF Cost, Legal, WatchType
<1>3. \A n \in Nodes : ~Occupies(PodHead.old, n)
  BY <1>2, NodesAssumption DEF Occupies, Absent
<1>4. ShedInv'
  BY <1>1 DEF ShedInv
<1>5. CASE (~IsBound(PodHead.new) \/ IsDone(PodHead.new)) /\ UNCHANGED ledgerVars
  <2>1. \A n \in Nodes : ~Occupies(PodHead.new, n)
    BY <1>2, <1>5, OccupiesDef
  <2>2. UNCHANGED <<ledger, keys>>
    BY <1>5 DEF ledgerVars
  <2>3. Within(d + k)'
    BY <1>1, <1>3, <2>1, <2>2, DriftSkip
  <2> QED BY <1>1, <1>4, <2>2, <2>3 DEF ZeroInv
<1>6. CASE /\ IsBound(PodHead.new) /\ ~IsDone(PodHead.new)
           /\ AddPodResourceRequested(PodHead.pod, PodHead.new.node)
  <2>1. /\ PodHead.new.node \in Nodes
        /\ \A m \in Nodes : Occupies(PodHead.new, m) <=> m = PodHead.new.node
    BY <1>2, <1>6, BoundNode, OccupiesDef
  <2>2. PodHead.new.node \in known \/ ClaimsOf(PodHead.pod) = {}
    BY <1>1, <1>6, AddTaken
  <2>3. Within(d)' /\ ZeroInv'
    BY <1>1, <1>3, <1>6, <2>1, <2>2, DriftAdd
  <2>4. d + k = d
    BY <1>2
  <2> QED BY <1>4, <2>3, <2>4
<1> QED BY <1>5, <1>6 DEF HandlePodAddition

LEMMA UpdateDrift ==
  ASSUME TypeOK, LinksInv, QueueInv, ShedInv, ZeroInv, HandlePodUpdate, PodTaken,
         NEW d \in Nat, Within(d), NEW k \in {0, 1}, k = Cost(PodHead)
  PROVE  Within(d + k)' /\ ShedInv' /\ ZeroInv'
<1> DEFINE old == PodHead.old
           new == PodHead.new
<1>1. /\ podQueue # <<>> /\ PodReady /\ shed.left = {} /\ known' = known
      /\ PodHead.type = "Update"
      /\ old \in PodStates /\ new \in PodStates
  BY PodHeadType DEF HandlePodUpdate, PodReady, entryVars
<1>2. k = 0 => /\ IsBound(old) => new.node = old.node
               /\ IsDone(old) => IsDone(new)
  BY <1>1, HeadQueued DEF Legal, WatchType, WatchStep
<1>3. /\ \A n \in Nodes : Occupies(new, n) <=> IsBound(new) /\ ~IsDone(new) /\ new.node = n
      /\ \A n \in Nodes : Occupies(old, n) <=> IsBound(old) /\ ~IsDone(old) /\ old.node = n
  BY <1>1, OccupiesDef
<1>4. CASE /\ ~Binds(old, new) /\ ~Finishes(old, new)
           /\ UNCHANGED <<ledgerVars, shed>>
  <2>1. k = 1 \/ \A n \in Nodes : Occupies(new, n) <=> Occupies(old, n)
    BY <1>2, <1>3, <1>4 DEF Binds, Finishes, IsBound
  <2>2. UNCHANGED <<ledger, keys>> /\ shed' = shed
    BY <1>4 DEF ledgerVars
  <2>3. Within(d + k)'
    BY <1>1, <2>1, <2>2, DriftSkip
  <2> QED BY <1>1, <2>2, <2>3 DEF ZeroInv, ShedInv
<1>5. CASE /\ Binds(old, new)
           /\ AddPodResourceRequested(PodHead.pod, new.node)
           /\ UNCHANGED shed
  <2>1. /\ new.node \in Nodes
        /\ \A m \in Nodes : ~Occupies(old, m)
        /\ \A m \in Nodes : Occupies(new, m) <=> m = new.node
    BY <1>1, <1>3, <1>5, BoundNode DEF Binds
  <2>2. new.node \in known \/ ClaimsOf(PodHead.pod) = {}
    BY <1>1, <1>5, AddTaken
  <2>3. Within(d)' /\ ZeroInv'
    BY <1>1, <1>5, <2>1, <2>2, DriftAdd
  <2>4. Within(d + k)'
    <3>1. \A n \in Nodes, c \in Claims : ledger'[n][c] \in (Due(n, c)' - d)..(Due(n, c)' + d)
      BY <2>3 DEF Within
    <3>2. \A n \in Nodes, c \in Claims : Due(n, c)' \in {0, 1}
      BY DEF Due
    <3> HIDE DEF Due
    <3>3. \A n \in Nodes, c \in Claims :
            ledger'[n][c] \in (Due(n, c)' - (d + k))..(Due(n, c)' + (d + k))
      BY <3>1, <3>2
    <3> QED BY <3>3 DEF Within
  <2> QED BY <1>1, <1>5, <2>3, <2>4 DEF ShedInv
<1>6. CASE /\ Finishes(old, new)
           /\ shed' = [node |-> new.node, left |-> ClaimsOf(PodHead.pod)]
           /\ UNCHANGED ledgerVars
  <2>1. new.node \in Nodes /\ IsDone(new)
    BY <1>1, <1>6, BoundNode DEF Finishes
  <2>2. k = 1 \/ \A m \in Nodes : Occupies(old, m) <=> m = new.node
    BY <1>2, <1>3, <1>6 DEF Finishes
  <2>3. UNCHANGED <<ledger, keys>>
    BY <1>6 DEF ledgerVars
  <2>4. Within(d + k)' /\ ShedInv'
    BY <1>1, <1>6, <2>1, <2>2, <2>3, DriftFinish
  <2> QED BY <1>1, <2>3, <2>4 DEF ZeroInv
<1> QED BY <1>4, <1>5, <1>6 DEF HandlePodUpdate

LEMMA DeletionDrift ==
  ASSUME TypeOK, LinksInv, QueueInv, ShedInv, ZeroInv, HandlePodDeletion, PodTaken,
         NEW d \in Nat, Within(d), NEW k \in {0, 1}, k = Cost(PodHead)
  PROVE  Within(d + k)' /\ ShedInv' /\ ZeroInv'
<1>1. /\ podQueue # <<>> /\ PodReady /\ shed.left = {} /\ shed' = shed
      /\ known' = known /\ keys' = keys /\ PodHead.type = "Delete"
  BY DEF HandlePodDeletion, PodReady, entryVars
<1>2. Legal(PodHead) /\ k = 0 /\ PodHead.new = Absent /\ PodHead.old \in PodStates
  BY <1>1, HeadQueued, PodHeadType DEF Cost, Legal, WatchType
<1>3. \A n \in Nodes : ~Occupies(PodHead.new, n)
  BY <1>2, NodesAssumption DEF Occupies, Absent
<1>4. ShedInv'
  BY <1>1 DEF ShedInv
<1>5. CASE (~IsBound(PodHead.old) \/ IsDone(PodHead.old)) /\ UNCHANGED ledger
  <2>1. \A n \in Nodes : ~Occupies(PodHead.old, n)
    BY <1>2, <1>5, OccupiesDef
  <2>2. Within(d + k)'
    BY <1>1, <1>3, <1>5, <2>1, DriftSkip
  <2> QED BY <1>1, <1>4, <1>5, <2>2 DEF ZeroInv
<1>6. CASE /\ IsBound(PodHead.old) /\ ~IsDone(PodHead.old)
           /\ DeletePodResourceRequested(PodHead.old.node, ClaimsOf(PodHead.pod))
  <2> DEFINE n == PodHead.old.node
  <2>1. n \in Nodes /\ \A m \in Nodes : Occupies(PodHead.old, m) <=> m = n
    BY <1>2, <1>6, BoundNode, OccupiesDef
  <2>2. \A m \in Nodes, c \in Claims :
          /\ Counted(c, m)' <=> Counted(c, m) /\ ~(m = n /\ c \in ClaimsOf(PodHead.pod))
          /\ m = n /\ c \in ClaimsOf(PodHead.pod) => Counted(c, m)
    BY <1>1, <1>3, <2>1, TakenClaims DEF Counted, ClaimsOf
  <2>3. Within(d)' /\ ZeroInv'
    BY <1>1, <1>6, <2>1, <2>2, DriftSubtract
  <2>4. d + k = d
    BY <1>2
  <2> QED BY <1>4, <2>3, <2>4
<1> QED BY <1>5, <1>6 DEF HandlePodDeletion

LEMMA TombstoneDrift ==
  ASSUME TypeOK, LinksInv, QueueInv, ShedInv, ZeroInv, DropTombstone,
         NEW d \in Nat, Within(d), NEW k \in {0, 1}, k = Cost(PodHead)
  PROVE  Within(d + k)' /\ ShedInv' /\ ZeroInv'
<1>1. /\ podQueue # <<>> /\ PodReady /\ PodTaken /\ shed.left = {} /\ shed' = shed
      /\ known' = known /\ UNCHANGED <<ledger, keys>> /\ PodHead.type = "Tombstone"
  BY DEF DropTombstone, PodReady, entryVars, ledgerVars
<1>2. k = 1
  BY <1>1 DEF Cost, Legal, WatchType
<1>3. Within(d + k)'
  BY <1>1, <1>2, DriftSkip
<1> QED BY <1>1, <1>3 DEF ShedInv, ZeroInv

LEMMA ShedDrift ==
  ASSUME TypeOK, ShedInv, ZeroInv, NEW c \in Claims, ShedClaim(c),
         NEW d \in Nat, Within(d)
  PROVE  Within(d)' /\ ShedInv' /\ ZeroInv'
<1> DEFINE n == shed.node
<1>1. PICK p \in Pods : /\ shed.left \subseteq ClaimsOf(p)
                        /\ told[p].node = n
                        /\ IsDone(told[p])
  BY DEF ShedInv, ShedClaim
<1>2. /\ n \in Nodes /\ c \in shed.left
      /\ DeletePodResourceRequested(n, {c})
      /\ told' = told /\ known' = known /\ keys' = keys
      /\ shed'.left = shed.left \ {c}
      /\ shed'.left # {} => shed'.node = n
  BY DEF ShedInv, ShedClaim, podVars, entryVars, NoShed, TypeOK
<1>3. ASSUME NEW m \in Nodes, NEW e \in Claims
      PROVE  /\ Counted(e, m)' <=> Counted(e, m) /\ ~(m = n /\ e \in {c})
             /\ m = n /\ e \in {c} => Counted(e, m)
  <2>1. e \in shed.left => PodOf[e] = p
    BY <1>1 DEF ClaimsOf
  <2>2. PodOf[e] = p => ~Occupies(told[PodOf[e]], m)
    BY <1>1 DEF Occupies, IsDone
  <2> QED BY <1>2, <2>1, <2>2 DEF Counted
<1>4. Within(d)' /\ ZeroInv'
  BY <1>2, <1>3, DriftSubtract
<1>5. ShedInv'
  BY <1>1, <1>2 DEF ShedInv
<1> QED BY <1>4, <1>5

\* The new entry is zero, as its ledger was.
LEMMA InsertDrift ==
  ASSUME TypeOK, NodeLockInv, ShedInv, ZeroInv, NodeAdditionInsert
  PROVE  /\ ShedInv' /\ ZeroInv'
         /\ \A n \in Nodes, c \in Claims : ledger'[n][c] = ledger[n][c]
<1> DEFINE h == NodeHead.node
<1>1. /\ told' = told /\ shed' = shed /\ known' = known \cup {h}
      /\ h \notin known
      /\ \A m \in Nodes : keys'[m] = IF m = h THEN {} ELSE keys[m]
      /\ \A m \in Nodes, c \in Claims :
           ledger'[m][c] = IF m = h THEN 0 ELSE ledger[m][c]
  BY DEF NodeAdditionInsert, NodeLockInv, podVars, TypeOK
<1> HIDE DEF h
<1>2. \A n \in Nodes, c \in Claims : ledger'[n][c] = ledger[n][c]
  BY <1>1 DEF ZeroInv
<1>3. ZeroInv'
  BY <1>1 DEF ZeroInv
<1>4. ShedInv'
  BY <1>1 DEF ShedInv
<1> QED BY <1>2, <1>3, <1>4

-----------------------------------------------------------------------------
(* The budget.                                                             *)

LEMMA BudgetKept ==
  ASSUME TypeOK, BudgetInv, UNCHANGED <<podQueue, relists>>,
         \A d \in Nat : Within(d) => Within(d)'
  PROVE  BudgetInv'
<1>1. PICK b \in [1..(Len(podQueue) + 1) -> 0..relists] :
        /\ \A i \in 1..Len(podQueue) : b[i] + Cost(podQueue[i]) <= b[i + 1]
        /\ Within(b[1])
  BY DEF BudgetInv
<1>2. b[1] \in Nat
  <2>1. Len(podQueue) \in Nat /\ relists \in Nat
    BY DEF TypeOK
  <2> QED BY <1>1, <2>1
<1>3. Within(b[1])'
  BY <1>1, <1>2
<1>4. /\ b \in [1..(Len(podQueue') + 1) -> 0..relists']
      /\ \A i \in 1..Len(podQueue') : b[i] + Cost(podQueue'[i]) <= b[i + 1]
  BY <1>1
<1> QED BY <1>3, <1>4 DEF BudgetInv, Cost, Legal

\* A notification is queued: its cost is paid by the relist that sent it.
LEMMA BudgetNotify ==
  ASSUME TypeOK, BudgetInv, NEW p \in Pods, NEW type, NEW new \in PodStates,
         Notify(p, type, new), UNCHANGED <<told, shed, ledger>>,
         relists' \in Nat,
         relists + Cost([type |-> type, pod |-> p, old |-> podStore[p],
                         new |-> new]) <= relists'
  PROVE  BudgetInv'
<1> DEFINE q == podQueue
           e == [type |-> type, pod |-> p, old |-> podStore[p], new |-> new]
<1>1. PICK b \in [1..(Len(q) + 1) -> 0..relists] :
        /\ \A i \in 1..Len(q) : b[i] + Cost(q[i]) <= b[i + 1]
        /\ Within(b[1])
  BY DEF BudgetInv
<1>2. /\ q \in Seq(PodNotifications) /\ Len(q) \in Nat /\ relists \in Nat
      /\ podQueue' = Append(q, e)
  BY DEF TypeOK, Notify
<1>3. relists + Cost(e) <= relists' /\ Cost(e) \in {0, 1}
  BY DEF Cost
<1> HIDE DEF e
<1>4. /\ Len(podQueue') = Len(q) + 1
      /\ \A i \in 1..Len(q) : podQueue'[i] = q[i]
      /\ podQueue'[Len(q) + 1] = e
  BY <1>2
<1>f. PICK f : f = [i \in 1..(Len(podQueue') + 1) |->
                      IF i = Len(q) + 2 THEN relists' ELSE b[i]]
  OBVIOUS
<1>5. \A i \in 1..(Len(podQueue') + 1) : i = Len(q) + 2 \/ i \in 1..(Len(q) + 1)
  BY <1>2, <1>4
<1>6. f \in [1..(Len(podQueue') + 1) -> 0..relists']
  <2>1. \A i \in 1..(Len(q) + 1) : b[i] \in 0..relists'
    BY <1>2, <1>3
  <2> QED BY <1>2, <1>5, <1>f, <2>1
<1>7. \A i \in 1..Len(podQueue') : f[i] + Cost(podQueue'[i]) <= f[i + 1]
  <2> TAKE i \in 1..Len(podQueue')
  <2>1. CASE i \in 1..Len(q)
    <3>1. f[i] = b[i] /\ f[i + 1] = b[i + 1] /\ podQueue'[i] = q[i]
      BY <1>2, <1>4, <1>f, <2>1
    <3> QED BY <1>1, <2>1, <3>1
  <2>2. CASE i = Len(q) + 1
    <3>1. f[i] = b[i] /\ f[i + 1] = relists' /\ podQueue'[i] = e
      BY <1>2, <1>4, <1>f, <2>2
    <3>2. b[i] \in 0..relists
      BY <1>2, <2>2
    <3> QED BY <1>2, <1>3, <3>1, <3>2
  <2> QED BY <1>2, <1>4, <2>1, <2>2
<1>8. f[1] = b[1] /\ Within(b[1])'
  BY <1>1, <1>2, <1>4, <1>f, WithinKept DEF Notify
<1>9. Within(f[1])'
  BY <1>8
<1> QED BY <1>6, <1>7, <1>9 DEF BudgetInv, Cost, Legal

\* The head is handled: the error may have grown by its cost.
LEMMA BudgetTaken ==
  ASSUME TypeOK, BudgetInv, podQueue # <<>>, PodTaken, relists' = relists,
         \A d \in Nat, k \in {0, 1} :
           Within(d) /\ k = Cost(PodHead) => Within(d + k)'
  PROVE  BudgetInv'
<1> DEFINE q == podQueue
<1>1. PICK b \in [1..(Len(q) + 1) -> 0..relists] :
        /\ \A i \in 1..Len(q) : b[i] + Cost(q[i]) <= b[i + 1]
        /\ Within(b[1])
  BY DEF BudgetInv
<1>2. /\ Len(q) \in Nat /\ Len(q) > 0 /\ relists \in Nat
      /\ PodHead = q[1]
      /\ Len(podQueue') = Len(q) - 1
      /\ \A i \in 1..Len(podQueue') : i + 1 \in 1..Len(q) /\ podQueue'[i] = q[i + 1]
  BY TailOf DEF TypeOK, PodHead
<1>f. PICK f : f = [i \in 1..(Len(podQueue') + 1) |-> b[i + 1]]
  OBVIOUS
<1>3. f \in [1..(Len(podQueue') + 1) -> 0..relists']
  BY <1>2, <1>f
<1>4. \A i \in 1..Len(podQueue') : f[i] + Cost(podQueue'[i]) <= f[i + 1]
  <2> TAKE i \in 1..Len(podQueue')
  <2>1. f[i] = b[i + 1] /\ f[i + 1] = b[(i + 1) + 1]
    BY <1>2, <1>f
  <2> QED BY <1>1, <1>2, <2>1
<1>5. Within(f[1])'
  <2>1. PICK k \in {0, 1} : k = Cost(PodHead)
    BY DEF Cost
  <2>2. b[1] \in Nat /\ b[2] \in Nat /\ b[1] + k <= b[2] /\ f[1] = b[2]
    <3>1. /\ 1 \in 1..Len(q) /\ {1, 2} \subseteq 1..(Len(q) + 1)
          /\ 1 \in 1..(Len(podQueue') + 1) /\ 1 + 1 = 2
      BY <1>2
    <3>2. b[1] \in 0..relists /\ b[2] \in 0..relists
      BY <3>1
    <3>3. b[1] + Cost(q[1]) <= b[2]
      BY <1>1, <3>1
    <3>4. f[1] = b[2]
      BY <1>f, <3>1
    <3> QED BY <1>2, <2>1, <3>2, <3>3, <3>4
  <2>3. Within(b[1] + k)'
    BY <1>1, <2>1, <2>2
  <2>4. \A n \in Nodes, c \in Claims :
          ledger'[n][c] \in (Due(n, c)' - (b[1] + k))..(Due(n, c)' + (b[1] + k))
    BY <2>3 DEF Within
  <2>5. \A n \in Nodes, c \in Claims : Due(n, c)' \in {0, 1}
    BY DEF Due
  <2>6. \A n \in Nodes, c \in Claims :
          ledger'[n][c] \in (Due(n, c)' - b[2])..(Due(n, c)' + b[2])
    BY <2>2, <2>4, <2>5
  <2> QED BY <2>2, <2>6 DEF Within
<1> QED BY <1>3, <1>4, <1>5 DEF BudgetInv, Cost, Legal

\* In the end the relists pay for the whole error.
LEMMA BudgetBounds ==
  ASSUME TypeOK, BudgetInv
  PROVE  DriftIsBounded
<1>1. PICK b \in [1..(Len(podQueue) + 1) -> 0..relists] : Within(b[1])
  BY DEF BudgetInv
<1>2. b[1] \in 0..relists /\ relists \in Nat
  BY DEF TypeOK
<1>3. \A n \in Nodes, c \in Claims :
        ledger[n][c] \in (Due(n, c) - relists)..(Due(n, c) + relists)
  <2> TAKE n \in Nodes, c \in Claims
  <2>1. Due(n, c) \in {0, 1} /\ ledger[n][c] \in (Due(n, c) - b[1])..(Due(n, c) + b[1])
    BY <1>1 DEF Within, Due
  <2> HIDE DEF Due
  <2> QED BY <1>2, <2>1
<1> QED BY <1>3 DEF DriftIsBounded, Due

-----------------------------------------------------------------------------
(* The steps.                                                              *)

LEMMA QueueNotify ==
  ASSUME TypeOK, QueueInv, NEW p \in Pods, NEW type, NEW new \in PodStates,
         Notify(p, type, new),
         \/ Legal([type |-> type, pod |-> p, old |-> podStore[p], new |-> new])
         \/ type \in {"Update", "Tombstone"}
  PROVE  QueueInv'
<1> DEFINE e == [type |-> type, pod |-> p, old |-> podStore[p], new |-> new]
<1>1. e.type = type /\ (Legal(e) \/ type \in {"Update", "Tombstone"})
  OBVIOUS
<1>2. \A i \in 1..Len(podQueue') :
        podQueue'[i] = e \/ (i \in 1..Len(podQueue) /\ podQueue'[i] = podQueue[i])
  BY DEF Notify, TypeOK
<1> HIDE DEF e
<1> QED BY <1>1, <1>2 DEF QueueInv, Legal

LEMMA QueueTaken ==
  ASSUME TypeOK, QueueInv, podQueue # <<>>, PodTaken
  PROVE  QueueInv'
BY TailOf DEF QueueInv, Legal

LEMMA DriftInit == Init => DriftInv
<1> SUFFICES ASSUME Init PROVE DriftInv
  OBVIOUS
<1>1. TypeOK /\ NodeLockInv
  BY TypeInit
<1>2. LinksInv /\ QueueInv /\ ShedInv /\ ZeroInv
  BY DEF Init, LinksInv, QueueInv, ShedInv, ZeroInv, NoShed
<1>3. Within(0)
  BY ClaimsAssumption, NodesAssumption
     DEF Init, Within, Due, Counted, Occupies, Absent, NoShed
<1>4. BudgetInv
  <2> DEFINE b == [i \in 1..(Len(podQueue) + 1) |-> 0]
  <2>1. Len(podQueue) = 0 /\ relists = 0
    BY DEF Init
  <2>2. b \in [1..(Len(podQueue) + 1) -> 0..relists] /\ b[1] = 0
    BY <2>1
  <2> HIDE DEF b
  <2> QED BY <1>3, <2>1, <2>2 DEF BudgetInv
<1> QED BY <1>1, <1>2, <1>4 DEF DriftInv

LEMMA DriftStep == DriftInv /\ [Next]_vars => DriftInv'
<1> SUFFICES ASSUME DriftInv, [Next]_vars PROVE DriftInv'
  OBVIOUS
<1> USE DEF podVars, nodeVars, entryVars, ledgerVars
<1>1. TypeOK /\ NodeLockInv /\ LinksInv /\ QueueInv /\ ShedInv /\ ZeroInv /\ BudgetInv
  BY DEF DriftInv
<1>2. TypeOK' /\ NodeLockInv'
  BY <1>1, TypeStep, NodeLockStep
<1> DEFINE Good == LinksInv' /\ QueueInv' /\ ShedInv' /\ ZeroInv' /\ BudgetInv'
           SameQueue == UNCHANGED <<podStore, podQueue, told, relists>>
           Same == SameQueue /\ UNCHANGED <<shed, known, keys, ledger>>
\* The queue is untouched and so is the error.
<1>3. ASSUME SameQueue, ShedInv', ZeroInv', \A d \in Nat : Within(d) => Within(d)'
      PROVE  Good
  <2>1. LinksInv' /\ QueueInv'
    BY <1>1, <1>3, LinksKept DEF QueueInv, Legal
  <2> QED BY <1>1, <1>3, <2>1, BudgetKept
<1>4. ASSUME Same PROVE Good
  <2>1. ShedInv' /\ ZeroInv'
    BY <1>1, <1>4 DEF ShedInv, ZeroInv
  <2>2. \A d \in Nat : Within(d) => Within(d)'
    BY <1>4, WithinKept
  <2> QED BY <1>3, <1>4, <2>1, <2>2
\* A notification is handled.
<1>5. ASSUME podQueue # <<>>, PodTaken, relists' = relists, ShedInv', ZeroInv',
             \A d \in Nat, k \in {0, 1} :
               Within(d) /\ k = Cost(PodHead) => Within(d + k)'
      PROVE  Good
  BY <1>1, <1>5, LinksTaken, QueueTaken, BudgetTaken
<1>6. \E d \in Nat, k \in {0, 1} : Within(d) /\ k = Cost(PodHead)
  <2>1. PICK b \in [1..(Len(podQueue) + 1) -> 0..relists] : Within(b[1])
    BY <1>1 DEF BudgetInv
  <2>2. b[1] \in Nat
    <3>1. Len(podQueue) \in Nat /\ relists \in Nat
      BY <1>1 DEF TypeOK
    <3> QED BY <2>1, <3>1
  <2> QED BY <2>1, <2>2 DEF Cost
<1>7. ASSUME NEW p \in Pods, NEW new \in PodStates, PodWatch(p, new) PROVE Good
  <2> DEFINE e == [type |-> WatchType(podStore[p], new), pod |-> p,
                   old |-> podStore[p], new |-> new]
  <2>1. /\ Notify(p, WatchType(podStore[p], new), new)
        /\ UNCHANGED <<told, shed, known, keys, ledger, relists>>
        /\ Legal(e)
    BY <1>7 DEF PodWatch, Legal
  <2>2. relists + Cost(e) <= relists' /\ relists' \in Nat
    BY <1>1, <2>1 DEF Cost, TypeOK
  <2>3. LinksInv' /\ QueueInv' /\ BudgetInv'
    BY <1>1, <2>1, <2>2, LinksNotify, QueueNotify, BudgetNotify
  <2> QED BY <1>1, <2>1, <2>3 DEF ShedInv, ZeroInv
<1>8. ASSUME NEW p \in Pods, NEW new \in PodStates, PodRelist(p, new) PROVE Good
  <2> DEFINE type == IF new = Absent THEN "Tombstone" ELSE "Update"
             e == [type |-> type, pod |-> p, old |-> podStore[p], new |-> new]
  <2>1. /\ Notify(p, type, new)
        /\ UNCHANGED <<told, shed, known, keys, ledger>>
        /\ relists' = relists + 1
        /\ type \in {"Update", "Tombstone"}
    BY <1>8 DEF PodRelist
  <2>2. relists + Cost(e) <= relists' /\ relists' \in Nat
    BY <1>1, <2>1 DEF Cost, TypeOK
  <2>3. LinksInv' /\ QueueInv' /\ BudgetInv'
    BY <1>1, <2>1, <2>2, LinksNotify, QueueNotify, BudgetNotify
  <2> QED BY <1>1, <2>1, <2>3 DEF ShedInv, ZeroInv
<1>9. ASSUME NEW n \in Nodes, NEW size \in Sizes \cup {NoSize}, NodeWatch(n, size)
      PROVE Good
  BY <1>4, <1>9 DEF NodeWatch
<1>10. ASSUME NodeAdditionKnown PROVE Good
  BY <1>4, <1>10 DEF NodeAdditionKnown
<1>11. ASSUME NodeAdditionLock PROVE Good
  BY <1>4, <1>11 DEF NodeAdditionLock
<1>12. ASSUME NodeAdditionInsert PROVE Good
  <2>1. SameQueue /\ shed' = shed
    BY <1>12 DEF NodeAdditionInsert
  <2>2. \A d \in Nat : Within(d) => Within(d)'
    BY <1>1, <1>12, <2>1, InsertDrift DEF Within, Due, Counted
  <2> QED BY <1>1, <1>3, <1>12, <2>1, <2>2, InsertDrift
<1>13. ASSUME HandleNodeDeletion PROVE Good
  <2>1. known' = known
    BY <1>13 DEF HandleNodeDeletion, DeletedEntry
  <2> QED BY <1>4, <1>13, <2>1 DEF HandleNodeDeletion
<1>14. ASSUME HandlePodAddition PROVE Good
  <2>1. podQueue # <<>> /\ UNCHANGED <<known, shed, relists>>
    BY <1>14 DEF HandlePodAddition, PodReady
  <2>2. PodTaken \/ UNCHANGED <<podStore, podQueue, told, keys, ledger>>
    BY <1>14 DEF HandlePodAddition, AddPodResourceRequested
  <2>3. CASE PodTaken
    BY <1>1, <1>5, <1>6, <1>14, <2>1, <2>3, AdditionDrift
  <2> QED BY <1>4, <2>1, <2>2, <2>3
<1>15. ASSUME HandlePodUpdate PROVE Good
  <2>1. podQueue # <<>> /\ UNCHANGED <<known, relists>>
    BY <1>15 DEF HandlePodUpdate, PodReady
  <2>2. PodTaken \/ UNCHANGED <<podStore, podQueue, told, keys, ledger, shed>>
    BY <1>15 DEF HandlePodUpdate, AddPodResourceRequested
  <2>3. CASE PodTaken
    BY <1>1, <1>5, <1>6, <1>15, <2>1, <2>3, UpdateDrift
  <2> QED BY <1>4, <2>1, <2>2, <2>3
<1>16. ASSUME NEW c \in Claims, ShedClaim(c) PROVE Good
  <2>1. SameQueue
    BY <1>16 DEF ShedClaim
  <2> QED BY <1>1, <1>3, <1>6, <1>16, <2>1, ShedDrift
<1>17. ASSUME HandlePodDeletion PROVE Good
  <2>1. podQueue # <<>> /\ PodTaken /\ relists' = relists
    BY <1>17 DEF HandlePodDeletion, PodReady
  <2> QED BY <1>1, <1>5, <1>6, <1>17, <2>1, DeletionDrift
<1>18. ASSUME DropTombstone PROVE Good
  <2>1. podQueue # <<>> /\ PodTaken /\ relists' = relists
    BY <1>18 DEF DropTombstone, PodReady
  <2> QED BY <1>1, <1>5, <1>6, <1>18, <2>1, TombstoneDrift
<1>19. ASSUME NEW s \in Scrapers, ScrapeList(s) PROVE Good
  BY <1>4, <1>19 DEF ScrapeList
<1>20. ASSUME NEW s \in Scrapers, NEW n \in Nodes, ScrapeNode(s, n) PROVE Good
  BY <1>4, <1>20 DEF ScrapeNode
<1>21. ASSUME NEW s \in Scrapers, ScrapeLock(s) PROVE Good
  BY <1>4, <1>21 DEF ScrapeLock
<1>22. ASSUME NEW s \in Scrapers, ScrapeSend(s) PROVE Good
  BY <1>4, <1>22 DEF ScrapeSend
<1>23. ASSUME MapRace PROVE Good
  BY <1>4, <1>23 DEF MapRace
\* The new process starts without an error; relists counts all there were.
<1>24. ASSUME Restart PROVE Good
  <2>1. LinksInv' /\ QueueInv' /\ ShedInv' /\ ZeroInv'
    BY <1>24 DEF Restart, LinksInv, QueueInv, ShedInv, ZeroInv, NoShed
  <2>2. Within(0)'
    BY <1>24, ClaimsAssumption, NodesAssumption
       DEF Restart, Within, Due, Counted, Occupies, Absent, NoShed
  <2>b. PICK b : b = [i \in 1..(Len(podQueue') + 1) |-> 0]
    OBVIOUS
  <2>3. Len(podQueue') = 0 /\ relists' \in Nat
    BY <1>1, <1>24 DEF Restart, TypeOK
  <2>4. b \in [1..(Len(podQueue') + 1) -> 0..relists'] /\ b[1] = 0
    BY <2>b, <2>3
  <2>5. Within(b[1])'
    BY <2>2, <2>4
  <2>6. \A i \in 1..Len(podQueue') : b[i] + Cost(podQueue'[i]) <= b[i + 1]
    BY <2>3
  <2>7. BudgetInv'
    BY <2>4, <2>5, <2>6 DEF BudgetInv, Cost, Legal
  <2> QED BY <2>1, <2>7
<1>25. ASSUME UNCHANGED vars PROVE Good
  BY <1>4, <1>25 DEF vars
<1> HIDE DEF Good, SameQueue, Same, podVars, nodeVars, entryVars, ledgerVars
<1>26. Good
  BY <1>7, <1>8, <1>9, <1>10, <1>11, <1>12, <1>13, <1>14, <1>15, <1>16, <1>17,
     <1>18, <1>19, <1>20, <1>21, <1>22, <1>23, <1>24, <1>25, NextCases
<1> QED BY <1>1, <1>2, <1>26 DEF DriftInv, Good

\* However often the watch breaks and whatever the relists find, no request
\* is counted wrong by more than the number of relists: an error comes from a
\* relist, never from the order of handlers, scrapes and restarts.
THEOREM DriftAlwaysBounded == Spec => []DriftIsBounded
<1>1. DriftInv => DriftIsBounded
  BY BudgetBounds DEF DriftInv
<1> QED BY <1>1, DriftInit, DriftStep, PTL DEF Spec

=============================================================================

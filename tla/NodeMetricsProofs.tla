------------------------- MODULE NodeMetricsProofs -------------------------
(***************************************************************************)
(* Proofs about NodeMetrics.  TypeCorrect holds with and without relists;  *)
(* the other theorems are about WatchSpec, the watch that is never         *)
(* interrupted.  NodeDriftProofs bounds the error that relists make.       *)
(***************************************************************************)
EXTENDS NodeMetrics, TLAPS, SequenceTheorems

LEMMA NextCases ==
  ASSUME NEW P, Next \/ UNCHANGED vars,
         \A p \in Pods, new \in PodStates : PodWatch(p, new) => P,
         \A p \in Pods, new \in PodStates : PodRelist(p, new) => P,
         \A n \in Nodes, size \in Sizes \cup {NoSize} : NodeWatch(n, size) => P,
         NodeAdditionKnown => P,
         NodeAdditionLock => P,
         NodeAdditionInsert => P,
         HandleNodeDeletion => P,
         HandlePodAddition => P,
         HandlePodUpdate => P,
         \A c \in Claims : ShedClaim(c) => P,
         HandlePodDeletion => P,
         DropTombstone => P,
         \A s \in Scrapers : ScrapeList(s) => P,
         \A s \in Scrapers, n \in Nodes : ScrapeNode(s, n) => P,
         \A s \in Scrapers : ScrapeLock(s) => P,
         \A s \in Scrapers : ScrapeSend(s) => P,
         MapRace => P,
         Restart => P,
         UNCHANGED vars => P
  PROVE  P
BY DEF Next, WatchNext, Agent, NodeListener, PodListener, Scrape

\* While the node listener holds the lock it is adding the node at the head of
\* its queue, which has no entry.
NodeLockInv ==
  mutex = "node" =>
    /\ nodeQueue # <<>>
    /\ NodeHead.type = "Add"
    /\ NodeHead.node \notin known

LEMMA PodHeadType ==
  ASSUME TypeOK, podQueue # <<>>
  PROVE  /\ PodHead \in PodNotifications
         /\ PodHead.pod \in Pods
         /\ PodHead.old \in PodStates
         /\ PodHead.new \in PodStates
         /\ Tail(podQueue) \in Seq(PodNotifications)
<1>1. PodHead \in PodNotifications /\ Tail(podQueue) \in Seq(PodNotifications)
  BY HeadTailProperties DEF TypeOK, PodHead
<1> QED BY <1>1 DEF PodNotifications

LEMMA PodTakenType ==
  ASSUME TypeOK, podQueue # <<>>, PodTaken
  PROVE  /\ podStore' \in [Pods -> PodStates]
         /\ podQueue' \in Seq(PodNotifications)
         /\ told' \in [Pods -> PodStates]
BY PodHeadType DEF TypeOK, PodTaken

LEMMA NodeHeadType ==
  ASSUME TypeOK, nodeQueue # <<>>
  PROVE  /\ NodeHead.node \in Nodes
         /\ NodeHead.size \in Sizes
         /\ Tail(nodeQueue) \in Seq(NodeNotifications)
<1>1. NodeHead \in NodeNotifications /\ Tail(nodeQueue) \in Seq(NodeNotifications)
  BY HeadTailProperties DEF TypeOK, NodeHead
<1> QED BY <1>1 DEF NodeNotifications

LEMMA DeleteType ==
  ASSUME TypeOK, NEW n, NEW C, DeletePodResourceRequested(n, C)
  PROVE  ledger' \in [Nodes -> [Claims -> Int]]
<1>1. CASE n \in Nodes
  <2>1. ledger' = [ledger EXCEPT ![n] =
                     [c \in Claims |-> IF c \in Subtractable(n, C)
                                       THEN ledger[n][c] - 1 ELSE ledger[n][c]]]
    BY <1>1 DEF DeletePodResourceRequested, TypeOK
  <2>2. \A c \in Claims : ledger[n][c] \in Int
    BY <1>1 DEF TypeOK
  <2> QED BY <1>1, <2>1, <2>2 DEF TypeOK
<1>2. CASE n \notin Nodes
  BY <1>2 DEF DeletePodResourceRequested, TypeOK
<1> QED BY <1>1, <1>2

LEMMA BoundNode ==
  ASSUME NEW st \in PodStates, IsBound(st)
  PROVE  st.node \in Nodes /\ st \in LiveStates
BY DEF PodStates, LiveStates, Absent, IsBound

LEMMA AddType ==
  ASSUME TypeOK, podQueue # <<>>, NEW n \in Nodes,
         AddPodResourceRequested(PodHead.pod, n), status = "up"
  PROVE  /\ podStore' \in [Pods -> PodStates]
         /\ podQueue' \in Seq(PodNotifications)
         /\ told' \in [Pods -> PodStates]
         /\ keys' \in [Nodes -> SUBSET Resources]
         /\ ledger' \in [Nodes -> [Claims -> Int]]
         /\ status' \in {"up", "panic", "fatal"}
<1>1. CASE n \in known \/ ClaimsOf(PodHead.pod) = {}
  <2>1. {ResourceOf[c] : c \in ClaimsOf(PodHead.pod)} \subseteq Resources
    BY ClaimsAssumption DEF ClaimsOf
  <2>2. /\ ledger' = [ledger EXCEPT ![n] =
                        [c \in Claims |-> IF c \in ClaimsOf(PodHead.pod)
                                          THEN ledger[n][c] + 1 ELSE ledger[n][c]]]
        /\ keys' = [keys EXCEPT ![n] =
                      keys[n] \cup {ResourceOf[c] : c \in ClaimsOf(PodHead.pod)}]
        /\ PodTaken
        /\ UNCHANGED status
    BY <1>1 DEF AddPodResourceRequested, TypeOK
  <2>3. \A c \in Claims : ledger[n][c] \in Int
    BY DEF TypeOK
  <2>4. ledger' \in [Nodes -> [Claims -> Int]]
    BY <2>2, <2>3 DEF TypeOK
  <2>5. keys' \in [Nodes -> SUBSET Resources]
    BY <2>1, <2>2 DEF TypeOK
  <2> QED BY <2>2, <2>4, <2>5, PodTakenType DEF TypeOK
<1>2. CASE ~(n \in known \/ ClaimsOf(PodHead.pod) = {})
  BY <1>2 DEF AddPodResourceRequested, TypeOK, podVars, ledgerVars
<1> QED BY <1>1, <1>2

LEMMA TypeStep == TypeOK /\ NodeLockInv /\ [Next]_vars => TypeOK'
<1> SUFFICES ASSUME TypeOK, NodeLockInv, [Next]_vars PROVE TypeOK'
  OBVIOUS
<1> USE DEF podVars, nodeVars, entryVars, ledgerVars
<1>1. ASSUME NEW p \in Pods, NEW new \in PodStates, PodWatch(p, new) PROVE TypeOK'
  <2>1. WatchType(podStore[p], new) \in {"Add", "Update", "Delete", "Tombstone"}
    BY DEF WatchType
  <2> QED BY <1>1, <2>1 DEF TypeOK, PodWatch, Notify, PodNotifications
<1>2. ASSUME NEW p \in Pods, NEW new \in PodStates, PodRelist(p, new) PROVE TypeOK'
  BY <1>2 DEF TypeOK, PodRelist, Notify, PodNotifications
<1>3. ASSUME NEW n \in Nodes, NEW size \in Sizes \cup {NoSize}, NodeWatch(n, size)
      PROVE TypeOK'
  <2>1. CASE nodeStore[n] = NoSize
    <3>1. nodeQueue' = Append(nodeQueue, [type |-> "Add", node |-> n, size |-> size])
      BY <1>3, <2>1 DEF NodeWatch
    <3>2. size \in Sizes
      BY <1>3, <2>1 DEF NodeWatch
    <3>3. nodeQueue' \in Seq(NodeNotifications)
      BY <3>1, <3>2, AppendProperties DEF TypeOK, NodeNotifications
    <3> QED BY <1>3, <3>3 DEF TypeOK, NodeWatch
  <2>2. CASE nodeStore[n] # NoSize /\ size = NoSize
    <3>1. nodeQueue' = Append(nodeQueue, [type |-> "Delete", node |-> n,
                                          size |-> nodeStore[n]])
      BY <1>3, <2>2 DEF NodeWatch
    <3>2. nodeStore[n] \in Sizes
      BY <2>2 DEF TypeOK
    <3>3. nodeQueue' \in Seq(NodeNotifications)
      BY <3>1, <3>2, AppendProperties DEF TypeOK, NodeNotifications
    <3> QED BY <1>3, <3>3 DEF TypeOK, NodeWatch
  <2>3. CASE nodeStore[n] # NoSize /\ size # NoSize
    <3>1. nodeQueue' = nodeQueue
      BY <1>3, <2>3 DEF NodeWatch
    <3> QED BY <1>3, <3>1 DEF TypeOK, NodeWatch
  <2> QED BY <2>1, <2>2, <2>3
<1>4. ASSUME NodeAdditionKnown PROVE TypeOK'
  BY <1>4, NodeHeadType DEF TypeOK, NodeAdditionKnown, NodeTaken
<1>5. ASSUME NodeAdditionLock PROVE TypeOK'
  BY <1>5 DEF TypeOK, NodeAdditionLock
<1>6. ASSUME NodeAdditionInsert PROVE TypeOK'
  <2>1. /\ NodeHead.node \in Nodes
        /\ NodeHead.size \in Sizes
        /\ nodeQueue' \in Seq(NodeNotifications)
    BY <1>6, NodeHeadType DEF NodeAdditionInsert, NodeTaken, NodeLockInv
  <2> QED BY <1>6, <2>1 DEF TypeOK, NodeAdditionInsert, NodeTaken
<1>7. ASSUME HandleNodeDeletion PROVE TypeOK'
  BY <1>7, NodeHeadType DEF TypeOK, HandleNodeDeletion, NodeTaken
<1>8. ASSUME HandlePodAddition PROVE TypeOK'
  <2>1. podQueue # <<>> /\ status = "up"
    BY <1>8 DEF HandlePodAddition, PodReady
  <2>2. CASE PodTaken /\ UNCHANGED <<ledgerVars, status>>
    BY <1>8, <2>1, <2>2, PodTakenType DEF TypeOK, HandlePodAddition
  <2>3. CASE /\ IsBound(PodHead.new)
             /\ AddPodResourceRequested(PodHead.pod, PodHead.new.node)
    <3>1. PodHead.new.node \in Nodes
      BY <2>1, <2>3, PodHeadType, BoundNode
    <3> QED BY <1>8, <2>1, <2>3, <3>1, AddType DEF TypeOK, HandlePodAddition
  <2> QED BY <1>8, <2>2, <2>3 DEF HandlePodAddition
<1>9. ASSUME HandlePodUpdate PROVE TypeOK'
  <2>1. podQueue # <<>> /\ status = "up"
    BY <1>9 DEF HandlePodUpdate, PodReady
  <2>2. CASE PodTaken /\ UNCHANGED <<ledgerVars, shed, status>>
    BY <1>9, <2>1, <2>2, PodTakenType DEF TypeOK, HandlePodUpdate
  <2>3. CASE /\ IsBound(PodHead.new)
             /\ AddPodResourceRequested(PodHead.pod, PodHead.new.node)
             /\ UNCHANGED shed
    <3>1. PodHead.new.node \in Nodes
      BY <2>1, <2>3, PodHeadType, BoundNode
    <3> QED BY <1>9, <2>1, <2>3, <3>1, AddType DEF TypeOK, HandlePodUpdate
  <2>4. CASE /\ IsBound(PodHead.new)
             /\ shed' = [node |-> PodHead.new.node, left |-> ClaimsOf(PodHead.pod)]
             /\ PodTaken
             /\ UNCHANGED <<ledgerVars, status>>
    <3>1. PodHead.new.node \in Nodes
      BY <2>1, <2>4, PodHeadType, BoundNode
    <3>2. shed' \in [node : Nodes \cup {NoNode}, left : SUBSET Claims]
      BY <2>4, <3>1 DEF ClaimsOf
    <3> QED BY <1>9, <2>1, <2>4, <3>2, PodTakenType DEF TypeOK, HandlePodUpdate
  <2> QED BY <1>9, <2>2, <2>3, <2>4 DEF HandlePodUpdate, Binds, Finishes
<1>10. ASSUME NEW c \in Claims, ShedClaim(c) PROVE TypeOK'
  <2>1. ledger' \in [Nodes -> [Claims -> Int]]
    BY <1>10, DeleteType DEF ShedClaim
  <2>2. shed' \in [node : Nodes \cup {NoNode}, left : SUBSET Claims]
    BY <1>10 DEF TypeOK, ShedClaim, NoShed
  <2> QED BY <1>10, <2>1, <2>2 DEF TypeOK, ShedClaim
<1>11. ASSUME HandlePodDeletion PROVE TypeOK'
  <2>1. podQueue # <<>>
    BY <1>11 DEF HandlePodDeletion, PodReady
  <2>2. ledger' \in [Nodes -> [Claims -> Int]]
    BY <1>11, DeleteType DEF TypeOK, HandlePodDeletion
  <2> QED BY <1>11, <2>1, <2>2, PodTakenType DEF TypeOK, HandlePodDeletion
<1>12. ASSUME DropTombstone PROVE TypeOK'
  BY <1>12, PodTakenType DEF TypeOK, DropTombstone, PodReady
<1>13. ASSUME NEW s \in Scrapers, ScrapeList(s) PROVE TypeOK'
  BY <1>13 DEF TypeOK, ScrapeList
<1>14. ASSUME NEW s \in Scrapers, NEW n \in Nodes, ScrapeNode(s, n) PROVE TypeOK'
  <2>1. scrape[s] \in [todo : SUBSET Nodes, node : Nodes \cup {NoNode},
                      section : 0..Len(CollectOrder)]
    BY DEF TypeOK
  <2>2. PICK r \in [todo : SUBSET Nodes, node : Nodes \cup {NoNode},
                    section : 0..Len(CollectOrder)] :
          scrape' = [scrape EXCEPT ![s] = r]
    <3>1. CASE scrape' = [scrape EXCEPT ![s].todo = @ \ {n}]
      <4>1. scrape' = [scrape EXCEPT ![s] = [scrape[s] EXCEPT !.todo = scrape[s].todo \ {n}]]
        BY <3>1 DEF TypeOK
      <4> QED BY <2>1, <4>1
    <3>2. CASE scrape' = [scrape EXCEPT ![s] =
                            [todo |-> @.todo \ {n}, node |-> n, section |-> 1]]
      <4>1. scrape' = [scrape EXCEPT ![s] =
                         [todo |-> scrape[s].todo \ {n}, node |-> n, section |-> 1]]
        BY <3>2 DEF TypeOK
      <4>2. 1 \in 0..Len(CollectOrder)
        BY DEF CollectOrder
      <4> QED BY <2>1, <4>1, <4>2
    <3> QED BY <1>14, <3>1, <3>2 DEF ScrapeNode
  <2> QED BY <1>14, <2>2 DEF TypeOK, ScrapeNode
<1>15. ASSUME NEW s \in Scrapers, ScrapeLock(s) PROVE TypeOK'
  BY <1>15 DEF TypeOK, ScrapeLock
<1>16. ASSUME NEW s \in Scrapers, ScrapeSend(s) PROVE TypeOK'
  <2>1. scrape[s] \in [todo : SUBSET Nodes, node : Nodes \cup {NoNode},
                      section : 0..Len(CollectOrder)]
    BY DEF TypeOK
  <2>2. Len(CollectOrder) = 3
    BY DEF CollectOrder
  <2>3. AfterSection(scrape[s]) \in [todo : SUBSET Nodes, node : Nodes \cup {NoNode},
                                    section : 0..Len(CollectOrder)]
    <3>1. CASE scrape[s].section < Len(CollectOrder)
      <4>1. scrape[s].section + 1 \in 0..Len(CollectOrder)
        BY <2>1, <2>2, <3>1
      <4> QED BY <2>1, <3>1, <4>1 DEF AfterSection
    <3>2. CASE ~(scrape[s].section < Len(CollectOrder))
      <4>1. 0 \in 0..Len(CollectOrder)
        BY <2>2
      <4> QED BY <2>1, <3>2, <4>1 DEF AfterSection
    <3> QED BY <3>1, <3>2
  <2>4. scrape' = [scrape EXCEPT ![s] = AfterSection(scrape[s])]
    BY <1>16 DEF TypeOK, ScrapeSend
  <2> QED BY <1>16, <2>3, <2>4 DEF TypeOK, ScrapeSend
<1>17. ASSUME MapRace PROVE TypeOK'
  BY <1>17 DEF TypeOK, MapRace
<1>18. ASSUME Restart PROVE TypeOK'
  BY <1>18 DEF TypeOK, Restart, PodStates, NoShed, Idle
<1>19. ASSUME UNCHANGED vars PROVE TypeOK'
  BY <1>19 DEF TypeOK, vars
<1> HIDE DEF podVars, nodeVars, entryVars, ledgerVars
<1> QED
  BY <1>1, <1>2, <1>3, <1>4, <1>5, <1>6, <1>7, <1>8, <1>9, <1>10, <1>11, <1>12,
     <1>13, <1>14, <1>15, <1>16, <1>17, <1>18, <1>19, NextCases

LEMMA NodeLockStep == TypeOK /\ NodeLockInv /\ [Next]_vars => NodeLockInv'
<1> SUFFICES ASSUME TypeOK, NodeLockInv, [Next]_vars PROVE NodeLockInv'
  OBVIOUS
<1> DEFINE Kept == UNCHANGED <<mutex, nodeQueue, known>>
<1>1. ASSUME Kept PROVE NodeLockInv'
  BY <1>1 DEF NodeLockInv, NodeHead
<1>2. ASSUME NEW p \in Pods, NEW new \in PodStates, PodWatch(p, new) PROVE Kept
  BY <1>2 DEF PodWatch, nodeVars, entryVars
<1>3. ASSUME NEW p \in Pods, NEW new \in PodStates, PodRelist(p, new) PROVE Kept
  BY <1>3 DEF PodRelist, nodeVars, entryVars
<1>4. ASSUME NEW n \in Nodes, NEW size \in Sizes \cup {NoSize}, NodeWatch(n, size)
      PROVE NodeLockInv'
  <2>1. mutex' = mutex /\ known' = known
    BY <1>4 DEF NodeWatch, entryVars
  <2>2. nodeQueue' = nodeQueue \/ \E e : nodeQueue' = Append(nodeQueue, e)
    BY <1>4 DEF NodeWatch
  <2>3. nodeQueue # <<>> => nodeQueue' # <<>> /\ NodeHead' = NodeHead
    BY <2>2 DEF TypeOK, NodeHead
  <2> QED BY <2>1, <2>3 DEF NodeLockInv
<1>5. ASSUME NodeAdditionKnown PROVE mutex' # "node"
  BY <1>5 DEF NodeAdditionKnown, NodeLockInv
<1>6. ASSUME NodeAdditionLock PROVE NodeLockInv'
  BY <1>6 DEF NodeAdditionLock, NodeLockInv, NodeHead, nodeVars, entryVars
<1>7. ASSUME NodeAdditionInsert PROVE mutex' # "node"
  BY <1>7 DEF NodeAdditionInsert
<1>8. ASSUME HandleNodeDeletion PROVE mutex' # "node"
  BY <1>8 DEF HandleNodeDeletion, NodeLockInv
<1>9. ASSUME HandlePodAddition PROVE Kept
  BY <1>9 DEF HandlePodAddition, nodeVars, entryVars
<1>10. ASSUME HandlePodUpdate PROVE Kept
  BY <1>10 DEF HandlePodUpdate, nodeVars, entryVars
<1>11. ASSUME NEW c \in Claims, ShedClaim(c) PROVE Kept
  BY <1>11 DEF ShedClaim, nodeVars, entryVars
<1>12. ASSUME HandlePodDeletion PROVE Kept
  BY <1>12 DEF HandlePodDeletion, nodeVars, entryVars
<1>13. ASSUME DropTombstone PROVE Kept
  BY <1>13 DEF DropTombstone, nodeVars, entryVars
<1>14. ASSUME NEW s \in Scrapers, ScrapeList(s) PROVE Kept
  BY <1>14 DEF ScrapeList, nodeVars, entryVars
<1>15. ASSUME NEW s \in Scrapers, NEW n \in Nodes, ScrapeNode(s, n) PROVE Kept
  BY <1>15 DEF ScrapeNode, nodeVars, entryVars
<1>16. ASSUME NEW s \in Scrapers, ScrapeLock(s) PROVE mutex' # "node"
  BY <1>16, ScrapersAssumption DEF ScrapeLock
<1>17. ASSUME NEW s \in Scrapers, ScrapeSend(s) PROVE mutex' # "node"
  BY <1>17 DEF ScrapeSend
<1>18. ASSUME MapRace PROVE Kept
  BY <1>18 DEF MapRace, nodeVars, entryVars
<1>19. ASSUME Restart PROVE mutex' # "node"
  BY <1>19 DEF Restart
<1>20. ASSUME UNCHANGED vars PROVE Kept
  BY <1>20 DEF vars, nodeVars, entryVars
<1>21. (mutex' # "node") => NodeLockInv'
  BY DEF NodeLockInv
<1> HIDE DEF Kept
<1> QED
  BY <1>1, <1>2, <1>3, <1>4, <1>5, <1>6, <1>7, <1>8, <1>9, <1>10, <1>11, <1>12,
     <1>13, <1>14, <1>15, <1>16, <1>17, <1>18, <1>19, <1>20, <1>21, NextCases

LEMMA TypeInit == Init => TypeOK /\ NodeLockInv
BY DEF Init, TypeOK, NodeLockInv, PodStates, NoShed, Idle

\* The collector's state is well formed whatever the informers send, relists
\* included.
THEOREM TypeCorrect == Spec => []TypeOK
<1>1. TypeOK /\ NodeLockInv /\ [Next]_vars => (TypeOK /\ NodeLockInv)'
  BY TypeStep, NodeLockStep
<1> QED BY <1>1, TypeInit, PTL DEF Spec

-----------------------------------------------------------------------------
(* The notifications of one pod are linked: from what the handlers were    *)
(* told to what the informer has in its store, whatever a relist sends.    *)

LinksInv ==
  /\ \A i \in 1..Len(podQueue) :
       (\A j \in 1..(i - 1) : podQueue[j].pod # podQueue[i].pod)
         => podQueue[i].old = told[podQueue[i].pod]
  /\ \A i, j \in 1..Len(podQueue) :
       (/\ j < i
        /\ podQueue[j].pod = podQueue[i].pod
        /\ \A k \in (j + 1)..(i - 1) : podQueue[k].pod # podQueue[i].pod)
         => podQueue[i].old = podQueue[j].new
  /\ \A p \in Pods :
       (\A i \in 1..Len(podQueue) : podQueue[i].pod # p) => podStore[p] = told[p]
  /\ \A i \in 1..Len(podQueue) :
       (\A j \in (i + 1)..Len(podQueue) : podQueue[j].pod # podQueue[i].pod)
         => podStore[podQueue[i].pod] = podQueue[i].new

\* What one watch event says.
Legal(m) == WatchStep(m.old, m.new) /\ m.type = WatchType(m.old, m.new)

\* Without relists, each notification of the chain is one watch event too.
ChainInv == LinksInv /\ \A i \in 1..Len(podQueue) : Legal(podQueue[i])

LEMMA LinksNotify ==
  ASSUME TypeOK, LinksInv, NEW p \in Pods, NEW type, NEW new \in PodStates,
         Notify(p, type, new), told' = told
  PROVE  LinksInv'
<1> DEFINE q == podQueue
           e == [type |-> type, pod |-> p,
                 old |-> podStore[p], new |-> new]
<1>1. /\ podQueue' = Append(q, e)
      /\ podStore' = [podStore EXCEPT ![p] = new]
      /\ told' = told
  BY DEF Notify
<1>2. /\ q \in Seq(PodNotifications)
      /\ podStore \in [Pods -> PodStates]
      /\ Len(q) \in Nat
  BY DEF TypeOK
<1>3. /\ Len(podQueue') = Len(q) + 1
      /\ \A i \in 1..Len(q) : podQueue'[i] = q[i]
      /\ podQueue'[Len(q) + 1] = e
  BY <1>1, <1>2
<1>4. \A i \in 1..Len(q) : q[i].pod \in Pods
  <2>1. \A i \in 1..Len(q) : q[i] \in PodNotifications
    BY <1>2, ElementOfSeq
  <2> QED BY <2>1 DEF PodNotifications
<1>5. e.pod = p /\ e.old = podStore[p] /\ e.new = new
  OBVIOUS
<1> HIDE DEF e
<1>6. \A i, j \in 1..Len(q) :
        (/\ j < i
         /\ q[j].pod = q[i].pod
         /\ \A k \in (j + 1)..(i - 1) : q[k].pod # q[i].pod)
          => q[i].old = q[j].new
  BY DEF LinksInv
<1>7. ASSUME NEW i \in 1..Len(podQueue'),
             \A j \in 1..(i - 1) : podQueue'[j].pod # podQueue'[i].pod
      PROVE  podQueue'[i].old = told'[podQueue'[i].pod]
  <2>1. CASE i \in 1..Len(q)
    BY <1>1, <1>2, <1>3, <1>7, <2>1 DEF LinksInv
  <2>2. CASE i = Len(q) + 1
    BY <1>1, <1>2, <1>3, <1>5, <1>7, <2>2 DEF LinksInv
  <2> QED BY <1>2, <1>3, <2>1, <2>2
<1>8. ASSUME NEW i \in 1..Len(podQueue'), NEW j \in 1..Len(podQueue'),
             j < i, podQueue'[j].pod = podQueue'[i].pod,
             \A k \in (j + 1)..(i - 1) : podQueue'[k].pod # podQueue'[i].pod
      PROVE  podQueue'[i].old = podQueue'[j].new
  <2>1. CASE i \in 1..Len(q)
    BY <1>2, <1>3, <1>6, <1>8, <2>1
  <2>2. CASE i = Len(q) + 1
    BY <1>2, <1>3, <1>5, <1>8, <2>2 DEF LinksInv
  <2> QED BY <1>2, <1>3, <2>1, <2>2
<1>9. ASSUME NEW r \in Pods, \A i \in 1..Len(podQueue') : podQueue'[i].pod # r
      PROVE  podStore'[r] = told'[r]
  <2>1. r # p
    BY <1>2, <1>3, <1>5, <1>9
  <2> QED BY <1>1, <1>2, <1>3, <1>9, <2>1 DEF LinksInv
<1>10. ASSUME NEW i \in 1..Len(podQueue'),
              \A j \in (i + 1)..Len(podQueue') : podQueue'[j].pod # podQueue'[i].pod
       PROVE  podStore'[podQueue'[i].pod] = podQueue'[i].new
  <2>1. CASE i \in 1..Len(q)
    <3>1. q[i].pod # p
      BY <1>2, <1>3, <1>5, <1>10, <2>1
    <3> QED BY <1>1, <1>2, <1>3, <1>4, <1>10, <2>1, <3>1 DEF LinksInv
  <2>2. CASE i = Len(q) + 1
    BY <1>1, <1>2, <1>3, <1>5, <2>2
  <2> QED BY <1>2, <1>3, <2>1, <2>2
<1> QED BY <1>7, <1>8, <1>9, <1>10 DEF LinksInv

LEMMA ChainWatch ==
  ASSUME TypeOK, ChainInv, NEW p \in Pods, NEW new \in PodStates, PodWatch(p, new)
  PROVE  ChainInv'
<1> DEFINE e == [type |-> WatchType(podStore[p], new), pod |-> p,
                 old |-> podStore[p], new |-> new]
<1>1. /\ Notify(p, WatchType(podStore[p], new), new)
      /\ told' = told
      /\ WatchStep(podStore[p], new)
  BY DEF PodWatch
<1>2. Legal(e)
  BY <1>1 DEF Legal
<1> HIDE DEF e
<1>3. \A i \in 1..Len(podQueue') :
        podQueue'[i] = e \/ (i \in 1..Len(podQueue) /\ podQueue'[i] = podQueue[i])
  BY <1>1 DEF Notify, TypeOK, e
<1>4. \A i \in 1..Len(podQueue') : Legal(podQueue'[i])
  BY <1>2, <1>3 DEF ChainInv
<1>5. LinksInv'
  BY <1>1, LinksNotify DEF ChainInv
<1> QED BY <1>4, <1>5 DEF ChainInv, Legal

LEMMA LinksTaken ==
  ASSUME TypeOK, LinksInv, podQueue # <<>>, PodTaken
  PROVE  LinksInv'
<1> DEFINE q == podQueue
<1>1. /\ podQueue' = Tail(q)
      /\ podStore' = podStore
      /\ told' = [told EXCEPT ![q[1].pod] = q[1].new]
  <2>1. Head(q) = q[1]
    BY DEF TypeOK
  <2> QED BY <2>1 DEF PodTaken, PodHead
<1>2. /\ q \in Seq(PodNotifications)
      /\ told \in [Pods -> PodStates]
      /\ Len(q) \in Nat
      /\ Len(q) > 0
  BY DEF TypeOK
<1>3. /\ Len(podQueue') = Len(q) - 1
      /\ \A i \in 1..(Len(q) - 1) : podQueue'[i] = q[i + 1]
  BY <1>1, <1>2, HeadTailProperties
<1>4. \A i \in 1..Len(q) : q[i].pod \in Pods
  <2>1. \A i \in 1..Len(q) : q[i] \in PodNotifications
    BY <1>2, ElementOfSeq
  <2> QED BY <2>1 DEF PodNotifications
<1>5. ASSUME NEW i \in 1..Len(podQueue')
      PROVE  i + 1 \in 1..Len(q) /\ podQueue'[i] = q[i + 1]
  BY <1>2, <1>3
<1>6. \A j, i \in 1..Len(q) :
        (/\ j < i
         /\ q[j].pod = q[i].pod
         /\ \A k \in (j + 1)..(i - 1) : q[k].pod # q[i].pod)
          => q[i].old = q[j].new
  BY DEF LinksInv
<1>7. ASSUME NEW i \in 1..Len(podQueue'),
             \A j \in 1..(i - 1) : podQueue'[j].pod # podQueue'[i].pod
      PROVE  podQueue'[i].old = told'[podQueue'[i].pod]
  <2>1. \A j \in 2..i : q[j].pod # q[i + 1].pod
    <3> TAKE j \in 2..i
    <3>1. j - 1 \in 1..(i - 1) /\ j - 1 \in 1..Len(podQueue')
      BY <1>2, <1>3
    <3>2. podQueue'[j - 1] = q[j]
      BY <1>2, <1>5, <3>1
    <3> QED BY <1>5, <1>7, <3>1, <3>2
  <2>2. CASE q[1].pod = q[i + 1].pod
    <3>1. q[i + 1].old = q[1].new
      <4>1. 1 \in 1..Len(q) /\ i + 1 \in 1..Len(q) /\ 1 < i + 1
        BY <1>2, <1>5, <1>7
      <4>2. \A k \in (1 + 1)..((i + 1) - 1) : q[k].pod # q[i + 1].pod
        <5>1. (1 + 1)..((i + 1) - 1) = 2..i
          BY <1>7
        <5> QED BY <2>1, <5>1
      <4> QED BY <1>6, <2>2, <4>1, <4>2
    <3> QED BY <1>1, <1>2, <1>4, <1>5, <2>2, <3>1
  <2>3. CASE q[1].pod # q[i + 1].pod
    <3>1. q[i + 1].old = told[q[i + 1].pod]
      BY <1>2, <1>5, <2>1, <2>3 DEF LinksInv
    <3> QED BY <1>1, <1>2, <1>4, <1>5, <2>3, <3>1
  <2> QED BY <2>2, <2>3
<1>8. ASSUME NEW i \in 1..Len(podQueue'), NEW j \in 1..Len(podQueue'),
             j < i, podQueue'[j].pod = podQueue'[i].pod,
             \A k \in (j + 1)..(i - 1) : podQueue'[k].pod # podQueue'[i].pod
      PROVE  podQueue'[i].old = podQueue'[j].new
  <2>1. \A k \in (j + 2)..i : q[k].pod # q[i + 1].pod
    <3> TAKE k \in (j + 2)..i
    <3>1. k - 1 \in (j + 1)..(i - 1) /\ k - 1 \in 1..Len(podQueue')
      BY <1>2, <1>3
    <3>2. podQueue'[k - 1] = q[k]
      BY <1>2, <1>5, <3>1
    <3> QED BY <1>5, <1>8, <3>1, <3>2
  <2>2. /\ i + 1 \in 1..Len(q) /\ j + 1 \in 1..Len(q) /\ j + 1 < i + 1
        /\ podQueue'[i] = q[i + 1] /\ podQueue'[j] = q[j + 1]
    BY <1>5, <1>8
  <2>3. \A k \in ((j + 1) + 1)..((i + 1) - 1) : q[k].pod # q[i + 1].pod
    BY <2>1, <2>2, <1>2
  <2>4. q[i + 1].old = q[j + 1].new
    BY <1>8, <2>2, <2>3 DEF LinksInv
  <2> QED BY <2>2, <2>4
<1>9. ASSUME NEW r \in Pods, \A i \in 1..Len(podQueue') : podQueue'[i].pod # r
      PROVE  podStore'[r] = told'[r]
  <2>1. \A i \in 2..Len(q) : q[i].pod # r
    <3> TAKE i \in 2..Len(q)
    <3>1. i - 1 \in 1..Len(podQueue') /\ podQueue'[i - 1] = q[i]
      BY <1>2, <1>3
    <3> QED BY <1>9, <3>1
  <2>2. CASE q[1].pod = r
    <3>1. podStore[r] = q[1].new
      BY <1>2, <2>1, <2>2 DEF LinksInv
    <3> QED BY <1>1, <1>2, <2>2, <3>1
  <2>3. CASE q[1].pod # r
    <3>1. podStore[r] = told[r]
      BY <1>2, <2>1, <2>3 DEF LinksInv
    <3> QED BY <1>1, <1>2, <1>4, <2>3, <3>1
  <2> QED BY <2>2, <2>3
<1>10. ASSUME NEW i \in 1..Len(podQueue'),
              \A j \in (i + 1)..Len(podQueue') : podQueue'[j].pod # podQueue'[i].pod
       PROVE  podStore'[podQueue'[i].pod] = podQueue'[i].new
  <2>1. \A j \in (i + 2)..Len(q) : q[j].pod # q[i + 1].pod
    <3> TAKE j \in (i + 2)..Len(q)
    <3>1. j - 1 \in (i + 1)..Len(podQueue') /\ j - 1 \in 1..Len(podQueue')
      BY <1>2, <1>3
    <3>2. podQueue'[j - 1] = q[j]
      BY <1>2, <1>5, <3>1
    <3> QED BY <1>5, <1>10, <3>1, <3>2
  <2> QED BY <1>1, <1>2, <1>5, <2>1 DEF LinksInv
<1> QED BY <1>7, <1>8, <1>9, <1>10 DEF LinksInv

\* Taking the head leaves notifications of the queue.
LEMMA TailOf ==
  ASSUME TypeOK, podQueue # <<>>, PodTaken
  PROVE  /\ Len(podQueue') = Len(podQueue) - 1
         /\ \A i \in 1..Len(podQueue') :
              i + 1 \in 1..Len(podQueue) /\ podQueue'[i] = podQueue[i + 1]
<1>1. podQueue' = Tail(podQueue) /\ podQueue \in Seq(PodNotifications)
  BY DEF PodTaken, TypeOK
<1>2. /\ Len(podQueue) \in Nat /\ Len(podQueue) > 0
      /\ Len(podQueue') = Len(podQueue) - 1
      /\ \A i \in 1..(Len(podQueue) - 1) : podQueue'[i] = podQueue[i + 1]
  BY <1>1, HeadTailProperties
<1> QED BY <1>2

LEMMA ChainTaken ==
  ASSUME TypeOK, ChainInv, podQueue # <<>>, PodTaken
  PROVE  ChainInv'
<1>1. \A i \in 1..Len(podQueue') : Legal(podQueue'[i])
  BY TailOf DEF ChainInv
<1>2. LinksInv'
  BY LinksTaken DEF ChainInv
<1> QED BY <1>1, <1>2 DEF ChainInv, Legal

-----------------------------------------------------------------------------
(* The ledger.                                                             *)

ShedInv ==
  shed.left # {} =>
    /\ shed.node \in Nodes
    /\ \E p \in Pods : /\ shed.left \subseteq ClaimsOf(p)
                       /\ told[p].node = shed.node
                       /\ IsDone(told[p])

\* A counted claim has an entry to be subtracted from.
KeysInv ==
  \A n \in Nodes, c \in Claims :
    Counted(c, n) => n \in known /\ ResourceOf[c] \in keys[n]

LedgerInv == ShedInv /\ KeysInv /\ LedgerExact

IInv == TypeOK /\ NodeLockInv /\ ChainInv /\ LedgerInv

LEMMA HeadLinked ==
  ASSUME TypeOK, LinksInv, podQueue # <<>>
  PROVE  told[PodHead.pod] = PodHead.old
<1>1. PodHead = podQueue[1] /\ 1 \in 1..Len(podQueue)
  BY DEF TypeOK, PodHead
<1>2. podQueue[1].old = told[podQueue[1].pod]
  BY <1>1 DEF LinksInv
<1> QED BY <1>1, <1>2

LEMMA HeadFacts ==
  ASSUME TypeOK, ChainInv, podQueue # <<>>
  PROVE  /\ PodHead.pod \in Pods
         /\ PodHead.old \in PodStates
         /\ PodHead.new \in PodStates
         /\ told[PodHead.pod] = PodHead.old
         /\ WatchStep(PodHead.old, PodHead.new)
         /\ PodHead.type = WatchType(PodHead.old, PodHead.new)
<1>1. PodHead = podQueue[1] /\ 1 \in 1..Len(podQueue)
  BY DEF TypeOK, PodHead
<1>2. Legal(PodHead)
  BY <1>1 DEF ChainInv
<1> QED BY <1>2, PodHeadType, HeadLinked DEF ChainInv, Legal

LEMMA LedgerKept ==
  ASSUME LedgerInv, UNCHANGED <<told, shed, known, keys, ledger>>
  PROVE  LedgerInv'
BY DEF LedgerInv, ShedInv, KeysInv, LedgerExact, Counted

\* Which claims are counted where after the head of the queue was taken.
LEMMA CountedAfterTaken ==
  ASSUME TypeOK, ChainInv, podQueue # <<>>, PodTaken, NEW n \in Nodes,
         NEW c \in Claims
  PROVE  /\ PodOf[c] \in Pods
         /\ PodOf[c] # PodHead.pod => told'[PodOf[c]] = told[PodOf[c]]
         /\ PodOf[c] = PodHead.pod => /\ told[PodOf[c]] = PodHead.old
                                      /\ told'[PodOf[c]] = PodHead.new
BY HeadFacts, ClaimsAssumption DEF TypeOK, PodTaken

\* A notification after which the pod occupies the nodes it occupied before.
LEMMA LedgerSkip ==
  ASSUME TypeOK, ChainInv, LedgerInv, PodReady, PodTaken,
         UNCHANGED <<known, keys, ledger>>, shed'.left = {},
         \A n \in Nodes : Occupies(PodHead.new, n) <=> Occupies(PodHead.old, n)
  PROVE  LedgerInv'
<1>1. podQueue # <<>> /\ shed.left = {}
  BY DEF PodReady
<1>2. ASSUME NEW n \in Nodes, NEW c \in Claims
      PROVE  Counted(c, n)' <=> Counted(c, n)
  BY <1>1, CountedAfterTaken DEF Counted
<1> QED BY <1>1, <1>2 DEF LedgerInv, ShedInv, KeysInv, LedgerExact

LEMMA LedgerAdd ==
  ASSUME TypeOK, ChainInv, LedgerInv, PodReady, NEW n \in Nodes,
         AddPodResourceRequested(PodHead.pod, n), UNCHANGED <<known, shed>>,
         \A m \in Nodes : ~Occupies(PodHead.old, m),
         \A m \in Nodes : Occupies(PodHead.new, m) <=> m = n
  PROVE  LedgerInv'
<1>1. podQueue # <<>> /\ shed.left = {} /\ shed'.left = {}
  BY DEF PodReady
<1>2. CASE ~(n \in known \/ ClaimsOf(PodHead.pod) = {})
  BY <1>2, LedgerKept DEF AddPodResourceRequested, podVars, ledgerVars
<1>3. CASE n \in known \/ ClaimsOf(PodHead.pod) = {}
  <2>1. /\ PodTaken
        /\ \A m \in Nodes, c \in Claims :
             ledger'[m][c] = IF m = n /\ c \in ClaimsOf(PodHead.pod)
                             THEN ledger[m][c] + 1 ELSE ledger[m][c]
        /\ \A m \in Nodes :
             keys'[m] = IF m = n
                        THEN keys[m] \cup {ResourceOf[c] : c \in ClaimsOf(PodHead.pod)}
                        ELSE keys[m]
    <3>1. /\ PodTaken
          /\ ledger' = [ledger EXCEPT ![n] =
                          [c \in Claims |-> IF c \in ClaimsOf(PodHead.pod)
                                            THEN ledger[n][c] + 1 ELSE ledger[n][c]]]
          /\ keys' = [keys EXCEPT ![n] =
                        keys[n] \cup {ResourceOf[c] : c \in ClaimsOf(PodHead.pod)}]
      BY <1>3 DEF AddPodResourceRequested, TypeOK
    <3>2. ledger \in [Nodes -> [Claims -> Int]] /\ keys \in [Nodes -> SUBSET Resources]
      BY DEF TypeOK
    <3> QED BY <3>1, <3>2
  <2>2. ASSUME NEW m \in Nodes, NEW c \in Claims
        PROVE  /\ Counted(c, m)' <=> Counted(c, m) \/ (m = n /\ PodOf[c] = PodHead.pod)
               /\ PodOf[c] = PodHead.pod => ~Counted(c, m)
    BY <1>1, <2>1, CountedAfterTaken DEF Counted
  <2>3. LedgerExact'
    <3> SUFFICES ASSUME NEW m \in Nodes, NEW c \in Claims
                 PROVE  ledger'[m][c] = IF Counted(c, m)' THEN 1 ELSE 0
      BY DEF LedgerExact
    <3>1. ledger[m][c] = IF Counted(c, m) THEN 1 ELSE 0
      BY DEF LedgerInv, LedgerExact
    <3> QED BY <2>1, <2>2, <3>1 DEF ClaimsOf
  <2>4. KeysInv'
    <3> SUFFICES ASSUME NEW m \in Nodes, NEW c \in Claims, Counted(c, m)'
                 PROVE  m \in known' /\ ResourceOf[c] \in keys'[m]
      BY DEF KeysInv
    <3>1. CASE Counted(c, m)
      BY <2>1, <3>1 DEF LedgerInv, KeysInv
    <3>2. CASE m = n /\ PodOf[c] = PodHead.pod
      <4>1. c \in ClaimsOf(PodHead.pod)
        BY <3>2 DEF ClaimsOf
      <4> QED BY <1>3, <2>1, <3>2, <4>1
    <3> QED BY <2>2, <3>1, <3>2
  <2> QED BY <1>1, <2>3, <2>4 DEF LedgerInv, ShedInv
<1> QED BY <1>2, <1>3

\* deletePodResourceRequested under the lock.
LEMMA LedgerDelete ==
  ASSUME TypeOK, ChainInv, LedgerInv, PodReady, PodTaken, NEW n \in Nodes,
         DeletePodResourceRequested(n, ClaimsOf(PodHead.pod)),
         UNCHANGED <<known, keys, shed>>,
         \A m \in Nodes : Occupies(PodHead.old, m) <=> m = n,
         \A m \in Nodes : ~Occupies(PodHead.new, m)
  PROVE  LedgerInv'
<1>1. podQueue # <<>> /\ shed.left = {} /\ shed'.left = {}
  BY DEF PodReady
<1>2. ASSUME NEW m \in Nodes, NEW c \in Claims
      PROVE  /\ Counted(c, m)' <=> Counted(c, m) /\ PodOf[c] # PodHead.pod
             /\ PodOf[c] = PodHead.pod => (Counted(c, m) <=> m = n)
  BY <1>1, CountedAfterTaken DEF Counted
<1>3. ASSUME NEW c \in Claims
      PROVE  c \in Subtractable(n, ClaimsOf(PodHead.pod)) <=> PodOf[c] = PodHead.pod
  <2>1. PodOf[c] = PodHead.pod => n \in known /\ ResourceOf[c] \in keys[n]
    BY <1>2 DEF LedgerInv, KeysInv
  <2> QED BY <2>1 DEF Subtractable, ClaimsOf
<1>4. \A m \in Nodes, c \in Claims :
        ledger'[m][c] = IF m = n /\ PodOf[c] = PodHead.pod
                        THEN ledger[m][c] - 1 ELSE ledger[m][c]
  BY <1>3 DEF DeletePodResourceRequested, TypeOK
<1>5. LedgerExact'
  <2> SUFFICES ASSUME NEW m \in Nodes, NEW c \in Claims
               PROVE  ledger'[m][c] = IF Counted(c, m)' THEN 1 ELSE 0
    BY DEF LedgerExact
  <2>1. ledger[m][c] = IF Counted(c, m) THEN 1 ELSE 0
    BY DEF LedgerInv, LedgerExact
  <2> QED BY <1>2, <1>4, <2>1
<1>6. KeysInv'
  BY <1>2 DEF LedgerInv, KeysInv
<1> QED BY <1>1, <1>5, <1>6 DEF LedgerInv, ShedInv

\* The pod has finished: its claims stay counted until they are shed.
LEMMA LedgerFinish ==
  ASSUME TypeOK, ChainInv, LedgerInv, PodReady, PodTaken, NEW n \in Nodes,
         shed' = [node |-> n, left |-> ClaimsOf(PodHead.pod)],
         UNCHANGED <<known, keys, ledger>>,
         \A m \in Nodes : Occupies(PodHead.old, m) <=> m = n,
         \A m \in Nodes : ~Occupies(PodHead.new, m),
         PodHead.new.node = n, IsDone(PodHead.new)
  PROVE  LedgerInv'
<1>1. podQueue # <<>> /\ shed.left = {} /\ shed'.left = ClaimsOf(PodHead.pod)
      /\ shed'.node = n
  BY DEF PodReady
<1>2. ASSUME NEW m \in Nodes, NEW c \in Claims
      PROVE  Counted(c, m)' <=> Counted(c, m)
  BY <1>1, CountedAfterTaken DEF Counted, ClaimsOf
<1>3. told'[PodHead.pod] = PodHead.new /\ PodHead.pod \in Pods
  BY <1>1, HeadFacts DEF PodTaken, TypeOK
<1> QED BY <1>1, <1>2, <1>3 DEF LedgerInv, ShedInv, KeysInv, LedgerExact

LEMMA LedgerShed ==
  ASSUME TypeOK, LedgerInv, NEW c \in Claims, ShedClaim(c)
  PROVE  LedgerInv'
<1> DEFINE n == shed.node
<1>1. PICK p \in Pods : /\ shed.left \subseteq ClaimsOf(p)
                        /\ told[p].node = n
                        /\ IsDone(told[p])
  BY DEF LedgerInv, ShedInv, ShedClaim
<1>2. n \in Nodes /\ c \in shed.left
  BY DEF LedgerInv, ShedInv, ShedClaim
<1>3. /\ told' = told /\ known' = known /\ keys' = keys
      /\ shed'.left = shed.left \ {c}
      /\ shed'.left # {} => shed'.node = n
  BY <1>2 DEF ShedClaim, podVars, entryVars, NoShed, TypeOK
<1>4. n \in known /\ ResourceOf[c] \in keys[n]
  BY <1>2 DEF LedgerInv, KeysInv, Counted
<1>5. \A m \in Nodes, d \in Claims :
        ledger'[m][d] = IF m = n /\ d = c THEN ledger[m][d] - 1 ELSE ledger[m][d]
  BY <1>2, <1>4 DEF ShedClaim, DeletePodResourceRequested, Subtractable, TypeOK
<1>6. ASSUME NEW m \in Nodes, NEW d \in Claims
      PROVE  Counted(d, m)' <=> Counted(d, m) /\ ~(m = n /\ d = c)
  <2>1. d \in shed.left => PodOf[d] = p
    BY <1>1 DEF ClaimsOf
  <2>2. PodOf[d] = p => ~Occupies(told[PodOf[d]], m)
    BY <1>1 DEF Occupies, IsDone
  <2> QED BY <1>2, <1>3, <2>1, <2>2 DEF Counted
<1>7. LedgerExact'
  <2> SUFFICES ASSUME NEW m \in Nodes, NEW d \in Claims
               PROVE  ledger'[m][d] = IF Counted(d, m)' THEN 1 ELSE 0
    BY DEF LedgerExact
  <2>1. ledger[m][d] = IF Counted(d, m) THEN 1 ELSE 0
    BY DEF LedgerInv, LedgerExact
  <2>2. Counted(c, n)
    BY <1>2 DEF Counted
  <2> QED BY <1>5, <1>6, <2>1, <2>2
<1>8. KeysInv'
  BY <1>3, <1>6 DEF LedgerInv, KeysInv
<1>9. ShedInv'
  BY <1>1, <1>2, <1>3 DEF ShedInv
<1> QED BY <1>7, <1>8, <1>9 DEF LedgerInv

\* A new entry starts at zero, and no claim was counted without an entry.
LEMMA LedgerInsert ==
  ASSUME TypeOK, NodeLockInv, LedgerInv, NodeAdditionInsert
  PROVE  LedgerInv'
<1> DEFINE h == NodeHead.node
<1>1. /\ told' = told /\ shed' = shed /\ known' = known \cup {h}
      /\ h \notin known
      /\ \A m \in Nodes : keys'[m] = IF m = h THEN {} ELSE keys[m]
      /\ \A m \in Nodes, c \in Claims :
           ledger'[m][c] = IF m = h THEN 0 ELSE ledger[m][c]
  BY DEF NodeAdditionInsert, NodeLockInv, podVars, TypeOK
<1>2. ASSUME NEW m \in Nodes, NEW c \in Claims
      PROVE  /\ Counted(c, m)' <=> Counted(c, m)
             /\ Counted(c, m) => m # h
  BY <1>1 DEF Counted, LedgerInv, KeysInv
<1> HIDE DEF h
<1>3. KeysInv'
  BY <1>1, <1>2 DEF LedgerInv, KeysInv
<1>4. LedgerExact'
  BY <1>1, <1>2 DEF LedgerInv, LedgerExact
<1>5. ShedInv'
  BY <1>1 DEF LedgerInv, ShedInv
<1> QED BY <1>3, <1>4, <1>5 DEF LedgerInv

-----------------------------------------------------------------------------
(* The steps of the watch.                                                 *)

LEMMA Occupants ==
  ASSUME NEW old \in PodStates, NEW new \in PodStates, WatchStep(old, new)
  PROVE  /\ \A n \in Nodes : Occupies(new, n)
              <=> IsBound(new) /\ ~IsDone(new) /\ new.node = n
         /\ \A n \in Nodes : Occupies(old, n)
              <=> IsBound(old) /\ ~IsDone(old) /\ old.node = n
BY NodesAssumption
   DEF PodStates, LiveStates, Absent, IsBound, IsDone, Occupies

LEMMA AdditionStep ==
  ASSUME TypeOK, ChainInv, LedgerInv, HandlePodAddition
  PROVE  LedgerInv'
<1>1. /\ podQueue # <<>> /\ shed.left = {} /\ shed' = shed /\ known' = known
      /\ PodReady
      /\ PodHead.type = "Add"
  BY DEF HandlePodAddition, PodReady, entryVars
<1>2. PodHead.old = Absent
  BY <1>1, HeadFacts DEF WatchType
<1>3. \A n \in Nodes : ~Occupies(PodHead.old, n)
  BY <1>2, NodesAssumption DEF Occupies, Absent
<1>4. CASE /\ ~IsBound(PodHead.new) \/ IsDone(PodHead.new)
           /\ PodTaken
           /\ UNCHANGED <<ledgerVars, status>>
  <2>1. \A n \in Nodes : ~Occupies(PodHead.new, n)
    BY <1>1, <1>4, HeadFacts, Occupants
  <2>2. UNCHANGED <<known, keys, ledger>>
    BY <1>1, <1>4 DEF ledgerVars
  <2> QED BY <1>1, <1>3, <1>4, <2>1, <2>2, LedgerSkip
<1>5. CASE /\ IsBound(PodHead.new) /\ ~IsDone(PodHead.new)
           /\ AddPodResourceRequested(PodHead.pod, PodHead.new.node)
  <2>1. PodHead.new.node \in Nodes
    BY <1>1, <1>5, HeadFacts, BoundNode
  <2>2. \A m \in Nodes : Occupies(PodHead.new, m) <=> m = PodHead.new.node
    BY <1>1, <1>5, HeadFacts, Occupants
  <2> QED BY <1>1, <1>3, <1>5, <2>1, <2>2, LedgerAdd
<1> QED BY <1>4, <1>5 DEF HandlePodAddition

LEMMA UpdateStep ==
  ASSUME TypeOK, ChainInv, LedgerInv, HandlePodUpdate
  PROVE  LedgerInv'
<1> DEFINE old == PodHead.old
           new == PodHead.new
<1>1. /\ podQueue # <<>> /\ shed.left = {} /\ known' = known
      /\ PodReady
      /\ PodHead.type = "Update"
  BY DEF HandlePodUpdate, PodReady, entryVars
<1>2. /\ old \in PodStates /\ new \in PodStates
      /\ WatchStep(old, new)
      /\ old # Absent /\ new # Absent
      /\ IsBound(old) => new.node = old.node
      /\ IsDone(old) => IsDone(new)
  BY <1>1, HeadFacts DEF WatchType, WatchStep
<1>3. /\ \A n \in Nodes : Occupies(new, n) <=> IsBound(new) /\ ~IsDone(new) /\ new.node = n
      /\ \A n \in Nodes : Occupies(old, n) <=> IsBound(old) /\ ~IsDone(old) /\ old.node = n
  BY <1>2, Occupants
<1>4. CASE /\ ~Binds(old, new) /\ ~Finishes(old, new)
           /\ PodTaken
           /\ UNCHANGED <<ledgerVars, shed, status>>
  <2>1. \A n \in Nodes : Occupies(new, n) <=> Occupies(old, n)
    BY <1>2, <1>3, <1>4 DEF Binds, Finishes, IsBound
  <2>2. UNCHANGED <<known, keys, ledger>> /\ shed'.left = {}
    BY <1>1, <1>4 DEF ledgerVars
  <2> QED BY <1>1, <1>4, <2>1, <2>2, LedgerSkip
<1>5. CASE /\ Binds(old, new)
           /\ AddPodResourceRequested(PodHead.pod, new.node)
           /\ UNCHANGED shed
  <2>1. new.node \in Nodes
    BY <1>2, <1>5, BoundNode DEF Binds
  <2>2. /\ \A m \in Nodes : ~Occupies(old, m)
        /\ \A m \in Nodes : Occupies(new, m) <=> m = new.node
    BY <1>3, <1>5 DEF Binds
  <2> QED BY <1>1, <1>5, <2>1, <2>2, LedgerAdd
<1>6. CASE /\ Finishes(old, new)
           /\ shed' = [node |-> new.node, left |-> ClaimsOf(PodHead.pod)]
           /\ PodTaken
           /\ UNCHANGED <<ledgerVars, status>>
  <2>1. new.node \in Nodes
    BY <1>2, <1>6, BoundNode DEF Finishes
  <2>2. /\ \A m \in Nodes : Occupies(old, m) <=> m = new.node
        /\ \A m \in Nodes : ~Occupies(new, m)
        /\ IsDone(new)
    BY <1>2, <1>3, <1>6 DEF Finishes
  <2>3. UNCHANGED <<known, keys, ledger>>
    BY <1>1, <1>6 DEF ledgerVars
  <2> QED BY <1>1, <1>6, <2>1, <2>2, <2>3, LedgerFinish
<1> QED BY <1>4, <1>5, <1>6 DEF HandlePodUpdate

LEMMA DeletionStep ==
  ASSUME TypeOK, ChainInv, LedgerInv, HandlePodDeletion
  PROVE  LedgerInv'
<1>1. /\ podQueue # <<>> /\ shed.left = {} /\ shed' = shed /\ known' = known
      /\ keys' = keys
      /\ PodReady /\ PodTaken
      /\ PodHead.type = "Delete"
  BY DEF HandlePodDeletion, PodReady, entryVars
<1>2. PodHead.new = Absent
  BY <1>1, HeadFacts DEF WatchType
<1>3. \A n \in Nodes : ~Occupies(PodHead.new, n)
  BY <1>2, NodesAssumption DEF Occupies, Absent
<1>4. \A n \in Nodes : Occupies(PodHead.old, n)
        <=> IsBound(PodHead.old) /\ ~IsDone(PodHead.old) /\ PodHead.old.node = n
  BY <1>1, HeadFacts, Occupants
<1>5. CASE /\ ~IsBound(PodHead.old) \/ IsDone(PodHead.old)
           /\ UNCHANGED ledger
  BY <1>1, <1>3, <1>4, <1>5, LedgerSkip
<1>6. CASE /\ IsBound(PodHead.old) /\ ~IsDone(PodHead.old)
           /\ DeletePodResourceRequested(PodHead.old.node, ClaimsOf(PodHead.pod))
  <2>1. PodHead.old.node \in Nodes
    BY <1>1, <1>6, HeadFacts, BoundNode
  <2> QED BY <1>1, <1>3, <1>4, <1>6, <2>1, LedgerDelete
<1> QED BY <1>5, <1>6 DEF HandlePodDeletion

LEMMA LinksKept ==
  ASSUME LinksInv, UNCHANGED <<podStore, podQueue, told>>
  PROVE  LinksInv'
<1>1. podStore' = podStore /\ podQueue' = podQueue /\ told' = told
  OBVIOUS
<1> QED BY ONLY LinksInv, <1>1, Z3 DEF LinksInv

LEMMA ChainKept ==
  ASSUME ChainInv, UNCHANGED <<podStore, podQueue, told>>
  PROVE  ChainInv'
BY LinksKept DEF ChainInv, Legal

\* A crash leaves the queue alone; any other addition takes its head.
LEMMA AddTakes ==
  ASSUME NEW p, NEW n, AddPodResourceRequested(p, n)
  PROVE  PodTaken \/ UNCHANGED <<podStore, podQueue, told>>
BY DEF AddPodResourceRequested, podVars

LEMMA InitInv == Init => IInv
<1> SUFFICES ASSUME Init PROVE IInv
  OBVIOUS
<1>1. TypeOK /\ NodeLockInv
  BY TypeInit
<1>2. ChainInv
  BY DEF Init, ChainInv, LinksInv, Legal
<1>3. \A n \in Nodes, c \in Claims : ~Counted(c, n)
  BY ClaimsAssumption, NodesAssumption DEF Init, Counted, Occupies, Absent, NoShed
<1> QED BY <1>1, <1>2, <1>3
        DEF IInv, LedgerInv, ShedInv, KeysInv, LedgerExact, Init, NoShed

LEMMA WatchStepInv == IInv /\ [WatchNext]_vars => IInv'
<1> SUFFICES ASSUME IInv, [WatchNext]_vars PROVE IInv'
  OBVIOUS
<1> USE DEF podVars, nodeVars, entryVars, ledgerVars
<1>1. TypeOK /\ NodeLockInv /\ ChainInv /\ LedgerInv
  BY DEF IInv
<1>2. TypeOK' /\ NodeLockInv'
  BY <1>1, TypeStep, NodeLockStep DEF Next
<1> DEFINE Good == ChainInv' /\ LedgerInv'
<1>3. ASSUME UNCHANGED <<podStore, podQueue, told, shed, known, keys, ledger>>
      PROVE  Good
  BY <1>1, <1>3, ChainKept, LedgerKept
<1>4. ASSUME NEW p \in Pods, NEW new \in PodStates, PodWatch(p, new) PROVE Good
  <2>1. UNCHANGED <<told, shed, known, keys, ledger>>
    BY <1>4 DEF PodWatch
  <2> QED BY <1>1, <1>4, <2>1, ChainWatch, LedgerKept
<1>5. ASSUME NEW n \in Nodes, NEW size \in Sizes \cup {NoSize}, NodeWatch(n, size)
      PROVE Good
  BY <1>3, <1>5 DEF NodeWatch
<1>6. ASSUME NodeAdditionKnown PROVE Good
  BY <1>3, <1>6 DEF NodeAdditionKnown
<1>7. ASSUME NodeAdditionLock PROVE Good
  BY <1>3, <1>7 DEF NodeAdditionLock
<1>8. ASSUME NodeAdditionInsert PROVE Good
  <2>1. UNCHANGED <<podStore, podQueue, told>>
    BY <1>8 DEF NodeAdditionInsert
  <2> QED BY <1>1, <1>8, <2>1, ChainKept, LedgerInsert
<1>9. ASSUME HandleNodeDeletion PROVE Good
  <2>1. known' = known
    BY <1>9 DEF HandleNodeDeletion, DeletedEntry
  <2> QED BY <1>3, <1>9, <2>1 DEF HandleNodeDeletion
<1>10. ASSUME HandlePodAddition PROVE Good
  <2>1. podQueue # <<>>
    BY <1>10 DEF HandlePodAddition, PodReady
  <2>2. PodTaken \/ UNCHANGED <<podStore, podQueue, told>>
    BY <1>10, AddTakes DEF HandlePodAddition
  <2> QED BY <1>1, <1>10, <2>1, <2>2, ChainTaken, ChainKept, AdditionStep
<1>11. ASSUME HandlePodUpdate PROVE Good
  <2>1. podQueue # <<>>
    BY <1>11 DEF HandlePodUpdate, PodReady
  <2>2. PodTaken \/ UNCHANGED <<podStore, podQueue, told>>
    BY <1>11, AddTakes DEF HandlePodUpdate
  <2> QED BY <1>1, <1>11, <2>1, <2>2, ChainTaken, ChainKept, UpdateStep
<1>12. ASSUME NEW c \in Claims, ShedClaim(c) PROVE Good
  <2>1. UNCHANGED <<podStore, podQueue, told>>
    BY <1>12 DEF ShedClaim
  <2> QED BY <1>1, <1>12, <2>1, ChainKept, LedgerShed
<1>13. ASSUME HandlePodDeletion PROVE Good
  <2>1. podQueue # <<>> /\ PodTaken
    BY <1>13 DEF HandlePodDeletion, PodReady
  <2> QED BY <1>1, <1>13, <2>1, ChainTaken, DeletionStep
<1>14. ASSUME DropTombstone PROVE Good
  <2>1. podQueue # <<>> /\ PodHead.type = "Tombstone"
    BY <1>14 DEF DropTombstone, PodReady
  <2>2. PodHead.type # "Tombstone"
    BY <1>1, <2>1, HeadFacts DEF WatchType
  <2> QED BY <2>1, <2>2
<1>15. ASSUME NEW s \in Scrapers, ScrapeList(s) PROVE Good
  BY <1>3, <1>15 DEF ScrapeList
<1>16. ASSUME NEW s \in Scrapers, NEW n \in Nodes, ScrapeNode(s, n) PROVE Good
  BY <1>3, <1>16 DEF ScrapeNode
<1>17. ASSUME NEW s \in Scrapers, ScrapeLock(s) PROVE Good
  BY <1>3, <1>17 DEF ScrapeLock
<1>18. ASSUME NEW s \in Scrapers, ScrapeSend(s) PROVE Good
  BY <1>3, <1>18 DEF ScrapeSend
<1>19. ASSUME MapRace PROVE Good
  BY <1>3, <1>19 DEF MapRace
<1>20. ASSUME Restart PROVE Good
  <2>1. \A n \in Nodes, c \in Claims : ~Counted(c, n)'
    BY <1>20, ClaimsAssumption, NodesAssumption DEF Restart, Counted, Occupies, Absent, NoShed
  <2>2. ChainInv'
    BY <1>20 DEF Restart, ChainInv, LinksInv, Legal
  <2> QED BY <1>20, <2>1, <2>2
          DEF Restart, LedgerInv, ShedInv, KeysInv, LedgerExact, NoShed
<1>21. ASSUME UNCHANGED vars PROVE Good
  BY <1>3, <1>21 DEF vars
<1> HIDE DEF Good, podVars, nodeVars, entryVars, ledgerVars
<1>22. Good
  <2> SUFFICES ASSUME ~Good PROVE FALSE
    OBVIOUS
  <2> QED
    BY <1>4, <1>5, <1>6, <1>7, <1>8, <1>9, <1>10, <1>11, <1>12, <1>13, <1>14, <1>15,
       <1>16, <1>17, <1>18, <1>19, <1>20, <1>21
       DEF WatchNext, Agent, NodeListener, PodListener, Scrape
<1> QED BY <1>2, <1>22 DEF IInv, Good

\* As long as the watch is not interrupted, the ledger is exact at every
\* instant, for any number of nodes, pods, claims and scrapes and any length
\* of the queues.
THEOREM LedgerAlwaysExact == WatchSpec => []LedgerExact
<1>1. IInv => LedgerExact
  BY DEF IInv, LedgerInv
<1> QED BY <1>1, InitInv, WatchStepInv, PTL DEF WatchSpec

-----------------------------------------------------------------------------
(* The refinement of PodLedger.                                            *)

LEMMA RowEqual ==
  ASSUME NEW f \in [Nodes -> [Claims -> Int]], NEW g \in [Nodes -> [Claims -> Int]],
         \A n \in Nodes, c \in Claims : f[n][c] = g[n][c]
  PROVE  f = g
<1>1. \A n \in Nodes : f[n] = g[n]
  <2> TAKE n \in Nodes
  <2>1. f[n] \in [Claims -> Int] /\ g[n] \in [Claims -> Int]
    OBVIOUS
  <2> QED BY <2>1
<1> QED BY <1>1

LEMMA ChargeStep ==
  ASSUME IInv, PodReady, NEW n \in Nodes,
         \A m \in Nodes : ~Occupies(PodHead.old, m),
         AddPodResourceRequested(PodHead.pod, n)
  PROVE  UNCHANGED ledger \/ Ledger!Charge(PodHead.pod, n)
<1> DEFINE p == PodHead.pod
<1>1. TypeOK /\ ChainInv /\ LedgerExact /\ podQueue # <<>> /\ shed.left = {}
  BY DEF IInv, LedgerInv, PodReady
<1>2. \A m \in Nodes, c \in ClaimsOf(p) : ledger[m][c] = 0
  BY <1>1, HeadFacts DEF LedgerExact, Counted, ClaimsOf
<1>3. CASE n \in known \/ ClaimsOf(p) = {}
  <2> DEFINE new == [ledger EXCEPT ![n] = [c \in Claims |->
                       IF c \in ClaimsOf(p) THEN 1 ELSE ledger[n][c]]]
  <2>1. /\ ledger' = [ledger EXCEPT ![n] = [c \in Claims |->
                       IF c \in ClaimsOf(p) THEN ledger[n][c] + 1 ELSE ledger[n][c]]]
        /\ ledger \in [Nodes -> [Claims -> Int]]
    BY <1>1, <1>3 DEF AddPodResourceRequested, TypeOK
  <2>2. \A c \in Claims : ledger[n][c] \in Int
    BY <2>1
  <2>3. \A c \in Claims :
          (IF c \in ClaimsOf(p) THEN ledger[n][c] + 1 ELSE ledger[n][c])
            = (IF c \in ClaimsOf(p) THEN 1 ELSE ledger[n][c])
    BY <1>2
  <2>4. ledger' = new
    BY <2>1, <2>3
  <2>5. Ledger!Owned(p) = ClaimsOf(p)
    BY DEF Ledger!Owned, ClaimsOf
  <2>6. \A m \in Nodes, c \in Ledger!Owned(p) : ledger[m][c] = 0
    BY <1>2, <2>5
  <2>7. ledger' = [ledger EXCEPT ![n] = [c \in Claims |->
                     IF c \in Ledger!Owned(p) THEN 1 ELSE ledger[n][c]]]
    BY <2>4, <2>5
  <2>8. Ledger!Charge(p, n)
    BY <2>1, <2>6, <2>7 DEF Ledger!Charge
  <2> QED BY <2>8
<1>4. CASE ~(n \in known \/ ClaimsOf(p) = {})
  BY <1>4 DEF AddPodResourceRequested, ledgerVars
<1> QED BY <1>3, <1>4

LEMMA ReleaseStep ==
  ASSUME IInv, NEW n \in Nodes, NEW p \in Pods, NEW C, C \subseteq ClaimsOf(p),
         \A c \in C : Counted(c, n), DeletePodResourceRequested(n, C)
  PROVE  Ledger!Release(p, n, C)
<1>1. TypeOK /\ LedgerExact /\ KeysInv
  BY DEF IInv, LedgerInv
<1>2. C \subseteq Claims
  BY DEF ClaimsOf
<1>3. \A c \in C : ledger[n][c] = 1
  BY <1>1, <1>2 DEF LedgerExact
<1>4. Subtractable(n, C) = C
  BY <1>1, <1>2 DEF KeysInv, Subtractable
<1>5. /\ ledger' = [ledger EXCEPT ![n] = [c \in Claims |->
                       IF c \in C THEN ledger[n][c] - 1 ELSE ledger[n][c]]]
      /\ ledger \in [Nodes -> [Claims -> Int]]
  BY <1>1, <1>4 DEF DeletePodResourceRequested, TypeOK
<1>6. \A c \in Claims :
        (IF c \in C THEN ledger[n][c] - 1 ELSE ledger[n][c])
          = (IF c \in C THEN 0 ELSE ledger[n][c])
  BY <1>3
<1>7. ledger' = [ledger EXCEPT ![n] = [c \in Claims |->
                   IF c \in C THEN 0 ELSE ledger[n][c]]]
  BY <1>5, <1>6
<1>8. Ledger!Owned(p) = ClaimsOf(p)
  BY DEF Ledger!Owned, ClaimsOf
<1> QED BY <1>3, <1>5, <1>7, <1>8 DEF Ledger!Release

LEMMA LedgerSteps == IInv /\ [WatchNext]_vars => [Ledger!Next]_ledger
<1> SUFFICES ASSUME IInv, [WatchNext]_vars PROVE Ledger!Next \/ UNCHANGED ledger
  OBVIOUS
<1> USE DEF podVars, nodeVars, entryVars, ledgerVars
<1> DEFINE Good == Ledger!Next \/ UNCHANGED ledger
<1>1. TypeOK /\ NodeLockInv /\ ChainInv /\ LedgerInv
  BY DEF IInv
<1>2. ASSUME NodeAdditionInsert PROVE UNCHANGED ledger
  <2> DEFINE h == NodeHead.node
  <2>1. /\ ledger' = [ledger EXCEPT ![h] = [c \in Claims |-> 0]]
        /\ h \notin known
        /\ ledger \in [Nodes -> [Claims -> Int]]
    BY <1>1, <1>2 DEF NodeAdditionInsert, NodeLockInv, TypeOK
  <2>2. \A c \in Claims : h \in Nodes => ledger[h][c] = 0
    BY <1>1, <2>1 DEF LedgerInv, KeysInv, LedgerExact
  <2>3. ledger' \in [Nodes -> [Claims -> Int]]
    BY <1>1, TypeStep DEF Next, TypeOK
  <2>4. \A n \in Nodes, c \in Claims : ledger'[n][c] = ledger[n][c]
    BY <2>1, <2>2
  <2> QED BY <2>1, <2>3, <2>4, RowEqual
<1>3. ASSUME HandlePodAddition PROVE Good
  <2>1. podQueue # <<>> /\ PodReady /\ PodHead.type = "Add"
    BY <1>3 DEF HandlePodAddition, PodReady
  <2>2. PodHead.old = Absent /\ PodHead.pod \in Pods
    BY <1>1, <2>1, HeadFacts DEF WatchType
  <2>3. \A n \in Nodes : ~Occupies(PodHead.old, n)
    BY <2>2, NodesAssumption DEF Occupies, Absent
  <2>4. CASE UNCHANGED ledger
    BY <2>4
  <2>5. CASE /\ IsBound(PodHead.new)
             /\ AddPodResourceRequested(PodHead.pod, PodHead.new.node)
    <3>1. PodHead.new.node \in Nodes
      BY <1>1, <2>1, <2>5, HeadFacts, BoundNode
    <3> QED BY <2>1, <2>2, <2>3, <2>5, <3>1, ChargeStep DEF Ledger!Next
  <2> QED BY <1>3, <2>4, <2>5 DEF HandlePodAddition
<1>4. ASSUME HandlePodUpdate PROVE Good
  <2>1. podQueue # <<>> /\ PodReady
    BY <1>4 DEF HandlePodUpdate, PodReady
  <2>2. CASE UNCHANGED ledger
    BY <2>2
  <2>3. CASE /\ Binds(PodHead.old, PodHead.new)
             /\ AddPodResourceRequested(PodHead.pod, PodHead.new.node)
    <3>1. PodHead.new.node \in Nodes /\ PodHead.pod \in Pods
      BY <1>1, <2>1, <2>3, HeadFacts, BoundNode DEF Binds
    <3>2. \A n \in Nodes : ~Occupies(PodHead.old, n)
      BY <1>1, <2>1, <2>3, HeadFacts, Occupants DEF Binds
    <3> QED BY <2>1, <2>3, <3>1, <3>2, ChargeStep DEF Ledger!Next
  <2> QED BY <1>4, <2>2, <2>3 DEF HandlePodUpdate
<1>5. ASSUME NEW c \in Claims, ShedClaim(c) PROVE Good
  <2>1. PICK p \in Pods : shed.left \subseteq ClaimsOf(p)
    BY <1>1, <1>5 DEF LedgerInv, ShedInv, ShedClaim
  <2>2. /\ shed.node \in Nodes /\ {c} \subseteq ClaimsOf(p)
        /\ \A d \in {c} : Counted(d, shed.node)
        /\ DeletePodResourceRequested(shed.node, {c})
    BY <1>1, <1>5, <2>1 DEF LedgerInv, ShedInv, ShedClaim, Counted
  <2>3. Ledger!Release(p, shed.node, {c})
    BY <2>2, ReleaseStep
  <2> QED BY <2>2, <2>3 DEF Ledger!Next
<1>6. ASSUME HandlePodDeletion PROVE Good
  <2>1. podQueue # <<>> /\ PodReady
    BY <1>6 DEF HandlePodDeletion, PodReady
  <2>2. CASE UNCHANGED ledger
    BY <2>2
  <2>3. CASE /\ IsBound(PodHead.old) /\ ~IsDone(PodHead.old)
             /\ DeletePodResourceRequested(PodHead.old.node, ClaimsOf(PodHead.pod))
    <3>1. PodHead.old.node \in Nodes /\ PodHead.pod \in Pods
      BY <1>1, <2>1, <2>3, HeadFacts, BoundNode
    <3>2. \A c \in ClaimsOf(PodHead.pod) : Counted(c, PodHead.old.node)
      <4>1. Occupies(PodHead.old, PodHead.old.node)
        BY <1>1, <2>1, <2>3, <3>1, HeadFacts, Occupants
      <4> QED BY <1>1, <2>1, <4>1, HeadFacts DEF Counted, ClaimsOf
    <3>3. Ledger!Release(PodHead.pod, PodHead.old.node, ClaimsOf(PodHead.pod))
      BY <2>3, <3>1, <3>2, ReleaseStep
    <3> QED BY <3>1, <3>3 DEF Ledger!Next, ClaimsOf
  <2> QED BY <1>6, <2>2, <2>3 DEF HandlePodDeletion
<1>7. ASSUME Restart PROVE Good
  BY <1>7 DEF Restart, Ledger!Next, Ledger!Clear, Ledger!Empty
<1>8. ASSUME NEW p \in Pods, NEW new \in PodStates, PodWatch(p, new) PROVE UNCHANGED ledger
  BY <1>8 DEF PodWatch
<1>9. ASSUME NEW n \in Nodes, NEW size \in Sizes \cup {NoSize}, NodeWatch(n, size)
      PROVE UNCHANGED ledger
  BY <1>9 DEF NodeWatch
<1>10. ASSUME NodeAdditionKnown \/ NodeAdditionLock \/ HandleNodeDeletion
              \/ DropTombstone \/ MapRace
       PROVE UNCHANGED ledger
  BY <1>10 DEF NodeAdditionKnown, NodeAdditionLock, HandleNodeDeletion,
               DropTombstone, MapRace
<1>11. ASSUME NEW s \in Scrapers, Scrape(s) PROVE UNCHANGED ledger
  BY <1>11 DEF Scrape, ScrapeList, ScrapeNode, ScrapeLock, ScrapeSend
<1>12. ASSUME UNCHANGED vars PROVE UNCHANGED ledger
  BY <1>12 DEF vars
<1> HIDE DEF podVars, nodeVars, entryVars, ledgerVars
<1> QED
  BY <1>2, <1>3, <1>4, <1>5, <1>6, <1>7, <1>8, <1>9, <1>10, <1>11, <1>12
     DEF WatchNext, Agent, NodeListener, PodListener

\* As long as the watch is not interrupted the collector implements PodLedger:
\* a pod is charged as a whole, to one node, and each claim is released once.
THEOREM LedgerImplemented == WatchSpec => LedgerSpec
<1>1. Init => Ledger!Init
  BY DEF Init, Ledger!Init, Ledger!Empty
<1> QED BY <1>1, InitInv, WatchStepInv, LedgerSteps, PTL
        DEF WatchSpec, LedgerSpec, Ledger!Spec

-----------------------------------------------------------------------------
(* What PodLedger promises.                                                *)

\* CountedOnce with the type of the ledger, which makes it inductive.
OnceInv == ledger \in [Nodes -> [Claims -> {0, 1}]] /\ Ledger!CountedOnce

LEMMA OnceInit == Ledger!Init => OnceInv
BY DEF Ledger!Init, Ledger!Empty, OnceInv, Ledger!CountedOnce

LEMMA OnceStep == OnceInv /\ [Ledger!Next]_ledger => OnceInv'
<1> SUFFICES ASSUME OnceInv, [Ledger!Next]_ledger PROVE OnceInv'
  OBVIOUS
<1>1. ASSUME NEW p \in Pods, NEW n \in Nodes, Ledger!Charge(p, n) PROVE OnceInv'
  <2>1. ledger' \in [Nodes -> [Claims -> {0, 1}]]
    BY <1>1 DEF Ledger!Charge, OnceInv
  <2>2. \A m \in Nodes, c \in Claims :
          ledger'[m][c] = IF m = n /\ c \in Ledger!Owned(p) THEN 1 ELSE ledger[m][c]
    BY <1>1 DEF Ledger!Charge, OnceInv
  <2>3. \A m \in Nodes, c \in Ledger!Owned(p) : ledger[m][c] = 0
    BY <1>1 DEF Ledger!Charge
  <2> QED BY <2>1, <2>2, <2>3 DEF OnceInv, Ledger!CountedOnce
<1>2. ASSUME NEW p \in Pods, NEW n \in Nodes, NEW C \in SUBSET Claims,
             Ledger!Release(p, n, C)
      PROVE OnceInv'
  <2>1. ledger' \in [Nodes -> [Claims -> {0, 1}]]
    BY <1>2 DEF Ledger!Release, OnceInv
  <2>2. \A m \in Nodes, c \in Claims :
          ledger'[m][c] = IF m = n /\ c \in C THEN 0 ELSE ledger[m][c]
    BY <1>2 DEF Ledger!Release, OnceInv
  <2> QED BY <2>1, <2>2 DEF OnceInv, Ledger!CountedOnce
<1>3. ASSUME Ledger!Clear PROVE OnceInv'
  BY <1>3 DEF Ledger!Clear, Ledger!Empty, OnceInv, Ledger!CountedOnce
<1>4. ASSUME UNCHANGED ledger PROVE OnceInv'
  BY <1>4 DEF OnceInv, Ledger!CountedOnce
<1> QED BY <1>1, <1>2, <1>3, <1>4 DEF Ledger!Next

\* In every behaviour of the abstract ledger a claim is counted at most once
\* over all nodes.
THEOREM AlwaysCountedOnce == LedgerSpec => []Ledger!CountedOnce
<1>1. OnceInv => Ledger!CountedOnce
  BY DEF OnceInv
<1> QED BY <1>1, OnceInit, OnceStep, PTL DEF LedgerSpec, Ledger!Spec

\* So it is in the collector: as long as the watch is not interrupted, no
\* request is counted on two nodes, twice, or negatively, whatever its handlers
\* and scrapes interleave.
THEOREM CollectorCountsOnce == WatchSpec => []Ledger!CountedOnce
BY LedgerImplemented, AlwaysCountedOnce, PTL

=============================================================================

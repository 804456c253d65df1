----------------------------- MODULE PodLedger -----------------------------
(***************************************************************************)
(* What the request ledger of the node collector promises, whatever the    *)
(* order its informers and scrapes run in: the requests of a pod are       *)
(* charged as a whole, to one node, while the pod is charged nowhere else, *)
(* each is released once, and a restart clears the ledger.                 *)
(***************************************************************************)
EXTENDS Integers

CONSTANTS Nodes, Pods, Claims, PodOf

VARIABLE charge  \* how many times each claim is counted on each node

Owned(p) == {c \in Claims : PodOf[c] = p}

Empty == [n \in Nodes |-> [c \in Claims |-> 0]]

Init == charge = Empty

\* A pod comes to occupy node n.
Charge(p, n) ==
  /\ \A m \in Nodes, c \in Owned(p) : charge[m][c] = 0
  /\ charge' = [charge EXCEPT ![n] =
                  [c \in Claims |-> IF c \in Owned(p) THEN 1 ELSE @[c]]]

\* Some claims of a pod that left node n.
Release(p, n, C) ==
  /\ C \subseteq Owned(p)
  /\ \A c \in C : charge[n][c] = 1
  /\ charge' = [charge EXCEPT ![n] =
                  [c \in Claims |-> IF c \in C THEN 0 ELSE @[c]]]

Clear == charge' = Empty

Next ==
  \/ \E p \in Pods, n \in Nodes : Charge(p, n)
  \/ \E p \in Pods, n \in Nodes, C \in SUBSET Claims : Release(p, n, C)
  \/ Clear

Spec == Init /\ [][Next]_charge

-----------------------------------------------------------------------------
\* A claim is counted at most once over all nodes, and never negatively.
CountedOnce ==
  /\ \A n \in Nodes, c \in Claims : charge[n][c] \in {0, 1}
  /\ \A m, n \in Nodes, c \in Claims :
       charge[m][c] = 1 /\ charge[n][c] = 1 => m = n

=============================================================================

--------------------------- MODULE MCAgentScrape ---------------------------
(***************************************************************************)
(* Two namespaces, a pod in each on a node of its own.  A deployment       *)
(* selects the pod of the other namespace, a workload of a custom kind     *)
(* both; they have the same name and labels.  One entry of the             *)
(* configurations gives the custom kind a name of its own, the other that  *)
(* of the deployments, so that it clashes.                                 *)
(***************************************************************************)
EXTENDS AgentScrape

MCPods == {"p1", "p2"}
MCNodes == {"n1", "n2"}
MCInitially == {"p1", "n1", "n2"}
MCWorkloads == {"d", "c"}
MCTargets == {"t1", "t2"}
MCNodeOf == [p \in MCPods |-> IF p = "p1" THEN "n1" ELSE "n2"]
MCKindsOf == [w \in MCWorkloads |-> IF w = "d" THEN {"deployment"} ELSE {"rollout"}]
MCLabelsOf == [w \in MCWorkloads |-> "a/w"]
MCNamespaceOf == [o \in MCPods \cup MCWorkloads |-> IF o = "p2" THEN "b" ELSE "a"]
MCSelected == [w \in MCWorkloads |-> IF w = "d" THEN {"p2"} ELSE MCPods]
MCTarget == [t \in MCTargets |-> "rollout"]
MCAlias == [t \in MCTargets |-> IF t = "t1" THEN "Rollout" ELSE "deployment"]
=============================================================================

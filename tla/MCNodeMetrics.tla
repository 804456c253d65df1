--------------------------- MODULE MCNodeMetrics ---------------------------
(***************************************************************************)
(* Small instances of NodeMetrics: pod p1 asks for cpu twice (two          *)
(* containers) and for memory, pod p2 for cpu.                             *)
(***************************************************************************)
EXTENDS NodeMetrics, TLC

NodeSymmetry == Permutations(Nodes)

MCResources == {"cpu", "memory"}

MCClaims == {"p1a_cpu", "p1a_memory", "p1b_cpu", "p2_cpu"}

MCPodOf == [c \in MCClaims |-> IF c = "p2_cpu" THEN "p2" ELSE "p1"]

MCResourceOf ==
  [c \in MCClaims |-> IF c = "p1a_memory" THEN "memory" ELSE "cpu"]

\* One pod with two claims, for the larger questions.
OnePodClaims == {"p1_cpu", "p1_memory"}

OnePodPodOf == [c \in OnePodClaims |-> "p1"]

OnePodResourceOf ==
  [c \in OnePodClaims |-> IF c = "p1_cpu" THEN "cpu" ELSE "memory"]

=============================================================================

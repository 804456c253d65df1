-------------------------- MODULE MCClusterSummary --------------------------
EXTENDS ClusterSummary, TLC

CONSTANTS c1, c2

MCCluster == {c1, c2}

ClusterSymmetry == Permutations(MCCluster)

\* Everything; nothing but the state of the cluster; everything but the usage and
\* the pods that are not scheduled, as of a cluster without a metrics server.
MCReports == {Metrics, {"active"}, Metrics \ {"usage", "podsUnscheduled"}}

\* A span below, at and above the first range for which rounding matters.
MCSpans == {600, 165000, 170000}
=============================================================================

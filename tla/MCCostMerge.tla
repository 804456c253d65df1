---------------------------- MODULE MCCostMerge ----------------------------
(* Values for model checking CostMerge.                                    *)
EXTENDS CostMerge

\* What is reported of everything that costs something.
MCBase == {"cost", "pods", "billing", "resourceCost", "cpuTotal", "ramTotal"}

\* The agent reports the cost of every pod it lists, the requests that its
\* containers make and the usage that the usage cache has.
MCReports == {MCBase, MCBase \cup {"cpuRequest", "cpuUsage"},
              MCBase \cup {"cpuRequest", "ramRequest", "cpuUsage", "ramUsage"}}

=============================================================================

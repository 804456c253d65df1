SPECIFICATION Spec
CONSTANTS
  c1 = c1
  c2 = c2
  Cluster <- MCCluster
  Quantities = {"total", "usage"}
  Reports <- MCReports
  Spans <- MCSpans
  Limit = 11000
  Period = 15
  MaxEvents = 3
  MaxHoles = 1
SYMMETRY ClusterSymmetry
INVARIANTS TypeOK SteadyIsAnswered SteadyIsListed PanicIsExplained DescribedIsHeard
CHECK_DEADLOCK FALSE

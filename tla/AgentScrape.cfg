SPECIFICATION FairSpec
CONSTANTS
  Pods <- MCPods
  Nodes <- MCNodes
  Initially <- MCInitially
  NodeOf <- MCNodeOf
  Workloads <- MCWorkloads
  KindsOf <- MCKindsOf
  LabelsOf <- MCLabelsOf
  NamespaceOf <- MCNamespaceOf
  Selected <- MCSelected
  Targets <- MCTargets
  Target <- MCTarget
  Alias <- MCAlias
  NoTarget = NoTarget
  MaxEvents = 2
  MaxFaults = 1
INVARIANTS TypeOK SteadyIsReported OnlyListedIsReported ClashesAreRefused
PROPERTY UsageComesBack

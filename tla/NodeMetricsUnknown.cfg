SPECIFICATION WatchSpec
CONSTANTS
  Nodes = {n1}
  Pods = {"p1"}
  Resources <- MCResources
  Claims <- OnePodClaims
  PodOf <- OnePodPodOf
  ResourceOf <- OnePodResourceOf
  Sizes = {small}
  Scrapers = {s1}
  NoNode = NoNode
  NoSize = NoSize
  MaxQueue = 1
  MaxRelists = 0
INVARIANT UnknownNodeIsAWarning

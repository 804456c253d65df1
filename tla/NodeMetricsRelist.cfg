SPECIFICATION Spec
CONSTANTS
  Nodes = {n1, n2}
  Pods = {"p1"}
  Resources <- MCResources
  Claims <- OnePodClaims
  PodOf <- OnePodPodOf
  ResourceOf <- OnePodResourceOf
  Sizes = {small}
  Scrapers = {s1}
  NoNode = NoNode
  NoSize = NoSize
  MaxQueue = 1
  MaxRelists = 2
INVARIANT DriftIsBounded
SYMMETRY NodeSymmetry

SPECIFICATION WatchSpec
CONSTANTS
  Nodes = {n1, n2}
  Pods = {"p1", "p2"}
  Resources <- MCResources
  Claims <- MCClaims
  PodOf <- MCPodOf
  ResourceOf <- MCResourceOf
  Sizes = {small}
  Scrapers = {s1}
  NoNode = NoNode
  NoSize = NoSize
  MaxQueue = 1
  MaxRelists = 0
INVARIANTS
  TypeOK
  LedgerExact
PROPERTY
  LedgerSpec
SYMMETRY NodeSymmetry

SPECIFICATION FairWatchSpec
CONSTANTS
  Nodes = {n1}
  Pods = {"p1"}
  Resources <- MCResources
  Claims <- OnePodClaims
  PodOf <- OnePodPodOf
  ResourceOf <- OnePodResourceOf
  Sizes = {small}
  Scrapers = {s1, s2}
  NoNode = NoNode
  NoSize = NoSize
  MaxQueue = 2
  MaxRelists = 0
PROPERTY
  LedgerCatchesUp

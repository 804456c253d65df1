SPECIFICATION Spec
CONSTANTS
  Names = {n1, n2}
  Cluster = cluster
  Times = {t1, t2}
  Reports <- MCReports
  MaxScrapes = 2
INVARIANTS
  TypeOK
  Merged
  NothingLost
  PanicIsAGap
CHECK_DEADLOCK FALSE

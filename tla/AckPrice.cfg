SPECIFICATION FairSpec
CONSTANTS
  Callers = {c1, c2}
  Types = {t, u}
  NoType = NoType
  Free = Free
  MaxEvents = 2
  MaxFaults = 1
INVARIANTS TypeOK OnlyOwnFailures PricesMoveForward
PROPERTIES HistorySpec CallsReturn

SPECIFICATION FairSpec
CONSTANTS
  Replica = {r1, r2}
  None = None
  Gone = Gone
  Lease = 6
  Deadline = 4
  Retry = 2
  MaxPoll = 4
  MaxLag = 1
  MaxFaults = 3
INVARIANTS TypeOK OverlapIsBounded
PROPERTIES LostMeansGone ServedForGood

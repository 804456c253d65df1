SPECIFICATION FairSpec
CONSTANT Queries = {total, pods, requests, usage}
INVARIANTS
  TypeOK
  NoFalseAlarm
  LostOnlyInARace
PROPERTY
  Answered
CHECK_DEADLOCK FALSE

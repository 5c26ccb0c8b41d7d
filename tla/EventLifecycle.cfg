CONSTANTS
  s1 = s1
  s2 = s2
  Sessions = {s1, s2}
  Scheduler = scheduler
  MaxEvents = 1
SPECIFICATION FairSpec
INVARIANTS
  TypeOK
  NoStateSkipped
  RowsAgree
PROPERTIES
  MovesInOrderAlone
  OverdueClosesAlone

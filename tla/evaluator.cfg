SPECIFICATION FairSpec
CONSTANTS
  Worker = {w1, w2}
  Budget = 2
  Estimates = {1, 2, 3}
  MaxDay = 3
  MaxJobs = 5
INVARIANTS
  TypeOK
  OverspendNeedsCrossing
  OverspendIsBounded
PROPERTIES
  EveryCallEnds

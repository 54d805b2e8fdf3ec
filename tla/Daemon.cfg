SPECIFICATION FairSpec
CONSTANTS
  Spawned = {s1}
  Direct = {d1}
CHECK_DEADLOCK FALSE
INVARIANT TypeOK
INVARIANT SuccessStands
PROPERTY ReportsOrExits
PROPERTY FailureExits

SPECIFICATION FairSpec
CONSTANTS
  Accounts = {u1, u2}
  MaxChanges = 3
  MaxFailures = 1
CHECK_DEADLOCK FALSE
INVARIANT TypeOK
INVARIANT KeptStaysShown
PROPERTY VolumesCatchUp

SPECIFICATION FairSpec
CONSTANTS
  MaxEvents = 2
  MaxSessions = 2
  MaxCrashes = 1
  BufferSize = 1
  NoAnchor = NoAnchor
CHECK_DEADLOCK FALSE
INVARIANT TypeOK
INVARIANT AnchorCovered
INVARIANT NothingLostButOverflow
INVARIANT ToldOnceInOrder
PROPERTY EventuallyHandled
PROPERTY ImplementsFeed

SPECIFICATION Spec
CONSTANTS
  Monitors = {m1, m2}
  Chars = {"a", "b"}
  Paths <- MCPaths
  NoPath = NoPath
  NoMonitor = NoMonitor
  MaxEvents = 2
CHECK_DEADLOCK FALSE
INVARIANT TypeOK
INVARIANT OnlyOwnTree
INVARIANT InOrderOnce
PROPERTY EveryWatcherTold

SPECIFICATION MCFairSpec
CONSTANTS
  Jobs = {j1}
  MainLoop = MainLoop
  Nobody = Nobody
  MaxCalls = 3
CHECK_DEADLOCK FALSE
INVARIANT TypeOK
INVARIANT ResponseMatches
INVARIANT ScannerNeverStuck
INVARIANT BackendSurvives
PROPERTY ImplementsSerialCalls
PROPERTY CancelReleasesLock
PROPERTY MCAbandonedConnsClosed

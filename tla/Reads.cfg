SPECIFICATION Spec
CONSTANTS
  Handlers = {h1, h2}
  Nobody = Nobody
  BlockSize = 2
  PageSize = 2
  MaxCache = 3
  EvictTo = 2
  FileSizes = {0, 4}
  Requests = {3}
  MaxRevisions = 2
  MaxMishaps = 2
CHECK_DEADLOCK FALSE
INVARIANT TypeOK
INVARIANT ReadsAddUp
INVARIANT CacheBounded
PROPERTY OfflineOnlyWhenMissing
SYMMETRY MCSymmetry

SPECIFICATION Spec
CONSTANTS
  a = a
  b = b
  root = root
  d1 = d1
  f1 = f1
  h1 = h1
  Root = root
  Dirs = {root, d1}
  Files = {f1}
  Names <- MCNames
  MaxDepth = 2
  Handlers = {h1}
  Requests <- StatFiles
  RemoteOps = {"trash"}
  RemoteLinks = {f1}
  MaxEvents = 2
  NoPath = NoPath
  NoLink = NoLink
CHECK_DEADLOCK FALSE
INVARIANT StatsCurrentUnlessOvertaken

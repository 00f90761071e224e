CONSTANTS
  x1 = x1
  x2 = x2
  u1 = u1
  u2 = u2
  None = None
  Users = {u1, u2}
  ChanSize = 1
  MaxRetries = 1
  Streams <- MCStreams
  Sessions <- MCSessions
  Shard <- MCShard
  Home <- MCHome
  Links <- MCLinks
  Scenes <- MCScenes
SPECIFICATION Spec
CHECK_DEADLOCK FALSE
INVARIANTS CleanupOwnOnly NothingLeftBehind RegisteredIsDialed
PROPERTIES StopEnds

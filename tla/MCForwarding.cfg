SPECIFICATION ForwardingSpec
CONSTANTS
  sh1 = sh1
  s1 = s1
  s2 = s2
  c1 = c1
  NoStream = NoStream
  Flusher = Flusher
  Shards <- OneShard
  Streams <- TwoStreams
  Sessions <- OneSession
  Home <- HomeOne
  Count = 2
  ChanCap = 1
  QueueMax = 2
  MaxBatch = 2
  MaxFailures = 2
  MaxFlushes = 1
SYMMETRY Redials
CHECK_DEADLOCK FALSE
INVARIANTS QueueInOrder DirectInOrder OneOwner

SPECIFICATION Spec
INVARIANT ConnectedWhenComplete
CONSTANTS
  sh1 = sh1
  sh2 = sh2
  s1 = s1
  s2 = s2
  s3 = s3
  NoStream = NoStream
  Shards <- OneShard
  Streams <- MCStreams
  ShardIdx <- OneShardIdx
CHECK_DEADLOCK FALSE

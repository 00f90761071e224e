CONSTANTS
  Conns = {c1, c2}
  Shards = {s1, s2}
  c1 = c1
  c2 = c2
  s1 = s1
  s2 = s2
  g1 = g1
  Callers = {g1}
  Buffers = {b1, b2, b3}
  Scenes <- MCScenes
  FlushSize = 2
  Notice = Notice
  None = None
SPECIFICATION Spec
CHECK_DEADLOCK FALSE
INVARIANTS PushOrder BufferOwned
PROPERTIES BufferFlushed

CONSTANTS
  Conns = {c1, c2}
  c1 = c1
  c2 = c2
  Scenes <- MCScenes
  MaxFrame = 70000
  MaxFrameBuf = 140000
  MaxHandshake = 8
  QueueSize = 2
  Buffers = {1, 2, 3, 4}
  None = None
SPECIFICATION Spec
CHECK_DEADLOCK FALSE
INVARIANTS   ForwardedInOrder NothingAfterClose

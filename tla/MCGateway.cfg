SPECIFICATION GatewaySpec
CONSTANTS
  c1 = c1
  c2 = c2
  c3 = c3
  c4 = c4
  Conns = {c1, c2, c3, c4}
  Loops = {l1, l2}
  IPs = {i1, i2}
  MaxConns = 1
  MaxPerIP = 1
  None = None
  Nothing = Nothing
  WatchCap = 1
  DefaultFrame = 2
  DefaultTimeout = 5
  Prefix = 1
  Engines = {1, 2}
  Scenes <- MCScenes
  Reloads <- MCReloads
CHECK_DEADLOCK FALSE
INVARIANTS CountExact AdmissionBound  FailClosed CloseNotifies
PROPERTIES CloseCompletes FileComesIntoForce

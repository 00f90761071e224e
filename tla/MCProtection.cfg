CONSTANTS
  w1 = w1
  w2 = w2
  ip = ip
  play = play
  login = login
  Workers <- MCWorkers
  Keys = {ip, play}
  RouteKeys = {play}
  Routes = {play, login}
  BucketIds = {1, 2, 3, 4, 5}
  Settings <- MCSettings
  MaxBuckets = 2
  IdleTime = 2
  MaxTime = 3
  None = None
  FailureThreshold = 2
  SuccessThreshold = 1
  OpenTimeout = 0
  RuleRoutes = {play}
  WindowSize = 2
  ErrorLimit = 1
  CoolDown = 1
  MaxReloads = 1
  NoWorker = None
  Scenes <- MCScenes
  Ip <- MCIp
  Addresses = {ip, other}
  other = other
  PreAuth = {login}
  Seqs = {0, 1}
  JwtSkip = {login}
  Target = login
  Grace = 1
  MaxPerConn = 1
  RateWindow = 2
  TimeWindow = 1
  MirrorQueue = 1
SPECIFICATION Spec
SYMMETRY MCSymmetry
CHECK_DEADLOCK FALSE
INVARIANTS GrantBound  ErrorWindowExact NoStageSkipped 

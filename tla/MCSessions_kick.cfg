SPECIFICATION Spec
CONSTANTS
  Conns = {c1}
  Workers = {w1}
  Servers = {s1}
  UserIds = {a1, None}
  Outcomes = {"noclient", "failed", "sent"}
  MaxLogins = 2
  MaxTasks = 1
  None = None
CHECK_DEADLOCK FALSE
INVARIANTS OfflineNotLost MaintenanceCovers
PROPERTIES KickRemoves

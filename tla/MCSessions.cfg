SPECIFICATION SafeSpec
CONSTANTS
  Conns = {c1, c2}
  Workers = {w1, w2}
  Servers = {s1}
  UserIds = {a1}
  Outcomes = {"noclient"}
  MaxLogins = 3
  MaxTasks = 0
  None = None
CHECK_DEADLOCK FALSE
SYMMETRY Symmetry
INVARIANTS AccountIndexed  RemovalCleans

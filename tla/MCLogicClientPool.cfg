SPECIFICATION Spec
CONSTANTS
  a = a
  b = b
  Servers = {a, b}
  Home = a
  Scenes <- MCScenes
CHECK_DEADLOCK FALSE
INVARIANTS NoClientLeaks ForwardsToOpen
PROPERTIES RestartAttaches

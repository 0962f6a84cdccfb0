SPECIFICATION FairSpec
CONSTANTS
  Clients = {c1}
  Managers = {m1, m2}
  Configured = {m1}
  MaxPort = 3
  Loops = 2
  MaxTroubles = 0
  MaxStarts = 1
  c1 = c1
  m1 = m1
  m2 = m2
  None = None
PROPERTIES NewManagersAreReached
CHECK_DEADLOCK FALSE

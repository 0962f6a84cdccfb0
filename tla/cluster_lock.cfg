SPECIFICATION FairSpec
CONSTANTS
  Clients = {c1}
  Managers = {m1, m2, m3}
  Configured = {m1, m2, m3}
  MaxPort = 3
  Loops = 2
  MaxTroubles = 1
  MaxStarts = 1
  c1 = c1
  m1 = m1
  m2 = m2
  m3 = m3
  None = None
PROPERTIES AttemptsEnd
CHECK_DEADLOCK FALSE

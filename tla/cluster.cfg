SPECIFICATION FairSpec
CONSTANTS
  Clients = {c1}
  Managers = {m1, m2}
  Configured = {m1}
  MaxPort = 2
  Loops = 1
  MaxTroubles = 1
  MaxStarts = 2
  c1 = c1
  m1 = m1
  m2 = m2
  None = None
INVARIANTS TypeOK ReadyIsListed RegistrationStands
PROPERTIES ToldIsReached LostChannelsReturn
CHECK_DEADLOCK FALSE

SPECIFICATION FairSpec
CONSTANTS
  a = a
  u1 = u1
  u2 = u2
  i0 = i0
  i1 = i1
  i2 = i2
  Nobody = Nobody
  Initiator = a
  Units <- OneUnit
  Instances <- MCInstances
  Apps <- MCApps
  HostOf <- HostApart
  AppOf <- AppApart
  FirstOf <- FirstApart
  Faults = {"swallow", "httpTimeout", "rpcTimeout", "slow", "expire", "offline", "redis", "tcCrash", "tmCrash"}
CHECK_DEADLOCK FALSE
PROPERTIES UnitsSettle ImplementsGroupOutcome

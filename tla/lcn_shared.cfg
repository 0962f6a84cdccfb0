SPECIFICATION Spec
CONSTANTS
  a = a
  u1 = u1
  u2 = u2
  i0 = i0
  i1 = i1
  i2 = i2
  Nobody = Nobody
  Initiator = a
  Units <- TwoUnits
  Instances <- MCInstances
  Apps <- MCApps
  HostOf <- HostShared
  AppOf <- AppApart
  FirstOf <- FirstApart
  Faults = {"swallow", "slow", "offline", "dbFail", "evict", "tcCrash"}
CHECK_DEADLOCK FALSE
INVARIANTS TypeOK FailedUnitVetoes CommittedWorkIsDone GroupHasTtl
PROPERTIES ImplementsGroupOutcome

SPECIFICATION FairSpec
CONSTANTS
  a = a
  u1 = u1
  u2 = u2
  i0 = i0
  i1 = i1
  i2 = i2
  Nobody = Nobody
  Initiator = a
  Units <- TwoUnits
  Instances <- MCInstances
  Apps <- MCApps
  HostOf <- HostNested
  AppOf <- AppApart
  FirstOf <- FirstApart
  Faults = {"swallow", "error"}
CHECK_DEADLOCK FALSE
INVARIANTS Atomic EndedGroupHoldsNothing DecisionReachesUnits
PROPERTIES InitiatorSettles CheckConfirmsDecision

SPECIFICATION Spec
CONSTANTS
  a = a
  u1 = u1
  u2 = u2
  i0 = i0
  i1 = i1
  i2 = i2
  Nobody = Nobody
  Initiator = a
  Units <- TwoUnits
  Instances <- MCInstances
  Apps <- MCApps
  HostOf <- HostApart
  AppOf <- AppReplicas
  FirstOf <- FirstReplicas
  Faults = {"swallow"}
CHECK_DEADLOCK FALSE
INVARIANTS DecisionReachesUnits

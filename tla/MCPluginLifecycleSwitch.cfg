SPECIFICATION Spec
CONSTANTS
  o1 = o1
  o2 = o2
  o3 = o3
  v1 = v1
  v2 = v2
  t1 = t1
  t2 = t2
  Boot = boot
  None = none
  Placeholder = placeholder
  Ops <- TwoOps
  Versions <- TwoVersions
  Types <- TwoTypes
  TypesOf <- OneMoreType
  Latest = v1
  AtOnce = 1
  MaxFaults = 0
  MaxCrashes = 0
CHECK_DEADLOCK FALSE
INVARIANTS
  FailedSwitchRestores

SPECIFICATION Spec
CONSTANTS
  o1 = o1
  o2 = o2
  o3 = o3
  v1 = v1
  v2 = v2
  t1 = t1
  t2 = t2
  Boot = boot
  None = none
  Placeholder = placeholder
  Ops <- ThreeOps
  Versions <- TwoVersions
  Types <- TwoTypes
  TypesOf <- NewTypeFirst
  Latest = v1
  AtOnce = 2
  MaxFaults = 1
  MaxCrashes = 2
SYMMETRY AnyOp
CHECK_DEADLOCK FALSE
INVARIANTS
  TypeOK
  ActiveIsCurrent
  ServedIsRecorded
  RestartRepairs

SPECIFICATION FairSpec
CONSTANTS
  c1 = c1
  c2 = c2
  o1 = o1
  k1 = k1
  Calls <- OneCall
  Ops <- OneOp
  Clients <- TheClient
  ClientOf <- OneByTheClient
  GlobalSlots = 1
  LocalSlots = 1
  RunnerSlots = 1
  DbSlots = 2
  MaxRestarts = 0
INVARIANTS
  RunnerNeverRefuses
 
PROPERTIES
  RequestEnds
  PermitsReturn

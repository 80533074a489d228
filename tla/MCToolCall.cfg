SPECIFICATION Spec
CONSTANTS
  c1 = c1
  c2 = c2
  o1 = o1
  k1 = k1
  Calls <- TwoCalls
  Ops <- NoOp
  Clients <- TheClient
  ClientOf <- ByTheClient
  GlobalSlots = 2
  LocalSlots = 1
  RunnerSlots = 2
  DbSlots = 2
  MaxRestarts = 1
INVARIANTS
  TypeOK
  AuditBeforeExecution
  CapacityConserved
  NotExecutedIsTrue
  AnswerIsAudited
PROPERTIES
  EndedCallAccounted
  ImplementsTrail

SPECIFICATION Spec
CONSTANTS
  r1 = r1
  r2 = r2
  r3 = r3
  First = first
  Hello = hello
  Exit = exit
  None = none
  Requests <- TwoRequests
  Answers <- AllAnswers
  Large = {r1}
  MaxWorkers = 1
  MaxCrashes = 1
CHECK_DEADLOCK FALSE
PROPERTIES
  CallEnds
  StopEnds

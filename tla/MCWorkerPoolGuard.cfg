SPECIFICATION Spec
CONSTANTS
  r1 = r1
  r2 = r2
  r3 = r3
  First = first
  Hello = hello
  Exit = exit
  None = none
  Requests <- TwoRequests
  Answers <- AllAnswers
  Large = {}
  MaxWorkers = 2
  MaxCrashes = 0
CHECK_DEADLOCK FALSE
INVARIANTS
  GuardBeforeUse

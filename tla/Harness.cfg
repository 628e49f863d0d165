SPECIFICATION Spec
CONSTANTS
  q1 = q1
  q2 = q2
  Requests <- MCRequests
  PipeSize = 1
  Limit <- MCLimit
  ReplyLimit = 3
  MaxWrites <- MCMaxWrites
  Forking <- MCForking
CHECK_DEADLOCK FALSE
INVARIANTS
  TypeOK
  FullOutput
  KilledIsTimeout
  NoSurvivor
PROPERTIES
  Answered
  RunReturns

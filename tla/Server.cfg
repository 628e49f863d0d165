SPECIFICATION PromptSpec
CONSTANTS
  Conns <- MCConns3
  Drains <- MCDrains2
  ListenFails = TRUE
CHECK_DEADLOCK FALSE
INVARIANTS
  TypeOK
  ExitIsClean
  PoolsFirst
  AtMostOneLate
PROPERTY DrainEnds

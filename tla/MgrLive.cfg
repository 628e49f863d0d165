SPECIFICATION TimelySpec
CONSTANTS
  Requests = {r1, r2}
  Runs = {r1}
  MaxSpawns = 5
  PoolSize = 1
  MaxPending = 0
  PreRestore = TRUE
  Warm = FALSE
  MaxRestores = 3
  IdleEviction = FALSE
  RuntimeFails = FALSE
  Checkpoints = {"absent", "allowed", "forbidden"}
  HasIP = FALSE
CHECK_DEADLOCK FALSE
PROPERTIES
  LeasesEndAndRenew
  QueuedAnswered
  ShutdownEnds
INVARIANTS
  NoStrandedWaiter
  NoDeficit

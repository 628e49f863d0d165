SPECIFICATION PoolSpec
CONSTANTS
  Requests = {r1, r2}
  MaxSpawns = 2
  PoolSize = 1
  MaxPending = 0
  PreRestore = TRUE
  Warm = TRUE
  MaxRestores = 3
  IdleEviction = TRUE
  RuntimeFails = FALSE
  Checkpoints = {"absent"}
SYMMETRY Symmetry
CHECK_DEADLOCK FALSE
INVARIANT NoStrandedWaiter

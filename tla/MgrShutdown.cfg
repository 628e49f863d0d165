SPECIFICATION MgrSpec
CONSTANTS
  Requests = {r1, r2}
  Runs = {}
  MaxSpawns = 3
  PoolSize = 1
  MaxPending = 0
  PreRestore = TRUE
  Warm = FALSE
  MaxRestores = 3
  IdleEviction = FALSE
  RuntimeFails = FALSE
  Checkpoints = {"absent", "allowed", "forbidden"}
  HasIP = TRUE
SYMMETRY Symmetry
CHECK_DEADLOCK FALSE
INVARIANT ShutdownWaits

SPECIFICATION MgrSpec
CONSTANTS
  Requests = {r1, r2}
  Runs = {r1}
  MaxSpawns = 4
  PoolSize = 2
  MaxPending = 1
  PreRestore = FALSE
  Warm = TRUE
  MaxRestores = 2
  IdleEviction = FALSE
  RuntimeFails = TRUE
  Checkpoints = {"absent", "allowed", "forbidden"}
  HasIP = TRUE
INVARIANTS
  MgrInv
  LeaseOwnsSentry
  OneRecycle
  NoLeakedSentry
  ForeignOnlyIfExpired
  FreshKernel
CHECK_DEADLOCK FALSE
PROPERTY ImplementsLease

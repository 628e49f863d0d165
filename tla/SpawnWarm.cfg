SPECIFICATION Spec
CONSTANTS
  Goroutines <- MCGoroutines
  PoolSize = 1
  MaxIds = 2
  Cni = TRUE
  Cgroups = TRUE
  Warm = TRUE
  PreRestore = TRUE
  Fails = TRUE
  CleanupFails = TRUE
  MaxRestarts = 2
CHECK_DEADLOCK FALSE
INVARIANTS
  LiveIsComplete
  SandboxOwned
  NothingInherited

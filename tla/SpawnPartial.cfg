SPECIFICATION Spec
CONSTANTS
  Goroutines <- MCGoroutines
  PoolSize = 1
  MaxIds = 2
  Cni = TRUE
  Cgroups = TRUE
  Warm = TRUE
  PreRestore = TRUE
  Fails = TRUE
  CleanupFails = FALSE
  MaxRestarts = 0
CHECK_DEADLOCK FALSE
INVARIANT NoLeftovers

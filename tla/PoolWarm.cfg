SPECIFICATION PoolSpec
CONSTANTS
  Requests = {r1, r2, r3}
  MaxSpawns = 3
  PoolSize = 1
  MaxPending = 1
  PreRestore = TRUE
  Warm = TRUE
  MaxRestores = 2
  IdleEviction = TRUE
  RuntimeFails = TRUE
  Checkpoints = {"absent", "allowed", "forbidden"}
SYMMETRY Symmetry
CHECK_DEADLOCK FALSE
INVARIANTS
  ExclusiveSentry
  NoLostWakeup
  PendingExact
  ClosedIsEmpty
  NoOrphan
  PoolInv
PROPERTIES
  StateDiagram

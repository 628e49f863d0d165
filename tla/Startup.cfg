SPECIFICATION Spec
CONSTANTS
  Files <- MCFiles
  Paths <- MCPaths
  Cwd <- MCCwd
  Chars = {"a", "b", "c", "s", "m", "l", "x", "y", "z", "/", "-", "."}
  MaxLives = 2
INVARIANTS TypeOK LimitsInForce PoolPerEntry IdsDistinct CheckpointConfined 
CHECK_DEADLOCK FALSE

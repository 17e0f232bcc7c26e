CONSTANTS
  Steps = {"fetch", "load"}
  DbMayFail = TRUE
  RetryMax = 0
  Deps <- MCDeps
  Depth <- MCDepth
  Clients = {"c1", "c2"}
  MayCrash = TRUE
SPECIFICATION LifecycleSpec
INVARIANTS
  CompletedRunHasEveryStep
  CountedAtMostOnce
  NoOrphanRows
PROPERTIES
  DeletedRunStops
  NoZombieForever

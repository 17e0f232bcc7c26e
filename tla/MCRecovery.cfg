CONSTANTS
  Callers = {"run1", "run2"}
  Names = {"fetch"}
  MayCall <- MCMayCall
  StepOf <- MCStepOf
  Threshold = 2
  Recovery = 2
  Ttl = 3
  RedisMayFail = TRUE
  Steps = {"fetch", "load", "audit"}
  DbMayFail = TRUE
  RetryMax = 1
  Deps <- MCDeps
  Depth <- MCDepth
  MaxDeadLetters = 1
  Files = {"a.py", "b.sql"}
  Batches <- MCBatches
  MaxWorkers = 2
  Validated = {"a.py"}
  Sockets = {"a", "b", "c"}
SPECIFICATION RecoverySpec
CHECK_DEADLOCK FALSE
INVARIANTS
  OpensOnlyAfterFailures
  HealedStepsStayClosed
  CompletedMeansEveryStep
  CompletedStepsAreNotRepeated
  BrokenFilesAreReported
  RollbackTakesBackItsOwn
  RoomFollowsHandlers
PROPERTIES
  ImplementsAtomicBreaker
  ExpiryClosesNoCircuit

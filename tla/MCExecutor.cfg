CONSTANTS
  Steps = {"left", "right", "merge"}
  DbMayFail = TRUE
  RetryMax = 2
  Deps <- MCDeps
  Depth <- MCDepth
SPECIFICATION Spec
INVARIANTS
  IInv
  StartedAfterDependencies
  CompletedMeansEveryStep
  NothingRunsAfterFailure
  OutcomesAreRecorded
  RunRowMatchesVerdict
PROPERTIES
  CompletedRowIsFinal
  ImplementsDagRun
  ExecutorReturns

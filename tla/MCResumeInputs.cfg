CONSTANTS
  Steps = {"fetch", "load"}
  DbMayFail = FALSE
  RetryMax = 0
  Deps <- MCDeps
  Depth <- MCDepth
  MaxDeadLetters = 1
SPECIFICATION ResumeSpec
INVARIANT
  DependencyOutputsAreMerged

CONSTANTS
  Steps = {"fetch", "load"}
  DbMayFail = FALSE
  RetryMax = 0
  Deps <- MCDeps
  Depth <- MCDepth
  Clients = {"c1"}
  MayCrash = FALSE
SPECIFICATION LifecycleSpec
PROPERTY
  TerminalRunsStayTerminal

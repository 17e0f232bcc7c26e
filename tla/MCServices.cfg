CONSTANTS
  StepNames = {"a", "b", "c", "d", "ghost"}
  Dags <- MCDags
  Calls = {"classifier", "swarm"}
  Providers = {"ollama", "haiku", "groq", "claude", "mock"}
  Configured = {"ollama", "groq"}
  Models = {"gemma", "qwen"}
  Chain <- MCChain
  ModelOf <- MCModelOf
  Attempts <- MCAttempts
  Threshold = 2
  Window = 2
  Cooldown = 2
  Requests = {"r1", "r2"}
  Plans = {"pro", "enterprise"}
  PLAN_LIMITS <- MCLimits
  LastDay = 1
  MaxRuns = 2
  Workers = {"w1", "w2"}
  Events = {"buyPro", "buyTeam", "cancel"}
  Kind <- MCKind
  BoughtPlan <- MCBought
  ForOrg = {"buyTeam"}
  Sessions = {"s1", "s2"}
  Tokens = {"t1", "t2", "t3", "t4"}
  Logins = {"l1"}
  Ttl = 2
  Processes = {"p1", "p2"}
  LastFile = 3
  Consumers = {"worker-1", "worker-2"}
  LastMessage = 3
  BatchSize = 2
SPECIFICATION ServicesSpec
CHECK_DEADLOCK FALSE
INVARIANTS
  RefusedExactlyWhenCyclic
  OrderIsTopological
  GroupsRespectDependencies
  GroupsAreEarliest
  FallbackIsInOrder
  LimitHoldsBetweenResets
  ExceededOnlyByOverlaps
  AppliedAtMostOnce
  ChainsDoNotFork
  LiveTokensAreIndexed
  AppliedExactlyWhenRecorded
  UnhandledStaysPending
PROPERTIES
  ChatReturns
  CircuitRecloses

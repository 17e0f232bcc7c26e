CONSTANTS
  Callers = {"run1"}
  Names = {"fetch"}
  MayCall <- MCMayCall
  StepOf <- MCStepOf
  Threshold = 2
  Recovery = 1
  Ttl = 2
  RedisMayFail = FALSE
SPECIFICATION HealingSpec
PROPERTY HealingReturns

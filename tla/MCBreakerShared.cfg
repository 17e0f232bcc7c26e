CONSTANTS
  Callers = {"a", "b"}
  Names = {"classify"}
  MayCall <- MCShared
  Threshold = 3
  Recovery = 2
  Ttl = 3
  RedisMayFail = FALSE
SPECIFICATION BreakerSpec
PROPERTY
  SharedFailuresAddUp

CONSTANTS
  Sessions = {"s1", "s2"}
  Tokens = {"t1", "t2"}
  Logins = {"l1"}
  Ttl = 2
SPECIFICATION RefreshSpec
CHECK_DEADLOCK FALSE
INVARIANT LogoutIsFinal

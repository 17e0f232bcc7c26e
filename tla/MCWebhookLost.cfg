CONSTANTS
  Workers = {"w1"}
  Events = {"buyPro"}
  Kind <- MCKind
  BoughtPlan <- MCBought
  ForOrg = {}
SPECIFICATION BillingSpec
CHECK_DEADLOCK FALSE
INVARIANT AcknowledgedEventsTakeEffect

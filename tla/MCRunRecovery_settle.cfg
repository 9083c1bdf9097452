CONSTANTS
  None = None
  NodeId = {n1, n2, n3, n4, n5, n6}
  OpId = {o1}
  EntryId = {}
  EffectId = {t1}
  CallId = {c1}
  Roles = {"user", "assistant", "tool"}
  MaxSteps = 2
  MaxAttempts = 2
  SteeringMode = "one-at-a-time"
  FollowUpMode = "one-at-a-time"
  QueueModes = {}
  EffectPolicies = {"repeatable", "reconcile", "never_repeat"}
  MaxAborts = 1
  MaxFailures = 2
  MaxThrows = 1
  MaxCrashes = 1
SPECIFICATION FairSpec
PROPERTIES
  CallsEnd
  OpenRunsSettle
CHECK_DEADLOCK FALSE

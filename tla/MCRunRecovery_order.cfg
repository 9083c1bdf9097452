CONSTANTS
  None = None
  NodeId = {n1, n2, n3, n4, n5, n6, n7, n8}
  OpId = {o1, o2}
  EntryId = {1, 2, 3}
  EffectId = {}
  CallId = {}
  Roles = {"user", "assistant", "tool"}
  MaxSteps = 1
  MaxAttempts = 1
  SteeringMode = "one-at-a-time"
  FollowUpMode = "one-at-a-time"
  QueueModes = {"steer"}
  EffectPolicies = {}
  MaxAborts = 0
  MaxFailures = 0
  MaxThrows = 0
  MaxCrashes = 0
SPECIFICATION SessionSpec
INVARIANTS
  DeliveryIsAccepted
CHECK_DEADLOCK FALSE

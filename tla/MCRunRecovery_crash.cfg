CONSTANTS
  None = None
  NodeId = {n1, n2, n3, n4, n5, n6, n7, n8}
  OpId = {o1, o2}
  EntryId = {1, 2, 3}
  EffectId = {}
  CallId = {}
  Roles = {"user", "assistant", "tool"}
  MaxSteps = 1
  MaxAttempts = 1
  SteeringMode = "one-at-a-time"
  FollowUpMode = "all"
  QueueModes = {"follow_up"}
  EffectPolicies = {}
  MaxAborts = 0
  MaxFailures = 0
  MaxThrows = 0
  MaxCrashes = 2
SPECIFICATION SessionSpec
INVARIANTS
  QueuedIsHeld
  DeliveryIsAccepted
CHECK_DEADLOCK FALSE

CONSTANTS
  None = None
  NodeId = {n1, n2, n3, n4, n5, n6}
  OpId = {o1, o2}
  EntryId = {1, 2}
  EffectId = {t1, t2}
  CallId = {c1, c2}
  Roles = {"user", "assistant", "tool"}
  MaxSteps = 2
  MaxAttempts = 1
  SteeringMode = "one-at-a-time"
  FollowUpMode = "one-at-a-time"
  QueueModes = {"steer", "custom"}
  EffectPolicies = {"repeatable", "reconcile", "never_repeat"}
  MaxAborts = 1
  MaxFailures = 0
  MaxThrows = 1
  MaxCrashes = 1
SPECIFICATION SessionSpec
SYMMETRY CallSymmetry
CONSTRAINT OneHalf
INVARIANTS
  ExecutedAsRecorded
  OutcomeIsWhatHappened
  CallsAnsweredOnce
  HeldOnce
  RecoveryIsAccepted
CHECK_DEADLOCK FALSE

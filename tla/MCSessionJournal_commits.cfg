CONSTANTS
  None = None
  NodeId = {n1, n2}
  OpId = {o1, o2}
  EntryId = {e1, e2}
  EffectId = {t1, t2}
  CallId = {c1, c2}
  Roles = {"user", "assistant", "tool"}
  MaxSteps = 2
  MaxAttempts = 2
SPECIFICATION Spec
SYMMETRY IdSymmetry
CONSTRAINT OneHalf
INVARIANTS
  DispatchBudget
  OutcomesAreTruthful
  FinishedRunsAreSettled
  ResultsFollowCalls
  PendingIsOwed
  ClaimsInOrder
PROPERTIES
  HistoryIsFinal
CHECK_DEADLOCK FALSE

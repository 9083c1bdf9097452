CONSTANTS
  a = a
  b = b
  bb = bb
  c = c
  ida = ida
  idb = idb
  idc = idc
  Commit <- MCCommit
  Id <- MCId
  IdOf <- MCIdOf
  Needs <- MCNeeds
  MaxRows = 2
  MaxQueue = 2
  MaxCrashes = 1
  MaxPowerLosses = 0
SPECIFICATION Spec
INVARIANTS
  StateIsDurable

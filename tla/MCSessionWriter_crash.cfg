CONSTANTS
  a = a
  b = b
  bb = bb
  c = c
  ida = ida
  idb = idb
  idc = idc
  Commit <- MCCommit
  Id <- MCId
  IdOf <- MCIdOf
  Needs <- MCNeeds
  MaxRows = 2
  MaxQueue = 2
  MaxCrashes = 2
  MaxPowerLosses = 1
SPECIFICATION Spec
INVARIANTS
  AcksSurvive
  FileStaysReadable
PROPERTIES
  CloseCompletes
  ImplementsDurableLog

CONSTANTS
  b1 = b1
  b2 = b2
  b3 = b3
  c1 = c1
  c2 = c2
  c3 = c3
  d1 = d1
  d2 = d2
  shell = shell
  Batch <- MCBatch
  Call <- MCCall
  BatchOf <- MCBatchOf
  Index <- MCIndex
  Key <- MCKey
  Overlap <- MCOverlap
  Claims <- MCClaims
  Sequential <- MCSequential
  MaxWaiters = 2
  j1 = j1
  j2 = j2
  h1 = h1
  h2 = h2
  p1 = p1
  p2 = p2
  Job = {j1, j2}
  Host = {h1, h2}
  ProcessOf <- MCProcessOf
  KeyOf <- MCKeyOf
  NoHost = NoHost
  MaxJobs = 1
  MaxActive = 1
  Results = {"succeeded", "interrupted"}
  MaxAttempts = 2
  MaxFailures = 1
  Process = {p1, p2}
  MaxRunning = 1
  MaxTerminal = 1
  HighWater = 2
  LowWater = 1
  MaxOutput = 3
SPECIFICATION HostSpec
INVARIANTS
  HostTypeOK
  EffectsAreExclusive
  CallsKeepOrder
  WaitersAreBlocked
  RecordsTellTheTruth
  ReadersAreServed
PROPERTIES
  NobodyOvertakes
  FinishedJobsStay
  FirstReasonDecides
  WhatIsBegunEnds
CHECK_DEADLOCK FALSE

CONSTANTS
  None = None
  a1 = a1
  a2 = a2
  a3 = a3
  s1 = s1
  Caller = {a1, a2, a3, s1}
  SyncCaller = {s1}
  Inode = {i1, i2}
  l1 = l1
  l2 = l2
  l3 = l3
  l4 = l4
  x = x
  y = y
  Opener = {l1, l2, l3, l4}
  Path = {x, y}
  PathOf <- MCPathOf
  Identity = Identity
  Absent = Absent
  Bare = Bare
  MaxInstalls = 2
  m1 = m1
  m2 = m2
  m3 = m3
  m4 = m4
  n_real = n_real
  n_link = n_link
  n_other = n_other
  Mutation = {m1, m2, m3, m4}
  Name = {n_real, n_link, n_other}
  NameOf <- MCNameOf
  RealName <- MCRealName
  Missing = {n_other}
  Question = {q1, q2, q3}
  r1 = r1
  r2 = r2
  r3 = r3
  Request = {r1, r2, r3}
  Home = Home
  Elsewhere = Elsewhere
  MaxSessions = 5
  ToolSizes = {1, 3}
  BoundedSize = 1
  Extra = 1
  MaxInput = 4
  Target = 3
  Recent = 2
  RetainTurns = 1
  MaxSummary = 1
  MaxEntries = 8
  MaxOf = 1
  Parts = {"lock_alive"}
SPECIFICATION Spec
INVARIANT
  OperationsExclude
CHECK_DEADLOCK FALSE

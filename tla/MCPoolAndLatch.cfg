CONSTANTS
  None = None
  Client = {c1}
  Worker = {w1, w2}
  Task = {k1, k2, k3}
  Creator = c1
  ShutdownCaller = {}
  PoolTask = {}
SPECIFICATION PLFairSpec
INVARIANTS
  LatchOutlivesItsUsers
  NoTaskIsDropped
PROPERTY AllIsCollected

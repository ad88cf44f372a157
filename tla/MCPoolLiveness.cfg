CONSTANTS
  None = None
  Client = {c1, c2}
  Worker = {w1, w2}
  Task = {k1, k2}
  Creator = c1
  ShutdownCaller = {c1, c2}
  PoolTask = {}
SPECIFICATION FairSpec

PROPERTIES
  PostedIsExecuted
  ShutdownReturns

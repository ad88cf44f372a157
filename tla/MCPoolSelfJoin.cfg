CONSTANTS
  None = None
  Client = {c1, c2}
  Worker = {w1, w2}
  Task = {k1}
  Creator = c1
  ShutdownCaller = {}
  PoolTask = {k1}
SPECIFICATION Spec
INVARIANT CollectedMeansJoined

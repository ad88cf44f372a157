CONSTANTS
  None = None
  Client = {c1, c2}
  Worker = {w1, w2}
  Task = {k1, k2, k3}
  Creator = c1
  ShutdownCaller = {c1}
  PoolTask = {}
SPECIFICATION Spec
SYMMETRY TaskAndWorkerSymmetry
INVARIANTS
  TypeOK
  NoUseAfterFree
  NoLostWakeup
  EachTaskOnce
  UserDataBalanced
  BacklogDrained
  ShutdownQuiesces
PROPERTY ImplementsTaskService

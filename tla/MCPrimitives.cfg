CONSTANTS
  None = None
  Counter = {c1, c2, c3}
  Waiter = {w1, w2}
  InitialCount = 2
  Holder = {creator, other, third, self}
  Creator = creator
  Joiner = {other}
  Self = self
  Host = "posix"
  User = {u1, u2, u3}
  Stranger = {s1}
  Platform = {"linux", "darwin", "windows"}
  Permits = 2
  MaxExtra = 2
SPECIFICATION MCSpec
INVARIANTS
  MCTypeOK
  CountIsExact
  WaitReturnsAtZero
  ZeroIsAnnounced
  NoUseAfterFree
  JoinedMeansEnded
  Conserved
PROPERTIES
  WaitersReturn
  ProcIsInvoked
  JoinReturns
  NotStuck

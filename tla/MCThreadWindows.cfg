CONSTANTS
  None = None
  Holder = {creator, other}
  Creator = creator
  Joiner = {other}
  Self = self
  Platform = "windows"
SPECIFICATION FairSpec
PROPERTY ProcIsInvoked
CHECK_DEADLOCK FALSE

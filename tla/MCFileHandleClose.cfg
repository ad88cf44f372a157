CONSTANTS
  Handle = {h1}
  Other = {o1}
  Fd = {3, 4, 5}
  CloseErrors = {"EINTR"}
  MaxRefs = 2
  None = None
SPECIFICATION Spec
INVARIANT DeInitAssertion

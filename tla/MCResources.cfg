CONSTANTS
  MaxLength = 5
  MaxSuffix = 3
  Char <- MCChar
  Separator <- MCSeparator
  Input <- MCInput
  Suffix <- MCSuffix
  Handle = {h1, h2}
  Other = {o1}
  Fd = {3, 4, 5}
  CloseErrors = {"EINTR", "EIO"}
  Mapping = {m1, m2}
  Region = {r1, r2, r3}
  MaxRefs = 2
  Object = {a1, a2}
  Thread = {t1, t2}
  MaxPool = 2
  None = None
SPECIFICATION MCSpec
INVARIANTS
  MCTypeOK
  PathOfTheString
  RoundTrip
  AddIsTextual
  DescriptorsMatchHandles
  MappedExactlyWhileReferenced
  LivesWhileReferenced
  AutoreleasedIsUsable

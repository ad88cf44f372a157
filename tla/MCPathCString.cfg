CONSTANTS
  MaxLength = 5
  MaxSuffix = 3
  Char <- MCChar
  Separator <- MCSeparator
  Input <- MCInput
  Suffix <- MCSuffix
SPECIFICATION Spec
INVARIANT RepresentationIsCString

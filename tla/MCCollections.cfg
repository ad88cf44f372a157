CONSTANTS
  k1 = k1
  k2 = k2
  k3 = k3
  k4 = k4
  n1 = n1
  n2 = n2
  n3 = n3
  None = None
  Key = {k1, k2, k3, k4}
  Value = {v1, v2}
  Name = {n1, n2, n3}
  Ident <- MCIdent
  Hash <- MCHash
  InitialBuckets = 1
  MaxRefs = 2
  Item = {o1, o2}
  Memory = {m1, m2, m3, m4}
  Width = 7
  RefSize = 8
  MaxLength = 6
SPECIFICATION MCSpec
INVARIANTS
  MCTypeOK
  RehashAssertion
  WellLinked
  InBounds
PROPERTIES
  ReferencesFollowEntries
  ImplementsDictionary
  ListImplementsObjectList
  ArrayImplementsObjectList

CONSTANTS
  Object = {a1, a2}
  Thread = {t1}
  None = None
  MaxPool = 2
SPECIFICATION Spec
INVARIANT RelinquishedOnce

SPECIFICATION Spec
CONSTANTS
  MaxOpens = 2
  MaxSwaps = 0
  Blobs = 1
PROPERTY DetachedInert
CHECK_DEADLOCK FALSE

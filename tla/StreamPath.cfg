SPECIFICATION Spec
CONSTANTS
  MaxOpens = 2
  MaxSwaps = 1
  Blobs = 2
INVARIANTS TypeOK OneTrack RouterInStep RingInStep
CHECK_DEADLOCK FALSE

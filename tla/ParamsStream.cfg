SPECIFICATION FairSpec
CONSTANTS
  Knobs = {"denoise"}
  Curved = {"denoise"}
  Values = {0, 1, 2}
  Saved = {0}
  Delta = 1
  Conns = 3
  Moves = 2
  Steps = 4
INVARIANTS TypeOK MergedViewIsUi StreamIsFull DebounceTracks
PROPERTIES GateHolds HeldByUserOnly PodConverges
CHECK_DEADLOCK FALSE

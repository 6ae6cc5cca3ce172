SPECIFICATION Spec
CONSTANTS
  Sizes = {4, 9}
  SeamFrames = 2
  ChunkFrames = 3
  MaxBlock = 6
  Slices = {1, 2, 3, 4, 5, 6}
INVARIANTS ReadIsStepwise LapPlaysEachFrameOnce WriteIsPointwise CoverageExact
CHECK_DEADLOCK FALSE

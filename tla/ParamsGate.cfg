SPECIFICATION Spec
CONSTANTS
  Knobs = {"denoise"}
  Curved = {}
  Values = {0}
  Saved = {0}
  Delta = 0
  Conns = 3
  Moves = 0
  Steps = 3
PROPERTY NothingBeforeReady
CHECK_DEADLOCK FALSE

SPECIFICATION Spec
CONSTANTS
  Modes = {"direct", "hosted"}
  MaxFailover = 1
  SendFailLimit = 3
  MaxConnects = 2
INVARIANTS NoLeakedSession
CHECK_DEADLOCK FALSE

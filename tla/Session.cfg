SPECIFICATION FairSpec
CONSTANTS
  Modes = {"direct", "hosted"}
  MaxFailover = 1
  SendFailLimit = 3
  MaxConnects = 2
INVARIANTS TypeOK OneLiveClient ReleasedOnlyDead ConfigNotLost BoundedTries
PROPERTIES GateOpensOnReady DeadSessionNoticed Settles
CHECK_DEADLOCK FALSE

SPECIFICATION Spec
CONSTANTS
  MaxSessions = 2
  MaxExtensions = 1
  MaxErrors = 1
  MaxPresses = 1
  MaxSwitches = 1
INVARIANTS TypeOK OneWorker RefusalsBounded
PROPERTIES ParkedIfRefused PollsResume LeaseExtended
CHECK_DEADLOCK FALSE

CONSTANTS
  MaxUid = 2
  Old = 1
  PageSize = 2
  ATTEMPT_COUNT = 2
  MaxEvents = 1
  MaxRunning = 2
SPECIFICATION Spec
PROPERTY LoadsNew
CHECK_DEADLOCK FALSE

CONSTANTS
  MaxUid = 3
  Old = 3
  PageSize = 2
  ATTEMPT_COUNT = 2
  MaxEvents = 2
  MaxRunning = 2
SPECIFICATION Spec
INVARIANT TypeOK
PROPERTIES DeletesOnlyGone Converges
CHECK_DEADLOCK FALSE

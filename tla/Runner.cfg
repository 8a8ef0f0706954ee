CONSTANTS
  Calls = {a, b, c}
  Cancelling = {a, b}
  NoTask = none
SPECIFICATION LiveSpec
INVARIANTS TypeOK LastWins
PROPERTIES OneAtATime CallsEnd
CHECK_DEADLOCK FALSE

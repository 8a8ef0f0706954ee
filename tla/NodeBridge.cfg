CONSTANTS
  Requests = {r1, r2}
  MaxListeners = 3
SPECIFICATION Spec
INVARIANTS TypeOK OneOwner DeliveredToAll
PROPERTIES AnswersArrive StartReported
CHECK_DEADLOCK FALSE

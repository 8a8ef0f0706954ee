CONSTANTS
  Keys = {k1}
  Writers = {w1, w2}
  MaxSize = 1
  RebuildAfter = 9
  Gaps = TRUE
  MaxStores = 3
  MaxEvents = 2
SYMMETRY Symmetric
SPECIFICATION Spec
INVARIANT OneEditor
CHECK_DEADLOCK FALSE

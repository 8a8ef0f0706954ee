CONSTANTS
  Keys = {k1, k2}
  Writers = {w1, w2}
  MaxSize = 1
  RebuildAfter = 2
  Gaps = FALSE
  MaxStores = 2
  MaxEvents = 2
SYMMETRY Symmetric
SPECIFICATION Spec
INVARIANTS TypeOK PublishedBody NoLeak SizeOK
PROPERTY KeepsPromise
CHECK_DEADLOCK FALSE

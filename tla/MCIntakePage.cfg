SPECIFICATION Spec
CONSTANTS
  i1 = i1
  i2 = i2
  b1 = b1
  b2 = b2
  Item = {i1, i2}
  Batch = {b1, b2}
  None = None
  Buttons = {"resume", "cancel"}
  Reports = {"RUNNING", "CANCELLED"}
  MaxOpen = 1
INVARIANTS TypeOK WorkCanBeFound NothingIsForgotten
PROPERTIES NoJobLeavesItsBatch
SYMMETRY MCSymmetry
CHECK_DEADLOCK FALSE

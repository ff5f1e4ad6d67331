SPECIFICATION Spec
CONSTANTS
  j1 = j1
  j2 = j2
  Job = {j1, j2}
  Buttons = {"cancel"}
  Reports = {"RUNNING", "COMPLETE"}
  Outcomes = {"DOCUMENT", "ARCHITECTURE", "CHAIN", "ATTENTION"}
  Slot = {1, 2}
  MaxOpen = 1
  None = None
INVARIANT QuietPageIsCurrent
SYMMETRY Symmetric
CHECK_DEADLOCK FALSE

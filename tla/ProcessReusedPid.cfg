\* Process numbers are given out again, as in a container.
SPECIFICATION Spec
CONSTANTS
  Instance = {i1, i2}
  Pid = {1, 2}
  Word = {"stop"}
  Careful = TRUE
  ReusePids = TRUE
  MaxStarts = 2
INVARIANTS
  RefusedOnlyBesideAnother
CHECK_DEADLOCK FALSE

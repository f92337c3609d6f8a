CONSTANTS
  Numbers = {1, 2}
  Distances = {14}
SPECIFICATION Spec
INVARIANT DirtyTold
CHECK_DEADLOCK FALSE

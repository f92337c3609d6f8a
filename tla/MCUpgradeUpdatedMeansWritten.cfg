CONSTANTS
  MaxFaults = 1
  MaxStagings = 0
  MaxResets = 0
  MaxEvents = 0
SPECIFICATION Spec
INVARIANT UpdatedMeansWritten

CONSTANTS
  MaxFaults = 1
  MaxStagings = 2
  MaxResets = 2
  MaxEvents = 3
SPECIFICATION FairSpec
INVARIANTS
  RootfsFits
  RecoveryArchiveKept
PROPERTIES
  RebootsComplete
  CardKeepsPromise
  ComesToRest
  JobEnds

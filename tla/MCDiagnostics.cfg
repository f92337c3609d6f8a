CONSTANTS
  CommandLines <- MCCommandLines
  Boards <- MCBoards
  IterMod = 4
  Timeout = 2
  Descriptors = 4
  Sockets = {1, 2}
  QueueSize = 2
  MaxFaults = 2
SPECIFICATION FairSpec
INVARIANTS
  PassHonest
  FailHonest
PROPERTY DiagEnds

CONSTANTS
  NumRegs = 2
  Versions = {v1, v2}
  Blank = blank
  MaxFaults = 2
  Numbers = {0, 7, 42, 255, 256, 999, 1000}
  Distances = {1, 14, 300, 1024}
  Cmdlines = {c1, c2}
  Stager = s
SPECIFICATION SoftwareSpec
SYMMETRY Symmetry
INVARIANTS
  NumbersTold
  OwnTold
  PeerTold
  StagedThere
  ArgsWhole
PROPERTY PartitionKept

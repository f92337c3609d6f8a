CONSTANTS
  RegMod = 8
  Counter = 1
  Timer = 0
  AuxPower = FALSE
  SensorFlags = {0, 2}
  MaintImageBoots = TRUE
  MaxFaults = 0
SPECIFICATION FairSpec
INVARIANTS
  CrashLimit
PROPERTIES
  HungStartRescued
  BootSettles

CONSTANTS
  RegMod = 256
  Counter = 0
  Timer = 0
  AuxPower = TRUE
  SensorFlags = {0}
  MaintImageBoots = TRUE
  MaxFaults = 0
SPECIFICATION Spec
INVARIANTS
  MaintenanceUnwatched

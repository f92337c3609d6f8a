CONSTANTS
  RegMod = 8
  Counter = 0
  Timer = 0
  AuxPower = TRUE
  SensorFlags = {0, 4}
  MaintImageBoots = FALSE
  MaxFaults = 2
SPECIFICATION Spec
INVARIANTS
  EscalationHonoured
  NoSpuriousMaintenance
  AutoRecoveryDisabled
  WatchdogCoversStart

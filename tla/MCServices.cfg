CONSTANTS
  AllCpus = 4
  FewCpus = 3
  AuxPower = FALSE
  QueueSize = 3
  MaxFaults = 2
  Oldest = 2
  Builds = {2, 4}
  MaxTime = 6
SPECIFICATION ServicesSpec
INVARIANTS
  GovernorsFollowLine
  ClockRestored
PROPERTIES
  KeepsPromise
  SettledLineObeyed
  StampFollows

SPECIFICATION FairSpec
CONSTANTS
  Clients = {c1, c2}
  NumSensors = 2
  TableSize = 3
  CountSize = 5
  MaxRequests = 3
  MaxFaults = 1
INVARIANTS ReplyComplete CheckHolds LoadsAnswered RewindsBoundStores
PROPERTY RequestsEnd
CHECK_DEADLOCK FALSE

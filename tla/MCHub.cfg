SPECIFICATION FairSpec
CONSTANTS
  Clients = {c1}
  Cap = 2
  MaxUpdates = 5
INVARIANTS TypeOK HubNeverPanics NoUpdateSkipped
PROPERTIES NothingLingers UpdatesArrive
CHECK_DEADLOCK FALSE

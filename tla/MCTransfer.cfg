SPECIFICATION Spec
CONSTANTS
  Requests = {q1, q2}
  Gids = {g1, g2}
  NoGid = NoGid
  Slots = 1
  Clients = 2
  MaxFaults = 1
  Remotes = 2
  Parts = 2
  MaxSlips = 1
  MaxRetries = 1
  Second = {"wanted"}
  Routes <- MCRoutes
INVARIANTS TypeOK StraysExplained DeliveredMeansThere OneReport
PROPERTY TransferSettles
CHECK_DEADLOCK FALSE

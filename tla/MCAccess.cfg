SPECIFICATION Spec
CONSTANTS
  Users = {o, u}
  Owner = o
  Handlers = {h1, h2}
  MaxOrders = 1
  MaxFaults = 1
  MaxBoots = 1
  None = None
SYMMETRY Interchangeable
INVARIANTS TypeOK DecisionsSurvive
CHECK_DEADLOCK FALSE

\* Two objects of the id in one process: cancel against recovery.
SPECIFICATION SafetySpec
CONSTANTS
  Objs = {o1, o2}
  MaxRetries = 1
  MaxStops = 0
  Links = {"remote", "drive"}
  None = None
SYMMETRY Interchangeable
INVARIANTS OrphansAreCancelled
PROPERTIES CancelSticky
CHECK_DEADLOCK FALSE

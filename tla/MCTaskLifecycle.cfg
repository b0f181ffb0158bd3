\* One object at a time, over a restart and a retry.
SPECIFICATION Spec
CONSTANTS
  Objs = {o1}
  MaxRetries = 1
  MaxStops = 1
  Links = {"tgfileid", "file", "remote", "media", "tgmsg", "drive"}
  None = None
INVARIANTS TypeOK AttemptsBounded SettledRow
PROPERTIES KeepsContract CancelledRunEnds TaskSettles
CHECK_DEADLOCK FALSE

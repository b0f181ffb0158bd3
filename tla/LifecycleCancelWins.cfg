SPECIFICATION Spec
CONSTANTS
  Objs = {o1}
  MaxRetries = 1
  MaxStops = 1
  Links = {"tgfileid", "file", "remote", "tgmsg", "drive"}
  None = None
INVARIANT CancelWins
CHECK_DEADLOCK FALSE

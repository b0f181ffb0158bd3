SPECIFICATION FairSpec
CONSTANTS
  Users = {u}
  Handlers = {h1}
  Scheduler = scheduler
  Entries = {e1}
  Asked = {"url"}
  DailyLimit = 1
  Burst = 1
  MaxCommands = 1
  MaxMishaps = 2
  None = None
INVARIANT EntryRunsOnceAtATime
PROPERTY EntrySettles
CHECK_DEADLOCK FALSE

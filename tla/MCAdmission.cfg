SPECIFICATION Spec
CONSTANTS
  Users = {u}
  Handlers = {h1, h2}
  Scheduler = scheduler
  Entries = {}
  Asked = {"url", "url720", "tgfile"}
  DailyLimit = 1
  Burst = 2
  MaxCommands = 3
  MaxMishaps = 1
  None = None
SYMMETRY Interchangeable
INVARIANTS TypeOK DuplicatesOverlap QuotaHolds
CHECK_DEADLOCK FALSE

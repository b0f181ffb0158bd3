SPECIFICATION FairSpec
CONSTANTS
  Updaters = {u1, u2}
  Ticker = ticker
  MaxChanges = 2
  MaxCalls = 2
  MaxFaults = 1
  MaxMishaps = 1
  None = None
INVARIANTS TypeOK OneDashboard
PROPERTY DashboardSettles
CHECK_DEADLOCK FALSE

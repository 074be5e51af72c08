SPECIFICATION MachinesSpec
CONSTANTS
  Tickets = {m1, p1}
  System = {m1, p1}
  Pending = {p1}
  Partial = {p1}
  Syncs = {y1, y2}
  Periodic = {y1}
  SyncFaults = {"persist", "abort", "blind"}

  DashAccounts = {a, b}
  NoDash = NoDash
  Ranges = {24}
  Stamps = {1, 2, 3}
  MaxPoints = 2
  MaxDashCalls = 2

  ChartAccounts = {a, b}
  NoChart = NoChart
  Typed = Typed
  Views = {"H1", "H4"}
  AutoViews = {"H1"}
  Indicators = {"EMA"}
  MaxChartCalls = 2

  Events = {1, 2}
  DayOf <- MCDayOf
  High = {1}
  Now = 2
  ThisDay = 2
  MaxNwLoads = 2
  MaxNwMishaps = 1

  RunIds = {1, 2}
  NoRun = 0
  Trades = 3
  Metrics = {"win_rate", "total_pnl"}
  FirstMetric = "win_rate"
  MaxLists = 2
  MaxBtMishaps = 1
CHECK_DEADLOCK FALSE
INVARIANTS ClosedIsGone  
 

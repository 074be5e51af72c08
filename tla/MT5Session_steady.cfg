SPECIFICATION FairSpec
CONSTANTS
  Accounts = {a1, a2}
  Callers = {c1, c2}
  Pollers = {p1}
  Cancellable = {}
  Symbols = {}
  MaxPins = 2
  NoAccount = NoAccount
  NoTask = NoTask
  Orphan = Orphan
CHECK_DEADLOCK FALSE
INVARIANTS BurstIsLoggedIn SessionIsReal
PROPERTIES WaiterServed IdleSessionReaped ShutdownCompletes

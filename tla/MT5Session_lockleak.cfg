SPECIFICATION FairSpec
CONSTANTS
  Accounts = {a1, a2}
  Callers = {c1}
  Pollers = {p1}
  Cancellable = {c1}
  Symbols = {}
  MaxPins = 2
  NoAccount = NoAccount
  NoTask = NoTask
  Orphan = Orphan
CHECK_DEADLOCK FALSE
PROPERTIES ShutdownCompletes

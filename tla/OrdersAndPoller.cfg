SPECIFICATION MachinesSpec
CONSTANTS
  Operators = {u1}
  NoOperator = NoOperator
  Faults = {"restart"}
  TradingAccounts = {b1, b2}
  Symbols = {s1}
  Workers = {w1, w2}
  Secondary = {w2}
  Paper = {b2}
  Renamed = {}
  Kinds = {"market", "close"}
  Sides = {"BUY", "SELL"}
  MaxPositions = 2
  MaxTrades = 1
  HedgingAllowed = FALSE
  ReadFaults = FALSE
  Bound = 3
  NoWorker = NoWorker

  Accounts = {a1}
  Clients = {c1, c2, c3, c4}
  TaskIds = {t1, t2, t3, t4}
  Flaky = {c1, c2, c3, c4}
  Faulty = {}
  NoTask = NoTask
  NoAccount = NoAccount

  Combos = {1, 2, 3}
  Raising = {2}
  PoolSize = 2
  Batch = 2
  MaxResumes = 1
  MaxMishaps = 1

  LogRuns = {1, 2}
  StepKinds = {"silent"}
  MaxSteps = 1
  MaxLgLoads = 1
  MaxLgMishaps = 1
CHECK_DEADLOCK FALSE
INVARIANTS WithinPositionLimit NoOppositePositions  ConnectedIsPolled LastViewerStops SweepIsSound 

SPECIFICATION FairGateSpec
CONSTANTS
  Operators = {u1}
  NoOperator = NoOperator
  Faults = {}
  TradingAccounts = {a1}
  Symbols = {s1}
  Workers = {w1, w2}
  Secondary = {}
  Paper = {}
  Renamed = {}
  Kinds = {"market", "pending", "modify", "close"}
  Sides = {"BUY"}
  MaxPositions = 1
  MaxTrades = 1
  HedgingAllowed = TRUE
  ReadFaults = TRUE
  Bound = 2
  NoWorker = NoWorker
INVARIANTS HaltStopsSending
PROPERTIES RequestAnswered

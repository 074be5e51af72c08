SPECIFICATION KsSpec
CONSTANTS
  Operators = {u1, u2}
  NoOperator = NoOperator
  Faults = {"persist", "restart"}
  PageUser = u1
INVARIANTS AuditTellsState PageTellsSwitch
PROPERTIES RequestTakesEffect ButtonComesBack

SPECIFICATION SaSpec
CONSTANTS
  Bindable = {"a"}
  TradedSymbols = {"x"}
  MaxSaRequests = 1
  MaxSaClicks = 3
  MaxSaMishaps = 0
CHECK_DEADLOCK FALSE
PROPERTIES ToggleTakesEffect

SPECIFICATION MachinesSpec
CONSTANTS
  Accounts = {a1, a2}
  Callers = {c1, c2}
  Pollers = {p1}
  Cancellable = {c1, c2, p1}
  Symbols = {s1}
  MaxPins = 2
  NoAccount = NoAccount
  NoTask = NoTask
  Orphan = Orphan

  Bindable = {"a"}
  TradedSymbols = {"x", "y"}
  MaxSaRequests = 2
  MaxSaClicks = 3
  MaxSaMishaps = 1

  Tables = {"runs", "steps", "trades"}
  Protected = {"steps", "trades"}
  Children = {"steps"}
  References <- MCReferences
  QuestTables = {"ticks"}
  RowLimits = {1, 2}
  FullRows = 2
  MaxStClicks = 3
  MaxStMishaps = 1

  Accts = {1, 2}
  FirstAcct = 1
  NoAcct = 0
  Fields <- MCFields
  MaxAcMishaps = 1

  Modes = {"llm_only", "rule_only", "multi_agent"}
  LlmOnly = "llm_only"
  RuleOnly = "rule_only"
  Entries = {"k1", "k2"}
  ModeOf <- MCModeOf
  Unset = "unset"
  FormSymbols = {"EURUSD"}
  Frames = {"M15", "H1"}
  Slots = {"h0"}
  FormAccounts = {"a"}
  MaxEdits = 5

  Plans = {"p1", "p2"}
  NoPlan = "none"
  PrimaryOf <- MCPrimaryOf
  ContextsOf <- MCContextsOf
  ParamsOf <- MCParamsOf
  Ints = {"x"}
  Settings <- MCSettings
  Default <- MCDefault
  Cap = 5
  MaxCombos = 6
  SortKeys = {"sharpe", "pf"}
  FirstKey = "sharpe"
  TablePages = 2
  MaxFormMishaps = 1

  TradeIds = {1, 2}
  OwnerOf <- MCOwnerOf
  InDates = {2}
  Winning = {2}
  AllAccounts = "all"
  Selections <- MCSelections
  MaxPolls = 2
  MaxTpLoads = 2
  MaxTpMishaps = 1

  Periods = {30, 90}
  Since <- MCSince
  Deals <- MCDeals
  MaxDeals = 3
  MaxHvLoads = 2

  CalAccounts = {"a"}
  NoCal = "none"
  MonthsPerYear = 2
  AccountKinds = {"all", "demo"}
  Span <- MCSpan
  Today <- MCToday
  WeekLength = 3
  FirstDay <- MCFirstDay
  DaysIn <- MCDaysIn
  TradesOn <- MCTradesOn
  MaxCalMishaps = 1

  Minutes = {0, 5}
  Levels = {1, 2, 101}
  TooHigh = {101}
  MaxSetEdits = 3
  MaxSetMishaps = 1
CHECK_DEADLOCK FALSE
INVARIANTS LockHeldByUser BurstOnOwnAccount ReaperWatches PollerKeepsSession BindingsAreTrue 
PROPERTIES PinPreventsSwap ImplementsLease  

---------------------------- MODULE MCRecordPages ---------------------------
(***************************************************************************)
(* MT5Session with cancellations, and the pages that keep records, for     *)
(* TLC: accounts, strategies and their bindings, the forms, trades,        *)
(* history, the calendar, the storage and the settings.  One of them moves *)
(* in a behaviour and the others rest.                                     *)
(***************************************************************************)
EXTENDS MCMT5Session, StrategyAdmin, StoragePage, AccountsPage, StrategyForms, RunForms,
  TradesPage, AccountHistory, CalendarPage, SettingsPage

MCReferences == {<<"steps", "runs">>, <<"runs", "trades">>}

MCFields == {[risk |-> 25, path |-> ""], [risk |-> 100, path |-> "p"]}

MCModeOf == [k \in Entries |-> IF k = "k1" THEN "rule_only" ELSE "multi_agent"]

MCPrimaryOf == [p \in Plans |-> IF p = "p1" THEN "M15" ELSE "H1"]
MCContextsOf == [p \in Plans |-> IF p = "p1" THEN {"M15", "H1"} ELSE {}]
MCParamsOf == [p \in Plans |-> IF p = "p1" THEN {"x", "y"} ELSE {"z"}]
MCDefault == [mode |-> "range", min |-> 10, max |-> 30, step |-> 10]
MCSettings ==
  {MCDefault, [mode |-> "range", min |-> 30, max |-> 10, step |-> 10], [mode |-> "list", count |-> 2]}

MCOwnerOf == [t \in TradeIds |-> IF t = 1 THEN "acc1" ELSE "acc2"]
MCSelections ==
  {[account |-> "all", filter |-> "all"], [account |-> "all", filter |-> "dates"],
   [account |-> "acc2", filter |-> "open"]}

\* Deals of two positions, one closed in two parts, and a balance operation.
MCDeal(pos, type, entry, time, net) ==
  [pos |-> pos, type |-> type, entry |-> entry, time |-> time, net |-> net]
MCDeals ==
  {MCDeal(1, 0, 0, 1, -1), MCDeal(1, 1, 1, 2, 3), MCDeal(1, 1, 1, 1, 2), MCDeal(2, 0, 1, 2, 1),
   MCDeal(1, 2, 0, 1, 9)}
MCSince == (30 :> 2) @@ (90 :> 0)

\* Two months of a year of two, with weeks of three days.
MCToday == <<1, 1>>
MCSpan == {<<0, 2>>, <<1, 1>>}
MCFirstDay == <<2, 0>>
MCDaysIn == <<5, 6>>
MCTradesOn ==
  [a \in CalAccounts \cup {NoCal} |->
     IF a = NoCal THEN <<<<0, 1, 0, 0, 2>>, <<0, 0, 0, 0, 0, 1>>>>
     ELSE <<<<0, 1, 0, 0, 0>>, <<0, 0, 0, 0, 0, 0>>>>]

VARIABLE machine   \* the one that moves, for good

Machines ==
  {"session", "strategies", "storage", "accounts", "wizard", "forms", "trades", "history",
   "calendar", "settings"}
allMachinesVars == <<machine, vars, saVars, stVars, acVars, formVars, runFormVars, tpVars, hvVars, calVars, setVars>>

\* The others rest in one of their initial states.
MachinesInit ==
  /\ machine \in Machines
  /\ Init /\ (machine # "session" => acct = [t \in Tasks |-> CHOOSE a \in Accounts : TRUE])
  /\ SaInit
  /\ StInit
  /\ AcInit
  /\ FormInit
  /\ RunFormInit
  /\ TpInit /\ (machine # "trades" => tpRows = CHOOSE r \in TpRows : TRUE)
  /\ HvInit /\ (machine # "history" => hvDeals = <<>> /\ hv.days = 30)
  /\ CalInit
  /\ SetInit

SessionMoves ==
  /\ machine = "session" /\ Next
  /\ UNCHANGED <<machine, saVars, stVars, acVars, formVars, runFormVars, tpVars, hvVars, calVars, setVars>>
StrategiesMove ==
  /\ machine = "strategies" /\ SaNext
  /\ UNCHANGED <<machine, vars, stVars, acVars, formVars, runFormVars, tpVars, hvVars, calVars, setVars>>
StorageMoves ==
  /\ machine = "storage" /\ StNext
  /\ UNCHANGED <<machine, vars, saVars, acVars, formVars, runFormVars, tpVars, hvVars, calVars, setVars>>
AccountsMove ==
  /\ machine = "accounts" /\ AcNext
  /\ UNCHANGED <<machine, vars, saVars, stVars, formVars, runFormVars, tpVars, hvVars, calVars, setVars>>
WizardMoves ==
  /\ machine = "wizard" /\ FormNext
  /\ UNCHANGED <<machine, vars, saVars, stVars, acVars, runFormVars, tpVars, hvVars, calVars, setVars>>
FormsMove ==
  /\ machine = "forms" /\ RunFormNext
  /\ UNCHANGED <<machine, vars, saVars, stVars, acVars, formVars, tpVars, hvVars, calVars, setVars>>
TradesMove ==
  /\ machine = "trades" /\ TpNext
  /\ UNCHANGED <<machine, vars, saVars, stVars, acVars, formVars, runFormVars, hvVars, calVars, setVars>>
HistoryMoves ==
  /\ machine = "history" /\ HvNext
  /\ UNCHANGED <<machine, vars, saVars, stVars, acVars, formVars, runFormVars, tpVars, calVars, setVars>>
CalendarMoves ==
  /\ machine = "calendar" /\ CalNext
  /\ UNCHANGED <<machine, vars, saVars, stVars, acVars, formVars, runFormVars, tpVars, hvVars, setVars>>
SettingsMove ==
  /\ machine = "settings" /\ SetNext
  /\ UNCHANGED <<machine, vars, saVars, stVars, acVars, formVars, runFormVars, tpVars, hvVars, calVars>>

MachinesNext ==
  \/ SessionMoves \/ StrategiesMove \/ StorageMoves \/ AccountsMove \/ WizardMoves
  \/ FormsMove \/ TradesMove \/ HistoryMoves \/ CalendarMoves \/ SettingsMove
MachinesSpec == MachinesInit /\ [][MachinesNext]_allMachinesVars

-----------------------------------------------------------------------------
\* The pages of the accounts, the trades, the history, the calendar and the
\* settings show the records of what is selected on them, as they are stored,
\* and the backend works with the settings that are stored.
RecordPagesAreTrue ==
  /\ [](StoreIsTrue /\ UntouchedFormIsCurrent)
  /\ [](ListIsOfSelection /\ SwitchTellsStored) /\ AnalysisIsNew
  /\ [](HistoryIsOfPeriod /\ PairsAddUp)
  /\ [](CalendarIsOfSelection /\ SheetIsOfDay /\ WeeksAddUp)
  /\ [](SectionsTellStored /\ BackendUsesStored)

\* What the forms of strategies, backtests and sweeps send is complete, fits
\* what is selected, and changes nothing that was not touched.
FormsAreTrue ==
  /\ [](SubmittedNamesModel /\ ClassFitsMode /\ ContextWithoutPrimary)
  /\ LeavesWhenBound /\ UntouchedSaveKeeps
  /\ [](FilesAreOfStrategy /\ RowsAreOfStrategy /\ PostedGridIsSound)
  /\ [](RangesReachTheirEnd /\ TableIsAsSelected)
=============================================================================

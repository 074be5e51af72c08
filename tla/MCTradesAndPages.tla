-------------------------- MODULE MCTradesAndPages --------------------------
(***************************************************************************)
(* TradeReconcile, and the pages that show what runs, for TLC: the         *)
(* dashboard, the chart, the news and the backtests.  One of them moves in *)
(* a behaviour and the others rest.                                        *)
(***************************************************************************)
EXTENDS TradeReconcile, DashboardPage, ChartPage, NewsPage, BacktestPage, TLC

MCDayOf == <<1, 2>>   \* event 1 is of yesterday, event 2 of today

VARIABLE machine   \* the one that moves, for good

Machines ==
  {"trades", "dash", "chart", "news", "backtest"}
allMachinesVars == <<machine, vars, dashVars, chartVars, nwVars, btVars>>

\* The others rest in one of their initial states.
MachinesInit ==
  /\ machine \in Machines
  /\ Init
  /\ DashInit /\ (machine # "dash" => autoTrade = [a \in DashAccounts |-> FALSE])
  /\ ChartInit
  /\ NwInit /\ (machine # "news" => nwRows.stored = {})
  /\ BtInit

TradesMove ==
  /\ machine = "trades" /\ Next
  /\ UNCHANGED <<machine, dashVars, chartVars, nwVars, btVars>>
DashMoves ==
  /\ machine = "dash" /\ DashNext
  /\ UNCHANGED <<machine, vars, chartVars, nwVars, btVars>>
ChartMoves ==
  /\ machine = "chart" /\ ChartNext
  /\ UNCHANGED <<machine, vars, dashVars, nwVars, btVars>>
NewsMove ==
  /\ machine = "news" /\ NwNext
  /\ UNCHANGED <<machine, vars, dashVars, chartVars, btVars>>
BacktestMoves ==
  /\ machine = "backtest" /\ BtNext
  /\ UNCHANGED <<machine, vars, dashVars, chartVars, nwVars>>

MachinesNext ==
  \/ TradesMove \/ DashMoves \/ ChartMoves \/ NewsMove \/ BacktestMoves
MachinesSpec == MachinesInit /\ [][MachinesNext]_allMachinesVars

-----------------------------------------------------------------------------
\* What these pages show is what is selected on them, and a background refresh
\* disturbs nothing: the conjuncts say for each page under which conditions
\* its code sees to that, and which races it leaves open.
LivePagesAreTrue ==
  /\ [](DashShowsSelection /\ SwitchTellsTrading /\ CurveInOrder)
  /\ [](CanvasMirrorsPage /\ ChartShowsSelection /\ TicksAreForSymbol)
  /\ [](ResultsAreOfSelected /\ HeatmapIsOfMetric)
  /\ [](EventsPassFilter /\ DayViewIsNotEmpty)
  /\ RefreshIsQuiet /\ OpensOnToday
=============================================================================

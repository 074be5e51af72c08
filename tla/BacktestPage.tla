---------------------------- MODULE BacktestPage ----------------------------
(***************************************************************************)
(* The backtest page (src/frontend/src/app/backtest/page.tsx): the list    *)
(* that polls the runs, the results of the selected run                    *)
(* (components/backtest), and the analytics page of a run                  *)
(* (app/backtest/[id]/analytics/page.tsx), against the job of the backend  *)
(* (api/routes/backtest/_execution.py, _runs.py).  The form that submits   *)
(* a run is in RunForms.                                                   *)
(***************************************************************************)
EXTENDS Naturals, FiniteSets

CONSTANTS
  RunIds, NoRun,          \* runs that can be created, in this order
  Trades,                 \* trades of a completed run
  Metrics, FirstMetric,   \* metrics of the heatmap ("win_rate" first)
  MaxLists, MaxBtMishaps  \* bounds: list requests under way; lost answers and restarts

ASSUME BacktestAssumption ==
  /\ IsFiniteSet(RunIds) /\ RunIds \subseteq Nat /\ NoRun \notin RunIds
  /\ FirstMetric \in Metrics /\ Trades \in Nat \ {0}

VARIABLES
  btRows,   \* the BacktestRun rows: status, and whether a job works on it
  bt,       \* the page: list, selection, the submission under way
  btRes,    \* BacktestResults of the selected run
  btLists,  \* requests for the list, before and after they are served
  btStat    \* the analytics page
btVars == <<btRows, bt, btRes, btLists, btStat>>

BtActive == {"pending", "running"}
BtEnded == {"completed", "failed"}
Absent == [r \in RunIds |-> "absent"]
Parts == {"data", "drawdown", "candles"}
Tabs == {"equity", "trades", "chart"}  \* the months need no more than the trades

\* BacktestResults as it is mounted.
NoResults == [tab |-> "equity", page |-> 0, part |-> [p \in Parts |-> NoRun], asked |-> {}]
NoStat == [run |-> NoRun, load |-> "none", waits |-> FALSE, metric |-> FirstMetric, map |-> FirstMetric,
           asked |-> {}, chart |-> FALSE, candles |-> FALSE, overlap |-> FALSE]

BtInit ==
  /\ btRows = [r \in RunIds |-> [status |-> "absent", job |-> FALSE]]
  /\ bt = [open |-> FALSE, list |-> Absent, sel |-> NoRun, seen |-> "absent",
           busy |-> FALSE, mishaps |-> 0]
  /\ btRes = NoResults /\ btLists = {} /\ btStat = NoStat

Mishap(n) == bt.mishaps + n <= MaxBtMishaps

-----------------------------------------------------------------------------
(* The job of a run *)

JobRuns(r) ==
  /\ btRows[r].status = "pending" /\ btRows[r].job
  /\ btRows' = [btRows EXCEPT ![r].status = "running"]
  /\ UNCHANGED <<bt, btRes, btLists, btStat>>

\* The engine ends, or anything in the job fails.
JobEnds_(r, status) ==
  /\ btRows[r].status = "running" /\ btRows[r].job
  /\ btRows' = [btRows EXCEPT ![r].status = status, ![r].job = FALSE]
  /\ UNCHANGED <<bt, btRes, btLists, btStat>>

\* A restart of the backend ends the jobs and leaves the rows as they are.
BtRestart ==
  /\ Mishap(1) /\ bt' = [bt EXCEPT !.mishaps = @ + 1]
  /\ btRows' = [r \in RunIds |-> [btRows[r] EXCEPT !.job = FALSE]]
  /\ UNCHANGED <<btRes, btLists, btStat>>

-----------------------------------------------------------------------------
(* The results of the selected run *)

Panel(tab) == CASE tab = "equity" -> {"drawdown"} [] tab = "chart" -> {"candles"} [] OTHER -> {}

\* What the effects ask for when the status or the tab changes: the data of a
\* run with the status, the drawdown with each mount of its chart, the candles
\* until there are some.
ResultEffects(res, r, before, status) ==
  LET missing == {p \in Panel(res.tab) : res.part[p] = NoRun /\ <<p, r>> \notin res.asked}
      new == IF before = status THEN missing ELSE missing \cup {"data"}
  IN IF status # "completed" THEN res
     ELSE [res EXCEPT !.asked = @ \cup {<<p, r>> : p \in new}]

\* BacktestResults is keyed by the run: another run mounts another one.
Mounted(r) ==
  IF r = bt.sel THEN ResultEffects(btRes, r, bt.seen, bt.list[r])
  ELSE ResultEffects(NoResults, r, "absent", bt.list[r])

SelectRun(r) ==
  /\ bt.open /\ bt.list[r] # "absent"
  /\ btRes' = Mounted(r)
  /\ bt' = [bt EXCEPT !.sel = r, !.seen = bt.list[r]]
  /\ UNCHANGED <<btRows, btLists, btStat>>

\* Trades, equity and months come together or not at all; a failed drawdown
\* or a failed list of candles shows as an empty one.
PartArrives(p, r, ok) ==
  /\ <<p, r>> \in btRes.asked /\ (ok \/ Mishap(1))
  /\ btRes' = [btRes EXCEPT !.asked = @ \ {<<p, r>>}, !.part[p] = IF ok THEN r ELSE @]
  /\ bt' = [bt EXCEPT !.mishaps = IF ok THEN @ ELSE @ + 1]
  /\ UNCHANGED <<btRows, btLists, btStat>>

ShowsTabs == bt.open /\ bt.sel # NoRun /\ bt.seen = "completed"

\* What is shown in place of the tabs until the run is completed.
InsteadOfTabs ==
  CASE bt.sel = NoRun -> "Select or run a backtest"
    [] bt.seen = "pending" -> "Backtest queued"
    [] bt.seen = "running" -> "Running backtest"
    [] bt.seen = "failed" -> "Backtest failed"
    [] OTHER -> "nothing"

\* The drawdown chart is unmounted with its tab, the trade table with its own.
Turned(tab) ==
  [btRes EXCEPT !.tab = tab, !.page = 0,
                !.part["drawdown"] = IF tab = "equity" THEN @ ELSE NoRun,
                !.asked = IF tab = "equity" THEN @ ELSE {a \in @ : a[1] # "drawdown"}]

SelectTab(tab) ==
  /\ ShowsTabs /\ tab # btRes.tab /\ InsteadOfTabs = "nothing"
  /\ btRes' = ResultEffects(Turned(tab), bt.sel, bt.seen, bt.seen)
  /\ UNCHANGED <<btRows, bt, btLists, btStat>>

\* The chart: markers of the loaded trades on the loaded candles.
CandlesShow ==
  IF \E r \in RunIds : <<"candles", r>> \in btRes.asked THEN "loading"
  ELSE IF btRes.part["candles"] = NoRun THEN "no candles" ELSE "chart"

PageSize == 2
Pages == (Trades + PageSize - 1) \div PageSize
PageRows(page) == {i \in 1 .. Trades : (i - 1) \div PageSize = page}

TurnPage(page) ==
  /\ ShowsTabs /\ btRes.tab = "trades" /\ btRes.part["data"] # NoRun
  /\ page \in {btRes.page - 1, btRes.page + 1} \cap (0 .. Pages - 1)
  /\ btRes' = [btRes EXCEPT !.page = page]
  /\ UNCHANGED <<btRows, bt, btLists, btStat>>

\* A click on a row of the table opens the chart at that trade.
ClickTrade ==
  /\ ShowsTabs /\ btRes.tab = "trades" /\ btRes.part["data"] # NoRun /\ PageRows(btRes.page) # {}
  /\ btRes' = ResultEffects(Turned("chart"), bt.sel, bt.seen, bt.seen)
  /\ UNCHANGED <<btRows, bt, btLists, btStat>>

\* What the panels make of the parts that have come.
HasData == btRes.part["data"] # NoRun
EquityShows == IF HasData THEN "curve" ELSE "No equity data"
MonthsShow == IF HasData THEN "a cell for each month" ELSE "No monthly data"
TableShows == IF HasData THEN PageRows(btRes.page) ELSE {}
DrawdownShows ==
  IF <<"drawdown", bt.sel>> \in btRes.asked THEN "loading"
  ELSE IF btRes.part["drawdown"] = NoRun THEN "nothing" ELSE "curve"
FiguresShow == IF bt.seen = "completed" THEN "figures" ELSE "-"

-----------------------------------------------------------------------------
(* The list *)

AskList == [served |-> FALSE, rows |-> Absent]
Statuses == [r \in RunIds |-> btRows[r].status]

OpenRuns ==
  /\ ~bt.open /\ btStat.load = "none"
  /\ bt' = [bt EXCEPT !.open = TRUE, !.list = Absent, !.sel = NoRun, !.seen = "absent"]
  /\ btRes' = NoResults /\ btLists' = {AskList}
  /\ UNCHANGED <<btRows, btStat>>

ListServed(l) ==
  /\ l \in btLists /\ ~l.served
  /\ btLists' = (btLists \ {l}) \cup {[served |-> TRUE, rows |-> Statuses]}
  /\ UNCHANGED <<btRows, bt, btRes, btStat>>

\* The selected run is looked up in the new list, and kept when it is not there.
SeenStatus(list) ==
  IF bt.sel = NoRun \/ list[bt.sel] = "absent" THEN bt.seen ELSE list[bt.sel]

ListArrives(l, ok) ==
  /\ l \in btLists /\ l.served /\ (ok \/ Mishap(1))
  /\ btLists' = btLists \ {l}
  /\ LET seen == SeenStatus(l.rows)
     IN IF ok THEN /\ bt' = [bt EXCEPT !.list = l.rows, !.seen = seen]
                   /\ btRes' = IF bt.sel = NoRun THEN btRes ELSE ResultEffects(btRes, bt.sel, bt.seen, seen)
        ELSE bt' = [bt EXCEPT !.mishaps = @ + 1] /\ UNCHANGED btRes
  /\ UNCHANGED <<btRows, btStat>>

\* The interval, every 3 seconds while a run of the list is active; it does
\* not wait for the answer before it.
PollRuns ==
  /\ bt.open /\ \E r \in RunIds : bt.list[r] \in BtActive
  /\ Cardinality(btLists) < MaxLists /\ AskList \notin btLists
  /\ btLists' = btLists \cup {AskList}
  /\ UNCHANGED <<btRows, bt, btRes, btStat>>

\* What a row of the list shows besides symbol and dates.
RowShows(r) ==
  CASE bt.list[r] = "running" -> {"status", "progress"}
    [] bt.list[r] = "completed" -> {"status", "return"}
    [] OTHER -> {"status"}

-----------------------------------------------------------------------------
(* A submission *)

Unused == {r \in RunIds : btRows[r].status = "absent"}
NextRun == CHOOSE r \in Unused : \A u \in Unused : r <= u

SubmitForm ==
  /\ bt.open /\ ~bt.busy /\ Unused # {}
  /\ bt' = [bt EXCEPT !.busy = TRUE]
  /\ UNCHANGED <<btRows, btRes, btLists, btStat>>

\* submit_run stores the row and starts its job; the answer is the new run,
\* which is put into the list and selected, or it is lost.
PostArrives(ok) ==
  /\ bt.busy /\ (ok \/ Mishap(1))
  /\ LET r == NextRun
     IN /\ btRows' = [btRows EXCEPT ![r] = [status |-> "pending", job |-> TRUE]]
        /\ IF ok /\ bt.open
           THEN /\ bt' = [bt EXCEPT !.busy = FALSE, !.list[r] = "pending", !.sel = r,
                                    !.seen = "pending"]
                /\ btRes' = NoResults
           ELSE /\ bt' = [bt EXCEPT !.busy = FALSE, !.mishaps = IF ok THEN @ ELSE @ + 1]
                /\ UNCHANGED btRes
  /\ UNCHANGED <<btLists, btStat>>

-----------------------------------------------------------------------------
(* The analytics page *)

\* The link is on the results of a completed run; the answers the page under
\* it still waits for are dropped, a form that is submitting goes on alone.
OpenAnalytics ==
  /\ ShowsTabs /\ ~bt.busy
  /\ btStat' = [NoStat EXCEPT !.run = bt.sel, !.load = "loading", !.waits = TRUE]
  /\ bt' = [bt EXCEPT !.open = FALSE] /\ btLists' = {} /\ btRes' = NoResults
  /\ UNCHANGED btRows

CloseAnalytics ==
  /\ btStat.load # "none" /\ btStat' = NoStat
  /\ UNCHANGED <<btRows, bt, btRes, btLists>>

LoadEnd(ok) == IF ok THEN "loaded" ELSE "error"

\* Six requests, one answer: all of them or an error.
AnalyticsArrive(ok) ==
  /\ btStat.waits /\ (ok \/ Mishap(1))
  /\ btStat' = [btStat EXCEPT !.load = LoadEnd(ok), !.waits = FALSE]
  /\ bt' = [bt EXCEPT !.mishaps = IF ok THEN @ ELSE @ + 1]
  /\ UNCHANGED <<btRows, btRes, btLists>>

AskedMetric(m) == m

PickMetric(m) ==
  /\ btStat.load = "loaded" /\ m # btStat.metric
  /\ btStat' = [btStat EXCEPT !.metric = m, !.asked = @ \cup {AskedMetric(m)},
                              !.overlap = @ \/ btStat.asked # {}]
  /\ UNCHANGED <<btRows, bt, btRes, btLists>>

\* The answer is shown, whichever metric is selected by now.
MapArrives(m, ok) ==
  /\ m \in btStat.asked /\ (ok \/ Mishap(1))
  /\ btStat' = [btStat EXCEPT !.asked = @ \ {m}, !.map = IF ok THEN m ELSE @]
  /\ bt' = [bt EXCEPT !.mishaps = IF ok THEN @ ELSE @ + 1]
  /\ UNCHANGED <<btRows, btRes, btLists>>

\* The chart under the tables loads its candles when it is first opened (the
\* request is answered at once here).
ToggleChart(ok) ==
  /\ btStat.load = "loaded"
  /\ btStat' = [btStat EXCEPT !.chart = ~@, !.candles = @ \/ (~btStat.chart /\ ok)]
  /\ UNCHANGED <<btRows, bt, btRes, btLists>>

\* The heatmap colours its values by the metric picked, whichever they are of.
HeatmapShows == [coloured_by |-> btStat.metric, values_of |-> btStat.map]

\* The parts of the page below its header.
StatShows ==
  CASE btStat.load = "loaded" -> {"kpis", "heatmap", "combinations", "patterns"}
    [] btStat.load = "loading" -> {"loading"}
    [] OTHER -> {"error"}

-----------------------------------------------------------------------------
BtJob == \E r \in RunIds : JobRuns(r) \/ \E s \in BtEnded : JobEnds_(r, s)
BtAnswers ==
  \/ \E p \in Parts, r \in RunIds, b \in BOOLEAN : PartArrives(p, r, b)
  \/ \E l \in btLists : ListServed(l) \/ \E b \in BOOLEAN : ListArrives(l, b)
BtSubmits == \E b \in BOOLEAN : PostArrives(b)
BtUser ==
  \/ OpenRuns \/ \E r \in RunIds : SelectRun(r)
  \/ \E t \in Tabs : SelectTab(t)
  \/ \E p \in 0 .. Pages : TurnPage(p)
  \/ ClickTrade \/ SubmitForm
BtAnalytics ==
  \/ OpenAnalytics \/ CloseAnalytics \/ \E m \in Metrics : PickMetric(m)
  \/ \E b \in BOOLEAN : AnalyticsArrive(b) \/ ToggleChart(b) \/ \E m \in Metrics : MapArrives(m, b)
BtNext == BtJob \/ BtRestart \/ BtAnswers \/ PollRuns \/ BtSubmits \/ BtUser \/ BtAnalytics

BtSpec == BtInit /\ [][BtNext]_btVars

-----------------------------------------------------------------------------
\* What the results show, and wait for, is of the selected run.
ResultsAreOfSelected ==
  /\ \A p \in Parts : btRes.part[p] \in {NoRun, bt.sel}
  /\ \A a \in btRes.asked : a[2] = bt.sel

\* With no answer outstanding the heatmap is of the selected metric (no answer
\* was lost, and no two were under way at a time).
HeatmapIsOfMetric ==
  btStat.asked = {} /\ ~btStat.overlap /\ bt.mishaps = 0 => btStat.map = btStat.metric

=============================================================================

------------------------------ MODULE RunForms ------------------------------
(***************************************************************************)
(* The two forms that start a run: the backtest form                       *)
(* (src/frontend/src/components/backtest/backtest-config-form.tsx) and the *)
(* form of a parameter sweep (app/backtest/optimize/new/page.tsx) with its *)
(* helpers (lib/optimize-utils.ts); and the table of a sweep's results     *)
(* (app/backtest/optimize/[id]/page.tsx), its sorting and its pages.       *)
(***************************************************************************)
EXTENDS Integers, FiniteSets, Folds

CONSTANTS
  Plans, NoPlan,           \* strategies, and none selected
  PrimaryOf, ContextsOf,   \* primary timeframe and context timeframes of each
  ParamsOf,                \* numeric parameters of its registry entry, {} without one
  Ints,                    \* those that are of type int
  Settings, Default,       \* what the user may enter in a row, in tenths; what is there first
  Cap, MaxCombos,          \* values of a range (50), combinations of a sweep (100000)
  SortKeys, FirstKey,      \* columns the table can be sorted by
  TablePages,              \* pages of the table
  MaxFormMishaps           \* bound: requests that fail or are lost

ASSUME FormAssumption ==
  /\ NoPlan \notin Plans /\ Cap \in Nat /\ MaxCombos \in Nat /\ FirstKey \in SortKeys
  /\ TablePages \in Nat \ {0} /\ MaxFormMishaps \in Nat

VARIABLES
  runForm,   \* the form that is open
  fetching,  \* strategies whose registry entry is being fetched
  posted,    \* what the submission under way sends
  sweepTable \* the table: what is selected, what is shown, what is asked for
runFormVars == <<runForm, fetching, posted, sweepTable>>

NoParamRows == [of |-> NoPlan, on |-> {}, entry |-> <<>>]
ClosedForm == [kind |-> "none", plan |-> NoPlan, main |-> FALSE, ctx |-> {}, rows |-> NoParamRows,
               busy |-> "no", stale |-> FALSE, overlap |-> FALSE, mishaps |-> 0]
NothingPosted == [least |-> 0, total |-> 0]
ClosedTable == [open |-> FALSE, key |-> FirstKey, desc |-> TRUE, page |-> 1, shown |-> <<>>,
                asked |-> {}, overlap |-> FALSE, qualified |-> FALSE, mishaps |-> 0]

RunFormInit ==
  /\ runForm = ClosedForm /\ fetching = {} /\ posted = NothingPosted /\ sweepTable = ClosedTable

-----------------------------------------------------------------------------
(* Numbers, in tenths *)

Round(x) == ((x + 5) \div 10) * 10

\* generateRange: values are pushed while they are not over the maximum, at
\* most Cap + 1 of them whatever the step, and duplicates are dropped.
GenerateRange(min, max, step, int) ==
  LET pushed == {k \in 0 .. Cap : \A j \in 0 .. k : min + j * step <= max}
  IN {IF int THEN Round(min + k * step) ELSE min + k * step : k \in pushed}

\* How many values a row stands for; parseList truncates and keeps duplicates.
Values(setting, int) ==
  IF setting.mode = "range"
  THEN Cardinality(GenerateRange(setting.min, setting.max, setting.step, int))
  ELSE setting.count

\* computedCombinations: a row without values counts as one.
Combinations(on, entry) ==
  LET times(m, n) == m * n
      count(q) == LET n == Values(entry[q], q \in Ints) IN IF n = 0 THEN 1 ELSE n
      first(S) == CHOOSE q \in S : TRUE
  IN MapThenFoldSet(times, 1, count, first, on)

-----------------------------------------------------------------------------
(* Choosing a strategy and its files *)

\* The context timeframes that get a file input: not the primary one.
ContextTfs(p) == IF p = NoPlan THEN {} ELSE ContextsOf[p] \ {PrimaryOf[p]}

OpenForm(kind) ==
  /\ runForm.kind = "none" /\ ~sweepTable.open
  /\ runForm' = [ClosedForm EXCEPT !.kind = kind, !.mishaps = runForm.mishaps]
  /\ UNCHANGED <<fetching, posted, sweepTable>>

\* Leaving (Cancel, Back): answers to the page are dropped.
CloseForm ==
  /\ runForm.kind # "none" /\ runForm.busy = "no"
  /\ runForm' = [ClosedForm EXCEPT !.mishaps = runForm.mishaps] /\ fetching' = {}
  /\ UNCHANGED <<posted, sweepTable>>

\* Bug variant: the files stay.
PlanChangedKeeps(p) ==
  [runForm EXCEPT !.plan = p, !.rows = IF ParamsOf[p] = {} THEN NoParamRows ELSE @]

\* The effect of the sweep form: context files are dropped, and the rows of
\* a strategy without registry entry.
PlanChanged(p) ==
  [runForm EXCEPT !.plan = p, !.ctx = {}, !.rows = IF ParamsOf[p] = {} THEN NoParamRows ELSE @]

\* The backtest form keeps the files that were chosen for the former strategy.
PickPlan(p) ==
  /\ runForm.kind # "none" /\ p # runForm.plan
  /\ IF runForm.kind = "sweep"
     THEN /\ fetching' = IF ParamsOf[p] = {} THEN fetching ELSE fetching \cup {p}
          /\ runForm' = [PlanChanged(p) EXCEPT !.overlap = @ \/ fetching # {}]
     ELSE /\ runForm' = [runForm EXCEPT !.plan = p, !.stale = @ \/ runForm.ctx # {}]
          /\ UNCHANGED fetching
  /\ UNCHANGED <<posted, sweepTable>>

\* Rows for the numeric parameters, none of them enabled.
NewRows(p) ==
  [of |-> p, on |-> {}, entry |-> [q \in ParamsOf[p] |-> Default]]

\* The answer of the registry for p, whatever is selected by now; a failure is
\* ignored and leaves the rows of the former strategy.
RegistryArrives(p, ok) ==
  /\ p \in fetching /\ (ok \/ runForm.mishaps < MaxFormMishaps)
  /\ fetching' = fetching \ {p}
  /\ runForm' = [runForm EXCEPT !.rows = IF ok THEN NewRows(p) ELSE @,
                                !.mishaps = IF ok THEN @ ELSE @ + 1]
  /\ UNCHANGED <<posted, sweepTable>>

\* A main file sets the dates too, when parseMt5CsvDates finds some in it.
PickMain ==
  /\ runForm.kind # "none" /\ runForm' = [runForm EXCEPT !.main = ~@]
  /\ UNCHANGED <<fetching, posted, sweepTable>>

PickContext(tf) ==
  /\ runForm.kind # "none" /\ tf \in ContextTfs(runForm.plan)
  /\ runForm' = [runForm EXCEPT !.ctx = IF tf \in @ THEN @ \ {tf} ELSE @ \cup {tf}]
  /\ UNCHANGED <<fetching, posted, sweepTable>>

\* The sections that depend on the strategy, its rows and the files.
FormSections ==
  (IF runForm.kind = "backtest" /\ runForm.main THEN {"average spread"} ELSE {"spread"})
    \cup (IF ContextTfs(runForm.plan) = {} THEN {} ELSE {"context files"})
    \cup (IF runForm.rows = NoParamRows THEN {} ELSE {"parameter sweep"})

-----------------------------------------------------------------------------
(* The rows of a sweep *)

ToggleRow(q) ==
  /\ "parameter sweep" \in FormSections /\ q \in DOMAIN runForm.rows.entry
  /\ runForm' = [runForm EXCEPT !.rows.on = IF q \in @ THEN @ \ {q} ELSE @ \cup {q}]
  /\ UNCHANGED <<fetching, posted, sweepTable>>

EnterRow(q, setting) ==
  /\ q \in runForm.rows.on /\ setting # runForm.rows.entry[q]
  /\ runForm' = [runForm EXCEPT !.rows.entry[q] = setting]
  /\ UNCHANGED <<fetching, posted, sweepTable>>

-----------------------------------------------------------------------------
(* Submitting *)

\* What handleSubmit checks, in this order; the message is shown.
Refusal ==
  CASE runForm.plan = NoPlan -> "select a strategy"
    [] runForm.kind = "backtest" -> "none"
    [] runForm.rows.on = {} -> "enable a parameter"
    [] \E q \in runForm.rows.on : Values(runForm.rows.entry[q], q \in Ints) = 0 -> "no values"
    [] Combinations(runForm.rows.on, runForm.rows.entry) > MaxCombos -> "too many"
    [] OTHER -> "none"

\* The request is built from the state of this render: what is edited while
\* it is under way is not sent.  Its grid: the shortest list of values and the
\* number of combinations.
FormRequest ==
  LET count(q) == Values(runForm.rows.entry[q], q \in Ints)
  IN [least |-> IF runForm.rows.on = {} THEN 0
                ELSE CHOOSE n \in {count(q) : q \in runForm.rows.on} :
                       \A q \in runForm.rows.on : n <= count(q),
      total |-> Combinations(runForm.rows.on, runForm.rows.entry)]

SubmitRunForm ==
  /\ runForm.kind # "none" /\ runForm.busy = "no"
  /\ IF Refusal = "none"
     THEN /\ runForm' = [runForm EXCEPT !.busy = IF runForm.main \/ runForm.ctx # {} THEN "upload" ELSE "post"]
          /\ posted' = FormRequest
     ELSE UNCHANGED <<runForm, posted>>
  /\ UNCHANGED <<fetching, sweepTable>>

\* The message is shown and the button works again.
SubmissionFailed == [runForm EXCEPT !.busy = "no", !.mishaps = @ + 1]

\* The files are uploaded one after the other; the first that fails ends it.
FilesUploaded(ok) ==
  /\ runForm.busy = "upload" /\ (ok \/ runForm.mishaps < MaxFormMishaps)
  /\ runForm' = IF ok THEN [runForm EXCEPT !.busy = "post"] ELSE SubmissionFailed
  /\ posted' = IF ok THEN posted ELSE NothingPosted
  /\ UNCHANGED <<fetching, sweepTable>>

\* The backtest form stays; the sweep form leaves for the page of the run.
FormPosted(ok) ==
  /\ runForm.busy = "post" /\ (ok \/ runForm.mishaps < MaxFormMishaps)
  /\ runForm' = IF ~ok THEN SubmissionFailed
                ELSE IF runForm.kind = "sweep" THEN [ClosedForm EXCEPT !.mishaps = runForm.mishaps]
                ELSE [runForm EXCEPT !.busy = "no"]
  /\ fetching' = IF ok /\ runForm.kind = "sweep" THEN {} ELSE fetching
  /\ posted' = NothingPosted /\ UNCHANGED sweepTable

-----------------------------------------------------------------------------
(* The table of the results *)

TableSelected == <<sweepTable.key, sweepTable.desc, sweepTable.page>>

OpenTable ==
  /\ runForm.kind = "none" /\ ~sweepTable.open
  /\ sweepTable' = [ClosedTable EXCEPT !.open = TRUE, !.asked = {<<FirstKey, TRUE, 1>>},
                                       !.mishaps = sweepTable.mishaps]
  /\ UNCHANGED <<runForm, fetching, posted>>

CloseTable ==
  /\ sweepTable.open /\ sweepTable' = [ClosedTable EXCEPT !.mishaps = sweepTable.mishaps]
  /\ UNCHANGED <<runForm, fetching, posted>>

AskedTable(key, desc, page) == {<<key, desc, page>>}

Ask(key, desc, page) ==
  /\ sweepTable' = [sweepTable EXCEPT !.key = key, !.desc = desc, !.page = page,
                      !.asked = @ \cup AskedTable(key, desc, page),
                      !.overlap = @ \/ sweepTable.asked # {}]
  /\ UNCHANGED <<runForm, fetching, posted>>

\* toggleSort: the same column turns the order around and keeps the page,
\* another one starts with its first page, highest value first.
ToggleSort(key) ==
  /\ sweepTable.open
  /\ IF key = sweepTable.key THEN Ask(key, ~sweepTable.desc, sweepTable.page) ELSE Ask(key, TRUE, 1)

TurnTablePage(page) ==
  /\ sweepTable.open /\ sweepTable.shown # <<>>
  /\ page \in {sweepTable.page - 1, sweepTable.page + 1} \cap (1 .. TablePages)
  /\ Ask(sweepTable.key, sweepTable.desc, page)

ToggleQualified ==
  /\ sweepTable.open /\ sweepTable' = [sweepTable EXCEPT !.qualified = ~@]
  /\ UNCHANGED <<runForm, fetching, posted>>

\* The answer is shown, whatever is selected by now.
TableArrives(a, ok) ==
  /\ a \in sweepTable.asked /\ (ok \/ sweepTable.mishaps < MaxFormMishaps)
  /\ sweepTable' = [sweepTable EXCEPT !.asked = @ \ {a}, !.shown = IF ok THEN a ELSE @,
                                      !.mishaps = IF ok THEN @ ELSE @ + 1]
  /\ UNCHANGED <<runForm, fetching, posted>>

\* qualityScore: the thresholds a result passes; a missing value passes none.
Thresholds == [sharpe |-> 15, pf |-> 17, wins |-> 55, recovery |-> 20, gain |-> 10, trades |-> 20]
QualityScore(metrics, drawdown) ==
  Cardinality({t \in DOMAIN Thresholds \cap DOMAIN metrics : metrics[t] >= Thresholds[t]})
    + (IF drawdown <= 20 THEN 1 ELSE 0)

\* The trophy marks the first row of the first page.
IsBest(i) == sweepTable.page = 1 /\ i = 1

-----------------------------------------------------------------------------
RunFormNext ==
  \/ \E k \in {"backtest", "sweep"} : OpenForm(k)
  \/ CloseForm \/ PickMain \/ SubmitRunForm
  \/ \E p \in Plans : PickPlan(p) \/ \E b \in BOOLEAN : RegistryArrives(p, b)
  \/ \E tf \in UNION {ContextsOf[p] : p \in Plans} : PickContext(tf)
  \/ \E q \in UNION {ParamsOf[p] : p \in Plans} : ToggleRow(q) \/ \E s \in Settings : EnterRow(q, s)
  \/ \E b \in BOOLEAN : FilesUploaded(b) \/ FormPosted(b)
  \/ OpenTable \/ CloseTable \/ ToggleQualified
  \/ \E k \in SortKeys : ToggleSort(k)
  \/ \E n \in 1 .. TablePages : TurnTablePage(n)
  \/ \E a \in sweepTable.asked, b \in BOOLEAN : TableArrives(a, b)

RunFormSpec == RunFormInit /\ [][RunFormNext]_runFormVars

-----------------------------------------------------------------------------
\* The files that are sent are for context timeframes of the strategy they are
\* sent with (in the backtest form, while the strategy was not changed after
\* a file had been chosen).
FilesAreOfStrategy == ~runForm.stale => runForm.ctx \subseteq ContextTfs(runForm.plan)

\* The rows are the parameters of the selected strategy once the registry has
\* answered (no answer failed, and no two were under way at a time).
RowsAreOfStrategy ==
  runForm.kind = "sweep" /\ runForm.plan # NoPlan /\ fetching = {} /\ runForm.mishaps = 0
    /\ ~runForm.overlap =>
      IF ParamsOf[runForm.plan] = {} THEN runForm.rows = NoParamRows ELSE runForm.rows.of = runForm.plan

\* "Reduce ranges to <= 100000" (new/page.tsx:183): a sweep that is sent has a
\* value for each of its parameters and no more combinations than allowed.
PostedGridIsSound ==
  runForm.kind = "sweep" /\ runForm.busy # "no" =>
    posted.least > 0 /\ posted.total <= MaxCombos

\* A range that runs upwards stays within its whole bounds and reaches its
\* maximum when the steps meet it.
RangesReachTheirEnd ==
  \A q \in DOMAIN runForm.rows.entry :
    LET row == runForm.rows.entry[q]
        vals == GenerateRange(row.min, row.max, row.step, FALSE)
    IN row.mode = "range" /\ row.step > 0 /\ row.min <= row.max =>
         /\ \A v \in vals : row.min <= v /\ v <= row.max
         /\ (row.max - row.min) % row.step = 0 /\ (row.max - row.min) \div row.step <= Cap =>
              row.max \in vals

\* With no answer outstanding the table is what is selected (no answer was
\* lost, and no two were under way at a time).
TableIsAsSelected ==
  sweepTable.open /\ sweepTable.asked = {} /\ ~sweepTable.overlap /\ sweepTable.mishaps = 0 =>
    sweepTable.shown = TableSelected

=============================================================================

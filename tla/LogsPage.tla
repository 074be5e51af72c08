------------------------------ MODULE LogsPage ------------------------------
(***************************************************************************)
(* The pipeline logs (src/frontend/src/app/logs/page.tsx, components/logs/ *)
(* pipeline-runs-list.tsx, pipeline-run-detail.tsx, pipeline-step-card.tsx)*)
(* against the tracer that writes them (services/pipeline_tracer.py).      *)
(* The list comes over HTTP and is kept up to date by the socket; the run  *)
(* that is live is shown from the socket, any other from the database.     *)
(***************************************************************************)
EXTENDS Naturals, FiniteSets, SequencesExt

CONSTANTS
  LogRuns,      \* ids of pipeline runs, positive numbers
  StepKinds,    \* what a step may be: "llm", "gate", "vote", "error", "silent"
  MaxSteps, MaxLgLoads, MaxLgMishaps  \* bounds: steps of a run; lists under way; losses and failures

ASSUME LogsAssumption == IsFiniteSet(LogRuns) /\ LogRuns \subseteq Nat \ {0} /\ MaxSteps \in Nat

VARIABLES
  lgRuns,   \* the database: [status, steps] of each run
  lgWire,   \* the socket: events sent and not handled, in order
  lg,       \* the page
  lgLoads,  \* filters of the lists under way
  lgGets,   \* runs whose detail is under way
  lgRetry   \* the retry of the panel: "idle", "running" or "failed"
lgVars == <<lgRuns, lgWire, lg, lgLoads, lgGets, lgRetry>>

Unselected == [id |-> 0, status |-> "none"]
StatusFilters == {"all", "completed"}

LgInit ==
  /\ lgRuns = [r \in LogRuns |-> [status |-> "none", steps |-> <<>>]] /\ lgWire = <<>>
  /\ lg = [filter |-> "all", list |-> <<>>, loading |-> TRUE, sel |-> Unselected, live |-> 0,
           steps |-> <<>>, detail |-> <<>>, reading |-> FALSE, failed |-> FALSE,
           caught |-> {}, overlap |-> FALSE, mishaps |-> 0]
  /\ lgLoads = {"all"} /\ lgGets = {} /\ lgRetry = "idle"

LgMishap(ok) == ok \/ lg.mishaps < MaxLgMishaps
LgCount(ok) == IF ok THEN lg.mishaps ELSE lg.mishaps + 1

-----------------------------------------------------------------------------
(* The tracer: every step is committed, then broadcast *)

StartRun(r) ==
  /\ lgRuns[r].status = "none" /\ \A q \in LogRuns : q < r => lgRuns[q].status # "none"
  /\ lgRuns' = [lgRuns EXCEPT ![r].status = "running"]
  /\ lgWire' = Append(lgWire, [kind |-> "started", run |-> r])
  /\ UNCHANGED <<lg, lgLoads, lgGets, lgRetry>>

StepOf(r, k) == [run |-> r, seq |-> Len(lgRuns[r].steps) + 1, kind |-> k]

RecordStep(r, k) ==
  /\ lgRuns[r].status = "running" /\ Len(lgRuns[r].steps) < MaxSteps
  /\ lgRuns' = [lgRuns EXCEPT ![r].steps = Append(@, StepOf(r, k))]
  /\ lgWire' = Append(lgWire, [kind |-> "step", run |-> r, step |-> StepOf(r, k)])
  /\ UNCHANGED <<lg, lgLoads, lgGets, lgRetry>>

\* finalize: completed, hold and skipped are one here.
EndRun(r) ==
  /\ lgRuns[r].status = "running"
  /\ lgRuns' = [lgRuns EXCEPT ![r].status = "completed"]
  /\ lgWire' = Append(lgWire, [kind |-> "complete", run |-> r])
  /\ UNCHANGED <<lg, lgLoads, lgGets, lgRetry>>

\* A run that raises has its exception as a last step; no completion is sent.
RunRaises(r) ==
  LET step == StepOf(r, "error")
  IN /\ lgRuns[r].status = "running" /\ lg.mishaps < MaxLgMishaps
     /\ lgRuns' = [lgRuns EXCEPT ![r] = [status |-> "failed", steps |-> Append(@.steps, step)]]
     /\ lgWire' = Append(lgWire, [kind |-> "step", run |-> r, step |-> step])
     /\ lg' = [lg EXCEPT !.mishaps = @ + 1]
     /\ UNCHANGED <<lgLoads, lgGets, lgRetry>>

\* The link drops: what was on its way is lost.
LogLinkDrops ==
  /\ lgWire # <<>> /\ lg.mishaps < MaxLgMishaps
  /\ lgWire' = <<>> /\ lg' = [lg EXCEPT !.caught = {}, !.mishaps = @ + 1]
  /\ UNCHANGED <<lgRuns, lgLoads, lgGets, lgRetry>>

-----------------------------------------------------------------------------
(* The panel reads the database unless its run is live *)

IsLive(page) == page.sel # Unselected /\ page.sel.id = page.live

\* The effect on the run and on whether it is live.
PanelReads(page) ==
  /\ page.sel # Unselected /\ ~IsLive(page)
  /\ page.sel.id # lg.sel.id \/ IsLive(lg)

PanelBecomes(page) ==
  IF PanelReads(page)
    THEN /\ lg' = [page EXCEPT !.reading = TRUE, !.detail = <<>>, !.failed = FALSE, !.overlap = lgGets # {}]
         /\ lgGets' = lgGets \cup {page.sel.id}
    ELSE /\ lg' = IF IsLive(page) /\ ~IsLive(lg) THEN [page EXCEPT !.reading = FALSE] ELSE page
         /\ UNCHANGED lgGets

ShowRun(row) ==
  /\ ~lg.loading /\ \E i \in DOMAIN lg.list : lg.list[i] = row
  /\ PanelBecomes([lg EXCEPT !.sel = row])
  /\ UNCHANGED <<lgRuns, lgWire, lgLoads, lgRetry>>

DetailArrives(r, ok) ==
  /\ r \in lgGets /\ LgMishap(ok)
  /\ lgGets' = lgGets \ {r}
  /\ lg' = [lg EXCEPT !.reading = FALSE, !.detail = IF ok THEN lgRuns[r].steps ELSE @,
                      !.failed = ~ok, !.mishaps = LgCount(ok)]
  /\ UNCHANGED <<lgRuns, lgWire, lgLoads, lgRetry>>

-----------------------------------------------------------------------------
(* The handlers of the socket's events *)

RowAt(list, r) == SelectInSeq(list, LAMBDA row : row.id = r)

\* A run that started: first in the list, unless the list has it already.
Prepended(list, row) == IF RowAt(list, row.id) # 0 THEN list ELSE <<row>> \o list

\* A run that ended takes the place of its row, or is put first.
Replaced(list, row) ==
  IF RowAt(list, row.id) # 0 THEN [list EXCEPT ![RowAt(list, row.id)] = row] ELSE <<row>> \o list

\* Bug variant: the steps of the run that was live are kept.
OnStartedKeeps(r) ==
  [lg EXCEPT !.live = r, !.list = Prepended(@, [id |-> r, status |-> "running"]), !.caught = {r}]

OnStarted(r) ==
  [lg EXCEPT !.live = r, !.steps = <<>>, !.list = Prepended(@, [id |-> r, status |-> "running"]),
             !.caught = {r}]

OnStep(s) == IF lg.live = s.run THEN [lg EXCEPT !.steps = Append(@, s)] ELSE lg

OnComplete(r) ==
  [lg EXCEPT !.live = IF @ = r THEN 0 ELSE @, !.list = Replaced(@, [id |-> r, status |-> "completed"])]

Deliver ==
  /\ lgWire # <<>> /\ lgWire' = Tail(lgWire)
  /\ LET e == Head(lgWire)
     IN PanelBecomes(CASE e.kind = "started" -> OnStarted(e.run)
                       [] e.kind = "step" -> OnStep(e.step)
                       [] OTHER -> OnComplete(e.run))
  /\ UNCHANGED <<lgRuns, lgLoads, lgRetry>>

-----------------------------------------------------------------------------
(* The list *)

\* GET /pipeline/runs: those of the status asked for, newest first.
NewestFirst(runs) ==
  CHOOSE list \in [1 .. Cardinality(runs) -> runs] : \A i, j \in DOMAIN list : i < j => list[i] > list[j]

RunsListed(f) ==
  LET newest == NewestFirst({r \in LogRuns : lgRuns[r].status # "none" /\ f \in {"all", lgRuns[r].status}})
  IN [i \in DOMAIN newest |-> [id |-> newest[i], status |-> lgRuns[newest[i]].status]]

FilterRuns(f) ==
  /\ f # lg.filter /\ f \notin lgLoads /\ Cardinality(lgLoads) < MaxLgLoads
  /\ lg' = [lg EXCEPT !.filter = f, !.loading = TRUE] /\ lgLoads' = lgLoads \cup {f}
  /\ UNCHANGED <<lgRuns, lgWire, lgGets, lgRetry>>

RunsArrive(f, ok) ==
  /\ f \in lgLoads /\ LgMishap(ok)
  /\ lgLoads' = lgLoads \ {f}
  /\ lg' = [lg EXCEPT !.list = IF ok THEN RunsListed(f) ELSE @, !.loading = FALSE, !.mishaps = LgCount(ok)]
  /\ UNCHANGED <<lgRuns, lgWire, lgGets, lgRetry>>

ListSays ==
  IF lg.loading THEN "skeleton" ELSE IF lg.list = <<>> THEN "No runs found." ELSE "runs"

-----------------------------------------------------------------------------
(* What the panel shows, and the retry it offers *)

ShownSteps == IF IsLive(lg) THEN lg.steps ELSE lg.detail
PanelStatus == IF IsLive(lg) THEN "running" ELSE lg.sel.status
StepsSay ==
  IF lg.reading THEN "skeleton"
  ELSE IF ShownSteps # <<>> THEN "steps"
  ELSE IF IsLive(lg) THEN "Waiting for first step" ELSE "Failed to load steps."

\* A step that erred, or whose output tells of a pipeline error.
StepFailed(s) == s.kind \in {"error", "silent"}
HasFailure == lg.sel.status = "failed" \/ \E i \in DOMAIN ShownSteps : StepFailed(ShownSteps[i])
CanRetry == lg.sel # Unselected /\ ~IsLive(lg) /\ HasFailure

\* The parts of a step's card below its line.
StepShows(s) ==
  (IF StepFailed(s) /\ CanRetry THEN {"retry"} ELSE {})
    \cup CASE s.kind = "llm" -> {"model", "tokens", "cost"}
           [] s.kind = "gate" -> {"confidence against threshold"}
           [] s.kind = "vote" -> {"votes of the agents"}
           [] s.kind = "error" -> {"error"}
           [] OTHER -> {"input", "output"}

\* The price of a model: its provider's if there is one, else of any provider.
PriceOf(prices, provider, model) ==
  LET own == {p \in prices : p.model = model /\ p.provider = provider}
      named == {p \in prices : p.model = model}
  IN IF own # {} THEN own ELSE named

\* The backend runs the pipeline anew, and answers when that run has ended.
RetryRun ==
  /\ CanRetry /\ lgRetry # "running"
  /\ lgRetry' = "running"
  /\ UNCHANGED <<lgRuns, lgWire, lg, lgLoads, lgGets>>

RetryEnds(ok) ==
  /\ lgRetry = "running" /\ LgMishap(ok)
  /\ lgRetry' = IF ok THEN "idle" ELSE "failed"
  /\ lg' = [lg EXCEPT !.mishaps = LgCount(ok)]
  /\ UNCHANGED <<lgRuns, lgWire, lgLoads, lgGets>>

-----------------------------------------------------------------------------
Tracer ==
  \/ \E r \in LogRuns : StartRun(r) \/ RunRaises(r) \/ EndRun(r)
  \/ \E r \in LogRuns, k \in StepKinds : RecordStep(r, k)
LgUser ==
  \/ \E i \in DOMAIN lg.list : ShowRun(lg.list[i])
  \/ (\E f \in StatusFilters : FilterRuns(f)) \/ RetryRun
LgAnswers ==
  \E ok \in BOOLEAN : 
    \/ (\E f \in lgLoads : RunsArrive(f, ok)) \/ (\E r \in lgGets : DetailArrives(r, ok))
    \/ RetryEnds(ok)
LgNext == Tracer \/ LgUser \/ LgAnswers \/ Deliver \/ LogLinkDrops
LgSpec == LgInit /\ [][LgNext]_lgVars

-----------------------------------------------------------------------------
\* No run is in the list twice, whichever of the list's answer and the events
\* of its start and end came first (pipeline-runs-list.tsx: "Guard: if complete
\* event already arrived before started (race), don't add duplicate").
NoDoubleRows ==
  \A i, j \in DOMAIN lg.list : i # j => lg.list[i].id # lg.list[j].id

\* The live trace holds steps of the live run only, each once and in order,
\* though other runs send theirs over the same socket and links drop.
TraceIsOfLiveRun ==
  lg.live # 0 => \A i \in DOMAIN lg.steps : /\ lg.steps[i].run = lg.live
                                            /\ i > 1 => lg.steps[i - 1].seq < lg.steps[i].seq

\* A run that was live when it ended is read again: once the answer has come
\* the panel has every step of it (if no other run started meanwhile, and no
\* read was still under way when it was asked for).
EndedRunIsWhole ==
  (/\ lg.sel.id \in lg.caught /\ lgWire = <<>> /\ lgGets = {} /\ ~lg.overlap /\ ~lg.failed
   /\ lg.live = 0)
    => ShownSteps = lgRuns[lg.sel.id].steps

\* What the logs page promises of the runs it follows.
TraceIsWhole == NoDoubleRows /\ TraceIsOfLiveRun /\ EndedRunIsWhole
=============================================================================

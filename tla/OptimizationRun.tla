--------------------------- MODULE OptimizationRun ---------------------------
(***************************************************************************)
(* One parameter sweep: its row, the background job that works it off in a *)
(* process pool (services/optimization_service.py), the routes that submit,*)
(* stop and resume it (api/routes/backtest/_optimize.py), the reset of     *)
(* interrupted runs at startup (main.py), and the page that follows it     *)
(* (src/frontend/src/app/backtest/optimize/[id]/page.tsx).                 *)
(***************************************************************************)
EXTENDS Naturals, FiniteSets

CONSTANTS
  Combos, Raising,  \* parameter combinations, numbered in order; those whose backtest raises
  PoolSize,         \* max_workers
  Batch,            \* partial results are saved every Batch combinations (10)
  MaxResumes, MaxMishaps  \* bounds

ASSUME SweepAssumption ==
  /\ IsFiniteSet(Combos) /\ Combos \subseteq Nat /\ Raising \subseteq Combos
  /\ PoolSize \in Nat \ {0} /\ Batch \in Nat \ {0} /\ MaxResumes \in Nat /\ MaxMishaps \in Nat

VARIABLES
  row,       \* the OptimizationRun row
  sweepJob,       \* OptimizationService.run, when there is one
  runPage,   \* the page's state
  gets,      \* its requests for the row, before and after they are served
  faults     \* resumes, and mishaps (restarts and lost answers), so far

sweepVars == <<row, sweepJob, runPage, gets, faults>>

Active == {"pending", "running", "cancelling"}
Ended == {"completed", "cancelled", "failed"}
None == [c \in Combos |-> 0]
Has(bag) == {c \in Combos : bag[c] > 0}
NoJob == [phase |-> "none", resume |-> FALSE, todo |-> {}, pending |-> {}, results |-> None,
          count |-> 0, cancel |-> FALSE]
NoPage == [open |-> FALSE, run |-> "none", all |-> FALSE, stop |-> "no", resume |-> "no",
           loading |-> FALSE, table |-> {}]

SweepInit ==
  /\ row = [status |-> "none", completed |-> 0, results |-> None]
  /\ sweepJob = NoJob /\ runPage = NoPage /\ gets = {}
  /\ faults = [resumes |-> 0, mishaps |-> 0]

-----------------------------------------------------------------------------
(* The routes *)

SubmitRun ==
  /\ row.status = "none"
  /\ row' = [row EXCEPT !.status = "pending"]
  /\ sweepJob' = [NoJob EXCEPT !.phase = "queued"]
  /\ UNCHANGED <<runPage, gets, faults>>

CancelTakes == row.status \in {"pending", "running"}
ResumeTakes == row.status = "cancelled" /\ faults.resumes < MaxResumes

-----------------------------------------------------------------------------
(* The job *)

\* Bug variant: a resumed job starts over, with the results it finds.
TodoAll(done) == Combos

\* What a job works off; the results of failed combinations are none, so they
\* are tried again.
Todo(done) == Combos \ done

\* The first combinations that fill the pool, and the next one of the iterator.
First(S) == {c \in S : Cardinality({d \in S : d < c}) < PoolSize}
NextCombo(S) == IF S = {} THEN {} ELSE {CHOOSE c \in S : \A d \in S : c <= d}

\* The job starts, whatever the row says by then, and may fail to load its
\* candles.  A resumed one keeps the results of the row and skips those
\* combinations.
JobStarts(ok) ==
  /\ sweepJob.phase = "queued"
  /\ LET kept == IF sweepJob.resume THEN row.results ELSE None
         todo == Todo(Has(kept))
         tried == Cardinality(Has(kept))
     IN IF ok
        THEN /\ row' = [row EXCEPT !.status = "running",
                                   !.completed = IF sweepJob.resume THEN tried ELSE @]
             /\ sweepJob' = [sweepJob EXCEPT !.phase = IF todo = {} THEN "saving" ELSE "working",
                                   !.pending = First(todo),
                                   !.todo = todo \ First(todo),
                                   !.results = kept, !.count = tried]
        ELSE row' = [row EXCEPT !.status = "failed"] /\ sweepJob' = NoJob
  /\ UNCHANGED <<runPage, gets, faults>>

\* Partial results are saved with every Batch-th combination.
Saved(results, count) ==
  IF count % Batch = 0 /\ results # None THEN results ELSE row.results

\* A combination ends; its result, if it has one, is kept, the pool is filled
\* up, progress and partial results are saved, and a stop request is noticed.
ComboEnds(c) ==
  /\ sweepJob.phase = "working" /\ c \in sweepJob.pending
  /\ LET results == IF c \in Raising THEN sweepJob.results ELSE [sweepJob.results EXCEPT ![c] = @ + 1]
         next == NextCombo(sweepJob.todo)
         pending == (sweepJob.pending \ {c}) \cup next
         stop == row.status = "cancelling"
     IN /\ row' = [row EXCEPT !.completed = sweepJob.count + 1,
                              !.results = Saved(results, sweepJob.count + 1)]
        /\ sweepJob' = [sweepJob EXCEPT !.results = results, !.count = @ + 1, !.cancel = stop,
                              !.pending = IF stop THEN {} ELSE pending, !.todo = @ \ next,
                              !.phase = IF stop \/ pending = {} THEN "saving" ELSE @]
  /\ UNCHANGED <<runPage, gets, faults>>

EndStatus == IF sweepJob.cancel THEN "cancelled" ELSE "completed"

\* Results and the final status are saved, over a stop request that came after
\* the last combination.
JobEnds ==
  /\ sweepJob.phase = "saving"
  /\ row' = [row EXCEPT !.status = EndStatus,
                        !.results = sweepJob.results,
                        !.completed = IF sweepJob.cancel THEN @ ELSE Cardinality(Combos)]
  /\ sweepJob' = NoJob
  /\ UNCHANGED <<runPage, gets, faults>>

\* The backend dies and starts again: the job is gone, a run that was started
\* counts as cancelled; one that was pending stays so.
Recovered(status) == IF status \in {"running", "cancelling"} THEN "cancelled" ELSE status

BackendRestarts ==
  /\ faults.mishaps < MaxMishaps
  /\ sweepJob' = NoJob
  /\ row' = [row EXCEPT !.status = Recovered(@)]
  /\ faults' = [faults EXCEPT !.mishaps = @ + 1]
  /\ UNCHANGED <<runPage, gets>>

-----------------------------------------------------------------------------
(* The page *)

Asks(by) == [by |-> by, status |-> "asked", all |-> FALSE]

PageOpens ==
  /\ ~runPage.open /\ row.status # "none" /\ gets = {}
  /\ runPage' = [NoPage EXCEPT !.open = TRUE] /\ gets' = {Asks("poll")}
  /\ UNCHANGED <<row, sweepJob, faults>>

\* The backend reads the row for a request.
GetServed(g) ==
  /\ g \in gets /\ g.status = "asked"
  /\ gets' = (gets \ {g}) \cup {[g EXCEPT !.status = row.status,
                                     !.all = row.completed >= Cardinality(Combos)]}
  /\ UNCHANGED <<row, sweepJob, runPage, faults>>

\* The effect that loads the results runs when the status that is shown
\* changes (the sort and the page of the table are left out).
ShowsResults(status) == status \in {"completed", "cancelled"}

Loads(status) == ShowsResults(status) /\ status # runPage.run

\* Lost answers are bounded.
Answered(ok) == ok \/ faults.mishaps < MaxMishaps
FaultsWith(ok) ==
  faults' = [faults EXCEPT !.mishaps = IF ok THEN @ ELSE @ + 1]

\* The answer is shown, and a button that waited for it works again.
GetArrives(g, ok) ==
  /\ Answered(ok) /\ g \in gets /\ g.status # "asked"
  /\ gets' = gets \ {g}
  /\ runPage' = [runPage EXCEPT !.run = IF ok THEN g.status ELSE @,
                                !.all = IF ok THEN g.all ELSE @,
                                !.loading = @ \/ (ok /\ Loads(g.status)),
                                !.stop = IF g.by = "stop" THEN "no" ELSE @,
                                !.resume = IF g.by = "resume" THEN "no" ELSE @]
  /\ FaultsWith(ok)
  /\ UNCHANGED <<row, sweepJob>>

\* Bug variant: the interval ends with a stop request.
PollsRunning == runPage.open /\ runPage.run \in {"pending", "running"}

\* The interval, every 2 seconds while the run shown is not over; one poll at
\* a time is under way here, next to the requests of the buttons.
Polls == runPage.open /\ runPage.run \in Active

PollAgain ==
  /\ Polls /\ \A g \in gets : g.by # "poll"
  /\ gets' = gets \cup {Asks("poll")}
  /\ UNCHANGED <<row, sweepJob, runPage, faults>>

\* The buttons and when they are offered.
OffersStop == runPage.run = "running" /\ runPage.stop = "no"
OffersResume == runPage.run = "cancelled" /\ ~runPage.all /\ runPage.resume = "no"

ClickStop ==
  /\ OffersStop /\ runPage' = [runPage EXCEPT !.stop = "posted"]
  /\ UNCHANGED <<row, sweepJob, gets, faults>>

ClickResume ==
  /\ OffersResume /\ runPage' = [runPage EXCEPT !.resume = "posted"]
  /\ UNCHANGED <<row, sweepJob, gets, faults>>

\* The badge of the run, and what is shown next to it and under it.
StatusBadge(status) == 
  CASE status = "cancelling" -> "Stopping" [] status = "cancelled" -> "Stopped" [] OTHER -> status
RunBlocks ==
  LET Results == IF runPage.loading THEN "loading" ELSE "table" IN
  CASE runPage.run \in Active -> {"progress"}
    [] runPage.run = "completed" -> {"total", "qualified filter", "best", Results}
    [] runPage.run = "cancelled" -> {"partial total", "qualified filter", Results}
    [] runPage.run = "failed" -> {"error"}
    [] OTHER -> {"spinner"}

\* handleStop and handleResume: the route does its work or refuses, and the
\* answer comes or is lost; without one the row is not read again.
StopPosted(answered) ==
  /\ Answered(answered) /\ runPage.stop = "posted"
  /\ row' = IF CancelTakes THEN [row EXCEPT !.status = "cancelling"] ELSE row
  /\ IF answered /\ CancelTakes
     THEN runPage' = [runPage EXCEPT !.stop = "refresh"] /\ gets' = gets \cup {Asks("stop")}
     ELSE runPage' = [runPage EXCEPT !.stop = "no"] /\ UNCHANGED gets
  /\ FaultsWith(answered)
  /\ UNCHANGED sweepJob

ResumeFails == runPage' = [runPage EXCEPT !.resume = "no"]

ResumePosted(answered) ==
  /\ Answered(answered) /\ runPage.resume = "posted"
  /\ IF ResumeTakes
     THEN /\ row' = [row EXCEPT !.status = "running"]
          /\ sweepJob' = [NoJob EXCEPT !.phase = "queued", !.resume = TRUE]
     ELSE UNCHANGED <<row, sweepJob>>
  /\ IF answered /\ ResumeTakes
     THEN runPage' = [runPage EXCEPT !.resume = "refresh"] /\ gets' = gets \cup {Asks("resume")}
     ELSE ResumeFails /\ UNCHANGED gets
  /\ faults' = [faults EXCEPT !.resumes = IF ResumeTakes THEN @ + 1 ELSE @,
                           !.mishaps = IF answered THEN @ ELSE @ + 1]

ResultsArrive(ok) ==
  /\ Answered(ok) /\ runPage.loading
  /\ runPage' = [runPage EXCEPT !.loading = FALSE, !.table = IF ok THEN Has(row.results) ELSE @]
  /\ FaultsWith(ok)
  /\ UNCHANGED <<row, sweepJob, gets>>

-----------------------------------------------------------------------------
JobStep == (\E b \in BOOLEAN : JobStarts(b)) \/ (\E c \in Combos : ComboEnds(c)) \/ JobEnds
PageWaits ==
  \/ \E g \in gets : GetServed(g) \/ \E b \in BOOLEAN : GetArrives(g, b)
  \/ \E b \in BOOLEAN : StopPosted(b) \/ ResumePosted(b)
SweepNext ==
  \/ SubmitRun \/ JobStep \/ BackendRestarts
  \/ PageOpens \/ PageWaits \/ PollAgain \/ ClickStop \/ ClickResume
  \/ \E b \in BOOLEAN : ResultsArrive(b)

\* Backtests end, requests are answered, and intervals fire.
SweepFairness ==
  /\ WF_sweepVars(JobStep) /\ WF_sweepVars(PollAgain)
  /\ WF_sweepVars(\E b \in BOOLEAN : StopPosted(b)) /\ WF_sweepVars(\E b \in BOOLEAN : ResumePosted(b))
  /\ \A by \in {"poll", "stop", "resume"} :
       LET Of == {g \in gets : g.by = by}
       IN /\ WF_sweepVars(\E g \in Of : GetServed(g))
          /\ WF_sweepVars(\E g \in Of, b \in BOOLEAN : GetArrives(g, b))

SweepSpec == SweepInit /\ [][SweepNext]_sweepVars /\ SweepFairness

-----------------------------------------------------------------------------

\* However often a run is stopped, interrupted and resumed, no combination is
\* in the results twice.
OneResultEach == \A c \in Combos : row.results[c] <= 1 /\ sweepJob.results[c] <= 1

\* A completed run has the result of every combination that has one.
CompletedCoversAll == row.status = "completed" => Combos \ Raising \subseteq Has(row.results)

\* "a force-killed backend loses at most ~10 combos" (optimization_service.py:259)
CrashLosesFew ==
  sweepJob.phase = "working" => Cardinality(Has(sweepJob.results) \ Has(row.results)) < Batch

\* A run that is running has a job: none is left for the page to wait for.
RunningIsWorkedOn == row.status = "running" => sweepJob.phase # "none"

\* What a sweep promises of its results, through stops, resumes and restarts.
SweepIsSound == OneResultEach /\ CompletedCoversAll /\ CrashLosesFew /\ RunningIsWorkedOn

\* Once the page has loaded the results of a run it shows as completed, the
\* table has them all, the ones added after a resume too (while no answer was
\* lost).
TableIsComplete ==
  runPage.run = "completed" /\ ~runPage.loading /\ faults.mishaps = 0 =>
    runPage.table = Has(row.results)

\* A page that shows a run as running or stopping learns of its end.
PageLearnsEnd == runPage.run \in {"running", "cancelling"} ~> runPage.run \in Ended

\* The stop and the resume button work again.
SweepButtonsReturn ==
  (runPage.stop # "no" ~> runPage.stop = "no") /\ (runPage.resume # "no" ~> runPage.resume = "no")

\* The page follows the sweep: its table is complete, it learns of the end, and
\* its buttons work again.
SweepPageFollows == []TableIsComplete /\ PageLearnsEnd /\ SweepButtonsReturn
=============================================================================

------------------------------ MODULE NewsPage ------------------------------
(***************************************************************************)
(* The economic calendar (src/frontend/src/app/news/page.tsx, components/  *)
(* news/event-row.tsx, lib/news-time.ts): events by day, refreshed every   *)
(* minute and after the two jobs the page starts, under a filter that is   *)
(* part of the request.  The day that is shown is kept as an index into    *)
(* the days of the list.                                                   *)
(***************************************************************************)
EXTENDS Naturals, FiniteSets, SequencesExt

CONSTANTS
  Events,         \* ids, in the order of their times
  DayOf, High,    \* the Bangkok day of each event; the events of high impact
  Now,            \* events with a smaller id are past
  ThisDay,        \* today, a day
  MaxNwLoads, MaxNwMishaps  \* bounds: lists under way; failed requests

ASSUME NewsAssumption ==
  /\ IsFiniteSet(Events) /\ Events \subseteq Nat /\ High \subseteq Events
  /\ \A e \in Events : DayOf[e] \in Nat /\ \A f \in Events : e < f => DayOf[e] <= DayOf[f]

VARIABLES
  nwRows,   \* the backend: events stored, analyzed ones, actual values
  nw,       \* the page: filter, list, view, day index, flags
  nwDraft,  \* what the input of a past event holds, since its row is mounted
  nwLoads,  \* lists asked for
  nwJobs    \* "fetch" and "analyze" under way, with the filter of the click
nwVars == <<nwRows, nw, nwDraft, nwLoads, nwJobs>>

Filters == {"All", "High"}
Passes(f, e) == f = "All" \/ e \in High
Past(e) == e < Now
NoEvents == [e \in {} |-> 0]

\* newsApi.list: the events of the filter.
Listing(f) == [e \in {x \in nwRows.stored : Passes(f, x)} |->
                 [actual |-> nwRows.actual[e], analyzed |-> e \in nwRows.analyzed]]

\* groupByDate: the days of a list in the order of its events.
DateKeys(list) == SetToSortSeq({DayOf[e] : e \in DOMAIN list}, <)
IndexOfToday(list) ==
  LET k == SelectInSeq(DateKeys(list), LAMBDA d : d = ThisDay) IN IF k = 0 THEN 0 ELSE k - 1

NwInit ==
  /\ nwRows \in [stored : SUBSET Events, analyzed : {{}}, actual : {[e \in Events |-> "none"]}]
  /\ nw = [filter |-> "All", list |-> NoEvents, loading |-> TRUE, refreshing |-> FALSE, error |-> FALSE,
           view |-> "day", idx |-> 0, overlap |-> FALSE, mishaps |-> 0]
  /\ nwDraft = NoEvents /\ nwLoads = {[of |-> "All", silent |-> FALSE]} /\ nwJobs = {}

NwMishap(ok) == ok \/ nw.mishaps < MaxNwMishaps
NwCount(ok) == IF ok THEN nw.mishaps ELSE nw.mishaps + 1

-----------------------------------------------------------------------------
(* The days that are shown *)

\* The index may be beyond the days of a shorter list.
Clamped ==
  LET last == Len(DateKeys(nw.list)) - 1
  IN IF nw.list = NoEvents THEN 0 ELSE IF nw.idx > last THEN last ELSE nw.idx

DayShown == IF Clamped + 1 \in 1 .. Len(DateKeys(nw.list)) THEN {DateKeys(nw.list)[Clamped + 1]} ELSE {}
ShownEvents ==
  IF nw.loading THEN {} ELSE {e \in DOMAIN nw.list : nw.view = "list" \/ DayOf[e] \in DayShown}

\* The inputs of the past events that are shown: one that stays mounted keeps
\* what it holds, a new one starts with the actual value of its event.
Drafts(staying) ==
  [e \in {x \in ShownEvents' : Past(x)} |->
     IF e \in staying THEN nwDraft[e] ELSE nw'.list[e].actual]

-----------------------------------------------------------------------------
(* Loading *)

\* fetchEvents: of the filter of its closure, shown or silent.
FetchEvents(page, of, silent) ==
  /\ Cardinality(nwLoads) < MaxNwLoads /\ [of |-> of, silent |-> silent] \notin nwLoads
  /\ nwLoads' = nwLoads \cup {[of |-> of, silent |-> silent]}
  /\ nw' = [page EXCEPT !.loading = @ \/ ~silent, !.refreshing = @ \/ silent, !.error = FALSE,
                        !.overlap = (@ /\ silent) \/ nwLoads # {} \/ of # page.filter]

\* The skeleton takes the place of the rows: their inputs are unmounted.
SelectFilter(f) ==
  /\ f # nw.filter
  /\ FetchEvents([nw EXCEPT !.filter = f], f, FALSE)
  /\ nwDraft' = NoEvents
  /\ UNCHANGED <<nwRows, nwJobs>>

RefreshNews ==
  /\ ~nw.refreshing /\ FetchEvents(nw, nw.filter, TRUE)
  /\ UNCHANGED <<nwRows, nwDraft, nwJobs>>

\* The interval, which does not look at what is under way.
NewsTick ==
  /\ FetchEvents(nw, nw.filter, TRUE)
  /\ UNCHANGED <<nwRows, nwDraft, nwJobs>>

\* A load that is not silent lands on today, or on the first day.
Landed(list) == IndexOfToday(list)

NewsArrive(l, ok) ==
  /\ l \in nwLoads /\ NwMishap(ok)
  /\ nwLoads' = nwLoads \ {l}
  /\ LET list == IF ok THEN Listing(l.of) ELSE nw.list
     IN nw' = [nw EXCEPT !.list = list, !.error = ~ok, !.loading = FALSE, !.refreshing = FALSE,
                         !.idx = IF ok /\ ~l.silent THEN Landed(list) ELSE @, !.mishaps = NwCount(ok)]
  /\ nwDraft' = Drafts(DOMAIN nwDraft)
  /\ UNCHANGED <<nwRows, nwJobs>>

-----------------------------------------------------------------------------
(* The two jobs *)

StartJob(kind) ==
  /\ \A j \in nwJobs : j.kind # kind
  /\ nwJobs' = nwJobs \cup {[kind |-> kind, of |-> nw.filter]}
  /\ UNCHANGED <<nwRows, nw, nwDraft, nwLoads>>

\* Fetching stores the events of the week, and actual values; analyzing
\* analyzes the important ones of today.
JobResult(kind) ==
  IF kind = "fetch"
    THEN [nwRows EXCEPT !.stored = Events,
                        !.actual = [e \in Events |-> IF Past(e) /\ @[e] = "none" THEN "fetched" ELSE @[e]]]
    ELSE [nwRows EXCEPT !.analyzed = @ \cup {e \in nwRows.stored \cap High : DayOf[e] = ThisDay}]

\* Then the list is loaded, silently, with the filter of the click.
NewsJobEnds(j, ok) ==
  /\ j \in nwJobs /\ NwMishap(ok)
  /\ nwJobs' = nwJobs \ {j}
  /\ IF ok THEN nwRows' = JobResult(j.kind) /\ FetchEvents(nw, j.of, TRUE)
     ELSE nw' = [nw EXCEPT !.error = TRUE, !.mishaps = @ + 1] /\ UNCHANGED <<nwRows, nwLoads>>
  /\ UNCHANGED nwDraft

-----------------------------------------------------------------------------
(* Turning to another day, and the row of an event *)

\* The first event to come is marked.
NextEvent == {e \in ShownEvents : ~Past(e) /\ \A f \in DOMAIN nw.list : ~Past(f) => e <= f}

NewsSays ==
  IF nw.loading THEN "skeleton" ELSE IF nw.list = NoEvents /\ ~nw.error THEN "No events found" ELSE "events"

PrevDay == Clamped # 0 /\ nw' = [nw EXCEPT !.idx = IF @ = 0 THEN 0 ELSE @ - 1]
NextDay ==
  LET last == Len(DateKeys(nw.list)) - 1
  IN Clamped # last /\ nw' = [nw EXCEPT !.idx = IF @ + 1 < last THEN @ + 1 ELSE last]
TurnDay ==
  /\ nw.view = "day" /\ nw.list # NoEvents /\ (PrevDay \/ NextDay)
  /\ nwDraft' = Drafts(DOMAIN nwDraft) /\ UNCHANGED <<nwRows, nwLoads, nwJobs>>

\* The rows of the other view are other ones.
TurnView ==
  /\ nw' = [nw EXCEPT !.view = IF @ = "day" THEN "list" ELSE "day"]
  /\ nwDraft' = Drafts({}) /\ UNCHANGED <<nwRows, nwLoads, nwJobs>>

\* A row's own requests (answered at once here): the analysis, and the actual
\* value, which Enter saves as the input has it.  The answer replaces the row.
AnalyzeEvent(e) ==
  /\ e \in ShownEvents \cap nwRows.stored
  /\ nwRows' = [nwRows EXCEPT !.analyzed = @ \cup {e}]
  /\ nw' = [nw EXCEPT !.list[e].analyzed = TRUE]
  /\ UNCHANGED <<nwDraft, nwLoads, nwJobs>>

TypeActual(e) ==
  /\ e \in ShownEvents \cap DOMAIN nwDraft /\ nwDraft' = [nwDraft EXCEPT ![e] = "typed"]
  /\ UNCHANGED <<nwRows, nw, nwLoads, nwJobs>>

SaveActual(e) ==
  /\ e \in ShownEvents \cap DOMAIN nwDraft
  /\ nwRows' = [nwRows EXCEPT !.actual[e] = nwDraft[e]]
  /\ nw' = [nw EXCEPT !.list[e].actual = nwDraft[e]]
  /\ UNCHANGED <<nwDraft, nwLoads, nwJobs>>

\* What a row shows below its line once it is expanded, the log of what an
\* analysis cost, and the debug panel, which shows what is stored, what a fresh
\* run has answered, or both.
RowDetail(e) == IF nw.list[e].analyzed THEN {"symbols", "summary", "cost", "debug", "analyzed at"} ELSE {}
CostLog(tokens, cost) ==
  IF tokens = 0 /\ cost = 0 THEN {} ELSE {"model", "tokens"} \cup (IF cost = 0 THEN {} ELSE {"cost"})
DebugShows(open, rerun) ==
  IF ~open THEN {} ELSE {"stored", "run again"} \cup (IF rerun THEN {"prompt", "fresh response"} ELSE {})

-----------------------------------------------------------------------------
NwUser ==
  \/ \E f \in Filters : SelectFilter(f)
  \/ RefreshNews \/ TurnDay \/ TurnView
  \/ \E k \in {"fetch", "analyze"} : StartJob(k)
  \/ \E e \in Events : AnalyzeEvent(e) \/ TypeActual(e) \/ SaveActual(e)
NwAnswers ==
  \E ok \in BOOLEAN : (\E l \in nwLoads : NewsArrive(l, ok)) \/ \E j \in nwJobs : NewsJobEnds(j, ok)
NwNext == NwUser \/ NwAnswers \/ NewsTick
NwSpec == NwInit /\ [][NwNext]_nwVars

-----------------------------------------------------------------------------
\* The events shown pass the filter once the newest list has come (no two
\* were under way at a time, no job ran while the filter was changed).
EventsPassFilter ==
  nwLoads = {} /\ ~nw.overlap /\ ~nw.error => \A e \in DOMAIN nw.list : Passes(nw.filter, e)

\* Whenever there are events the day view shows a day that has some, whatever
\* a silent refresh took away or added.
DayViewIsNotEmpty == ~nw.loading /\ nw.list # NoEvents => ShownEvents # {}

\* When the skeleton goes away after a load of its own, today is shown if it
\* has events.
OpensOnToday ==
  [][nw.view = "day" /\ nw.loading /\ ~nw'.loading /\ ~nw'.error /\ (\A l \in nwLoads : ~l.silent)
       /\ ThisDay \in {DayOf[e] : e \in DOMAIN nw'.list} => DayShown' = {ThisDay}]_nwVars
=============================================================================

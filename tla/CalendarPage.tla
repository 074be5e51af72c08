---------------------------- MODULE CalendarPage ----------------------------
(***************************************************************************)
(* The analytics page: the P&L calendar, the statistics over it and the    *)
(* sheet with the trades of a day (src/frontend/src/app/analytics/page.tsx *)
(* and components/analytics).  An effect aborts the request of the effect  *)
(* before it; the request that follows a sync has a controller of its own, *)
(* which nobody aborts.                                                    *)
(***************************************************************************)
EXTENDS Naturals, Sequences, FiniteSets, SequencesExt

CONSTANTS
  CalAccounts, NoCal,   \* accounts, and none selected (all of them)
  AccountKinds,                \* kinds of account: "all", "live", "demo"
  MonthsPerYear,        \* 12
  Span, Today,          \* the months the user goes through, and the current one
  WeekLength,           \* 7
  FirstDay, DaysIn,     \* of a month: weekday of its first day (0 ..), number of days
  TradesOn,             \* closed trades of an account on each day of a month
  MaxCalMishaps         \* bound: failed requests

ASSUME CalendarAssumption ==
  /\ NoCal \notin CalAccounts
  /\ {MonthsPerYear, WeekLength} \subseteq Nat \ {0}
  /\ Today \in Span /\ Span \subseteq Nat \X (1 .. MonthsPerYear) /\ "all" \in AccountKinds

VARIABLES
  cal,      \* the calendar: month, account, kind, data, flags
  calAsked, \* what its effect waits for
  calSync,  \* the sync: its stage and the selection of the click
  day       \* the sheet of a day
calVars == <<cal, calAsked, calSync, day>>

NoKey == [month |-> 0]

\* What is asked for: the kind counts only when all accounts are shown.
Key(c) == [year |-> c.year, month |-> c.month, account |-> c.account,
           kind |-> IF c.account = NoCal THEN c.kind ELSE "all"]

NoSync == [stage |-> "none", key |-> NoKey]
NoDay == [open |-> FALSE, of |-> NoKey, shown |-> NoKey, asked |-> {}, loading |-> FALSE]

CalInit ==
  LET c == [year |-> Today[1], month |-> Today[2], account |-> NoCal, kind |-> "all", data |-> NoKey,
            loading |-> TRUE, error |-> FALSE, crossed |-> FALSE, mishaps |-> 0]
  IN cal = c /\ calAsked = {Key(c)} /\ calSync = NoSync /\ day = NoDay

CalMishap(ok) == ok \/ cal.mishaps < MaxCalMishaps
CalCount(ok) == IF ok THEN cal.mishaps ELSE cal.mishaps + 1

-----------------------------------------------------------------------------
(* Selecting *)

\* Bug variant: the request before is not aborted.
NotAborted(asked) == asked

\* The cleanup of the effect aborts its request.
Aborted(asked) == {}

\* The calendar with another selection: fetchData is another function, so the
\* effect runs again when what is asked for has changed.
Shown(c) ==
  IF Key(c) = Key(cal)
    THEN cal' = c /\ UNCHANGED calAsked
    ELSE /\ cal' = [c EXCEPT !.loading = TRUE, !.error = FALSE, !.crossed = calSync # NoSync]
         /\ calAsked' = Aborted(calAsked) \cup {Key(c)}

PrevMonth ==
  IF cal.month = 1 THEN [cal EXCEPT !.year = @ - 1, !.month = MonthsPerYear]
  ELSE [cal EXCEPT !.month = @ - 1]
NextMonth ==
  IF cal.month = MonthsPerYear THEN [cal EXCEPT !.year = @ + 1, !.month = 1]
  ELSE [cal EXCEPT !.month = @ + 1]
GoToday == [cal EXCEPT !.year = Today[1], !.month = Today[2]]

\* The sheet covers the buttons of the page.
Navigate(c) ==
  /\ ~day.open /\ <<c.year, c.month>> \in Span /\ c # cal
  /\ Shown(c)
  /\ UNCHANGED <<calSync, day>>

\* The kind is offered with all accounts; an account resets it.
KindOffered == cal.account = NoCal
PickKind(k) == KindOffered /\ Navigate([cal EXCEPT !.kind = k])
PickAccount(a) == Navigate([cal EXCEPT !.account = a, !.kind = IF a = NoCal THEN @ ELSE "all"])

-----------------------------------------------------------------------------
(* Loading and synchronising *)

\* The answer to a request that is not aborted.
Fetched(key, ok) ==
  cal' = [cal EXCEPT !.data = IF ok THEN key ELSE @, !.error = IF ok THEN @ ELSE TRUE,
                     !.loading = FALSE, !.mishaps = CalCount(ok)]

DailyArrives(key, ok) ==
  /\ key \in calAsked /\ CalMishap(ok)
  /\ Fetched(key, ok) /\ calAsked' = calAsked \ {key}
  /\ UNCHANGED <<calSync, day>>

SyncOffered == calSync = NoSync /\ ~cal.loading /\ ~day.open

StartSync ==
  /\ SyncOffered
  /\ calSync' = [stage |-> "sync", key |-> Key(cal)]
  /\ UNCHANGED <<cal, calAsked, day>>

\* After the sync the calendar is fetched for the selection of the click.
SyncAnswers(ok) ==
  /\ calSync.stage = "sync" /\ CalMishap(ok)
  /\ IF ok THEN /\ calSync' = [calSync EXCEPT !.stage = "fetch"]
                /\ cal' = [cal EXCEPT !.loading = TRUE, !.error = FALSE]
           ELSE calSync' = NoSync /\ cal' = [cal EXCEPT !.mishaps = @ + 1]
  /\ UNCHANGED <<calAsked, day>>

SyncFetched(ok) ==
  /\ calSync.stage = "fetch" /\ CalMishap(ok)
  /\ Fetched(calSync.key, ok) /\ calSync' = NoSync
  /\ UNCHANGED <<calAsked, day>>

CalendarSays ==
  IF cal.loading THEN "Loading" ELSE IF cal.error THEN "error" ELSE "grid"

-----------------------------------------------------------------------------
(* The grid *)

\* The cells are filled up to whole weeks.
WeekCount(cells) == (Len(cells) + WeekLength - 1) \div WeekLength

\* 0 is a cell before the first day or after the last one.
Cells == [i \in 1 .. FirstDay[cal.month] |-> 0] \o [i \in 1 .. DaysIn[cal.month] |-> i]
Weeks == [w \in 1 .. WeekCount(Cells) |->
            SubSeq(Cells, (w - 1) * WeekLength + 1,
                   IF w * WeekLength < Len(Cells) THEN w * WeekLength ELSE Len(Cells))]

\* The entry of a cell is looked up by its date.
TradeCount(d) ==
  IF d > 0 /\ cal.data # NoKey /\ <<cal.data.year, cal.data.month>> = <<cal.year, cal.month>>
    THEN TradesOn[cal.data.account][cal.month][d] ELSE 0
WeekTrades(week) == FoldSeq(LAMBDA d, n : n + TradeCount(d), 0, week)
WeekShows(week) == IF WeekTrades(week) > 0 THEN {"week", "result", "trades"} ELSE {"week", "dash"}
DayClickable(d) == CalendarSays = "grid" /\ TradeCount(d) > 0

\* The statistics over the calendar: of the data, which a failed request keeps
\* for the grid and takes from the statistics.
MonthlyTrades ==
  IF cal.data = NoKey \/ CalendarSays # "grid" THEN 0
  ELSE FoldSeq(LAMBDA n, s : n + s, 0, TradesOn[cal.data.account][cal.data.month])

-----------------------------------------------------------------------------
(* The sheet of a day *)

AskDay(of) == [day EXCEPT !.open = TRUE, !.of = of, !.asked = @ \cup {of}, !.loading = TRUE]

SelectDay(d) ==
  /\ ~day.open /\ DayClickable(d)
  /\ day' = AskDay([year |-> cal.year, month |-> cal.month, day |-> d, account |-> cal.account])
  /\ UNCHANGED <<cal, calAsked, calSync>>

\* Closing aborts the request; what was shown stays until the next answer.
Closed == [day EXCEPT !.open = FALSE, !.asked = {}, !.loading = FALSE]

CloseDay ==
  /\ day.open /\ day' = Closed
  /\ UNCHANGED <<cal, calAsked, calSync>>

DayArrives(of, ok) ==
  /\ of \in day.asked /\ CalMishap(ok)
  /\ day' = [day EXCEPT !.shown = IF ok THEN of ELSE NoKey, !.asked = @ \ {of}, !.loading = FALSE]
  /\ cal' = [cal EXCEPT !.mishaps = CalCount(ok)]
  /\ UNCHANGED <<calAsked, calSync>>

\* The rows of the sheet; its header counts the trades that are held, those
\* of the day before too while the new ones load.
SheetSays ==
  IF day.loading THEN "Loading trades"
  ELSE IF day.shown = NoKey THEN "No trades found for this day" ELSE "rows"
HeaderCounts == IF day.shown # NoKey THEN "trades" ELSE IF day.loading THEN "Loading" ELSE "nothing"

-----------------------------------------------------------------------------
CalUser ==
  \/ \E c \in {PrevMonth, NextMonth, GoToday} : Navigate(c)
  \/ \E k \in AccountKinds : PickKind(k)
  \/ \E a \in CalAccounts \cup {NoCal} : PickAccount(a)
  \/ StartSync \/ CloseDay \/ \E d \in 1 .. DaysIn[cal.month] : SelectDay(d)
CalAnswers ==
  \E ok \in BOOLEAN :
    \/ \E key \in calAsked : DailyArrives(key, ok)
    \/ SyncAnswers(ok) \/ SyncFetched(ok)
    \/ \E of \in day.asked : DayArrives(of, ok)
CalNext == CalUser \/ CalAnswers
CalSpec == CalInit /\ [][CalNext]_calVars

-----------------------------------------------------------------------------
\* The calendar that is shown is of the selected month, account and kind,
\* unless the selection was changed while a sync was under way.
CalendarIsOfSelection ==
  CalendarSays = "grid" /\ ~cal.crossed => cal.data = Key(cal)

\* The trades on the sheet are those of its day.
SheetIsOfDay == day.open /\ SheetSays = "rows" => day.shown = day.of

\* The weeks of the grid add up to the total over the calendar.
WeeksAddUp ==
  CalendarSays = "grid" /\ ~cal.crossed =>
    FoldSeq(LAMBDA w, n : n + WeekTrades(w), 0, Weeks) = MonthlyTrades
=============================================================================

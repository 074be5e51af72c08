------------------------------ MODULE ChartPage ------------------------------
(***************************************************************************)
(* The chart page (src/frontend/src/app/chart/[symbol]/page.tsx), its      *)
(* toolbar, and the chart itself: an imperative object that effects keep   *)
(* in step with what the page's state says (trading-chart.tsx).            *)
(*                                                                         *)
(* The page is opened for a name the operator typed; the backend answers   *)
(* with the name the account's broker uses, and the page then moves to it. *)
(* A timeframe and a number of candles together are called a view.         *)
(***************************************************************************)
EXTENDS Naturals, FiniteSets

CONSTANTS
  ChartAccounts, NoChart,  \* accounts (each names its broker), and none
  Typed,                   \* the name the operator typed
  Views,                   \* timeframe and count
  AutoViews,               \* those of timeframes that are refreshed by a timer
  Indicators,              \* EMA overlays and the RSI pane
  MaxChartCalls            \* bound: requests under way

ASSUME ChartAssumption ==
  /\ NoChart \notin ChartAccounts /\ Typed \notin ChartAccounts \cup {NoChart}
  /\ AutoViews \subseteq Views /\ MaxChartCalls \in Nat

VARIABLES
  chart,       \* the page's state
  canvas,      \* the chart object and the refs of its component
  chartCalls,  \* requests for candles under way
  picker,      \* the toolbar's list of symbols and its request
  aligned      \* since the page was opened no candles were asked for while
               \* those of another selection were under way

chartVars == <<chart, canvas, chartCalls, picker, aligned>>

Names == ChartAccounts \cup {Typed}
NoKey == <<NoChart, "none">>
Key(ch) == <<ch.account, ch.view>>
NoCanvas == [symbol |-> NoChart, candles |-> NoKey, drawn |-> {}, refs |-> {},
             lines |-> NoChart, fitKey |-> NoKey]

ChartInit ==
  /\ chart = [open |-> FALSE, symbol |-> Typed, resolved |-> Typed, account |-> NoChart,
              view |-> CHOOSE v \in Views : TRUE, candles |-> NoKey, loading |-> FALSE,
              error |-> FALSE, stale |-> FALSE, tick |-> NoChart, link |-> FALSE,
              watched |-> NoChart, shown |-> Indicators]
  /\ canvas = NoCanvas
  /\ chartCalls = {}
  /\ picker = [symbolsOf |-> NoChart, asked |-> NoChart]
  /\ aligned = TRUE

-----------------------------------------------------------------------------
(* The effects of TradingChart, run after a render that leads from the     *)
(* page's state to ch; fresh: the candles are another array.               *)

ViewKey(ch) == <<ch.resolved, ch.view>>

\* Effect 1: a chart object for every symbol, and empty refs.
Created(ch) == canvas.symbol # ch.resolved

\* Bug variant: the cleanup forgets to clear the refs of the overlays.
BaseKeepsRefs(ch) ==
  IF Created(ch) THEN [NoCanvas EXCEPT !.symbol = ch.resolved, !.refs = canvas.refs] ELSE canvas

Base(ch) == IF Created(ch) THEN [NoCanvas EXCEPT !.symbol = ch.resolved] ELSE canvas

\* Effect 1b: data, and the viewport when the key is a new one.
WithCandles(ch, cv) == [cv EXCEPT !.candles = ch.candles, !.fitKey = ViewKey(ch)]

\* Effect 2: a line for every position of the symbol.
WithLines(ch, cv) == [cv EXCEPT !.lines = ch.resolved]

\* Effects 5 and 6: overlays that are not active any more go, missing ones
\* are added; a ref says which ones there are.
WithOverlays(ch, cv) ==
  [cv EXCEPT !.refs = ch.shown,
             !.drawn = (cv.drawn \cap ch.shown) \cup (ch.shown \ cv.refs)]

Rendered(ch) ==
  IF ch.candles = NoKey THEN NoCanvas
  ELSE WithOverlays(ch, WithLines(ch, WithCandles(ch, Base(ch))))

-----------------------------------------------------------------------------
\* fetchCandles
FetchCandles(ch, silent) ==
  IF ch.account = NoChart THEN UNCHANGED <<chartCalls, aligned>>
  ELSE /\ chartCalls' = chartCalls \cup {[key |-> Key(ch), silent |-> silent]}
       /\ aligned' = (aligned /\ \A c \in chartCalls : c.key = Key(ch))

Loading(ch) == [ch EXCEPT !.loading = ch.account # NoChart \/ ch.loading]

\* The page is mounted for a name; another name in the path mounts it anew,
\* and answers to the page before it change nothing.
ChartMounts(s, a, v) ==
  LET ch == [chart EXCEPT !.open = TRUE, !.symbol = s, !.resolved = s, !.account = a,
                          !.view = v, !.candles = NoKey, !.error = FALSE, !.stale = FALSE,
                          !.loading = a # NoChart, !.tick = NoChart, !.link = FALSE,
                          !.watched = NoChart, !.shown = Indicators]
  IN /\ chart' = ch
     /\ canvas' = NoCanvas
     /\ chartCalls' = IF a = NoChart THEN {} ELSE {[key |-> Key(ch), silent |-> FALSE]}
     /\ aligned' = TRUE
     /\ picker' = [symbolsOf |-> NoChart, asked |-> a]

ChartOpen(s, a, v) == ~chart.open /\ ChartMounts(s, a, v)

\* Picking a symbol of the list, or typing one and Enter.
PickSymbol(s) ==
  /\ chart.open /\ chart.account # NoChart /\ s # chart.symbol
  /\ s \in {Typed, picker.symbolsOf}
  /\ ChartMounts(s, chart.account, chart.view)

\* The path follows the broker's name.
HealPath ==
  /\ chart.open /\ chart.resolved # chart.symbol
  /\ ChartMounts(chart.resolved, chart.account, chart.view)

\* The operator selects a view (button or key) or an account.
SelectView(v) ==
  /\ chart.open /\ v # chart.view /\ Cardinality(chartCalls) < MaxChartCalls
  /\ LET ch == Loading([chart EXCEPT !.view = v])
     IN chart' = ch /\ canvas' = Rendered(ch) /\ FetchCandles(ch, FALSE)
  /\ UNCHANGED picker

SelectAccount(a) ==
  /\ chart.open /\ a # chart.account /\ Cardinality(chartCalls) < MaxChartCalls
  /\ LET ch == Loading([chart EXCEPT !.account = a, !.link = FALSE, !.watched = NoChart,
                                     !.tick = NoChart])
     IN chart' = ch /\ UNCHANGED canvas /\ FetchCandles(ch, FALSE)
  /\ picker' = IF a = NoChart THEN [picker EXCEPT !.asked = NoChart]
               ELSE [picker EXCEPT !.asked = a]

\* The refresh and retry buttons, and the timer.
Refresh(silent) ==
  /\ chart.open /\ chart.account # NoChart /\ Cardinality(chartCalls) < MaxChartCalls
  /\ IF silent THEN chart.view \in AutoViews ELSE ~chart.loading
  /\ chart' = [chart EXCEPT !.loading = ~silent \/ @]
  /\ FetchCandles(chart, silent)
  /\ UNCHANGED <<canvas, picker>>

\* Candles arrive, with the account's name of the symbol.
Candles(c) ==
  /\ chartCalls' = chartCalls \ {c}
  /\ LET ch == [chart EXCEPT !.candles = c.key, !.resolved = c.key[1], !.error = FALSE,
                             !.stale = FALSE, !.loading = @ /\ c.silent,
                             !.tick = IF chart.resolved = c.key[1] THEN @ ELSE NoChart,
                             !.watched = IF chart.link THEN c.key[1] ELSE NoChart]
     IN chart' = ch /\ canvas' = Rendered(ch)
  /\ UNCHANGED <<picker, aligned>>

\* The request fails: an overlay tells of it, of a refresh only a badge.
NoCandles(c) ==
  /\ chartCalls' = chartCalls \ {c}
  /\ chart' = IF c.silent THEN [chart EXCEPT !.stale = TRUE]
              ELSE [chart EXCEPT !.error = TRUE, !.loading = FALSE]
  /\ UNCHANGED <<canvas, picker, aligned>>

\* An indicator is switched on or off.
ToggleIndicator(i) ==
  /\ chart.open
  /\ LET ch == [chart EXCEPT !.shown = IF i \in @ THEN @ \ {i} ELSE @ \cup {i}]
     IN chart' = ch /\ canvas' = Rendered(ch)
  /\ UNCHANGED <<chartCalls, picker, aligned>>

\* The live link: connected, the symbol is watched; its ticks are told apart
\* from those of the other symbols that dashboards watch.
LinkChanges ==
  /\ chart.open /\ chart.account # NoChart
  /\ chart' = [chart EXCEPT !.link = ~@, !.tick = NoChart,
                            !.watched = IF chart.link THEN NoChart ELSE chart.resolved]
  /\ UNCHANGED <<canvas, chartCalls, picker, aligned>>

Tick(s) ==
  /\ chart.link /\ s = chart.resolved
  /\ chart' = [chart EXCEPT !.tick = s]
  /\ UNCHANGED <<canvas, chartCalls, picker, aligned>>

\* The symbols of an account; the effect that asked is cancelled by the next.
Symbols(ok) ==
  /\ picker.asked # NoChart
  /\ picker' = [symbolsOf |-> IF ok THEN picker.asked ELSE NoChart, asked |-> NoChart]
  /\ UNCHANGED <<chart, canvas, chartCalls, aligned>>

ChartNext ==
  \/ \E s \in Names, a \in ChartAccounts \cup {NoChart}, v \in Views : ChartOpen(s, a, v)
  \/ \E s \in Names : PickSymbol(s) \/ Tick(s)
  \/ HealPath \/ LinkChanges
  \/ \E v \in Views : SelectView(v)
  \/ \E a \in ChartAccounts \cup {NoChart} : SelectAccount(a)
  \/ \E b \in BOOLEAN : Refresh(b) \/ Symbols(b)
  \/ \E c \in chartCalls : Candles(c) \/ NoCandles(c)
  \/ \E i \in Indicators : ToggleIndicator(i)

ChartSpec == ChartInit /\ [][ChartNext]_chartVars

-----------------------------------------------------------------------------
\* What lies over the chart; at most one of these.
Overlay ==
  IF ~chart.open THEN "nothing"
  ELSE IF chart.loading THEN "loading"
  ELSE IF chart.error THEN "error"
  ELSE IF chart.account = NoChart THEN "select an account"
  ELSE IF chart.candles = NoKey THEN "no data"
  ELSE "nothing"

\* The chart object shows what the page's state says after every change: the
\* candles, the lines of the symbol's positions and exactly the indicators
\* that are switched on, also after it was made anew for another symbol.
CanvasMirrorsPage ==
  chart.candles # NoKey =>
    /\ canvas.candles = chart.candles
    /\ canvas.symbol = chart.resolved /\ canvas.lines = chart.resolved
    /\ canvas.drawn = chart.shown /\ canvas.refs = chart.shown

\* With no request under way and nothing laid over it, the chart shows the
\* selected account and view, unless a request overlapped one of another
\* selection: nothing cancels it, and the later answer is shown.
ChartShowsSelection ==
  aligned /\ chartCalls = {} /\ chart.open /\ Overlay = "nothing" => chart.candles = Key(chart)

\* The price shown is one of the symbol the chart shows, and while the link is
\* up that symbol is the one the backend was asked to watch.
TicksAreForSymbol ==
  /\ chart.tick # NoChart => chart.tick = chart.resolved
  /\ chart.link => chart.watched = chart.resolved

\* A background refresh never covers a working chart: "Background refresh
\* failures shouldn't blank out a working chart" (page.tsx:176).
RefreshIsQuiet ==
  [][\A c \in chartCalls :
       /\ c.silent /\ chartCalls' = chartCalls \ {c} /\ chart'.symbol = chart.symbol
       /\ Overlay = "nothing"
       => Overlay' = "nothing"]_chartVars

=============================================================================

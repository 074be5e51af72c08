----------------------------- MODULE TradesPage -----------------------------
(***************************************************************************)
(* The trades page (src/frontend/src/app/trades/page.tsx, components/      *)
(* trades/trade-cards.tsx, tradesApi of lib/api.ts) against the rows and   *)
(* the analysis job of the backend (api/routes/trades.py).  Nothing        *)
(* cancels a request of a former filter; the analysis of a trade is asked  *)
(* for and then polled.                                                    *)
(***************************************************************************)
EXTENDS Naturals, FiniteSets

CONSTANTS
  TradeIds, OwnerOf,        \* rows, and the account of each
  InDates,                  \* rows whose closing day is in the picked range
  Winning,                  \* rows that are closed with a profit
  AllAccounts,              \* no account is selected
  Selections,               \* the accounts and filters the user goes through
  MaxPolls,                 \* polls for an analysis (24)
  MaxTpLoads, MaxTpMishaps  \* bounds: lists under way; failed requests

ASSUME TradesAssumption ==
  /\ IsFiniteSet(TradeIds) /\ InDates \subseteq TradeIds /\ Winning \subseteq TradeIds
  /\ \A t \in TradeIds : OwnerOf[t] # AllAccounts

VARIABLES
  tpRows,   \* the rows: closed, maintenance, analysis and whether its job runs
  tp,       \* the page: selection, what is shown, what is expanded
  tpLoads,  \* the selections of the lists asked for
  tpTurns,  \* switches that wait for their PATCH, and what they are turned to
  tpPolls   \* polls left of the ids that wait for an analysis
tpVars == <<tpRows, tp, tpLoads, tpTurns, tpPolls>>

\* The filters are in the URL; "open only" takes the dates out of it.
TpFilters == {"all", "open", "dates"}
TpSelections == [account : {AllAccounts} \cup {OwnerOf[t] : t \in TradeIds}, filter : TpFilters]
First == [account |-> AllAccounts, filter |-> "all"]
Analyses == {"none", "old", "new"}
\* A row as the page may find it.
StoredRows(t) ==
  {row \in [closed : BOOLEAN, kept : {TRUE}, analysis : Analyses \ {"new"}, job : {FALSE}] :
             /\ row.analysis # "none" => row.closed
             /\ row.closed = (t \in Winning)}

\* A filter and the rows it selects.
Selects(sel, t) ==
  /\ sel.account \in {AllAccounts, OwnerOf[t]}
  /\ sel.filter = "open" => ~tpRows[t].closed
  /\ sel.filter = "dates" => tpRows[t].closed /\ t \in InDates

\* What the answer tells of a row: not its maintenance_enabled, which the
\* response model leaves out, and which the page reads as TRUE.
Told(t) == [closed |-> tpRows[t].closed, analysis |-> tpRows[t].analysis, on |-> TRUE]
ListAnswer(sel) == [t \in {u \in TradeIds : Selects(sel, u)} |-> Told(t)]

Empty == [t \in {} |-> 0]
Listed(t) == t \in DOMAIN tp.list

TpRows ==
  {rows \in [TradeIds -> UNION {StoredRows(t) : t \in TradeIds}] :
     \A t \in TradeIds : rows[t] \in StoredRows(t)}

TpInit ==
  /\ tpRows \in TpRows
  /\ tp = [sel |-> First, list |-> Empty, busy |-> TRUE, first |-> TRUE,
           error |-> FALSE, overlap |-> FALSE, told |-> {}, mishaps |-> 0]
  /\ tpLoads = {First}
  /\ tpTurns = {} /\ tpPolls = [t \in TradeIds |-> 0]

TpMishap(ok) == ok \/ tp.mishaps < MaxTpMishaps
TpCount(ok) == IF ok THEN tp.mishaps ELSE tp.mishaps + 1

-----------------------------------------------------------------------------
(* Loading *)

\* load(): for the selection of the render it was made in.
LoadTrades(page) ==
  /\ Cardinality(tpLoads) < MaxTpLoads
  /\ page.sel \notin tpLoads
  /\ tpLoads' = tpLoads \cup {page.sel}
  /\ tp' = [page EXCEPT !.busy = TRUE, !.error = FALSE, !.overlap = tpLoads # {}]

\* Another account or another filter: the effect loads.
SelectTrades(sel) ==
  /\ sel.account = tp.sel.account \/ sel.filter = tp.sel.filter
  /\ sel # tp.sel /\ ~(tp.sel.filter = "open" /\ sel.filter = "dates")
  /\ LoadTrades([tp EXCEPT !.sel = sel])
  /\ UNCHANGED <<tpRows, tpTurns, tpPolls>>

RefreshTrades ==
  /\ ~tp.busy /\ LoadTrades(tp)
  /\ UNCHANGED <<tpRows, tpTurns, tpPolls>>

\* setTrades: the answer replaces what is shown.
ListedAs(rows) == rows

\* The list is shown whatever is selected by now; any answer ends "loading".
TradesArrive(l, ok) ==
  /\ l \in tpLoads /\ TpMishap(ok)
  /\ tpLoads' = tpLoads \ {l}
  /\ tp' = [tp EXCEPT !.list = IF ok THEN ListedAs(ListAnswer(l)) ELSE @, !.error = ~ok, !.busy = FALSE,
                      !.first = FALSE, !.told = IF ok THEN {} ELSE @, !.mishaps = TpCount(ok)]
  /\ UNCHANGED <<tpRows, tpTurns, tpPolls>>

-----------------------------------------------------------------------------
(* The maintenance switch of an open trade *)

SwitchOffered(t) == Listed(t) /\ ~tp.list[t].closed
SwitchEnabled(t) == SwitchOffered(t) /\ \A b \in BOOLEAN : <<t, b>> \notin tpTurns

TurnSwitch(t) ==
  /\ SwitchEnabled(t)
  /\ tpTurns' = tpTurns \cup {<<t, ~tp.list[t].on>>}
  /\ UNCHANGED <<tpRows, tp, tpLoads, tpPolls>>

\* The row is turned when the request has succeeded, and left alone otherwise.
TurnedRow(list, t, on, ok) ==
  IF ok /\ t \in DOMAIN list THEN [list EXCEPT ![t].on = on] ELSE list

\* "stored" and not "ok": the row is written and the answer is lost.
SwitchPatched(t, on, stored, ok) ==
  /\ <<t, on>> \in tpTurns /\ (ok => stored) /\ TpMishap(ok)
  /\ tpRows' = [tpRows EXCEPT ![t].kept = IF stored THEN on ELSE @]
  /\ tp' = [tp EXCEPT !.list = TurnedRow(@, t, on, ok), !.mishaps = TpCount(ok),
                      !.told = IF ok THEN @ \cup {t} ELSE IF stored THEN @ \ {t} ELSE @]
  /\ tpTurns' = tpTurns \ {<<t, on>>}
  /\ UNCHANGED <<tpLoads, tpPolls>>

-----------------------------------------------------------------------------
(* The analysis of a closed trade *)

\* The panel of an expanded row.
PanelOffers(t) == Listed(t) /\ tp.list[t].closed /\ tpPolls[t] = 0
PanelSays(t) ==
  CASE tp.list[t].analysis # "none" -> "analysis"
    [] tp.list[t].closed -> "No analysis yet"
    [] OTHER -> "Trade is still open"

\* The route clears the analysis and starts the job, for a closed trade.
Analyze(t, ok) ==
  /\ PanelOffers(t) /\ TpMishap(ok)
  /\ IF ok /\ tpRows[t].closed
     THEN /\ tpRows' = [tpRows EXCEPT ![t].analysis = "none", ![t].job = TRUE]
          /\ tpPolls' = [tpPolls EXCEPT ![t] = MaxPolls]
     ELSE UNCHANGED <<tpRows, tpPolls>>
  /\ tp' = [tp EXCEPT !.mishaps = TpCount(ok)]
  /\ UNCHANGED <<tpLoads, tpTurns>>

\* The job writes the analysis, or fails and leaves none.
AnalysisEnds(t, ok) ==
  /\ tpRows[t].job
  /\ tpRows' = [tpRows EXCEPT ![t].job = FALSE, ![t].analysis = IF ok THEN "new" ELSE @]
  /\ UNCHANGED <<tp, tpLoads, tpTurns, tpPolls>>

\* Any error, an analysis or the last poll ends the waiting.
PollsLeft(t, ok) == IF ok /\ tpRows[t].analysis = "none" THEN tpPolls[t] - 1 ELSE 0

\* A poll reads the trade; the row is replaced when it has an analysis.
PollAnalysis(t, ok) ==
  /\ tpPolls[t] > 0 /\ TpMishap(ok)
  /\ tpPolls' = [tpPolls EXCEPT ![t] = PollsLeft(t, ok)]
  /\ tp' = [tp EXCEPT !.list = IF ok /\ Listed(t) /\ tpRows[t].analysis # "none"
                                 THEN [@ EXCEPT ![t] = Told(t)] ELSE @,
                      !.mishaps = TpCount(ok)]
  /\ UNCHANGED <<tpRows, tpLoads, tpTurns>>

-----------------------------------------------------------------------------
(* What the page shows *)

TableSays ==
  IF tp.first /\ tp.busy THEN "skeleton"
  ELSE IF tp.list = Empty /\ ~tp.busy THEN "No trades found" ELSE "rows"

\* The scorecard: all rows, the closed ones and the winners among them.
Scorecard ==
  LET closed == {t \in DOMAIN tp.list : tp.list[t].closed}
  IN [total |-> Cardinality(DOMAIN tp.list), closed |-> Cardinality(closed),
      wins |-> Cardinality(closed \cap Winning)]

\* The position of an open trade is closed, by anybody.
TradeCloses(t) ==
  /\ ~tpRows[t].closed
  /\ tpRows' = [tpRows EXCEPT ![t].closed = TRUE]
  /\ UNCHANGED <<tp, tpLoads, tpTurns, tpPolls>>

-----------------------------------------------------------------------------
TpAnswers ==
  \/ \E l \in tpLoads : \E b \in BOOLEAN : TradesArrive(l, b)
  \/ \E t \in TradeIds, b \in BOOLEAN :
       PollAnalysis(t, b) \/ \E on, s \in BOOLEAN : SwitchPatched(t, on, s, b)
TpUser ==
  \/ \E s \in Selections \cap TpSelections : SelectTrades(s)
  \/ RefreshTrades
  \/ \E t \in TradeIds : TurnSwitch(t) \/ \E b \in BOOLEAN : Analyze(t, b)
TpBackend == \E t \in TradeIds : TradeCloses(t) \/ \E b \in BOOLEAN : AnalysisEnds(t, b)
TpNext == TpAnswers \/ TpUser \/ TpBackend
TpSpec == TpInit /\ [][TpNext]_tpVars

-----------------------------------------------------------------------------
\* What is listed belongs to the selected account and filter, once the newest
\* list has come (no two were under way at a time, and it did not fail).
ListIsOfSelection ==
  tpLoads = {} /\ ~tp.overlap /\ ~tp.error =>
    \A t \in DOMAIN tp.list :
      /\ tp.sel.account \in {AllAccounts, OwnerOf[t]}
      /\ tp.sel.filter = "open" => ~tp.list[t].closed
      /\ tp.sel.filter = "dates" => tp.list[t].closed /\ t \in InDates

\* A switch that was turned shows what is stored until the next list comes,
\* also after a later turn of it has failed.
SwitchTellsStored ==
  \A t \in tp.told : SwitchOffered(t) => tp.list[t].on = tpRows[t].kept

\* The page stops waiting for an analysis when it shows the new one, when a
\* request fails, or after the last poll.
AnalysisIsNew ==
  [][\A t \in TradeIds :
       tpPolls[t] > 1 /\ tpPolls'[t] = 0 /\ tp'.mishaps = tp.mishaps /\ Listed(t) =>
         tp'.list[t].analysis = "new"]_tpVars
=============================================================================

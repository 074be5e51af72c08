---------------------------- MODULE DashboardPage ----------------------------
(***************************************************************************)
(* The dashboard page (src/frontend/src/app/page.tsx and the components it *)
(* shows): statistics, equity curve, closed trades, the auto-trade switch, *)
(* the sync button and the maintenance buttons of the live positions.      *)
(* Every effect sends its requests and none cancels those of the effect    *)
(* before it, so an answer may belong to a selection that is gone.         *)
(***************************************************************************)
EXTENDS Naturals, Sequences, FiniteSets

CONSTANTS
  DashAccounts, NoDash,  \* accounts, and no account
  Ranges,                \* the ranges of the equity chart
  Stamps,                \* times of equity points, a set of numbers
  MaxPoints,             \* how many points the curve keeps (300)
  MaxDashCalls           \* bound: requests under way

ASSUME DashAssumption ==
  NoDash \notin DashAccounts /\ Stamps \subseteq Nat /\ MaxPoints \in Nat \ {0}

VARIABLES
  dash,       \* the page's state
  curve,      \* equityData, the times of its points
  dashCalls,  \* requests under way
  autoTrade,  \* auto_trade_enabled of every account, in the backend
  trusted     \* no request overlapped another one of its kind since the
              \* newest load began, and no answer was lost

dashVars == <<dash, curve, dashCalls, autoTrade, trusted>>

NothingLoaded == <<NoDash, 0>>
Of(kind) == {c \in dashCalls : c.kind = kind}
Selected == <<dash.account, dash.hours>>

DashInit ==
  /\ dash = [open |-> FALSE, account |-> NoDash, hours |-> CHOOSE h \in Ranges : TRUE,
             stats |-> NothingLoaded, auto |-> TRUE, loading |-> FALSE,
             trades |-> NoDash, syncing |-> FALSE]
  /\ curve = <<>>
  /\ dashCalls = {}
  /\ autoTrade \in [DashAccounts -> BOOLEAN]
  /\ trusted = TRUE

\* The effects of a page with state d: load statistics, equity and account,
\* and, when the account is a new one, the closed trades.
Effects(d, newAccount) ==
  IF d.account = NoDash
    THEN /\ dash' = [d EXCEPT !.stats = NothingLoaded, !.trades = NoDash]
         /\ curve' = <<>>
         /\ UNCHANGED dashCalls
    ELSE /\ dash' = [d EXCEPT !.loading = TRUE]
         /\ dashCalls' = dashCalls
              \cup {[kind |-> "load", key |-> <<d.account, d.hours>>]}
              \cup {c \in {[kind |-> "trades", key |-> <<d.account, 0>>]} : newAccount}
         /\ UNCHANGED curve

Calm == Of("load") \cup Of("trades") \cup Of("toggle") = {}

DashOpen(a) ==
  /\ ~dash.open
  /\ Effects([dash EXCEPT !.open = TRUE, !.account = a], TRUE)
  /\ trusted' = TRUE
  /\ UNCHANGED autoTrade

\* The account selector, and the range bar of the equity chart.
DashSelect(a, h) ==
  /\ dash.open /\ <<a, h>> # Selected
  /\ Cardinality(dashCalls) < MaxDashCalls
  /\ Effects([dash EXCEPT !.account = a, !.hours = h], a # dash.account)
  /\ trusted' = Calm
  /\ UNCHANGED autoTrade

Times(S) == CHOOSE s \in [1 .. Cardinality(S) -> S] : \A i, j \in DOMAIN s : i < j => s[i] < s[j]

\* All three answers of a load are there, or one failed; in both cases the
\* page stops loading, though a newer load may be under way.
DashLoaded(c, ok) ==
  /\ c.kind = "load"
  /\ dashCalls' = dashCalls \ {c}
  /\ IF ok
       THEN /\ dash' = [dash EXCEPT !.stats = c.key, !.auto = autoTrade[c.key[1]],
                                    !.loading = FALSE]
            /\ \E S \in SUBSET Stamps : Cardinality(S) <= MaxPoints /\ curve' = Times(S)
       ELSE /\ dash' = [dash EXCEPT !.stats = NothingLoaded, !.loading = FALSE]
            /\ curve' = <<>>
  /\ UNCHANGED <<autoTrade, trusted>>

TradesLoaded(c, ok) ==
  /\ c.kind = "trades"
  /\ dashCalls' = dashCalls \ {c}
  /\ dash' = [dash EXCEPT !.trades = IF ok THEN c.key[1] ELSE NoDash]
  /\ UNCHANGED <<curve, autoTrade, trusted>>

\* handleEquityUpdate, when an equity_update names the time t.
InOrder(s) == \A i, j \in DOMAIN s : i < j => s[i] < s[j]
Seen == {curve[i] : i \in DOMAIN curve}
LastOf(s, n) == IF Len(s) <= n THEN s ELSE SubSeq(s, Len(s) - n + 1, Len(s))

EquityPoint(t) ==
  /\ dash.open /\ dash.account # NoDash /\ t \notin Seen
  /\ LET kept == LastOf(curve, MaxPoints - 1)
     IN curve' = Times({kept[i] : i \in DOMAIN kept} \cup {t})
  /\ UNCHANGED <<dash, dashCalls, autoTrade, trusted>>

\* handleAutoTradeToggle: shown at once, and the switch is never disabled.
Toggle ==
  /\ dash.open /\ dash.account # NoDash
  /\ Cardinality(dashCalls) < MaxDashCalls
  /\ dash' = [dash EXCEPT !.auto = ~@]
  /\ dashCalls' = dashCalls \cup {[kind |-> "toggle", key |-> <<dash.account, ~dash.auto>>]}
  /\ trusted' = (trusted /\ Calm)
  /\ UNCHANGED <<curve, autoTrade>>

\* The update is made, refused, or made while its answer is lost.
Toggled(c, how) ==
  /\ c.kind = "toggle"
  /\ dashCalls' = dashCalls \ {c}
  /\ autoTrade' = IF how = "refused" THEN autoTrade ELSE [autoTrade EXCEPT ![c.key[1]] = c.key[2]]
  /\ dash' = IF how = "made" THEN dash ELSE [dash EXCEPT !.auto = ~c.key[2]]
  /\ trusted' = (trusted /\ how # "lost")
  /\ UNCHANGED curve

\* handleSyncOrders and its button; the result goes to a toast.
SyncOrders ==
  /\ dash.open /\ dash.account # NoDash /\ ~dash.syncing
  /\ Cardinality(dashCalls) < MaxDashCalls
  /\ dash' = [dash EXCEPT !.syncing = TRUE]
  /\ dashCalls' = dashCalls \cup {[kind |-> "sync", key |-> <<dash.account, 0>>]}
  /\ UNCHANGED <<curve, autoTrade, trusted>>

Synced(c) ==
  /\ c.kind = "sync"
  /\ dashCalls' = dashCalls \ {c}
  /\ dash' = [dash EXCEPT !.syncing = FALSE]
  /\ UNCHANGED <<curve, autoTrade, trusted>>

DashAnswer(c) ==
  \/ \E ok \in BOOLEAN : DashLoaded(c, ok) \/ TradesLoaded(c, ok)
  \/ \E how \in {"made", "refused", "lost"} : Toggled(c, how)
  \/ Synced(c)

DashNext ==
  \/ \E a \in DashAccounts \cup {NoDash} : DashOpen(a)
  \/ \E a \in DashAccounts \cup {NoDash}, h \in Ranges : DashSelect(a, h)
  \/ \E t \in Stamps : EquityPoint(t)
  \/ Toggle \/ SyncOrders
  \/ \E c \in dashCalls : DashAnswer(c)

DashSpec == DashInit /\ [][DashNext]_dashVars

-----------------------------------------------------------------------------
\* What the components make of the page's state.
KpiShows ==
  IF dash.loading THEN "..." ELSE IF dash.stats = NothingLoaded THEN "-" ELSE "figures"

ChartShows ==
  IF dash.loading THEN "Loading" ELSE IF curve = <<>> THEN "No equity data yet" ELSE "curve"

TradesShow ==
  IF Of("trades") # {} THEN "Loading" ELSE IF dash.trades = NoDash THEN "No closed trades" ELSE "rows"

\* With nothing under way the cards and the trades are those of the selected
\* account and range or none at all, unless a load overlapped another one:
\* then the later answer wins, whichever account it belongs to.
DashShowsSelection ==
  trusted /\ Calm /\ dash.open =>
    /\ KpiShows = "figures" => dash.stats = Selected
    /\ TradesShow = "rows" => dash.trades = dash.account
    /\ KpiShows # "..." /\ ChartShows # "Loading"

\* With nothing under way the auto-trade switch is that of the selected
\* account in the backend, after refused updates too; a lost answer, an
\* overlapping request or a failed load may leave it wrong.
SwitchTellsTrading ==
  trusted /\ Calm /\ KpiShows = "figures" => dash.auto = autoTrade[dash.account]

\* However loads and live points mix, the curve is in the order of time, has
\* no time twice and never more points than it keeps.
CurveInOrder == InOrder(curve) /\ Len(curve) <= MaxPoints

=============================================================================

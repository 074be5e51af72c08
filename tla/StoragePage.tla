----------------------------- MODULE StoragePage -----------------------------
(***************************************************************************)
(* The storage page (src/frontend/src/app/storage/page.tsx and components/ *)
(* storage/) and its routes (src/backend/api/routes/storage.py): what each *)
(* of the three stores holds, the destructive actions behind a dialog that *)
(* wants the name typed, and the browser of a table's rows, page by page.  *)
(***************************************************************************)
EXTENDS Naturals, FiniteSets

CONSTANTS
  Tables, Protected, Children,  \* PostgreSQL: all tables; PROTECTED_TABLES; those that are "cascade-only"
  References,                   \* foreign keys: <<referring table, table>>
  QuestTables,                  \* QuestDB: tables
  RowLimits, FullRows,          \* page sizes; rows a table has at first
  MaxStClicks, MaxStMishaps     \* bounds: what the user does; failed requests

ASSUME StorageAssumption ==
  /\ Protected \subseteq Tables /\ Children \subseteq Protected /\ References \subseteq Tables \X Tables
  /\ Tables \cap QuestTables = {} /\ IsFiniteSet(Tables) /\ IsFiniteSet(QuestTables)
  /\ {"redis", "none"} \cap (Tables \cup QuestTables) = {}
  /\ RowLimits \subseteq Nat \ {0} /\ RowLimits # {} /\ FullRows \in Nat

\* The foreign keys of db/models.py: what refers from a protected table, but
\* for the "cascade-only" ones, refers to such a table (trades to accounts).
ASSUME ForeignKeyAssumption ==
  \A key \in References : key[1] \in Protected \ Children => key[2] \in Protected \ Children

VARIABLES
  stRows,   \* the stores: the rows of each table ("redis" is one, its keys)
  stPage,   \* the page: the stores it shows, those loading, dialog, browser
  stLoads,  \* stores asked for
  stActs,   \* destructive actions under way
  stGets,   \* pages of rows asked for
  stHist    \* history: answers that may have overtaken each other; clicks, mishaps
stVars == <<stRows, stPage, stLoads, stActs, stGets, stHist>>

Stores == {"postgres", "questdb", "redis"}
ItemsOf(s) == CASE s = "postgres" -> Tables [] s = "questdb" -> QuestTables [] OTHER -> {"redis"}
Items == UNION {ItemsOf(s) : s \in Stores}
NoAct == [kind |-> "none", item |-> "none"]
NoRows == [item |-> "none", page |-> 0, limit |-> 0, total |-> 0]
Shut == [item |-> "none", page |-> 1, data |-> NoRows, loading |-> FALSE, error |-> FALSE]
FirstLimit == CHOOSE l \in RowLimits : \A k \in RowLimits : k <= l

StInit ==
  /\ stRows = [i \in Items |-> FullRows]
  /\ stPage = [stats |-> [s \in Stores |-> {}], up |-> {}, loading |-> Stores, pending |-> NoAct,
               typed |-> FALSE, working |-> FALSE, browser |-> Shut, limit |-> FirstLimit]
  /\ stLoads = Stores /\ stActs = {} /\ stGets = {}
  /\ stHist = [overlap |-> {}, crossed |-> FALSE, clicks |-> 0, mishaps |-> 0]

StClick == stHist.clicks < MaxStClicks
StMishap(ok) == ok \/ stHist.mishaps < MaxStMishaps
StCount(ok) == IF ok THEN stHist.mishaps ELSE stHist.mishaps + 1

\* A store's panel is in the place of "Loading..." or away with its state.
PanelShown(s) == s \notin stPage.loading
AtRest == stPage.pending = NoAct /\ stPage.browser.item = "none"
Unmounted(page, s) ==
  LET away(i) == i \in ItemsOf(s)
  IN [page EXCEPT !.pending = IF away(@.item) THEN NoAct ELSE @, !.typed = @ /\ ~away(page.pending.item),
                  !.working = @ /\ ~away(page.pending.item), !.browser = IF away(@.item) THEN Shut ELSE @]

-----------------------------------------------------------------------------
(* What the stores hold *)

\* fetchPostgres, fetchQuestDB, fetchRedis: the panels of the stores go away.
Fetch(page, some, click) ==
  /\ stPage' = [(IF \E s \in some : page.pending.item \in ItemsOf(s) \/ page.browser.item \in ItemsOf(s)
                  THEN Unmounted(page, CHOOSE s \in some :
                                 page.pending.item \in ItemsOf(s) \/ page.browser.item \in ItemsOf(s))
                  ELSE page) EXCEPT !.loading = @ \cup some]
  /\ stLoads' = stLoads \cup some
  /\ stHist' = [stHist EXCEPT !.overlap = (@ \ some) \cup (some \cap stLoads), !.clicks = @ + click]

\* The button is behind the dialog or the sheet while one is open.
RefreshAll == AtRest /\ StClick /\ Fetch(stPage, Stores, 1) /\ UNCHANGED <<stRows, stActs, stGets>>

StoreArrives(s, ok) ==
  /\ s \in stLoads /\ StMishap(ok)
  /\ stLoads' = stLoads \ {s}
  /\ stPage' = [stPage EXCEPT !.loading = @ \ {s}, !.up = IF ok THEN @ \cup {s} ELSE @ \ {s},
       !.stats[s] = IF ok THEN {[item |-> i, rows |-> stRows[i]] : i \in ItemsOf(s)} ELSE {}]
  /\ stHist' = [stHist EXCEPT !.mishaps = StCount(ok)]
  /\ UNCHANGED <<stRows, stActs, stGets>>

\* The card of a store; QuestDB's has tables, perhaps none, but is never down.
CardSays(s) ==
  IF s \in stPage.loading THEN "Loading" ELSE IF s \in stPage.up \/ s = "questdb" THEN "size" ELSE "Unreachable"

\* Bug variant: only the child tables are in the set.
IsProtectedChild(t) == t \in Children

\* The set that both the listing and the routes look into.
IsProtected(t) == t \in Protected

\* The tables that have buttons; the others have a lock.
Manageable == {t \in {x.item : x \in stPage.stats["postgres"]} : ~IsProtected(t)}

-----------------------------------------------------------------------------
(* Destructive actions *)

Offered ==
  {[kind |-> k, item |-> t] : k \in {"truncate", "purge"}, t \in Manageable}
    \cup {[kind |-> "drop", item |-> x.item] : x \in {y \in stPage.stats["questdb"] : y.rows > 0}}
    \cup (IF "redis" \in stPage.up THEN {[kind |-> "flush", item |-> "redis"]} ELSE {})

AskToDestroy(a) ==
  /\ AtRest /\ StClick /\ a \in Offered /\ \E s \in Stores : a.item \in ItemsOf(s) /\ PanelShown(s)
  /\ stPage' = [stPage EXCEPT !.pending = a, !.typed = FALSE, !.working = FALSE]
  /\ stHist' = [stHist EXCEPT !.clicks = @ + 1]
  /\ UNCHANGED <<stRows, stLoads, stActs, stGets>>

TypeName ==
  /\ stPage.pending # NoAct /\ ~stPage.typed /\ stPage' = [stPage EXCEPT !.typed = TRUE]
  /\ UNCHANGED <<stRows, stLoads, stActs, stGets, stHist>>

\* Escape closes the dialog also while it works; Cancel only when it does not.
CloseDialog ==
  /\ stPage.pending # NoAct
  /\ stPage' = [stPage EXCEPT !.pending = NoAct, !.typed = FALSE, !.working = FALSE]
  /\ UNCHANGED <<stRows, stLoads, stActs, stGets, stHist>>

Confirm ==
  /\ stPage.pending # NoAct /\ stPage.typed /\ ~stPage.working
  /\ stPage' = [stPage EXCEPT !.working = TRUE] /\ stActs' = stActs \cup {stPage.pending}
  /\ UNCHANGED <<stRows, stLoads, stGets, stHist>>

\* TRUNCATE ... CASCADE: all tables that refer to t or, in turn, to one of them.
Cascaded(t) ==
  LET closed(some) == \A key \in References : key[2] \in some \cup {t} => key[1] \in some
  IN {u \in Tables : \A some \in SUBSET Tables : closed(some) => u \in some}

\* The route refuses a protected table.
Allowed(a) == a.kind \in {"truncate", "purge"} => ~IsProtected(a.item)

Destroyed(a) ==
  CASE a.kind = "truncate" ->
          [i \in Items |-> IF i = a.item \/ i \in Cascaded(a.item) THEN 0 ELSE stRows[i]]
    [] a.kind = "purge" ->
         [i \in Items |->
             IF /\ i = a.item \/ (i \in Children /\ <<i, a.item>> \in References)
                /\ stRows[i] > 1
             THEN 1 ELSE stRows[i]]
    [] OTHER -> [stRows EXCEPT ![a.item] = 0]

\* onRefresh of a panel: its store is asked again, and the dialog closes
\* whatever is pending.
AfterAction(s) == Fetch(Unmounted(stPage, s), {s}, 0)

\* An error leaves the dialog open, with nothing typed.
ActionEnds(a, ok) ==
  LET s == CHOOSE x \in Stores : a.item \in ItemsOf(x)
      done == ok /\ Allowed(a)
  IN /\ a \in stActs /\ StMishap(ok) /\ stActs' = stActs \ {a}
     /\ IF done
          THEN stRows' = Destroyed(a) /\ AfterAction(s)
          ELSE /\ stPage' = IF stPage.pending = a
                            THEN [stPage EXCEPT !.working = FALSE, !.typed = FALSE] ELSE stPage
               /\ stHist' = [stHist EXCEPT !.mishaps = StCount(ok)] /\ UNCHANGED <<stRows, stLoads>>
     /\ UNCHANGED stGets

-----------------------------------------------------------------------------
(* The browser *)

\* The effect asks with the state that has been set.
Asked(page) == [item |-> page.browser.item, page |-> page.browser.page, limit |-> page.limit]

GetRows(page) ==
  /\ StClick /\ stGets' = stGets \cup {Asked(page)}
  /\ stPage' = [page EXCEPT !.browser.loading = TRUE, !.browser.error = FALSE]
  /\ stHist' = [stHist EXCEPT !.crossed = stGets # {}, !.clicks = @ + 1]
  /\ UNCHANGED <<stRows, stLoads, stActs>>

\* The reset on another name; the page size is kept.
OpenedAt(t) == [stPage EXCEPT !.browser = [Shut EXCEPT !.item = t]]

OpenBrowser(t) ==
  /\ AtRest /\ \E s \in Stores \ {"redis"} : PanelShown(s) /\ \E x \in stPage.stats[s] : x.item = t
  /\ GetRows(OpenedAt(t))

CloseBrowser ==
  /\ stPage.browser.item # "none"
  /\ stPage' = [stPage EXCEPT !.browser = [Shut EXCEPT !.loading = stPage.browser.loading]]
  /\ UNCHANGED <<stRows, stLoads, stActs, stGets, stHist>>

\* A late answer fills the browser whatever it is open for.
RowsCome(g, ok) ==
  /\ g \in stGets /\ StMishap(ok) /\ stGets' = stGets \ {g}
  /\ stPage' = [stPage EXCEPT !.browser.loading = FALSE, !.browser.error = ~ok,
       !.browser.data =
          IF ok THEN [item |-> g.item, page |-> g.page, limit |-> g.limit, total |-> stRows[g.item]] ELSE @]
  /\ stHist' = [stHist EXCEPT !.mishaps = StCount(ok)]
  /\ UNCHANGED <<stRows, stLoads, stActs>>

Known == stPage.browser.data # NoRows
PagesFor(limit) == (stPage.browser.data.total + limit - 1) \div limit
RangeShown ==
  LET start == (stPage.browser.page - 1) * stPage.limit + 1
      end == stPage.browser.page * stPage.limit
  IN <<start, IF Known /\ end > stPage.browser.data.total THEN stPage.browser.data.total ELSE end>>
BodySays ==
  IF stPage.browser.loading /\ ~Known THEN "Loading rows" ELSE IF stPage.browser.error THEN "Failed to load"
  ELSE IF ~Known \/ stPage.browser.data.total = 0 THEN "This table is empty" ELSE "rows"

\* The pages the buttons and the input lead to; not known, any number will do.
CanGo(n) == Known => n <= PagesFor(stPage.limit)

TurnPage(n) ==
  /\ stPage.browser.item # "none" /\ n # stPage.browser.page /\ n >= 1 /\ CanGo(n)
  /\ GetRows([stPage EXCEPT !.browser.page = n])

\* Another page size starts at the first page.
ResizePage(l) ==
  /\ stPage.browser.item # "none" /\ l # stPage.limit
  /\ GetRows([stPage EXCEPT !.limit = l, !.browser.page = 1])

-----------------------------------------------------------------------------
StUser ==
  \/ RefreshAll \/ (\E a \in Offered : AskToDestroy(a)) \/ TypeName \/ CloseDialog \/ Confirm
  \/ (\E t \in Items : OpenBrowser(t)) \/ CloseBrowser
  \/ (\E n \in 1 .. FullRows : TurnPage(n)) \/ \E l \in RowLimits : ResizePage(l)
StAnswers ==
  \E ok \in BOOLEAN : \/ (\E s \in stLoads : StoreArrives(s, ok)) \/ (\E a \in stActs : ActionEnds(a, ok))
                      \/ \E g \in stGets : RowsCome(g, ok)
StNext == StUser \/ StAnswers
StSpec == StInit /\ [][StNext]_stVars

-----------------------------------------------------------------------------
\* No action of the page, nor what it cascades to, takes a row from a table
\* that is protected, but for the children that are "cascade-only".
ProtectedSurvive == \A t \in Protected \ Children : stRows[t] = FullRows

\* (The listing's counts are the statistics collector's, taken as exact.)
\* Once an action is over and its store has answered, the panel tells what is
\* left, in every table of the store, those it cascaded to as well.
PanelTellsRows ==
  \A s \in Stores :
    stLoads \cap {s} = {} /\ s \in stPage.up /\ s \notin stHist.overlap
      => stPage.stats[s] = {[item |-> i, rows |-> stRows[i]] : i \in ItemsOf(s)}

\* The rows in the browser are those of its table, its page and its size, once
\* its answers have come one at a time.
BrowserTellsRows ==
  stPage.browser.item # "none" /\ stGets = {} /\ ~stHist.crossed /\ ~stPage.browser.error /\ Known
    => /\ stPage.browser.data.item = stPage.browser.item
       /\ stPage.browser.data.page = stPage.browser.page /\ stPage.browser.data.limit = stPage.limit

\* What the storage page promises of the tables it works on.
StorageIsTrue == ProtectedSurvive /\ PanelTellsRows /\ BrowserTellsRows
=============================================================================

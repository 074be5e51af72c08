-------------------------- MODULE RecordPagesProofs --------------------------
(***************************************************************************)
(* Proofs about the pages that keep records, each for any number of clicks,*)
(* requests and failures: the storage page, for any tables, foreign keys   *)
(* and page sizes; the logs page, for any runs, steps and losses; the      *)
(* strategy pages, for any accounts and symbols.                           *)
(***************************************************************************)
EXTENDS StoragePage, LogsPage, StrategyAdmin, FiniteSetTheorems, WellFoundedInduction, TLAPS

(***************************************************************************)
(* The inductive invariant.  What a panel tells is right already while     *)
(* another store is asked; an action has its store asked in the same step, *)
(* so it must not touch a table of another store (ActsAreOfStores).  The   *)
(* answer to come is the browser's own while answers have not crossed      *)
(* (OneAsked).                                                             *)
(***************************************************************************)
Acts ==
  [kind : {"truncate", "purge"}, item : Tables] \cup [kind : {"drop"}, item : QuestTables]
    \cup {[kind |-> "flush", item |-> "redis"]}

Browsers ==
  [item : Items \cup {"none"}, page : Nat, loading : BOOLEAN, error : BOOLEAN,
   data : [item : Items \cup {"none"}, page : Nat, limit : RowLimits \cup {FirstLimit, 0}, total : Nat]]

StPages ==
  [stats : [Stores -> SUBSET [item : Items, rows : Nat]], up : SUBSET Stores, loading : SUBSET Stores,
   pending : Acts \cup {NoAct}, typed : BOOLEAN, working : BOOLEAN, browser : Browsers,
   limit : RowLimits \cup {FirstLimit}]

StTypeOK ==
  /\ stRows \in [Items -> Nat] /\ stPage \in StPages
  /\ stLoads \subseteq Stores /\ stActs \subseteq Acts
  /\ stGets \subseteq [item : Items, page : Nat, limit : RowLimits \cup {FirstLimit}]
  /\ stHist \in [overlap : SUBSET Stores, crossed : BOOLEAN, clicks : Nat, mishaps : Nat]

PanelsAreOfStores == \A s \in Stores : \A x \in stPage.stats[s] : x.item \in ItemsOf(s)

OneAsked ==
  stPage.browser.item # "none" /\ ~stHist.crossed => stGets \subseteq {Asked(stPage)}

StorageInv == StTypeOK /\ PanelsAreOfStores /\ OneAsked /\ StorageIsTrue

StoreOf(a) == CHOOSE x \in Stores : a.item \in ItemsOf(x)

\* Every item is of one store.
LEMMA ItemsOfStores ==
  /\ ItemsOf("postgres") = Tables /\ ItemsOf("questdb") = QuestTables /\ ItemsOf("redis") = {"redis"}
  /\ Items = Tables \cup QuestTables \cup {"redis"} /\ "none" \notin Items
  /\ \A s, x \in Stores : s # x => ItemsOf(s) \cap ItemsOf(x) = {}
BY StorageAssumption DEF ItemsOf, Items, Stores

\* The store of an action is the one that has its item.
LEMMA ActsAreOfStores ==
  ASSUME NEW a \in Acts
  PROVE  /\ StoreOf(a) \in Stores /\ a.item \in ItemsOf(StoreOf(a)) /\ a.item \in Items
         /\ a.kind \in {"truncate", "purge"} =>
              a.item \in Tables /\ StoreOf(a) = "postgres"
         /\ a.kind \notin {"truncate", "purge"} => a.item \notin Tables
<1>1. \E x \in Stores : a.item \in ItemsOf(x)
  BY ItemsOfStores DEF Acts, Stores
<1>2. StoreOf(a) \in Stores /\ a.item \in ItemsOf(StoreOf(a))
  BY <1>1 DEF StoreOf
<1>3. /\ a.kind \in {"truncate", "purge"} => a.item \in ItemsOf("postgres")
      /\ a.kind \notin {"truncate", "purge"} => a.item \notin Tables
  BY ItemsOfStores, StorageAssumption DEF Acts
<1> QED BY <1>2, <1>3, ItemsOfStores DEF Stores

\* A cascade from a table that is not protected reaches no protected one but
\* the cascade-only: the others are out of a set that the keys do not leave.
LEMMA CascadeSpares ==
  ASSUME NEW t \in Tables \ Protected
  PROVE  Cascaded(t) \cap (Protected \ Children) = {}
<1> DEFINE others == Tables \ (Protected \ Children)
<1>1. \A key \in References : key[1] \in Tables /\ (key[2] \in others \cup {t} => key[1] \in others)
  BY StorageAssumption, ForeignKeyAssumption
<1>2. others \in SUBSET Tables
  OBVIOUS
<1> QED BY <1>1, <1>2 DEF Cascaded

\* An action that is allowed leaves the other stores and the protected tables.
LEMMA DestroyedLeaves ==
  ASSUME StTypeOK, NEW a \in Acts, Allowed(a)
  PROVE  /\ Destroyed(a) \in [Items -> Nat]
         /\ \A s \in Stores \ {StoreOf(a)} : \A i \in ItemsOf(s) : Destroyed(a)[i] = stRows[i]
         /\ \A t \in Protected \ Children : Destroyed(a)[t] = stRows[t]
<1>1. /\ Protected \subseteq Tables /\ Children \subseteq Tables /\ References \subseteq Tables \X Tables
      /\ Cascaded(a.item) \subseteq Tables
  BY StorageAssumption DEF Cascaded
<1>2. CASE a.kind = "truncate"
  BY <1>1, <1>2, ItemsOfStores, ActsAreOfStores, CascadeSpares
     DEF Destroyed, StTypeOK, Allowed, IsProtected, Stores
<1>3. CASE a.kind = "purge"
  BY <1>1, <1>3, ItemsOfStores, ActsAreOfStores
     DEF Destroyed, StTypeOK, Allowed, IsProtected, Stores
<1>4. CASE a.kind \notin {"truncate", "purge"}
  BY <1>1, <1>4, ItemsOfStores, ActsAreOfStores DEF Destroyed, StTypeOK, Stores
<1> QED BY <1>2, <1>3, <1>4

\* A panel that goes away takes its dialog and the browser along.
LEMMA UnmountedKeeps ==
  ASSUME NEW page \in StPages, NEW s \in Stores
  PROVE  LET new == Unmounted(page, s)
         IN /\ new \in StPages /\ new.browser \in {page.browser, Shut}
            /\ new.stats = page.stats /\ new.up = page.up /\ new.limit = page.limit
<1>1. Shut \in Browsers /\ NoAct \in Acts \cup {NoAct}
  BY DEF Shut, Browsers, NoRows
<1> QED BY <1>1 DEF Unmounted, StPages

\* Fetching touches the dialog and the browser only by taking them away.
LEMMA FetchKeeps ==
  ASSUME StTypeOK, NEW page \in StPages, NEW some \in SUBSET Stores, NEW click \in Nat,
         Fetch(page, some, click)
  PROVE  /\ stPage' \in StPages /\ stPage'.browser \in {page.browser, Shut}
         /\ stPage'.stats = page.stats /\ stPage'.up = page.up /\ stPage'.limit = page.limit
         /\ stLoads' = stLoads \cup some
         /\ stHist' \in [overlap : SUBSET Stores, crossed : BOOLEAN, clicks : Nat, mishaps : Nat]
         /\ stHist'.crossed = stHist.crossed
         /\ \A s \in Stores \ some : s \in stHist'.overlap <=> s \in stHist.overlap
<1> DEFINE taken(s) == page.pending.item \in ItemsOf(s) \/ page.browser.item \in ItemsOf(s)
           at == CHOOSE s \in some : taken(s)
           left == IF \E s \in some : taken(s) THEN Unmounted(page, at) ELSE page
<1>1. /\ left \in StPages /\ left.browser \in {page.browser, Shut}
      /\ left.stats = page.stats /\ left.up = page.up /\ left.limit = page.limit
  <2>1. CASE \E s \in some : taken(s)
    <3>1. at \in Stores
      BY <2>1
    <3> HIDE DEF at
    <3> QED BY <2>1, <3>1, UnmountedKeeps
  <2>2. CASE ~ \E s \in some : taken(s)
    BY <2>2
  <2> QED BY <2>1, <2>2
<1>2. stPage' = [left EXCEPT !.loading = @ \cup some]
  BY DEF Fetch
<1> HIDE DEF left
<1>3. /\ stPage' \in StPages /\ stPage'.browser \in {page.browser, Shut}
      /\ stPage'.stats = page.stats /\ stPage'.up = page.up /\ stPage'.limit = page.limit
  BY <1>1, <1>2 DEF StPages
<1>4. /\ stLoads' = stLoads \cup some
      /\ stHist' = [stHist EXCEPT !.overlap = (@ \ some) \cup (some \cap stLoads), !.clicks = @ + click]
  BY DEF Fetch
<1>5. /\ stHist' \in [overlap : SUBSET Stores, crossed : BOOLEAN, clicks : Nat, mishaps : Nat]
      /\ stHist'.crossed = stHist.crossed
      /\ stHist'.overlap = (stHist.overlap \ some) \cup (some \cap stLoads)
  <2> DEFINE others == (stHist.overlap \ some) \cup (some \cap stLoads)
             clicks == stHist.clicks + click
  <2>1. others \in SUBSET Stores /\ clicks \in Nat
    BY DEF StTypeOK
  <2>2. stHist' = [stHist EXCEPT !.overlap = others, !.clicks = clicks]
    BY <1>4
  <2> HIDE DEF others, clicks
  <2>3. /\ stHist' \in [overlap : SUBSET Stores, crossed : BOOLEAN, clicks : Nat, mishaps : Nat]
        /\ stHist'.crossed = stHist.crossed /\ stHist'.overlap = others
    BY <2>1, <2>2 DEF StTypeOK
  <2> QED BY <2>3 DEF others
<1> QED BY <1>3, <1>4, <1>5 DEF StTypeOK

-----------------------------------------------------------------------------
\* A step that leaves the browser, or shuts it, leaves what it tells right.
LEMMA BrowserRests ==
  ASSUME StorageInv, stPage'.browser \in {stPage.browser, Shut}, stPage'.limit = stPage.limit,
         UNCHANGED stGets, stHist'.crossed = stHist.crossed
  PROVE  OneAsked' /\ BrowserTellsRows'
<1>1. CASE stPage'.browser = stPage.browser
  BY <1>1 DEF StorageInv, OneAsked, Asked, StorageIsTrue, BrowserTellsRows, Known
<1>2. CASE stPage'.browser = Shut
  BY <1>2 DEF OneAsked, BrowserTellsRows, Shut
<1> QED BY <1>1, <1>2

\* A step that leaves the rows and the panels leaves what they tell right.
LEMMA PanelsRest ==
  ASSUME StorageInv, stPage'.stats = stPage.stats, stPage'.up = stPage.up,
         UNCHANGED <<stRows, stLoads>>, stHist'.overlap = stHist.overlap
  PROVE  PanelsAreOfStores' /\ ProtectedSurvive' /\ PanelTellsRows'
BY DEF StorageInv, PanelsAreOfStores, StorageIsTrue, ProtectedSurvive, PanelTellsRows

\* The first state.
LEMMA InitStorage == StInit => StorageInv
<1> SUFFICES ASSUME StInit PROVE StorageInv
  OBVIOUS
<1>1. Shut \in Browsers /\ Shut.item = "none"
  BY DEF Shut, Browsers, NoRows
<1>2. stPage \in StPages /\ stPage.browser = Shut
  BY <1>1 DEF StInit, StPages
<1>3. StTypeOK
  BY <1>2, StorageAssumption DEF StInit, StTypeOK
<1>4. PanelsAreOfStores /\ OneAsked /\ PanelTellsRows /\ BrowserTellsRows
  BY <1>1, <1>2 DEF StInit, PanelsAreOfStores, OneAsked, PanelTellsRows, BrowserTellsRows
<1>5. ProtectedSurvive
  BY StorageAssumption, ItemsOfStores DEF StInit, ProtectedSurvive
<1> QED BY <1>3, <1>4, <1>5 DEF StorageInv, StorageIsTrue

\* Asking for rows: what is asked for is what the browser is at from then on.
LEMMA GetRowsKeeps ==
  ASSUME StorageInv, NEW page \in StPages, GetRows(page), page.browser.item \in Items,
         page.stats = stPage.stats, page.up = stPage.up
  PROVE  StorageInv'
<1>1. /\ stPage' \in StPages /\ Asked(stPage') = Asked(page)
      /\ stPage'.stats = stPage.stats /\ stPage'.up = stPage.up
  BY DEF GetRows, StPages, Browsers, Asked
<1>2. /\ stGets' = stGets \cup {Asked(page)}
      /\ Asked(page) \in [item : Items, page : Nat, limit : RowLimits \cup {FirstLimit}]
  BY DEF GetRows, Asked, StPages, Browsers
<1>3. /\ stHist' \in [overlap : SUBSET Stores, crossed : BOOLEAN, clicks : Nat, mishaps : Nat]
      /\ stHist'.overlap = stHist.overlap /\ (stHist'.crossed <=> stGets # {})
  <2>1. CASE stGets = {}
    <3>1. stHist' = [stHist EXCEPT !.crossed = FALSE, !.clicks = @ + 1]
      BY <2>1 DEF GetRows
    <3>2. /\ stHist' \in [overlap : SUBSET Stores, crossed : BOOLEAN, clicks : Nat, mishaps : Nat]
          /\ stHist'.overlap = stHist.overlap
      <4>1. /\ stHist \in [overlap : SUBSET Stores, crossed : BOOLEAN, clicks : Nat, mishaps : Nat]
            /\ stHist.clicks + 1 \in Nat
        BY DEF StorageInv, StTypeOK
      <4> QED BY <3>1, <4>1
    <3>3. stHist'.crossed = FALSE
      BY <3>1 DEF StorageInv, StTypeOK
    <3> QED BY <2>1, <3>2, <3>3
  <2>2. CASE stGets # {}
    <3>1. stHist' = [stHist EXCEPT !.crossed = TRUE, !.clicks = @ + 1]
      BY <2>2 DEF GetRows
    <3>2. /\ stHist' \in [overlap : SUBSET Stores, crossed : BOOLEAN, clicks : Nat, mishaps : Nat]
          /\ stHist'.overlap = stHist.overlap
      <4>1. /\ stHist \in [overlap : SUBSET Stores, crossed : BOOLEAN, clicks : Nat, mishaps : Nat]
            /\ stHist.clicks + 1 \in Nat
        BY DEF StorageInv, StTypeOK
      <4> QED BY <3>1, <4>1
    <3>3. stHist'.crossed = TRUE
      BY <3>1 DEF StorageInv, StTypeOK
    <3> QED BY <2>2, <3>2, <3>3
  <2> QED BY <2>1, <2>2
<1>4. StTypeOK'
  BY <1>1, <1>2, <1>3 DEF GetRows, StorageInv, StTypeOK
<1>5. OneAsked' /\ BrowserTellsRows'
  BY <1>1, <1>2, <1>3 DEF OneAsked, BrowserTellsRows
<1>6. PanelsAreOfStores' /\ ProtectedSurvive' /\ PanelTellsRows'
  BY <1>1, <1>3, PanelsRest DEF GetRows
<1> QED BY <1>4, <1>5, <1>6 DEF StorageInv, StorageIsTrue

\* The end of an action: its store is asked again, the others have what they had.
LEMMA ActionEndsKeeps ==
  ASSUME StorageInv, NEW ok \in BOOLEAN, NEW a \in stActs, ActionEnds(a, ok)
  PROVE  StorageInv'
<1>0. a \in Acts /\ StTypeOK
  BY DEF StorageInv, StTypeOK
<1>1. CASE ok /\ Allowed(a)
  <2>1. /\ stRows' = Destroyed(a) /\ Fetch(Unmounted(stPage, StoreOf(a)), {StoreOf(a)}, 0)
        /\ stActs' = stActs \ {a} /\ UNCHANGED stGets
    BY <1>1 DEF ActionEnds, AfterAction, StoreOf
  <2>2. StoreOf(a) \in Stores
    BY <1>0, ActsAreOfStores
  <2> DEFINE left == Unmounted(stPage, StoreOf(a))
  <2>3. /\ left \in StPages /\ left.browser \in {stPage.browser, Shut}
        /\ left.stats = stPage.stats /\ left.up = stPage.up /\ left.limit = stPage.limit
    BY <1>0, <2>2, UnmountedKeeps DEF StTypeOK
  <2> HIDE DEF left
  <2>4. /\ stPage' \in StPages /\ stPage'.browser \in {stPage.browser, Shut}
        /\ stPage'.stats = stPage.stats /\ stPage'.up = stPage.up /\ stPage'.limit = stPage.limit
        /\ stLoads' = stLoads \cup {StoreOf(a)}
        /\ stHist' \in [overlap : SUBSET Stores, crossed : BOOLEAN, clicks : Nat, mishaps : Nat]
        /\ stHist'.crossed = stHist.crossed
        /\ \A s \in Stores \ {StoreOf(a)} : s \in stHist'.overlap <=> s \in stHist.overlap
    <3>1. Fetch(left, {StoreOf(a)}, 0)
      BY <2>1 DEF left
    <3>2. {StoreOf(a)} \in SUBSET Stores /\ 0 \in Nat
      BY <2>2
    <3>3. Shut = Shut /\ left.browser \in {stPage.browser, Shut}
      BY <2>3
    <3> QED BY <1>0, <2>3, <3>1, <3>2, <3>3, FetchKeeps
  <2>5. /\ stRows' \in [Items -> Nat]
        /\ \A s \in Stores \ {StoreOf(a)} : \A i \in ItemsOf(s) : stRows'[i] = stRows[i]
        /\ \A t \in Protected \ Children : stRows'[t] = stRows[t]
    BY <1>0, <1>1, <2>1, DestroyedLeaves
  <2>6. StTypeOK'
    BY <1>0, <2>1, <2>2, <2>4, <2>5 DEF StTypeOK
  <2>7. PanelsAreOfStores' /\ ProtectedSurvive'
    BY <2>4, <2>5 DEF StorageInv, PanelsAreOfStores, StorageIsTrue, ProtectedSurvive
  <2>8. PanelTellsRows'
    BY <2>4, <2>5 DEF StorageInv, StorageIsTrue, PanelTellsRows
  <2>9. OneAsked' /\ BrowserTellsRows'
    BY <2>1, <2>4, BrowserRests
  <2> QED BY <2>6, <2>7, <2>8, <2>9 DEF StorageInv, StorageIsTrue
<1>2. CASE ~(ok /\ Allowed(a))
  <2>1. /\ stPage' \in {stPage, [stPage EXCEPT !.working = FALSE, !.typed = FALSE]}
        /\ stHist' = [stHist EXCEPT !.mishaps = StCount(ok)] /\ UNCHANGED <<stRows, stLoads, stGets>>
        /\ stActs' = stActs \ {a}
    BY <1>2 DEF ActionEnds
  <2>2. /\ stPage' \in StPages /\ stPage'.browser = stPage.browser /\ stPage'.limit = stPage.limit
        /\ stPage'.stats = stPage.stats /\ stPage'.up = stPage.up
    BY <1>0, <2>1 DEF StTypeOK, StPages
  <2>3. /\ stHist' \in [overlap : SUBSET Stores, crossed : BOOLEAN, clicks : Nat, mishaps : Nat]
        /\ stHist'.crossed = stHist.crossed /\ stHist'.overlap = stHist.overlap
    BY <1>0, <2>1 DEF StTypeOK, StCount
  <2>4. StTypeOK'
    BY <1>0, <2>1, <2>2, <2>3 DEF StTypeOK
  <2> QED BY <2>1, <2>2, <2>3, <2>4, PanelsRest, BrowserRests DEF StorageInv, StorageIsTrue
<1> QED BY <1>1, <1>2

\* The answer of a store: its panel is what the store has now.
LEMMA StoreArrivesKeeps ==
  ASSUME StorageInv, NEW ok \in BOOLEAN, NEW s \in stLoads, StoreArrives(s, ok)
  PROVE  StorageInv'
<1> DEFINE told == IF ok THEN {[item |-> i, rows |-> stRows[i]] : i \in ItemsOf(s)} ELSE {}
           up == IF ok THEN stPage.up \cup {s} ELSE stPage.up \ {s}
<1>0. s \in Stores /\ StTypeOK /\ ItemsOf(s) \subseteq Items
  BY ItemsOfStores DEF StorageInv, StTypeOK, Stores
<1>1. told \in SUBSET [item : Items, rows : Nat] /\ up \in SUBSET Stores
  BY <1>0 DEF StTypeOK, StPages
<1>2. stPage' = [stPage EXCEPT !.loading = @ \ {s}, !.up = up, !.stats[s] = told]
  BY DEF StoreArrives
<1>3. (\A x \in told : x.item \in ItemsOf(s)) /\ (s \in up => told = {[item |-> i, rows |-> stRows[i]] : i \in ItemsOf(s)})
  BY DEF told
<1> HIDE DEF told, up
<1>4. /\ stPage' \in StPages /\ stPage'.up = up /\ stPage'.stats = [stPage.stats EXCEPT ![s] = told]
      /\ stPage'.browser = stPage.browser /\ stPage'.limit = stPage.limit
  BY <1>0, <1>1, <1>2 DEF StTypeOK, StPages
<1>5. /\ stHist' \in [overlap : SUBSET Stores, crossed : BOOLEAN, clicks : Nat, mishaps : Nat]
      /\ stHist'.crossed = stHist.crossed /\ stHist'.overlap = stHist.overlap
  BY <1>0 DEF StoreArrives, StTypeOK, StCount
<1>6. StTypeOK'
  BY <1>0, <1>4, <1>5 DEF StoreArrives, StTypeOK
<1>7. PanelsAreOfStores' /\ ProtectedSurvive'
  BY <1>0, <1>3, <1>4 DEF StoreArrives, StorageInv, StTypeOK, StPages, PanelsAreOfStores, StorageIsTrue, ProtectedSurvive
<1>8. PanelTellsRows'
  <2> SUFFICES ASSUME NEW x \in Stores, x \notin stLoads', x \in up, x \notin stHist'.overlap
               PROVE  stPage'.stats[x] = {[item |-> i, rows |-> stRows'[i]] : i \in ItemsOf(x)}
    BY <1>4 DEF PanelTellsRows
  <2>1. CASE x = s
    <3>1. stPage'.stats[s] = told
      BY <1>0, <1>4 DEF StTypeOK, StPages
    <3>2. stRows' = stRows
      BY DEF StoreArrives
    <3> QED BY <2>1, <1>3, <3>1, <3>2
  <2>2. CASE x # s
    <3>1. x \notin stLoads /\ x \in stPage.up /\ stPage'.stats[x] = stPage.stats[x]
      BY <2>2, <1>0, <1>4 DEF StoreArrives, StTypeOK, StPages, up
    <3> QED BY <3>1, <1>5 DEF StoreArrives, StorageInv, StorageIsTrue, PanelTellsRows
  <2> QED BY <2>1, <2>2
<1> QED BY <1>4, <1>5, <1>6, <1>7, <1>8, BrowserRests DEF StoreArrives, StorageInv, StorageIsTrue

\* The answer of the browser: what was asked for last, unless answers crossed.
LEMMA RowsComeKeeps ==
  ASSUME StorageInv, NEW ok \in BOOLEAN, NEW g \in stGets, RowsCome(g, ok)
  PROVE  StorageInv'
<1> DEFINE came == IF ok THEN [item |-> g.item, page |-> g.page, limit |-> g.limit, total |-> stRows[g.item]]
                   ELSE stPage.browser.data
<1>0. StTypeOK /\ g \in [item : Items, page : Nat, limit : RowLimits \cup {FirstLimit}]
  BY DEF StorageInv, StTypeOK
<1>1. /\ came \in [item : Items \cup {"none"}, page : Nat, limit : RowLimits \cup {FirstLimit, 0}, total : Nat]
      /\ ok => came.item = g.item /\ came.page = g.page /\ came.limit = g.limit
  BY <1>0 DEF StTypeOK, StPages, Browsers
<1>2. stPage' = [stPage EXCEPT !.browser.loading = FALSE, !.browser.error = ~ok, !.browser.data = came]
  BY DEF RowsCome
<1> HIDE DEF came
<1>3. /\ stPage' \in StPages /\ stPage'.stats = stPage.stats /\ stPage'.up = stPage.up
      /\ stPage'.limit = stPage.limit /\ stPage'.browser.item = stPage.browser.item
      /\ stPage'.browser.page = stPage.browser.page /\ stPage'.browser.data = came
      /\ (stPage'.browser.error <=> ~ok)
  <2>1. CASE ok
    <3> DEFINE browser == [stPage.browser EXCEPT !.loading = FALSE, !.error = FALSE, !.data = came]
    <3>1. stPage' = [stPage EXCEPT !.browser = browser]
      BY <2>1, <1>0, <1>2 DEF StTypeOK, StPages, Browsers
    <3>2. /\ browser \in Browsers /\ browser.item = stPage.browser.item
          /\ browser.page = stPage.browser.page /\ browser.data = came
      BY <1>0, <1>1 DEF StTypeOK, StPages, Browsers
    <3>3. browser.error = FALSE
      BY <1>0 DEF StTypeOK, StPages, Browsers
    <3> HIDE DEF browser
    <3>4. /\ stPage' \in StPages /\ stPage'.stats = stPage.stats /\ stPage'.up = stPage.up
          /\ stPage'.limit = stPage.limit /\ stPage'.browser = browser
      BY <1>0, <3>1, <3>2 DEF StTypeOK, StPages
    <3> QED BY <2>1, <3>2, <3>3, <3>4
  <2>2. CASE ~ok
    <3> DEFINE browser == [stPage.browser EXCEPT !.loading = FALSE, !.error = TRUE, !.data = came]
    <3>1. stPage' = [stPage EXCEPT !.browser = browser]
      BY <2>2, <1>0, <1>2 DEF StTypeOK, StPages, Browsers
    <3>2. /\ browser \in Browsers /\ browser.item = stPage.browser.item
          /\ browser.page = stPage.browser.page /\ browser.data = came
      BY <1>0, <1>1 DEF StTypeOK, StPages, Browsers
    <3>3. browser.error = TRUE
      BY <1>0 DEF StTypeOK, StPages, Browsers
    <3> HIDE DEF browser
    <3>4. /\ stPage' \in StPages /\ stPage'.stats = stPage.stats /\ stPage'.up = stPage.up
          /\ stPage'.limit = stPage.limit /\ stPage'.browser = browser
      BY <1>0, <3>1, <3>2 DEF StTypeOK, StPages
    <3> QED BY <2>2, <3>2, <3>3, <3>4
  <2> QED BY <2>1, <2>2
<1>4. /\ stHist' \in [overlap : SUBSET Stores, crossed : BOOLEAN, clicks : Nat, mishaps : Nat]
      /\ stHist'.crossed = stHist.crossed /\ stHist'.overlap = stHist.overlap
  BY <1>0 DEF RowsCome, StTypeOK, StCount
<1>5. StTypeOK'
  BY <1>0, <1>3, <1>4 DEF RowsCome, StTypeOK
<1>6. OneAsked'
  BY <1>3, <1>4 DEF RowsCome, StorageInv, OneAsked, Asked
<1>7. BrowserTellsRows'
  <2> SUFFICES ASSUME stPage.browser.item # "none", ~stHist.crossed, ok
               PROVE  /\ came.item = stPage.browser.item /\ came.page = stPage.browser.page
                      /\ came.limit = stPage.limit
    BY <1>3, <1>4 DEF BrowserTellsRows
  <2>1. g = Asked(stPage)
    BY DEF StorageInv, OneAsked
  <2> QED BY <1>1, <2>1 DEF Asked
<1>8. PanelsAreOfStores' /\ ProtectedSurvive' /\ PanelTellsRows'
  BY <1>3, <1>4, PanelsRest DEF RowsCome
<1> QED BY <1>5, <1>6, <1>7, <1>8 DEF StorageInv, StorageIsTrue

\* The dialog: typing, closing, asking and confirming change nothing told.
LEMMA DialogKeeps ==
  ASSUME StorageInv, TypeName \/ CloseDialog \/ Confirm \/ CloseBrowser \/ \E a \in Offered : AskToDestroy(a)
  PROVE  StorageInv'
<1>0. StTypeOK /\ Shut \in Browsers
  BY DEF StorageInv, Shut, Browsers, NoRows
<1>1. Offered \subseteq Acts
  <2>1. Manageable \subseteq Tables /\ \A x \in stPage.stats["questdb"] : x.item \in QuestTables
    BY ItemsOfStores DEF StorageInv, PanelsAreOfStores, Manageable, Stores
  <2> QED BY <2>1 DEF Offered, Acts
<1>2. /\ stPage' \in StPages /\ stPage'.stats = stPage.stats /\ stPage'.up = stPage.up
      /\ stPage'.limit = stPage.limit /\ stActs' \subseteq Acts
      /\ UNCHANGED <<stRows, stLoads, stGets>> /\ stHist'.overlap = stHist.overlap
      /\ stHist' \in [overlap : SUBSET Stores, crossed : BOOLEAN, clicks : Nat, mishaps : Nat]
      /\ stHist'.crossed = stHist.crossed
      /\ stPage'.browser = stPage.browser \/ stPage'.browser.item = "none"
  <2>1. CASE TypeName
    BY <1>0, <2>1 DEF TypeName, StTypeOK, StPages
  <2>2. CASE CloseDialog
    BY <1>0, <2>2 DEF CloseDialog, StTypeOK, StPages
  <2>3. CASE Confirm
    BY <1>0, <2>3 DEF Confirm, StTypeOK, StPages
  <2>4. CASE CloseBrowser
    BY <1>0, <2>4 DEF CloseBrowser, Shut, Browsers, NoRows, StTypeOK, StPages
  <2>5. CASE \E a \in Offered : AskToDestroy(a)
    <3> PICK a \in Offered : AskToDestroy(a)
      BY <2>5
    <3>1. a \in Acts /\ stPage' = [stPage EXCEPT !.pending = a, !.typed = FALSE, !.working = FALSE]
      BY <1>1 DEF AskToDestroy
    <3>2. /\ stPage' \in StPages /\ stPage'.stats = stPage.stats /\ stPage'.up = stPage.up
          /\ stPage'.limit = stPage.limit /\ stPage'.browser = stPage.browser
      BY <1>0, <3>1 DEF StTypeOK, StPages
    <3>3. /\ stHist' = [stHist EXCEPT !.clicks = @ + 1]
          /\ stActs' = stActs /\ UNCHANGED <<stRows, stLoads, stGets>>
      BY DEF AskToDestroy
    <3> QED BY <1>0, <3>2, <3>3 DEF StTypeOK
  <2> QED BY <2>1, <2>2, <2>3, <2>4, <2>5
<1>3. StTypeOK'
  BY <1>0, <1>2 DEF StTypeOK
<1>4. OneAsked' /\ BrowserTellsRows'
  BY <1>2 DEF StorageInv, OneAsked, Asked, StorageIsTrue, BrowserTellsRows, Known
<1> QED BY <1>2, <1>3, <1>4, PanelsRest DEF StorageInv, StorageIsTrue

\* Every step keeps the invariant.
LEMMA StorageStep ==
  ASSUME StorageInv, [StNext]_stVars
  PROVE  StorageInv'
<1>0. StTypeOK
  BY DEF StorageInv
<1>1. CASE RefreshAll
  <2>1. Fetch(stPage, Stores, 1) /\ UNCHANGED <<stRows, stActs, stGets>>
    BY <1>1 DEF RefreshAll
  <2>2. stPage \in StPages /\ Stores \in SUBSET Stores /\ 1 \in Nat
    BY <1>0 DEF StTypeOK
  <2>3. /\ stPage' \in StPages /\ stPage'.browser \in {stPage.browser, Shut}
        /\ stPage'.stats = stPage.stats /\ stPage'.limit = stPage.limit
        /\ stLoads' = Stores
        /\ stHist' \in [overlap : SUBSET Stores, crossed : BOOLEAN, clicks : Nat, mishaps : Nat]
        /\ stHist'.crossed = stHist.crossed
    BY <1>0, <2>1, <2>2, FetchKeeps DEF StTypeOK
  <2>4. StTypeOK'
    BY <1>0, <2>1, <2>3 DEF StTypeOK
  <2>5. PanelsAreOfStores' /\ ProtectedSurvive' /\ PanelTellsRows'
    BY <2>1, <2>3 DEF StorageInv, PanelsAreOfStores, StorageIsTrue, ProtectedSurvive, PanelTellsRows
  <2> QED BY <2>1, <2>3, <2>4, <2>5, BrowserRests DEF StorageInv, StorageIsTrue
<1>2. ASSUME NEW t \in Items, OpenBrowser(t) PROVE StorageInv'
  <2>1. /\ OpenedAt(t) \in StPages /\ OpenedAt(t).browser.item = t
        /\ OpenedAt(t).stats = stPage.stats /\ OpenedAt(t).up = stPage.up
    BY <1>0 DEF OpenedAt, Shut, NoRows, StTypeOK, StPages, Browsers
  <2> QED BY <1>2, <2>1, GetRowsKeeps DEF OpenBrowser
<1>3. ASSUME NEW n \in Nat, TurnPage(n) PROVE StorageInv'
  <2> DEFINE page == [stPage EXCEPT !.browser.page = n]
  <2>1. /\ page \in StPages /\ page.browser.item \in Items
        /\ page.stats = stPage.stats /\ page.up = stPage.up
    BY <1>0, <1>3 DEF TurnPage, StTypeOK, StPages, Browsers
  <2>2. GetRows(page)
    BY <1>3 DEF TurnPage
  <2> QED BY <2>1, <2>2, GetRowsKeeps
<1>4. ASSUME NEW l \in RowLimits, ResizePage(l) PROVE StorageInv'
  <2> DEFINE page == [stPage EXCEPT !.limit = l, !.browser.page = 1]
  <2>1. /\ page \in StPages /\ page.browser.item \in Items
        /\ page.stats = stPage.stats /\ page.up = stPage.up
    BY <1>0, <1>4 DEF ResizePage, StTypeOK, StPages, Browsers
  <2>2. GetRows(page)
    BY <1>4 DEF ResizePage
  <2> QED BY <2>1, <2>2, GetRowsKeeps
<1>5. CASE UNCHANGED stVars
  BY <1>5 DEF stVars, StorageInv, StTypeOK, PanelsAreOfStores, OneAsked, Asked, StorageIsTrue,
              ProtectedSurvive, PanelTellsRows, BrowserTellsRows, Known
<1>6. CASE StUser
  <2>1. \A n \in 1 .. FullRows : n \in Nat
    BY StorageAssumption
  <2> QED BY <1>1, <1>2, <1>3, <1>4, <1>6, <2>1, DialogKeeps DEF StUser
<1>7. CASE StAnswers
  BY <1>7, StoreArrivesKeeps, ActionEndsKeeps, RowsComeKeeps DEF StAnswers
<1> QED BY <1>5, <1>6, <1>7 DEF StNext

-----------------------------------------------------------------------------
\* The storage page never takes a row from a protected table, directly or by
\* cascade, its panels tell what is left once an action's store has answered,
\* and the browser has the rows of the page it is at (storage.py and
\* components/storage/).
THEOREM StorageIsRight == StSpec => []StorageIsTrue
<1>1. StorageInv /\ [StNext]_stVars => StorageInv'
  BY StorageStep
<1>2. StorageInv => StorageIsTrue
  BY DEF StorageInv
<1> QED BY InitStorage, <1>1, <1>2, PTL DEF StSpec

-----------------------------------------------------------------------------
(* The logs page *)

(***************************************************************************)
(* The inductive invariant of the logs page.  A step in the trace comes    *)
(* before those of its run that are still on their way (TraceBeforeWire),  *)
(* which come in order (WireTellsRuns).  The run whose start was seen last *)
(* is live, or has completed and so has no more steps (CaughtIsLiveOrOver):*)
(* what is read of it then is all of it (EndedReadsAlone).                 *)
(***************************************************************************)
Statuses == {"none", "running", "completed", "failed"}
LogSteps == [run : LogRuns, seq : Nat, kind : StepKinds \cup {"error"}]
LogRows == [id : LogRuns, status : Statuses]
LogEvents ==
  [kind : {"started", "complete"}, run : LogRuns] \cup [kind : {"step"}, run : LogRuns, step : LogSteps]
LogPages ==
  [filter : StatusFilters, list : Seq(LogRows), loading : BOOLEAN, sel : LogRows \cup {Unselected},
   live : LogRuns \cup {0}, steps : Seq(LogSteps), detail : Seq(LogSteps), reading : BOOLEAN,
   failed : BOOLEAN, caught : SUBSET LogRuns, overlap : BOOLEAN, mishaps : Nat]

LogTypeOK ==
  /\ lgRuns \in [LogRuns -> [status : Statuses, steps : Seq(LogSteps)]]
  /\ lgWire \in Seq(LogEvents) /\ lg \in LogPages
  /\ lgLoads \subseteq StatusFilters /\ lgGets \subseteq LogRuns

\* The steps on the wire are recorded, in their order; who has completed has.
WireTellsRuns ==
  \A i \in DOMAIN lgWire :
    /\ lgWire[i].kind = "complete" => lgRuns[lgWire[i].run].status = "completed"
    /\ lgWire[i].kind = "step" =>
         /\ lgWire[i].step.run = lgWire[i].run
         /\ lgWire[i].step.seq <= Len(lgRuns[lgWire[i].run].steps)
         /\ \A j \in DOMAIN lgWire :
              i < j /\ lgWire[j].kind = "step" /\ lgWire[j].run = lgWire[i].run
                => lgWire[i].step.seq < lgWire[j].step.seq

TraceBeforeWire ==
  lg.live # 0 => \A i \in DOMAIN lg.steps :
    /\ lg.steps[i].seq <= Len(lgRuns[lg.live].steps)
    /\ \A j \in DOMAIN lgWire :
         lgWire[j].kind = "step" /\ lgWire[j].run = lg.live => lg.steps[i].seq < lgWire[j].step.seq

CaughtIsLiveOrOver ==
  \A r \in lg.caught : lg.live = r \/ (lg.live = 0 /\ lgRuns[r].status = "completed")

EndedReadsAlone ==
  lg.sel.id \in lg.caught /\ lg.live # lg.sel.id /\ ~lg.overlap =>
    /\ lgGets \subseteq {lg.sel.id}
    /\ lgGets = {} /\ ~lg.failed => lg.detail = lgRuns[lg.sel.id].steps

LogInv ==
  /\ LogTypeOK /\ WireTellsRuns /\ TraceBeforeWire /\ TraceIsOfLiveRun
  /\ CaughtIsLiveOrOver /\ EndedReadsAlone /\ NoDoubleRows

\* Every set of numbers has a least one.
LEMMA LeastExists ==
  ASSUME NEW S \in SUBSET Nat, S # {}
  PROVE  \E x \in S : \A y \in S : x <= y
<1>1. PICK x \in S : \A y \in S : <<y, x>> \notin OpToRel(<, Nat)
  BY NatLessThanWellFounded, WFMin
<1>2. \A y \in S : ~(y < x)
  BY <1>1 DEF OpToRel
<1> QED BY <1>2

\* Every finite set of numbers can be listed, the largest first.
LEMMA NewestExists ==
  ASSUME NEW runs \in SUBSET Nat, IsFiniteSet(runs)
  PROVE  \E list \in [1 .. Cardinality(runs) -> runs] : \A i, j \in DOMAIN list : i < j => list[i] > list[j]
<1> DEFINE Listed(S, list) ==
             list \in [1 .. Cardinality(S) -> S] /\ \A i, j \in 1 .. Cardinality(S) : i < j => list[i] > list[j]
           Bad == {n \in Nat : \E S \in SUBSET Nat : IsFiniteSet(S) /\ Cardinality(S) = n /\ ~\E list : Listed(S, list)}
<1>1. SUFFICES ASSUME Bad # {} PROVE FALSE
  <2>1. Cardinality(runs) \in Nat
    BY FS_CardinalityType
  <2>2. \E list : Listed(runs, list)
    BY <1>1, <2>1
  <2> QED BY <2>2
<1>2. PICK n \in Bad : \A m \in Bad : n <= m
  BY <1>1, LeastExists
<1>3. PICK S \in SUBSET Nat : IsFiniteSet(S) /\ Cardinality(S) = n /\ ~\E list : Listed(S, list)
  BY <1>2
<1>4. S # {}
  <2> SUFFICES ASSUME S = {} PROVE Listed(S, [i \in 1 .. 0 |-> 0])
    BY <1>3
  <2>1. Cardinality(S) = 0
    BY FS_EmptySet
  <2> QED BY <2>1
<1>5. PICK least \in S : \A y \in S : least <= y
  BY <1>4, LeastExists
<1> DEFINE T == S \ {least}
<1>6. T \in SUBSET Nat /\ IsFiniteSet(T) /\ Cardinality(T) = n - 1 /\ n \in Nat /\ n - 1 \in Nat
  <2>1. IsFiniteSet(T) /\ Cardinality(T) = n - 1
    BY <1>3, FS_RemoveElement
  <2> QED BY <2>1, FS_CardinalityType
<1>7. PICK list : Listed(T, list)
  <2>1. n - 1 \notin Bad
    BY <1>2, <1>6
  <2> HIDE DEF Listed
  <2> QED BY <2>1, <1>6
<1> DEFINE longer == [i \in 1 .. n |-> IF i = n THEN least ELSE list[i]]
<1>8. Listed(S, longer)
  <2> HIDE DEF T
  <2>1. \A i \in 1 .. n - 1 : list[i] \in T
    BY <1>6, <1>7
  <2>2. \A i \in 1 .. n - 1 : list[i] \in S /\ list[i] \in Nat /\ list[i] > least
    <3>1. \A r \in T : r \in S /\ r \in Nat /\ r > least
      BY <1>3, <1>5 DEF T
    <3> QED BY <2>1, <3>1
  <2>3. \A i, j \in 1 .. n - 1 : i < j => list[i] > list[j]
    BY <1>6, <1>7
  <2>4. longer \in [1 .. n -> S]
    BY <2>2, <1>6
  <2>5. \A i, j \in 1 .. n : i < j => longer[i] > longer[j]
    BY <2>2, <2>3, <1>6
  <2> QED BY <2>4, <2>5, <1>3
<1> QED BY <1>3, <1>8

OnceEach(list) == \A i, j \in DOMAIN list : i # j => list[i].id # list[j].id

\* A row is found if it is there, and nothing else is.
LEMMA RowAtFinds ==
  ASSUME NEW list \in Seq(LogRows), NEW r
  PROVE  \/ RowAt(list, r) = 0 /\ \A i \in DOMAIN list : list[i].id # r
         \/ RowAt(list, r) \in DOMAIN list /\ list[RowAt(list, r)].id = r
<1> DEFINE I == {i \in 1 .. Len(list) : list[i].id = r}
<1>1. RowAt(list, r) = IF I # {} THEN Min(I) ELSE 0
  BY DEF RowAt, SelectInSeq
<1>2. CASE I = {}
  BY <1>1, <1>2
<1>3. CASE I # {}
  <2>1. \E x \in I : \A y \in I : x <= y
    <3>1. I \in SUBSET Nat
      OBVIOUS
    <3> HIDE DEF I
    <3> QED BY <1>3, <3>1, LeastExists
  <2>2. Min(I) \in I
    BY <2>1 DEF Min
  <2> QED BY <1>1, <1>3, <2>2
<1> QED BY <1>2, <1>3

\* The list that GET /pipeline/runs answers has no run twice.
LEMMA ListedOnce ==
  ASSUME LogTypeOK, NEW f \in StatusFilters
  PROVE  RunsListed(f) \in Seq(LogRows) /\ OnceEach(RunsListed(f))
<1> DEFINE of == {r \in LogRuns : lgRuns[r].status # "none" /\ f \in {"all", lgRuns[r].status}}
           newest == NewestFirst(of)
<1>1. of \in SUBSET Nat /\ IsFiniteSet(of) /\ of \subseteq LogRuns
  BY LogsAssumption, FS_Subset
<1>2. /\ newest \in [1 .. Cardinality(of) -> of]
      /\ \A i, j \in DOMAIN newest : i < j => newest[i] > newest[j]
  <2> HIDE DEF of
  <2>1. \E list \in [1 .. Cardinality(of) -> of] : \A i, j \in DOMAIN list : i < j => list[i] > list[j]
    BY <1>1, NewestExists
  <2> QED BY <2>1 DEF NewestFirst
<1>3. Cardinality(of) \in Nat
  BY <1>1, FS_CardinalityType
<1>4. RunsListed(f) = [i \in DOMAIN newest |-> [id |-> newest[i], status |-> lgRuns[newest[i]].status]]
  BY DEF RunsListed
<1> HIDE DEF of, newest
<1>5. \A i \in 1 .. Cardinality(of) : newest[i] \in LogRuns /\ newest[i] \in Nat
  BY <1>1, <1>2
<1>6. \A i, j \in 1 .. Cardinality(of) : i # j => newest[i] # newest[j]
  BY <1>2, <1>3, <1>5
<1>7. RunsListed(f) \in [1 .. Cardinality(of) -> LogRows]
  BY <1>2, <1>4, <1>5 DEF LogTypeOK, LogRows
<1> QED BY <1>2, <1>3, <1>4, <1>6, <1>7 DEF OnceEach

\* The handlers of the start and the end of a run put it in once.
LEMMA HandledOnce ==
  ASSUME NEW list \in Seq(LogRows), OnceEach(list), NEW row \in LogRows
  PROVE  /\ Prepended(list, row) \in Seq(LogRows) /\ OnceEach(Prepended(list, row))
         /\ Replaced(list, row) \in Seq(LogRows) /\ OnceEach(Replaced(list, row))
<1>1. /\ <<row>> \o list \in Seq(LogRows)
      /\ (\A i \in DOMAIN list : list[i].id # row.id) => OnceEach(<<row>> \o list)
  BY DEF OnceEach
<1>2. CASE RowAt(list, row.id) = 0
  BY <1>1, <1>2, RowAtFinds DEF Prepended, Replaced
<1>3. CASE RowAt(list, row.id) # 0
  <2>1. RowAt(list, row.id) \in DOMAIN list /\ list[RowAt(list, row.id)].id = row.id
    BY <1>3, RowAtFinds
  <2> QED BY <1>3, <2>1 DEF Prepended, Replaced, OnceEach
<1> QED BY <1>2, <1>3

\* The first state.
LEMMA InitLogs == LgInit => LogInv
BY LogsAssumption
   DEF LgInit, LogInv, LogTypeOK, LogPages, Statuses, StatusFilters, LogEvents, LogSteps, LogRows, Unselected,
       WireTellsRuns, TraceBeforeWire, TraceIsOfLiveRun, CaughtIsLiveOrOver, EndedReadsAlone, NoDoubleRows

\* What an event that is sent needs for the wire and the page to stay right.
LEMMA SendingKeeps ==
  ASSUME LogInv, NEW e \in LogEvents, lgWire' = Append(lgWire, e),
         lg' \in {lg, [lg EXCEPT !.mishaps = @ + 1]}, UNCHANGED <<lgLoads, lgGets>>,
         lgRuns' \in [LogRuns -> [status : Statuses, steps : Seq(LogSteps)]],
         \A r \in LogRuns :
           /\ Len(lgRuns[r].steps) <= Len(lgRuns'[r].steps)
           /\ lgRuns[r].status = "completed" => lgRuns'[r] = lgRuns[r],
         e.kind = "complete" => lgRuns'[e.run].status = "completed",
         e.kind = "step" => /\ e.step.run = e.run /\ Len(lgRuns[e.run].steps) < e.step.seq
                            /\ e.step.seq <= Len(lgRuns'[e.run].steps)
  PROVE  LogInv'
<1>0. LogTypeOK /\ lgWire \in Seq(LogEvents) /\ lg \in LogPages
  BY DEF LogInv, LogTypeOK
<1>1. /\ lg' \in LogPages /\ lg'.list = lg.list /\ lg'.sel = lg.sel /\ lg'.live = lg.live
      /\ lg'.steps = lg.steps /\ lg'.detail = lg.detail /\ lg'.failed = lg.failed
      /\ lg'.caught = lg.caught /\ lg'.overlap = lg.overlap
  <2>1. CASE lg' = lg
    BY <1>0, <2>1
  <2>2. CASE lg' = [lg EXCEPT !.mishaps = @ + 1]
    <3>1. lg.mishaps + 1 \in Nat
      BY <1>0 DEF LogPages
    <3> QED BY <1>0, <2>2, <3>1 DEF LogPages
  <2> QED BY <2>1, <2>2
<1>2. LogTypeOK'
  BY <1>0, <1>1 DEF LogTypeOK
<1>3. /\ Len(lgWire') = Len(lgWire) + 1 /\ lgWire'[Len(lgWire) + 1] = e
      /\ DOMAIN lgWire = 1 .. Len(lgWire) /\ DOMAIN lgWire' = 1 .. Len(lgWire) + 1
      /\ \A i \in DOMAIN lgWire : lgWire'[i] = lgWire[i] /\ lgWire[i] \in LogEvents
  BY <1>0
<1>4. \A i \in DOMAIN lgWire : lgWire[i].kind = "step" =>
        /\ lgWire[i].run \in LogRuns /\ lgWire[i].step.seq \in Nat
        /\ lgWire[i].step.seq <= Len(lgRuns[lgWire[i].run].steps)
        /\ lgWire[i].step.seq <= Len(lgRuns'[lgWire[i].run].steps)
  <2>1. \A r \in LogRuns : Len(lgRuns[r].steps) \in Nat /\ Len(lgRuns'[r].steps) \in Nat
    BY <1>0 DEF LogTypeOK
  <2>2. \A i \in DOMAIN lgWire : lgWire[i].kind = "step" =>
          lgWire[i].run \in LogRuns /\ lgWire[i].step.seq \in Nat
    BY <1>3 DEF LogEvents, LogSteps
  <2> QED BY <2>1, <2>2 DEF LogInv, WireTellsRuns
<1>5. WireTellsRuns'
  <2> SUFFICES ASSUME NEW i \in DOMAIN lgWire'
               PROVE  /\ lgWire'[i].kind = "complete" => lgRuns'[lgWire'[i].run].status = "completed"
                      /\ lgWire'[i].kind = "step" =>
                           /\ lgWire'[i].step.run = lgWire'[i].run
                           /\ lgWire'[i].step.seq <= Len(lgRuns'[lgWire'[i].run].steps)
                           /\ \A j \in DOMAIN lgWire' :
                                i < j /\ lgWire'[j].kind = "step" /\ lgWire'[j].run = lgWire'[i].run
                                  => lgWire'[i].step.seq < lgWire'[j].step.seq
    BY DEF WireTellsRuns
  <2>1. CASE i = Len(lgWire) + 1
    BY <1>0, <1>3, <2>1
  <2>2. CASE i \in DOMAIN lgWire
    <3>1. lgWire[i].run \in LogRuns
      BY <1>3, <2>2 DEF LogEvents
    <3>2. lgWire'[i].kind = "complete" => lgRuns'[lgWire'[i].run].status = "completed"
      BY <1>3, <2>2, <3>1 DEF LogInv, WireTellsRuns
    <3>3. ASSUME lgWire[i].kind = "step", NEW j \in DOMAIN lgWire', i < j, lgWire'[j].kind = "step",
                 lgWire'[j].run = lgWire[i].run
          PROVE  lgWire[i].step.seq < lgWire'[j].step.seq
      <4>1. CASE j = Len(lgWire) + 1
        <5>1. e.kind = "step" /\ e.run = lgWire[i].run /\ e.step.seq \in Nat
          BY <1>3, <3>3, <4>1 DEF LogEvents, LogSteps
        <5> QED BY <1>0, <1>3, <1>4, <2>2, <3>1, <3>3, <4>1, <5>1 DEF LogTypeOK
      <4>2. CASE j \in DOMAIN lgWire
        BY <1>3, <2>2, <3>3, <4>2 DEF LogInv, WireTellsRuns
      <4> QED BY <1>3, <4>1, <4>2
    <3> QED BY <1>3, <1>4, <2>2, <3>2, <3>3 DEF LogInv, WireTellsRuns
  <2>3. i = Len(lgWire) + 1 \/ i \in DOMAIN lgWire
    BY <1>0, <1>3
  <2> QED BY <2>1, <2>2, <2>3
<1>6. TraceBeforeWire'
  <2> SUFFICES ASSUME lg.live # 0, NEW i \in DOMAIN lg.steps
               PROVE  /\ lg.steps[i].seq <= Len(lgRuns'[lg.live].steps)
                      /\ \A j \in DOMAIN lgWire' :
                           lgWire'[j].kind = "step" /\ lgWire'[j].run = lg.live
                             => lg.steps[i].seq < lgWire'[j].step.seq
    BY <1>1 DEF TraceBeforeWire
  <2>1. /\ lg.live \in LogRuns /\ lg.steps[i].seq \in Nat
        /\ lg.steps[i].seq <= Len(lgRuns[lg.live].steps)
        /\ Len(lgRuns[lg.live].steps) \in Nat /\ Len(lgRuns'[lg.live].steps) \in Nat
    <3>1. lg.live \in LogRuns /\ lg.steps \in Seq(LogSteps)
      BY <1>0 DEF LogPages
    <3>2. lg.steps[i] \in LogSteps
      BY <3>1
    <3>3. \A r \in LogRuns : Len(lgRuns[r].steps) \in Nat /\ Len(lgRuns'[r].steps) \in Nat
      BY <1>0 DEF LogTypeOK
    <3> QED BY <3>1, <3>2, <3>3 DEF LogInv, TraceBeforeWire, LogSteps
  <2>2. ASSUME NEW j \in DOMAIN lgWire', lgWire'[j].kind = "step", lgWire'[j].run = lg.live
        PROVE  lg.steps[i].seq < lgWire'[j].step.seq
    <3>1. CASE j = Len(lgWire) + 1
      <4>1. e.step.seq \in Nat
        BY <1>3, <2>2, <3>1 DEF LogEvents, LogSteps
      <4> QED BY <1>3, <2>1, <2>2, <3>1, <4>1
    <3>2. CASE j \in DOMAIN lgWire
      BY <1>3, <2>2, <3>2 DEF LogInv, TraceBeforeWire
    <3> QED BY <1>3, <3>1, <3>2
  <2> QED BY <2>1, <2>2
<1>7. TraceIsOfLiveRun' /\ NoDoubleRows'
  BY <1>1 DEF LogInv, TraceIsOfLiveRun, NoDoubleRows
<1>8. CaughtIsLiveOrOver'
  BY <1>0, <1>1 DEF LogInv, CaughtIsLiveOrOver, LogPages
<1>9. EndedReadsAlone'
  <2> SUFFICES ASSUME lg.sel.id \in lg.caught, lg.live # lg.sel.id, ~lg.overlap
               PROVE  /\ lgGets \subseteq {lg.sel.id}
                      /\ lgGets = {} /\ ~lg.failed => lg.detail = lgRuns'[lg.sel.id].steps
    BY <1>1 DEF EndedReadsAlone
  <2>1. lg.sel.id \in LogRuns /\ lgRuns[lg.sel.id].status = "completed"
    BY <1>0 DEF LogInv, CaughtIsLiveOrOver, LogPages
  <2> QED BY <2>1 DEF LogInv, EndedReadsAlone
<1> QED BY <1>2, <1>5, <1>6, <1>7, <1>8, <1>9 DEF LogInv

\* The tracer: what it records goes on the wire.
LEMMA TracerKeeps ==
  ASSUME LogInv, Tracer
  PROVE  LogInv'
<1>0. /\ lgRuns \in [LogRuns -> [status : Statuses, steps : Seq(LogSteps)]]
      /\ \A r \in LogRuns : Len(lgRuns[r].steps) \in Nat
  BY DEF LogInv, LogTypeOK
<1>1. ASSUME NEW r \in LogRuns, StartRun(r) PROVE LogInv'
  <2> DEFINE e == [kind |-> "started", run |-> r]
  <2>1. e \in LogEvents /\ e.kind = "started"
    BY DEF LogEvents
  <2>2. lgWire' = Append(lgWire, e) /\ UNCHANGED <<lg, lgLoads, lgGets>>
    BY <1>1 DEF StartRun
  <2>3. /\ lgRuns' \in [LogRuns -> [status : Statuses, steps : Seq(LogSteps)]]
        /\ \A q \in LogRuns : lgRuns'[q].steps = lgRuns[q].steps
        /\ \A q \in LogRuns : lgRuns[q].status = "completed" => lgRuns'[q] = lgRuns[q]
    BY <1>0, <1>1 DEF StartRun, Statuses
  <2> HIDE DEF e
  <2> QED BY <1>0, <2>1, <2>2, <2>3, SendingKeeps
<1>2. ASSUME NEW r \in LogRuns, EndRun(r) PROVE LogInv'
  <2> DEFINE e == [kind |-> "complete", run |-> r]
  <2>1. e \in LogEvents /\ e.kind = "complete" /\ e.run = r
    BY DEF LogEvents
  <2>2. lgWire' = Append(lgWire, e) /\ UNCHANGED <<lg, lgLoads, lgGets>>
    BY <1>2 DEF EndRun
  <2>3. /\ lgRuns' \in [LogRuns -> [status : Statuses, steps : Seq(LogSteps)]]
        /\ \A q \in LogRuns : lgRuns'[q].steps = lgRuns[q].steps
        /\ \A q \in LogRuns : lgRuns[q].status = "completed" => lgRuns'[q] = lgRuns[q]
        /\ lgRuns'[r].status = "completed"
    BY <1>0, <1>2 DEF EndRun, Statuses
  <2> HIDE DEF e
  <2> QED BY <1>0, <2>1, <2>2, <2>3, SendingKeeps
<1>3. ASSUME NEW r \in LogRuns, NEW k \in StepKinds \cup {"error"}, RecordStep(r, k) \/ (k = "error" /\ RunRaises(r))
      PROVE  LogInv'
  <2> DEFINE step == StepOf(r, k)
             e == [kind |-> "step", run |-> r, step |-> step]
  <2>1. /\ step \in LogSteps /\ step.run = r /\ step.seq = Len(lgRuns[r].steps) + 1
    BY <1>0 DEF StepOf, LogSteps
  <2>2. /\ lgWire' = Append(lgWire, e) /\ UNCHANGED <<lgLoads, lgGets>>
        /\ lg' \in {lg, [lg EXCEPT !.mishaps = @ + 1]} /\ lgRuns[r].status = "running"
    BY <1>3 DEF RecordStep, RunRaises
  <2> HIDE DEF step
  <2>3. /\ lgRuns' \in [LogRuns -> [status : Statuses, steps : Seq(LogSteps)]]
        /\ lgRuns'[r].steps = Append(lgRuns[r].steps, step)
        /\ \A q \in LogRuns \ {r} : lgRuns'[q] = lgRuns[q]
    <3>1. CASE RecordStep(r, k)
      <4>1. lgRuns' = [lgRuns EXCEPT ![r].steps = Append(@, step)]
        BY <3>1 DEF RecordStep, step
      <4>2. Append(lgRuns[r].steps, step) \in Seq(LogSteps)
        BY <1>0, <2>1
      <4> QED BY <1>0, <4>1, <4>2
    <3>2. CASE k = "error" /\ RunRaises(r)
      <4>1. lgRuns' = [lgRuns EXCEPT ![r] = [status |-> "failed", steps |-> Append(@.steps, step)]]
        BY <3>2 DEF RunRaises, step
      <4> QED BY <1>0, <2>1, <4>1 DEF Statuses
    <3> QED BY <1>3, <3>1, <3>2
  <2>4. e \in LogEvents /\ e.kind = "step" /\ e.run = r /\ e.step = step
    BY <2>1 DEF LogEvents
  <2> HIDE DEF e
  <2>5. Len(lgRuns'[r].steps) = Len(lgRuns[r].steps) + 1
    BY <1>0, <2>1, <2>3
  <2> QED BY <1>0, <2>1, <2>2, <2>3, <2>4, <2>5, SendingKeeps
<1> QED BY <1>1, <1>2, <1>3 DEF Tracer

\* What the effect of the panel does to the page the handler has made of it.
LEMMA PanelKeeps ==
  ASSUME LogTypeOK, NEW page \in LogPages, PanelBecomes(page)
  PROVE  /\ lg' \in LogPages /\ lgGets' \subseteq LogRuns
         /\ lg'.list = page.list /\ lg'.sel = page.sel /\ lg'.live = page.live
         /\ lg'.steps = page.steps /\ lg'.caught = page.caught
         /\ \/ /\ PanelReads(page) /\ lgGets' = lgGets \cup {page.sel.id}
               /\ lg'.overlap <=> lgGets # {}
            \/ /\ ~PanelReads(page) /\ lgGets' = lgGets /\ lg'.detail = page.detail
               /\ lg'.failed = page.failed /\ lg'.overlap = page.overlap
<1>0. lgGets \subseteq LogRuns /\ page.detail \in Seq(LogSteps)
  BY DEF LogTypeOK, LogPages
<1>1. CASE PanelReads(page)
  <2>1. page.sel.id \in LogRuns /\ <<>> \in Seq(LogSteps)
    BY <1>1 DEF PanelReads, LogPages, LogRows
  <2>2. lgGets' = lgGets \cup {page.sel.id}
    BY <1>1 DEF PanelBecomes
  <2>3. CASE lgGets = {}
    <3>1. lg' = [page EXCEPT !.reading = TRUE, !.detail = <<>>, !.failed = FALSE, !.overlap = FALSE]
      BY <1>1, <2>3 DEF PanelBecomes
    <3>2. /\ lg' \in LogPages
          /\ lg'.list = page.list /\ lg'.sel = page.sel /\ lg'.live = page.live
          /\ lg'.steps = page.steps /\ lg'.caught = page.caught
      BY <2>1, <3>1 DEF LogPages
    <3>3. lg'.overlap = FALSE
      BY <3>1 DEF LogPages
    <3> QED BY <1>0, <1>1, <2>1, <2>2, <2>3, <3>2, <3>3
  <2>4. CASE lgGets # {}
    <3>1. lg' = [page EXCEPT !.reading = TRUE, !.detail = <<>>, !.failed = FALSE, !.overlap = TRUE]
      BY <1>1, <2>4 DEF PanelBecomes
    <3>2. /\ lg' \in LogPages
          /\ lg'.list = page.list /\ lg'.sel = page.sel /\ lg'.live = page.live
          /\ lg'.steps = page.steps /\ lg'.caught = page.caught
      BY <2>1, <3>1 DEF LogPages
    <3>3. lg'.overlap = TRUE
      BY <3>1 DEF LogPages
    <3> QED BY <1>0, <1>1, <2>1, <2>2, <2>4, <3>2, <3>3
  <2> QED BY <2>3, <2>4
<1>2. CASE ~PanelReads(page)
  <2>1. lgGets' = lgGets /\ (lg' = page \/ lg' = [page EXCEPT !.reading = FALSE])
    BY <1>2 DEF PanelBecomes
  <2>2. CASE lg' = page
    BY <1>0, <1>2, <2>1, <2>2
  <2>3. CASE lg' = [page EXCEPT !.reading = FALSE]
    <3>1. /\ lg' \in LogPages
          /\ lg'.list = page.list /\ lg'.sel = page.sel /\ lg'.live = page.live
          /\ lg'.steps = page.steps /\ lg'.caught = page.caught
          /\ lg'.detail = page.detail /\ lg'.failed = page.failed /\ lg'.overlap = page.overlap
      BY <2>3 DEF LogPages
    <3> QED BY <1>0, <1>2, <2>1, <3>1
  <2> QED BY <2>1, <2>2, <2>3
<1> QED BY <1>1, <1>2

\* The same when the list, the traces and who is caught stay: a click on a row.
LEMMA ShowRunKeeps ==
  ASSUME LogInv, NEW row, ShowRun(row)
  PROVE  LogInv'
<1>0. LogTypeOK /\ lg \in LogPages
  BY DEF LogInv, LogTypeOK
<1>1. row \in LogRows
  <2>1. PICK i \in DOMAIN lg.list : lg.list[i] = row
    BY DEF ShowRun
  <2>2. lg.list \in Seq(LogRows)
    BY <1>0 DEF LogPages
  <2> QED BY <2>1, <2>2
<1> DEFINE page == [lg EXCEPT !.sel = row]
<1>2. /\ page \in LogPages /\ page.sel = row /\ page.list = lg.list /\ page.live = lg.live
      /\ page.steps = lg.steps /\ page.caught = lg.caught /\ page.detail = lg.detail
      /\ page.failed = lg.failed /\ page.overlap = lg.overlap
  BY <1>0, <1>1 DEF LogPages
<1>3. PanelBecomes(page) /\ UNCHANGED <<lgRuns, lgWire, lgLoads>>
  BY DEF ShowRun
<1> HIDE DEF page
<1>4. /\ lg' \in LogPages /\ lgGets' \subseteq LogRuns
      /\ lg'.list = lg.list /\ lg'.sel = row /\ lg'.live = lg.live
      /\ lg'.steps = lg.steps /\ lg'.caught = lg.caught
      /\ \/ /\ PanelReads(page) /\ lgGets' = lgGets \cup {row.id}
            /\ lg'.overlap <=> lgGets # {}
         \/ /\ ~PanelReads(page) /\ lgGets' = lgGets /\ lg'.detail = lg.detail
            /\ lg'.failed = lg.failed /\ lg'.overlap = lg.overlap
  BY <1>0, <1>2, <1>3, PanelKeeps
<1>5. EndedReadsAlone'
  <2> SUFFICES ASSUME row.id \in lg.caught, lg.live # row.id, ~lg'.overlap
               PROVE  /\ lgGets' \subseteq {row.id}
                      /\ lgGets' = {} /\ ~lg'.failed => lg'.detail = lgRuns[row.id].steps
    BY <1>3, <1>4 DEF EndedReadsAlone
  <2>1. CASE PanelReads(page)
    BY <1>4, <2>1
  <2>2. CASE ~PanelReads(page)
    <3>1. row # Unselected /\ ~IsLive(page)
      BY <1>1, <1>2, LogsAssumption DEF IsLive, Unselected, LogRows
    <3>2. lg.sel.id = row.id
      BY <1>2, <2>2, <3>1 DEF PanelReads
    <3> QED BY <1>4, <2>2, <3>2 DEF LogInv, EndedReadsAlone
  <2> QED BY <2>1, <2>2
<1> QED BY <1>0, <1>3, <1>4, <1>5
        DEF LogInv, LogTypeOK, WireTellsRuns, TraceBeforeWire, TraceIsOfLiveRun, CaughtIsLiveOrOver, NoDoubleRows

\* What is left on the wire is in order still.
LEMMA WireShortens ==
  ASSUME LogInv, lgWire # <<>>, lgWire' = Tail(lgWire), UNCHANGED lgRuns
  PROVE  /\ lgWire' \in Seq(LogEvents) /\ Head(lgWire) \in LogEvents /\ WireTellsRuns'
         /\ DOMAIN lgWire' = 1 .. Len(lgWire) - 1
         /\ \A j \in DOMAIN lgWire' : j + 1 \in DOMAIN lgWire /\ lgWire'[j] = lgWire[j + 1]
         /\ 1 \in DOMAIN lgWire /\ Head(lgWire) = lgWire[1]
<1>1. lgWire \in Seq(LogEvents)
  BY DEF LogInv, LogTypeOK
<1>2. /\ lgWire' \in Seq(LogEvents) /\ Head(lgWire) \in LogEvents
      /\ DOMAIN lgWire' = 1 .. Len(lgWire) - 1
      /\ \A j \in DOMAIN lgWire' : j + 1 \in DOMAIN lgWire /\ lgWire'[j] = lgWire[j + 1]
      /\ 1 \in DOMAIN lgWire /\ Head(lgWire) = lgWire[1]
  BY <1>1
<1>3. \A i, j \in DOMAIN lgWire' : i < j => i + 1 < j + 1
  BY <1>1, <1>2
<1>4. WireTellsRuns'
  BY <1>2, <1>3 DEF LogInv, WireTellsRuns
<1> QED BY <1>2, <1>4

\* A run started: the trace begins anew.
LEMMA StartedKeeps ==
  ASSUME LogInv, Deliver, Head(lgWire).kind = "started"
  PROVE  LogInv'
<1> DEFINE r == Head(lgWire).run
           page == OnStarted(r)
<1>0. LogTypeOK /\ lg \in LogPages /\ OnceEach(lg.list) /\ lg.list \in Seq(LogRows)
  BY DEF LogInv, LogTypeOK, LogPages, NoDoubleRows, OnceEach
<1>1. /\ PanelBecomes(page) /\ UNCHANGED <<lgRuns, lgLoads>>
      /\ lgWire # <<>> /\ lgWire' = Tail(lgWire)
  BY DEF Deliver
<1>2. lgWire' \in Seq(LogEvents) /\ r \in LogRuns /\ WireTellsRuns'
  BY <1>1, WireShortens DEF LogEvents
<1>3. [id |-> r, status |-> "running"] \in LogRows
  BY <1>2 DEF LogRows, Statuses
<1> DEFINE list == Prepended(lg.list, [id |-> r, status |-> "running"])
<1>4. list \in Seq(LogRows) /\ OnceEach(list)
  BY <1>0, <1>3, HandledOnce
<1>5. page = [lg EXCEPT !.live = r, !.steps = <<>>, !.list = list, !.caught = {r}]
  BY DEF OnStarted
<1> HIDE DEF page, r, list
<1>6. /\ page \in LogPages /\ page.list = list /\ page.live = r /\ page.steps = <<>> /\ page.caught = {r}
  <2>1. <<>> \in Seq(LogSteps) /\ {r} \in SUBSET LogRuns
    BY <1>2
  <2> QED BY <1>0, <1>2, <1>4, <1>5, <2>1 DEF LogPages
<1>7. /\ lg' \in LogPages /\ lgGets' \subseteq LogRuns
      /\ lg'.list = list /\ lg'.live = r /\ lg'.steps = <<>> /\ lg'.caught = {r}
  BY <1>0, <1>1, <1>6, PanelKeeps
<1>8. LogTypeOK'
  BY <1>0, <1>1, <1>2, <1>7 DEF LogTypeOK
<1>9. TraceBeforeWire' /\ TraceIsOfLiveRun' /\ CaughtIsLiveOrOver' /\ EndedReadsAlone'
  BY <1>7 DEF TraceBeforeWire, TraceIsOfLiveRun, CaughtIsLiveOrOver, EndedReadsAlone
<1>10. NoDoubleRows'
  BY <1>4, <1>7 DEF NoDoubleRows, OnceEach
<1> QED BY <1>2, <1>8, <1>9, <1>10 DEF LogInv

\* A step: of the live run it comes last in the trace.
LEMMA StepKeeps ==
  ASSUME LogInv, Deliver, Head(lgWire).kind = "step"
  PROVE  LogInv'
<1> DEFINE step == Head(lgWire).step
           page == OnStep(step)
<1>0. LogTypeOK /\ lg \in LogPages
  BY DEF LogInv, LogTypeOK
<1>1. /\ PanelBecomes(page) /\ UNCHANGED <<lgRuns, lgLoads>>
      /\ lgWire # <<>> /\ lgWire' = Tail(lgWire)
  BY DEF Deliver
<1>2. /\ lgWire' \in Seq(LogEvents) /\ step \in LogSteps /\ WireTellsRuns'
      /\ 1 \in DOMAIN lgWire /\ Head(lgWire) = lgWire[1] /\ step.run \in LogRuns
      /\ \A j \in DOMAIN lgWire' : j + 1 \in DOMAIN lgWire /\ lgWire'[j] = lgWire[j + 1] /\ 1 < j + 1
  <2>1. Head(lgWire) \in LogEvents /\ lgWire' \in Seq(LogEvents)
    BY <1>1, WireShortens
  <2>2. step \in LogSteps
    BY <2>1 DEF LogEvents
  <2>3. \A j \in DOMAIN lgWire' : 1 < j + 1
    BY <2>1
  <2> QED BY <1>1, <2>1, <2>2, <2>3, WireShortens DEF LogSteps
<1>3. /\ step.run = lgWire[1].run /\ step.seq <= Len(lgRuns[step.run].steps)
      /\ \A j \in DOMAIN lgWire' : lgWire'[j].kind = "step" /\ lgWire'[j].run = step.run
                                     => step.seq < lgWire'[j].step.seq
  BY <1>2 DEF LogInv, WireTellsRuns
<1>4. \A i \in DOMAIN lg.steps : lg.live = step.run /\ lg.live # 0 => lg.steps[i].seq < step.seq
  BY <1>2, <1>3 DEF LogInv, TraceBeforeWire
<1>5. \A i \in DOMAIN lg.steps : lg.live # 0 =>
        \A j \in DOMAIN lgWire' : lgWire'[j].kind = "step" /\ lgWire'[j].run = lg.live
                                    => lg.steps[i].seq < lgWire'[j].step.seq
  BY <1>2 DEF LogInv, TraceBeforeWire
<1> DEFINE steps == IF lg.live = step.run THEN Append(lg.steps, step) ELSE lg.steps
<1>6. page = [lg EXCEPT !.steps = steps]
  BY <1>0 DEF OnStep, LogPages
<1>7. lg.steps \in Seq(LogSteps) /\ steps \in Seq(LogSteps)
  BY <1>0, <1>2 DEF LogPages
<1> HIDE DEF page, step
<1>8. /\ lg.live # 0 => \A i \in DOMAIN steps :
           /\ steps[i].run = lg.live /\ steps[i].seq <= Len(lgRuns[lg.live].steps)
           /\ i > 1 => steps[i - 1].seq < steps[i].seq
           /\ \A j \in DOMAIN lgWire' : lgWire'[j].kind = "step" /\ lgWire'[j].run = lg.live
                                          => steps[i].seq < lgWire'[j].step.seq
  <2>1. CASE lg.live = step.run
    <3>1. /\ DOMAIN steps = 1 .. Len(lg.steps) + 1 /\ steps[Len(lg.steps) + 1] = step
          /\ DOMAIN lg.steps = 1 .. Len(lg.steps) /\ \A i \in DOMAIN lg.steps : steps[i] = lg.steps[i]
      BY <1>7, <2>1
    <3> HIDE DEF steps
    <3>2. ASSUME lg.live # 0, NEW i \in DOMAIN lg.steps
          PROVE  /\ steps[i].run = lg.live /\ steps[i].seq <= Len(lgRuns[lg.live].steps)
                 /\ i > 1 => steps[i - 1].seq < steps[i].seq
                 /\ \A j \in DOMAIN lgWire' : lgWire'[j].kind = "step" /\ lgWire'[j].run = lg.live
                                                => steps[i].seq < lgWire'[j].step.seq
      <4>1. i > 1 => i - 1 \in DOMAIN lg.steps
        BY <1>7, <3>1
      <4> QED BY <1>5, <3>1, <3>2, <4>1 DEF LogInv, TraceIsOfLiveRun, TraceBeforeWire
    <3>3. ASSUME lg.live # 0, NEW i, i = Len(lg.steps) + 1
          PROVE  /\ steps[i].run = lg.live /\ steps[i].seq <= Len(lgRuns[lg.live].steps)
                 /\ i > 1 => steps[i - 1].seq < steps[i].seq
                 /\ \A j \in DOMAIN lgWire' : lgWire'[j].kind = "step" /\ lgWire'[j].run = lg.live
                                                => steps[i].seq < lgWire'[j].step.seq
      <4>1. steps[i] = step
        BY <3>1, <3>3
      <4>2. i > 1 => i - 1 \in DOMAIN lg.steps /\ steps[i - 1] = lg.steps[i - 1]
        BY <1>7, <3>1, <3>3
      <4> QED BY <1>3, <1>4, <2>1, <3>3, <4>1, <4>2
    <3>4. \A i \in DOMAIN steps : i \in DOMAIN lg.steps \/ i = Len(lg.steps) + 1
      BY <1>7, <3>1
    <3> QED BY <3>2, <3>3, <3>4
  <2>2. CASE lg.live # step.run
    <3>1. steps = lg.steps
      BY <2>2
    <3> QED BY <1>5, <3>1 DEF LogInv, TraceIsOfLiveRun, TraceBeforeWire
  <2> QED BY <2>1, <2>2
<1> HIDE DEF steps
<1>9. /\ page \in LogPages /\ page.steps = steps /\ page.list = lg.list /\ page.live = lg.live
      /\ page.sel = lg.sel /\ page.caught = lg.caught /\ page.detail = lg.detail
      /\ page.failed = lg.failed /\ page.overlap = lg.overlap
  BY <1>0, <1>6, <1>7 DEF LogPages
<1>10. ~PanelReads(page)
  BY <1>9 DEF PanelReads, IsLive
<1>11. /\ lg' \in LogPages /\ lgGets' = lgGets /\ lg'.list = lg.list /\ lg'.sel = lg.sel
       /\ lg'.live = lg.live /\ lg'.steps = steps /\ lg'.caught = lg.caught
       /\ lg'.detail = lg.detail /\ lg'.failed = lg.failed /\ lg'.overlap = lg.overlap
  BY <1>0, <1>1, <1>9, <1>10, PanelKeeps
<1>12. LogTypeOK'
  BY <1>0, <1>1, <1>2, <1>11 DEF LogTypeOK
<1>13. TraceBeforeWire' /\ TraceIsOfLiveRun'
  BY <1>1, <1>8, <1>11 DEF TraceBeforeWire, TraceIsOfLiveRun
<1>14. CaughtIsLiveOrOver' /\ EndedReadsAlone' /\ NoDoubleRows'
  BY <1>1, <1>11 DEF LogInv, CaughtIsLiveOrOver, EndedReadsAlone, NoDoubleRows
<1> QED BY <1>2, <1>12, <1>13, <1>14 DEF LogInv

\* A run completed: if it was live, the panel that shows it reads it.
LEMMA CompleteKeeps ==
  ASSUME LogInv, Deliver, Head(lgWire).kind = "complete"
  PROVE  LogInv'
<1> DEFINE r == Head(lgWire).run
           page == OnComplete(r)
           live == IF lg.live = r THEN 0 ELSE lg.live
           list == Replaced(lg.list, [id |-> r, status |-> "completed"])
<1>0. LogTypeOK /\ lg \in LogPages /\ OnceEach(lg.list) /\ lg.list \in Seq(LogRows)
  BY DEF LogInv, LogTypeOK, LogPages, NoDoubleRows, OnceEach
<1>1. /\ PanelBecomes(page) /\ UNCHANGED <<lgRuns, lgLoads>>
      /\ lgWire # <<>> /\ lgWire' = Tail(lgWire)
  BY DEF Deliver
<1>2. /\ lgWire' \in Seq(LogEvents) /\ r \in LogRuns /\ WireTellsRuns'
      /\ \A j \in DOMAIN lgWire' : j + 1 \in DOMAIN lgWire /\ lgWire'[j] = lgWire[j + 1]
      /\ lgRuns[r].status = "completed"
  <2>1. 1 \in DOMAIN lgWire /\ Head(lgWire) = lgWire[1]
    BY <1>1, WireShortens
  <2> QED BY <1>1, <2>1, WireShortens DEF LogEvents, LogInv, WireTellsRuns
<1>3. [id |-> r, status |-> "completed"] \in LogRows
  BY <1>2 DEF LogRows, Statuses
<1>4. list \in Seq(LogRows) /\ OnceEach(list)
  BY <1>0, <1>3, HandledOnce
<1>5. page = [lg EXCEPT !.live = live, !.list = list] /\ live \in LogRuns \cup {0} /\ r # 0
  BY <1>0, <1>2, LogsAssumption DEF OnComplete, LogPages
<1> HIDE DEF page, r, list
<1>6. /\ page \in LogPages /\ page.list = list /\ page.live = live /\ page.steps = lg.steps
      /\ page.sel = lg.sel /\ page.caught = lg.caught /\ page.detail = lg.detail
      /\ page.failed = lg.failed /\ page.overlap = lg.overlap
  BY <1>0, <1>4, <1>5 DEF LogPages
<1>7. /\ lg' \in LogPages /\ lgGets' \subseteq LogRuns
      /\ lg'.list = list /\ lg'.sel = lg.sel /\ lg'.live = live
      /\ lg'.steps = lg.steps /\ lg'.caught = lg.caught
      /\ \/ /\ PanelReads(page) /\ lgGets' = lgGets \cup {lg.sel.id}
            /\ lg'.overlap <=> lgGets # {}
         \/ /\ ~PanelReads(page) /\ lgGets' = lgGets /\ lg'.detail = lg.detail
            /\ lg'.failed = lg.failed /\ lg'.overlap = lg.overlap
  BY <1>0, <1>1, <1>6, PanelKeeps
<1>8. LogTypeOK'
  BY <1>0, <1>1, <1>2, <1>7 DEF LogTypeOK
<1>9. TraceBeforeWire' /\ TraceIsOfLiveRun'
  <2>1. CASE lg.live = r
    BY <1>7, <2>1 DEF TraceBeforeWire, TraceIsOfLiveRun
  <2>2. CASE lg.live # r
    BY <1>1, <1>2, <1>7, <2>2 DEF LogInv, TraceBeforeWire, TraceIsOfLiveRun
  <2> QED BY <2>1, <2>2
<1>10. CaughtIsLiveOrOver'
  BY <1>1, <1>2, <1>5, <1>7 DEF LogInv, CaughtIsLiveOrOver
<1>11. EndedReadsAlone'
  <2> SUFFICES ASSUME lg.sel.id \in lg.caught, live # lg.sel.id, ~lg'.overlap
               PROVE  /\ lgGets' \subseteq {lg.sel.id}
                      /\ lgGets' = {} /\ ~lg'.failed => lg'.detail = lgRuns[lg.sel.id].steps
    BY <1>1, <1>7 DEF EndedReadsAlone
  <2>1. CASE PanelReads(page)
    BY <1>7, <2>1
  <2>2. CASE ~PanelReads(page)
    <3>1. lg.sel # Unselected
      BY <1>0, LogsAssumption DEF Unselected, LogPages
    <3>2. lg.live # lg.sel.id
      BY <1>6, <2>2, <3>1 DEF PanelReads, IsLive
    <3> QED BY <1>7, <2>2, <3>2 DEF LogInv, EndedReadsAlone
  <2> QED BY <2>1, <2>2
<1>12. NoDoubleRows'
  BY <1>4, <1>7 DEF NoDoubleRows, OnceEach
<1> QED BY <1>2, <1>8, <1>9, <1>10, <1>11, <1>12 DEF LogInv

\* The detail of a run: of one that is over it has every step.
LEMMA DetailKeeps ==
  ASSUME LogInv, NEW r \in lgGets, NEW ok \in BOOLEAN, DetailArrives(r, ok)
  PROVE  LogInv'
<1> DEFINE detail == IF ok THEN lgRuns[r].steps ELSE lg.detail
<1>0. LogTypeOK /\ lg \in LogPages /\ r \in LogRuns
  BY DEF LogInv, LogTypeOK
<1>1. detail \in Seq(LogSteps) /\ LgCount(ok) \in Nat
  BY <1>0 DEF LogTypeOK, LogPages, LgCount
<1>2. /\ UNCHANGED <<lgRuns, lgWire, lgLoads>> /\ lgGets' = lgGets \ {r}
      /\ lg' = [lg EXCEPT !.reading = FALSE, !.detail = detail, !.failed = ~ok, !.mishaps = LgCount(ok)]
  BY DEF DetailArrives
<1> HIDE DEF detail
<1>3. /\ lg' \in LogPages /\ lg'.list = lg.list /\ lg'.sel = lg.sel /\ lg'.live = lg.live
      /\ lg'.steps = lg.steps /\ lg'.caught = lg.caught /\ lg'.overlap = lg.overlap
      /\ lg'.detail = detail
  BY <1>0, <1>1, <1>2 DEF LogPages
<1>4. ~ok => lg'.failed
  <2> SUFFICES ASSUME ~ok PROVE lg'.failed = TRUE
    OBVIOUS
  <2>1. lg' = [lg EXCEPT !.reading = FALSE, !.detail = detail, !.failed = TRUE, !.mishaps = LgCount(ok)]
    BY <1>2
  <2> QED BY <1>0, <2>1 DEF LogPages
<1>5. EndedReadsAlone'
  <2> SUFFICES ASSUME lg.sel.id \in lg.caught, lg.live # lg.sel.id, ~lg.overlap
               PROVE  /\ lgGets' \subseteq {lg.sel.id}
                      /\ lgGets' = {} /\ ~lg'.failed => detail = lgRuns[lg.sel.id].steps
    BY <1>2, <1>3 DEF EndedReadsAlone
  <2>1. lgGets \subseteq {lg.sel.id} /\ r = lg.sel.id
    BY DEF LogInv, EndedReadsAlone
  <2> QED BY <1>2, <1>4, <2>1 DEF detail
<1>6. LogTypeOK'
  BY <1>0, <1>2, <1>3 DEF LogTypeOK
<1> QED BY <1>2, <1>3, <1>5, <1>6
        DEF LogInv, WireTellsRuns, TraceBeforeWire, TraceIsOfLiveRun, CaughtIsLiveOrOver, NoDoubleRows

\* The list, its filter, the retry: the traces and the panel are as they were.
LEMMA ListKeeps ==
  ASSUME LogInv, NEW f \in StatusFilters, NEW ok \in BOOLEAN,
         FilterRuns(f) \/ (f \in lgLoads /\ RunsArrive(f, ok)) \/ RetryRun \/ RetryEnds(ok)
  PROVE  LogInv'
<1>0. LogTypeOK /\ lg \in LogPages /\ LgCount(ok) \in Nat
  BY DEF LogInv, LogTypeOK, LogPages, LgCount
<1>1. /\ UNCHANGED <<lgRuns, lgWire, lgGets>> /\ lgLoads' \subseteq StatusFilters /\ lg' \in LogPages
      /\ lg'.sel = lg.sel /\ lg'.live = lg.live /\ lg'.steps = lg.steps /\ lg'.detail = lg.detail
      /\ lg'.failed = lg.failed /\ lg'.caught = lg.caught /\ lg'.overlap = lg.overlap
      /\ lg'.list = lg.list \/ OnceEach(lg'.list)
  <2>1. CASE FilterRuns(f)
    BY <1>0, <2>1 DEF FilterRuns, LogTypeOK, LogPages
  <2>2. CASE f \in lgLoads /\ RunsArrive(f, ok)
    <3> DEFINE list == IF ok THEN RunsListed(f) ELSE lg.list
    <3>1. list \in Seq(LogRows) /\ (list = lg.list \/ OnceEach(list))
      BY <1>0, ListedOnce DEF LogPages
    <3>2. lg' = [lg EXCEPT !.list = list, !.loading = FALSE, !.mishaps = LgCount(ok)]
      BY <2>2 DEF RunsArrive
    <3> HIDE DEF list
    <3>3. /\ lg' \in LogPages
          /\ lg'.sel = lg.sel /\ lg'.live = lg.live /\ lg'.steps = lg.steps /\ lg'.detail = lg.detail
          /\ lg'.failed = lg.failed /\ lg'.caught = lg.caught /\ lg'.overlap = lg.overlap
          /\ lg'.list = list
      BY <1>0, <3>1, <3>2 DEF LogPages
    <3> QED BY <1>0, <2>2, <3>1, <3>3 DEF RunsArrive, LogTypeOK
  <2>3. CASE RetryRun
    BY <1>0, <2>3 DEF RetryRun, LogTypeOK
  <2>4. CASE RetryEnds(ok)
    BY <1>0, <2>4 DEF RetryEnds, LogTypeOK, LogPages
  <2> QED BY <2>1, <2>2, <2>3, <2>4
<1>2. LogTypeOK'
  BY <1>0, <1>1 DEF LogTypeOK
<1> QED BY <1>1, <1>2
        DEF LogInv, WireTellsRuns, TraceBeforeWire, TraceIsOfLiveRun, CaughtIsLiveOrOver, EndedReadsAlone,
            NoDoubleRows, OnceEach

\* A link that drops: nothing is on the wire, and no run is caught.
LEMMA DropKeeps ==
  ASSUME LogInv, LogLinkDrops
  PROVE  LogInv'
<1>0. LogTypeOK /\ lg \in LogPages
  BY DEF LogInv, LogTypeOK
<1>1. /\ lgWire' = <<>> /\ UNCHANGED <<lgRuns, lgLoads, lgGets>>
      /\ lg' \in LogPages /\ lg'.live = lg.live /\ lg'.steps = lg.steps /\ lg'.caught = {}
      /\ lg'.list = lg.list
  <2>1. {} \in SUBSET LogRuns /\ lg.mishaps + 1 \in Nat
    BY <1>0 DEF LogPages
  <2>2. lg' = [lg EXCEPT !.caught = {}, !.mishaps = @ + 1]
    BY DEF LogLinkDrops
  <2>3. /\ lg' \in LogPages /\ lg'.live = lg.live /\ lg'.steps = lg.steps /\ lg'.caught = {}
        /\ lg'.list = lg.list
    BY <1>0, <2>1, <2>2 DEF LogPages
  <2> QED BY <2>3 DEF LogLinkDrops
<1>2. lgWire' \in Seq(LogEvents) /\ DOMAIN lgWire' = {}
  BY <1>1
<1> QED BY <1>0, <1>1, <1>2
        DEF LogInv, LogTypeOK, WireTellsRuns, TraceBeforeWire, TraceIsOfLiveRun, CaughtIsLiveOrOver,
            EndedReadsAlone, NoDoubleRows

\* Every step keeps the invariant.
LEMMA LogStep ==
  ASSUME LogInv, [LgNext]_lgVars
  PROVE  LogInv'
<1>1. CASE Tracer
  BY <1>1, TracerKeeps
<1>2. CASE LgUser
  BY <1>2, ShowRunKeeps, ListKeeps DEF LgUser, StatusFilters
<1>3. CASE LgAnswers
  <2>1. lgLoads \subseteq StatusFilters /\ "all" \in StatusFilters
    BY DEF LogInv, LogTypeOK, StatusFilters
  <2> QED BY <1>3, <2>1, DetailKeeps, ListKeeps DEF LgAnswers
<1>4. CASE Deliver
  <2>1. Head(lgWire) \in LogEvents
    BY <1>4 DEF Deliver, LogInv, LogTypeOK
  <2>2. Head(lgWire).kind \in {"started", "step", "complete"}
    BY <2>1 DEF LogEvents
  <2> QED BY <1>4, <2>2, StartedKeeps, StepKeeps, CompleteKeeps
<1>5. CASE LogLinkDrops
  BY <1>5, DropKeeps
<1>6. CASE UNCHANGED lgVars
  BY <1>6 DEF lgVars, LogInv, LogTypeOK, WireTellsRuns, TraceBeforeWire, TraceIsOfLiveRun, CaughtIsLiveOrOver,
              EndedReadsAlone, NoDoubleRows
<1> QED BY <1>1, <1>2, <1>3, <1>4, <1>5, <1>6 DEF LgNext

\* The logs page lists no run twice, keeps in the live trace the live run's
\* steps alone and in their order, and shows all steps of a run that was live
\* when it ended (pipeline-runs-list.tsx, pipeline-run-detail.tsx).
THEOREM LogsAreRight == LgSpec => []TraceIsWhole
<1>1. LogInv /\ [LgNext]_lgVars => LogInv'
  BY LogStep
<1>2. LogInv => TraceIsWhole
  <2> SUFFICES ASSUME LogInv PROVE EndedRunIsWhole
    BY DEF LogInv, TraceIsWhole
  <2> SUFFICES ASSUME lg.sel.id \in lg.caught, lgGets = {}, ~lg.overlap, ~lg.failed, lg.live = 0
               PROVE  ShownSteps = lgRuns[lg.sel.id].steps
    BY DEF EndedRunIsWhole
  <2>1. lg.sel.id # 0
    BY LogsAssumption DEF LogInv, LogTypeOK, LogPages
  <2>2. ShownSteps = lg.detail
    BY <2>1 DEF ShownSteps, IsLive
  <2> QED BY <2>1, <2>2 DEF LogInv, EndedReadsAlone
<1> QED BY InitLogs, <1>1, <1>2, PTL DEF LgSpec

-----------------------------------------------------------------------------
(* Strategies and their bindings *)

BoundRow == [account : Bindable, on : BOOLEAN]

\* No account has two rows.
OneRowEach(rows) == \A i, j \in DOMAIN rows : i # j => rows[i].account # rows[j].account

\* The rows that are left when an account is taken out: the recursion has a
\* solution, and what it gives is right for every part of the rows.
LEMMA UnlistedIsRest ==
  ASSUME NEW rows \in Seq(BoundRow), NEW a
  PROVE  /\ Unlisted(rows, a) \in Seq(BoundRow)
         /\ ToSet(Unlisted(rows, a)) = {x \in ToSet(rows) : x.account # a}
         /\ OneRowEach(rows) => OneRowEach(Unlisted(rows, a))
<1> DEFINE next(g, n) == IF n = 0 THEN <<>> ELSE IF rows[n].account = a THEN g[n - 1] ELSE Append(g[n - 1], rows[n])
           Solves(g, m) == g = [n \in 0 .. m |-> next(g, n)]
           Stuck == {m \in Nat : ~\E g : Solves(g, m)}
<1>1. \E g : Solves(g, Len(rows))
  <2>1. SUFFICES ASSUME Stuck # {} PROVE FALSE
    <3>1. Len(rows) \in Nat
      OBVIOUS
    <3> HIDE DEF Solves
    <3> QED BY <2>1, <3>1
  <2>2. PICK m \in Stuck : \A k \in Stuck : m <= k
    <3>1. Stuck \in SUBSET Nat
      OBVIOUS
    <3> HIDE DEF Stuck
    <3> QED BY <2>1, <3>1, LeastExists
  <2>3. CASE m = 0
    <3>1. Solves([n \in 0 .. 0 |-> <<>>], 0)
      OBVIOUS
    <3> HIDE DEF Solves
    <3> QED BY <2>2, <2>3, <3>1
  <2>4. CASE m # 0
    <3>1. m \in Nat /\ m - 1 \in Nat /\ m - 1 \notin Stuck
      <4> HIDE DEF Solves
      <4>1. m \in Nat /\ \A k \in Stuck : k \in Nat
        BY <2>2
      <4>2. m - 1 \in Nat /\ ~(m <= m - 1)
        BY <2>4, <4>1
      <4> QED BY <2>2, <4>1, <4>2
    <3>2. PICK g : Solves(g, m - 1)
      <4> HIDE DEF Solves
      <4> QED BY <3>1
    <3> DEFINE h == [n \in 0 .. m |-> IF n = m THEN next(g, m) ELSE g[n]]
    <3>3. Solves(h, m)
      <4>1. \A n \in 0 .. m - 1 : g[n] = next(g, n)
        BY <3>2
      <4>2. \A n \in 0 .. m - 1 : h[n] = g[n]
        BY <3>1
      <4>3. \A n \in 0 .. m : n # 0 => n - 1 \in 0 .. m - 1
        BY <3>1
      <4>4. \A n \in 0 .. m : next(h, n) = next(g, n)
        BY <4>2, <4>3
      <4>5. \A n \in 0 .. m : n # m => n \in 0 .. m - 1
        BY <3>1
      <4>6. \A n \in 0 .. m : h[n] = next(h, n)
        BY <4>1, <4>2, <4>4, <4>5
      <4> HIDE DEF next
      <4> QED BY <4>6
    <3> HIDE DEF Solves, h
    <3> QED BY <2>2, <3>3
  <2> QED BY <2>3, <2>4
<1> DEFINE kept[n \in 0 .. Len(rows)] ==
             IF n = 0 THEN <<>> ELSE IF rows[n].account = a THEN kept[n - 1] ELSE Append(kept[n - 1], rows[n])
<1>2. Solves(kept, Len(rows))
  BY <1>1
<1>3. Unlisted(rows, a) = kept[Len(rows)]
  BY DEF Unlisted
<1> HIDE DEF kept
<1>4. /\ kept[0] = <<>>
      /\ \A n \in 1 .. Len(rows) :
           kept[n] = IF rows[n].account = a THEN kept[n - 1] ELSE Append(kept[n - 1], rows[n])
  <2>1. \A n \in 0 .. Len(rows) : kept[n] = next(kept, n)
    BY <1>2
  <2>2. 0 \in 0 .. Len(rows) /\ \A n \in 1 .. Len(rows) : n \in 0 .. Len(rows) /\ n # 0
    OBVIOUS
  <2> QED BY <2>1, <2>2
<1> DEFINE Right(n) ==
             /\ kept[n] \in Seq(BoundRow)
             /\ \A x : (\E i \in DOMAIN kept[n] : kept[n][i] = x) <=> \E i \in 1 .. n : rows[i] = x /\ x.account # a
             /\ OneRowEach(rows) => OneRowEach(kept[n])
           Wrong == {n \in 0 .. Len(rows) : ~Right(n)}
<1>5. Wrong = {}
  <2>1. SUFFICES ASSUME Wrong # {} PROVE FALSE
    OBVIOUS
  <2>2. PICK n \in Wrong : \A k \in Wrong : n <= k
    <3>1. Wrong \in SUBSET Nat
      OBVIOUS
    <3> HIDE DEF Wrong
    <3> QED BY <2>1, <3>1, LeastExists
  <2>3. n # 0
    <3>1. Right(0)
      BY <1>4 DEF OneRowEach
    <3> HIDE DEF Right
    <3> QED BY <2>2, <3>1
  <2>4. n \in 1 .. Len(rows) /\ Right(n - 1)
    <3> HIDE DEF Right
    <3> QED BY <2>2, <2>3
  <2>5. Right(n)
    <3>1. rows[n] \in BoundRow
      BY <2>4
    <3>2. CASE rows[n].account = a
      <4>1. kept[n] = kept[n - 1]
        BY <1>4, <2>4, <3>2
      <4>2. \A i \in 1 .. n : i = n \/ i \in 1 .. n - 1
        BY <2>4
      <4>3. \A i \in 1 .. n - 1 : i \in 1 .. n
        BY <2>4
      <4> QED BY <2>4, <3>2, <4>1, <4>2, <4>3
    <3>3. CASE rows[n].account # a
      <4>1. kept[n] = Append(kept[n - 1], rows[n])
        BY <1>4, <2>4, <3>3
      <4>2. /\ kept[n] \in Seq(BoundRow) /\ DOMAIN kept[n] = 1 .. Len(kept[n - 1]) + 1
            /\ DOMAIN kept[n - 1] = 1 .. Len(kept[n - 1])
            /\ kept[n][Len(kept[n - 1]) + 1] = rows[n]
            /\ \A i \in DOMAIN kept[n - 1] : kept[n][i] = kept[n - 1][i]
        BY <2>4, <3>1, <4>1
      <4>3. \A i \in DOMAIN kept[n] : i = Len(kept[n - 1]) + 1 \/ i \in DOMAIN kept[n - 1]
        BY <2>4, <4>2
      <4>4. /\ \A i \in 1 .. n : i = n \/ i \in 1 .. n - 1
            /\ \A i \in 1 .. n - 1 : i \in 1 .. n
            /\ n \in 1 .. n /\ Len(kept[n - 1]) + 1 \in DOMAIN kept[n]
            /\ \A i \in DOMAIN kept[n - 1] : i \in DOMAIN kept[n]
        BY <2>4, <4>2
      <4>5. \A x : (\E i \in DOMAIN kept[n] : kept[n][i] = x) <=> \E i \in 1 .. n : rows[i] = x /\ x.account # a
        BY <2>4, <3>3, <4>2, <4>3, <4>4
      <4>6. ASSUME OneRowEach(rows) PROVE OneRowEach(kept[n])
        <5>1. \A i \in DOMAIN kept[n - 1] : kept[n - 1][i].account # rows[n].account
          <6> TAKE i \in DOMAIN kept[n - 1]
          <6>1. PICK j \in 1 .. n - 1 : rows[j] = kept[n - 1][i]
            BY <2>4
          <6>2. j \in DOMAIN rows /\ n \in DOMAIN rows /\ j # n
            BY <2>4
          <6> QED BY <4>6, <6>1, <6>2 DEF OneRowEach
        <5>2. OneRowEach(kept[n - 1])
          BY <2>4, <4>6
        <5> QED BY <4>2, <4>3, <5>1, <5>2 DEF OneRowEach
      <4> QED BY <4>2, <4>5, <4>6
    <3> QED BY <3>2, <3>3
  <2> QED BY <2>2, <2>5
<1>6. Right(Len(rows))
  <2>1. Len(rows) \in 0 .. Len(rows)
    OBVIOUS
  <2> HIDE DEF Right
  <2> QED BY <1>5, <2>1
<1>7. /\ \A x : x \in ToSet(rows) <=> \E i \in 1 .. Len(rows) : rows[i] = x
      /\ \A x : x \in ToSet(kept[Len(rows)]) <=> \E i \in DOMAIN kept[Len(rows)] : kept[Len(rows)][i] = x
  BY DEF ToSet
<1> QED BY <1>3, <1>6, <1>7

\* The rows that a page gets are those of the database, each once.
RowsSet(s) == {[account |-> a, on |-> s.bound[a] = "on"] : a \in {b \in Bindable : s.bound[b] # "none"}}

LEMMA EnumeratedOnce ==
  ASSUME NEW S, IsFiniteSet(S)
  PROVE  /\ SetToSeq(S) \in Seq(S) /\ Len(SetToSeq(S)) = Cardinality(S) /\ ToSet(SetToSeq(S)) = S
         /\ \A i, j \in DOMAIN SetToSeq(S) : SetToSeq(S)[i] = SetToSeq(S)[j] => i = j
<1> DEFINE n == Cardinality(S)
           seq == SetToSeq(S)
<1>1. n \in Nat /\ \E f : f \in Bijection(1 .. n, S)
  BY FS_CardinalityType DEF ExistsBijection
<1>2. seq \in [1 .. n -> S] /\ IsInjective(seq)
  <2>1. \E f \in [1 .. n -> S] : IsInjective(f)
    BY <1>1 DEF Bijection, Injection
  <2> QED BY <2>1 DEF SetToSeq
<1> HIDE DEF seq
<1>3. seq \in Seq(S) /\ Len(seq) = n /\ DOMAIN seq = 1 .. n
  BY <1>1, <1>2
<1>4. \A x \in S : \E i \in 1 .. n : seq[i] = x
  <2>1. seq \in Injection(1 .. n, S)
    BY <1>2 DEF Injection
  <2>2. Cardinality(1 .. n) = n
    BY <1>1, FS_Interval
  <2>3. seq \in Surjection(1 .. n, S)
    BY <2>1, <2>2, FS_Injection
  <2> QED BY <2>3 DEF Surjection
<1> QED BY <1>2, <1>3, <1>4 DEF IsInjective, ToSet, seq

\* Rows of different accounts are as many as they say.
LEMMA OneEachCounts ==
  ASSUME NEW S, NEW rows \in Seq(S), OneRowEach(rows), IsFiniteSet(ToSet(rows))
  PROVE  Len(rows) = Cardinality(ToSet(rows))
<1>1. rows \in [1 .. Len(rows) -> ToSet(rows)] /\ Len(rows) \in Nat
  BY DEF ToSet
<1>2. rows \in Bijection(1 .. Len(rows), ToSet(rows))
  BY <1>1 DEF OneRowEach, ToSet, Bijection, Injection, Surjection, IsInjective
<1> QED BY <1>1, <1>2, FS_CountingElements DEF ExistsBijection

(***************************************************************************)
(* The inductive invariant of the strategy's routes and pages.  While no   *)
(* requests have overlapped, one is unfinished, and the jobs lack what it  *)
(* has still to schedule (JobsDuring).  A page that tracks the strategy    *)
(* tells the database but for what an answer on its way will change        *)
(* (RowTells, BoundTells).                                                 *)
(***************************************************************************)
Ops == {"toggle", "flip", "bind", "unbind", "edit", "trigger", "delete"}
Reads ==
  {{}} \cup [active : BOOLEAN, symbols : SUBSET TradedSymbols]
    \cup [active : BOOLEAN, symbols : SUBSET TradedSymbols, open : BOOLEAN]
Stages == {"sent", "read", "committed", "done", "refused"}
SaRequests ==
  [page : SaPages \cup {"edit"}, op : Ops, account : Bindable \cup {NoBindable},
   value : BOOLEAN \cup SUBSET TradedSymbols,
   stage : Stages, read : Reads]
SaStrategies ==
  [exists : BOOLEAN, active : BOOLEAN, symbols : SUBSET TradedSymbols,
   bound : [Bindable -> {"none", "on", "off"}], open : [Bindable -> BOOLEAN]]
SaViews ==
  [row : {"loading", "absent", "on", "off"}, bound : Seq(BoundRow), deleting : BOOLEAN,
   triggering : BOOLEAN, foreign : BOOLEAN]
SaHists ==
  [raced : BOOLEAN, mixed : SUBSET (SaPages \cup {"edit"}), flipped : BOOLEAN, clicks : Nat, mishaps : Nat]

SaTypeOK ==
  /\ strat \in SaStrategies /\ groups \in [TradedSymbols -> SUBSET Bindable]
  /\ saReqs \subseteq SaRequests /\ saPage \in [SaPages -> SaViews] /\ saHist \in SaHists

RequestOK(r) ==
  /\ r.op = "toggle" => r.value \in BOOLEAN
  /\ r.op = "edit" => r.value \in SUBSET TradedSymbols
  /\ r.op \in {"toggle", "delete"} => r.account = NoBindable
  /\ r.op \in {"bind", "unbind"} => r.account \in Bindable
  /\ r.stage = "read" => r.op = "bind"
  /\ r.stage = "committed" => r.op \in {"toggle", "edit", "bind", "unbind", "delete"}
  /\ r.op = "flip" => r.stage \in {"sent", "refused"}

\* The jobs while a request is half done.
HasRead(r) == r.read.active = strat.active /\ r.read.symbols = strat.symbols
JobsDuring(r) ==
  /\ r.op \in {"toggle", "edit"} /\ r.stage = "committed" =>
       /\ strat.exists /\ HasRead(r)
       /\ \A sym \in TradedSymbols : \A a \in groups[sym] : strat.bound[a] # "none"
  /\ r.op = "bind" /\ r.stage \in {"read", "committed"} => HasRead(r) /\ r.read.open = strat.open[r.account]
  /\ r.op = "bind" /\ r.stage = "committed" => strat.exists /\ strat.bound[r.account] = "on"
  /\ r.op \in {"bind", "unbind"} /\ r.stage = "committed" =>
       groups = [sym \in TradedSymbols |-> Scheduled(strat)[sym] \ {r.account}]
  /\ r.op = "delete" /\ r.stage = "committed" => \A sym \in TradedSymbols : groups[sym] = {}

JobsFollow ==
  ~saHist.raced /\ ~saHist.flipped =>
    /\ \A r, q \in saReqs : ~Finished(r) /\ ~Finished(q) => r = q
    /\ (\A r \in saReqs : r.stage # "committed") => groups = Scheduled(strat)
    /\ \A r \in saReqs : JobsDuring(r)

\* A page that nobody else's change has passed by, nor two answers of its own.
Tracks(p) == saPage[p].row # "loading" /\ ~saPage[p].foreign /\ p \notin saHist.mixed
Of(p) == {r \in saReqs : r.page = p}

Toggling(r) == r.op = "toggle" /\ r.stage \in {"committed", "done"}
Deleted(r) == r.op = "delete" /\ r.stage = "done"
RowTells(p) ==
  /\ \A r \in Of(p) :
       /\ Toggling(r) => /\ strat.exists /\ strat.active = r.value
                         /\ saPage[p].row \in {"on", "off"}
       /\ Deleted(r) => ~strat.exists
  /\ (\A r \in Of(p) : ~Toggling(r) /\ ~Deleted(r)) => saPage[p].row = RowOf(strat)

Binding(r, a) == r.op = "bind" /\ r.account = a /\ r.stage \in {"committed", "done"}
Unbound(r, a) == r.op = "unbind" /\ r.account = a /\ r.stage = "done"
BoundTells(p) ==
  /\ OneRowEach(saPage[p].bound)
  /\ \A a \in Bindable :
       /\ \A r \in Of(p) : Binding(r, a) => strat.bound[a] = "on" /\ a \notin BoundOn(p)
       /\ \A r \in Of(p) : Unbound(r, a) => strat.bound[a] = "none"
       /\ (\A r \in Of(p) : ~Binding(r, a) /\ ~Unbound(r, a)) =>
            {x \in ToSet(saPage[p].bound) : x.account = a} = {x \in RowsSet(strat) : x.account = a}

PageFollows(p) ==
  /\ saPage[p].row = "loading" => Of(p) = {} /\ saPage[p].deleting = FALSE
  /\ p \notin saHist.mixed => \A r, q \in Of(p) : r.account = q.account => r = q
  /\ Tracks(p) => RowTells(p) /\ (strat.exists => BoundTells(p))

AdminInv ==
  SaTypeOK /\ (\A r \in saReqs : RequestOK(r)) /\ JobsFollow /\ \A p \in SaPages : PageFollows(p)

\* The rows that a page is answered.
LEMMA RowsAreBindings ==
  ASSUME strat \in SaStrategies
  PROVE  /\ BoundRows(strat) \in Seq(BoundRow) /\ OneRowEach(BoundRows(strat))
         /\ ToSet(BoundRows(strat)) = RowsSet(strat) /\ Len(BoundRows(strat)) = Cardinality(RowsSet(strat))
         /\ IsFiniteSet(RowsSet(strat)) /\ RowsSet(strat) \subseteq BoundRow
<1> DEFINE on == {b \in Bindable : strat.bound[b] # "none"}
           row(a) == [account |-> a, on |-> strat.bound[a] = "on"]
<1>1. IsFiniteSet(on)
  BY AdminAssumption, FS_Subset
<1>2. RowsSet(strat) = {row(a) : a \in on}
  BY DEF RowsSet
<1>3. /\ RowsSet(strat) \subseteq BoundRow
      /\ \A x, y \in RowsSet(strat) : x.account = y.account => x = y
  <2>1. \A a \in on : row(a) \in BoundRow /\ row(a).account = a
    <3> TAKE a \in on
    <3>1. CASE strat.bound[a] = "on"
      BY <3>1 DEF BoundRow
    <3>2. CASE strat.bound[a] # "on"
      BY <3>2 DEF BoundRow
    <3> QED BY <3>1, <3>2
  <2> HIDE DEF on, row
  <2> QED BY <1>2, <2>1
<1>4. IsFiniteSet(RowsSet(strat))
  <2> DEFINE f == [a \in on |-> row(a)]
  <2> HIDE DEF on, row
  <2>1. f \in Surjection(on, RowsSet(strat))
    BY <1>2 DEF Surjection
  <2> HIDE DEF f
  <2> QED BY <1>1, <2>1, FS_Surjection
<1>5. BoundRows(strat) = SetToSeq(RowsSet(strat))
  BY DEF BoundRows, RowsSet
<1>6. /\ BoundRows(strat) \in Seq(RowsSet(strat)) /\ ToSet(BoundRows(strat)) = RowsSet(strat)
      /\ Len(BoundRows(strat)) = Cardinality(RowsSet(strat))
      /\ \A i, j \in DOMAIN BoundRows(strat) : BoundRows(strat)[i] = BoundRows(strat)[j] => i = j
  BY <1>4, <1>5, EnumeratedOnce
<1>7. BoundRows(strat) \in Seq(BoundRow)
  BY <1>3, <1>6
<1>8. OneRowEach(BoundRows(strat))
  BY <1>3, <1>6 DEF OneRowEach
<1> QED BY <1>3, <1>4, <1>6, <1>7, <1>8

\* What the invariant is for.
LEMMA AdminTells == AdminInv => BindingsAreTrue
<1> SUFFICES ASSUME AdminInv PROVE BindingsAreTrue
  OBVIOUS
<1>1. JobsAreOfBindings
  BY DEF AdminInv, JobsFollow, JobsAreOfBindings
<1>2. PageTellsBindings
  <2> SUFFICES ASSUME NEW p \in SaPages, saPage[p].row # "loading", ~saPage[p].foreign,
                      p \notin saHist.mixed, \A r \in saReqs : r.page # p
               PROVE  /\ saPage[p].row = RowOf(strat)
                      /\ strat.exists => /\ Len(saPage[p].bound) = Len(BoundRows(strat))
                                         /\ ToSet(saPage[p].bound) = ToSet(BoundRows(strat))
    BY DEF PageTellsBindings
  <2>1. Tracks(p) /\ Of(p) = {} /\ PageFollows(p)
    BY DEF AdminInv, Tracks, Of
  <2>2. saPage[p].row = RowOf(strat)
    BY <2>1 DEF PageFollows, RowTells
  <2>3. ASSUME strat.exists
        PROVE  Len(saPage[p].bound) = Len(BoundRows(strat)) /\ ToSet(saPage[p].bound) = ToSet(BoundRows(strat))
    <3>1. strat \in SaStrategies /\ saPage[p].bound \in Seq(BoundRow)
      BY DEF AdminInv, SaTypeOK, SaViews
    <3>2. BoundTells(p)
      BY <2>1, <2>3 DEF PageFollows
    <3>3. ToSet(saPage[p].bound) \subseteq BoundRow /\ RowsSet(strat) \subseteq BoundRow
      BY <3>1, RowsAreBindings DEF ToSet
    <3>4. \A a \in Bindable :
            {x \in ToSet(saPage[p].bound) : x.account = a} = {x \in RowsSet(strat) : x.account = a}
      BY <2>1, <3>2 DEF BoundTells
    <3>5. ToSet(saPage[p].bound) = RowsSet(strat)
      BY <3>3, <3>4 DEF BoundRow
    <3> QED BY <3>1, <3>2, <3>5, RowsAreBindings, OneEachCounts DEF BoundTells
  <2> QED BY <2>2, <2>3
<1> QED BY <1>1, <1>2 DEF BindingsAreTrue

\* The first state.
LEMMA InitAdmin == SaInit => AdminInv
<1> SUFFICES ASSUME SaInit PROVE AdminInv
  OBVIOUS
<1>1. (CHOOSE x \in TradedSymbols : TRUE) \in TradedSymbols
  BY AdminAssumption
<1>2. strat \in SaStrategies
  BY <1>1 DEF SaInit, SaStrategies
<1>3. groups \in [TradedSymbols -> SUBSET Bindable]
  BY DEF SaInit, Scheduled
<1>4. Unloaded \in SaViews /\ Unloaded.row = "loading" /\ Unloaded.deleting = FALSE
  BY DEF Unloaded, SaViews
<1>5. /\ saPage \in [SaPages -> SaViews]
      /\ \A p \in SaPages : saPage[p].row = "loading" /\ saPage[p].deleting = FALSE
  BY <1>4 DEF SaInit
<1>6. saHist \in SaHists /\ saReqs = {}
  BY DEF SaInit, SaHists
<1>7. SaTypeOK
  BY <1>2, <1>3, <1>5, <1>6 DEF SaTypeOK
<1>8. JobsFollow
  BY <1>6 DEF SaInit, JobsFollow
<1>9. \A p \in SaPages : PageFollows(p)
  BY <1>5, <1>6 DEF PageFollows, Of, Tracks
<1> QED BY <1>6, <1>7, <1>8, <1>9 DEF AdminInv

-----------------------------------------------------------------------------
(* The server's steps: a request advances *)

Advanced(r, stage, read) == [r EXCEPT !.stage = stage, !.read = read]

LEMMA StagesAre == {"sent", "read", "committed", "done", "refused"} \subseteq Stages
BY DEF Stages

LEMMA AdvancedIs ==
  ASSUME NEW r \in SaRequests, NEW stage \in Stages, NEW read \in Reads
  PROVE  /\ Advanced(r, stage, read) \in SaRequests
         /\ Advanced(r, stage, read).page = r.page /\ Advanced(r, stage, read).op = r.op
         /\ Advanced(r, stage, read).account = r.account /\ Advanced(r, stage, read).value = r.value
         /\ Advanced(r, stage, read).stage = stage /\ Advanced(r, stage, read).read = read
BY DEF Advanced, SaRequests

\* The same request, further on.
Further(r, new) ==
  /\ new \in SaRequests /\ new.page = r.page /\ new.op = r.op /\ new.account = r.account /\ new.value = r.value
  /\ saReqs' = (saReqs \ {r}) \cup {new}

\* The views of a step that only tells, or not even that.
ViewsStay ==
  /\ saPage' \in [SaPages -> SaViews]
  /\ \A p \in SaPages : /\ saPage'[p].row = saPage[p].row /\ saPage'[p].bound = saPage[p].bound
                        /\ saPage'[p].deleting = saPage[p].deleting
                        /\ saPage[p].foreign => saPage'[p].foreign

LEMMA ViewsAreTold ==
  ASSUME SaTypeOK, NEW r, TellsNobody(r)
  PROVE  ViewsStay /\ \A p \in SaPages : p # r.page => saPage'[p].foreign
<1>1. saPage \in [SaPages -> SaViews]
  BY DEF SaTypeOK
<1>2. ASSUME NEW p \in SaPages
      PROVE  /\ saPage'[p] \in SaViews
             /\ saPage'[p].row = saPage[p].row /\ saPage'[p].bound = saPage[p].bound
             /\ saPage'[p].deleting = saPage[p].deleting
             /\ saPage[p].foreign \/ p # r.page => saPage'[p].foreign
  <2>1. saPage[p] \in SaViews
    BY <1>1
  <2>2. CASE saPage[p].foreign \/ p # r.page
    <3>1. saPage'[p] = [saPage[p] EXCEPT !.foreign = TRUE]
      BY <1>1, <2>2 DEF TellsNobody
    <3>2. /\ saPage'[p] \in SaViews /\ saPage'[p].row = saPage[p].row /\ saPage'[p].bound = saPage[p].bound
          /\ saPage'[p].deleting = saPage[p].deleting
      BY <2>1, <3>1 DEF SaViews
    <3>3. saPage'[p].foreign = TRUE
      BY <2>1, <3>1 DEF SaViews
    <3> QED BY <3>2, <3>3
  <2>3. CASE ~(saPage[p].foreign \/ p # r.page)
    <3>1. saPage'[p] = [saPage[p] EXCEPT !.foreign = FALSE]
      BY <1>1, <2>3 DEF TellsNobody
    <3>2. /\ saPage'[p] \in SaViews /\ saPage'[p].row = saPage[p].row /\ saPage'[p].bound = saPage[p].bound
          /\ saPage'[p].deleting = saPage[p].deleting
      BY <2>1, <3>1 DEF SaViews
    <3> QED BY <2>3, <3>2
  <2> QED BY <2>2, <2>3
<1>3. DOMAIN saPage' = SaPages /\ saPage' = [p \in SaPages |-> saPage'[p]]
  BY DEF TellsNobody
<1>4. saPage' \in [SaPages -> SaViews]
  BY <1>2, <1>3
<1> QED BY <1>2, <1>4 DEF ViewsStay

\* The jobs: only those of the one request matter.
LEMMA JobsAdvance ==
  ASSUME AdminInv, NEW r \in saReqs, NEW new, ~Finished(r), Further(r, new),
         saHist'.raced = saHist.raced, saHist'.flipped = saHist.flipped,
         ~saHist.raced /\ ~saHist.flipped =>
           (new.stage # "committed" => groups' = Scheduled(strat')) /\ JobsDuring(new)'
  PROVE  JobsFollow'
<1> SUFFICES ASSUME ~saHist.raced, ~saHist.flipped
             PROVE  /\ \A x, q \in saReqs' : ~Finished(x) /\ ~Finished(q) => x = q
                    /\ (\A x \in saReqs' : x.stage # "committed") => groups' = Scheduled(strat')
                    /\ \A x \in saReqs' : JobsDuring(x)'
  BY DEF JobsFollow, Finished
<1>1. \A q \in saReqs \ {r} : Finished(q)
  BY DEF AdminInv, JobsFollow
<1>2. \A q \in saReqs' : q = new \/ Finished(q)
  BY <1>1 DEF Further
<1>3. \A q : Finished(q) => JobsDuring(q)'
  BY DEF Finished, JobsDuring
<1> QED BY <1>2, <1>3 DEF Further, Finished

\* The pages: who tracks the strategy must be told right, the rest follows.
LEMMA PagesAdvance ==
  ASSUME AdminInv, NEW r \in saReqs, NEW new, Further(r, new), ViewsStay, saHist'.mixed = saHist.mixed,
         NEW p \in SaPages,
         Tracks(p) /\ Tracks(p)' /\ RowTells(p) /\ (strat.exists => BoundTells(p))
           => RowTells(p)' /\ (strat'.exists => BoundTells(p)')
  PROVE  PageFollows(p)'
<1>1. /\ saPage'[p].row = saPage[p].row /\ (saPage[p].foreign => saPage'[p].foreign)
  BY DEF ViewsStay
<1>2. Tracks(p)' => Tracks(p)
  BY <1>1 DEF Tracks
<1>3. PageFollows(p)
  BY DEF AdminInv
<1>4. saPage'[p].row = "loading" => Of(p)' = {} /\ saPage'[p].deleting = FALSE
  <2> SUFFICES ASSUME saPage'[p].row = "loading" PROVE Of(p)' = {} /\ saPage'[p].deleting = FALSE
    OBVIOUS
  <2>1. Of(p) = {} /\ saPage[p].deleting = FALSE
    BY <1>1, <1>3 DEF PageFollows
  <2>2. saPage'[p].deleting = FALSE
    BY <2>1 DEF ViewsStay
  <2>3. Of(p)' = {}
    BY <2>1 DEF Of, Further
  <2> QED BY <2>2, <2>3
<1>5. p \notin saHist'.mixed => \A x, q \in Of(p)' : x.account = q.account => x = q
  <2> SUFFICES ASSUME p \notin saHist.mixed, NEW x \in Of(p)', NEW q \in Of(p)', x.account = q.account
               PROVE  x = q
    OBVIOUS
  <2>1. \A y, z \in Of(p) : y.account = z.account => y = z
    BY <1>3 DEF PageFollows
  <2>2. (x = new /\ r \in Of(p)) \/ (x # r /\ x \in Of(p))
    BY DEF Of, Further
  <2>3. (q = new /\ r \in Of(p)) \/ (q # r /\ q \in Of(p))
    BY DEF Of, Further
  <2> QED BY <2>1, <2>2, <2>3 DEF Further
<1>6. Tracks(p)' => RowTells(p)' /\ (strat'.exists => BoundTells(p)')
  BY <1>2, <1>3 DEF PageFollows
<1> QED BY <1>4, <1>5, <1>6 DEF PageFollows

\* A step that leaves the row of a page right: it changes none of its requests
\* about the strategy.
LEMMA RowQuiet ==
  ASSUME NEW r \in saReqs, NEW new, Further(r, new), ViewsStay, NEW p \in SaPages, RowTells(p),
         strat'.exists <=> strat.exists, strat'.active = strat.active,
         Toggling(new) <=> Toggling(r), Deleted(new) <=> Deleted(r)
  PROVE  RowTells(p)'
<1>1. saPage'[p].row = saPage[p].row /\ RowOf(strat') = RowOf(strat)
  BY DEF ViewsStay, RowOf
<1>2. \A q \in Of(p)' : (q = new /\ r \in Of(p)) \/ q \in Of(p)
  BY DEF Of, Further
<1>3. \A q \in Of(p) : q \in Of(p)' \/ (q = r /\ new \in Of(p)')
  BY DEF Of, Further
<1>4. \A q \in Of(p)' : /\ Toggling(q) => /\ strat'.exists /\ strat'.active = q.value
                                          /\ saPage'[p].row \in {"on", "off"}
                        /\ Deleted(q) => ~strat'.exists
  BY <1>1, <1>2 DEF RowTells, Further
<1>5. ASSUME \A q \in Of(p)' : ~Toggling(q) /\ ~Deleted(q) PROVE saPage'[p].row = RowOf(strat')
  <2>1. \A q \in Of(p) : ~Toggling(q) /\ ~Deleted(q)
    BY <1>3, <1>5
  <2> QED BY <1>1, <2>1 DEF RowTells
<1> QED BY <1>4, <1>5 DEF RowTells, Toggling, Deleted

\* A step that leaves what a page tells of an account right: it changes neither
\* the account's binding nor a request about it.
LEMMA BoundQuiet ==
  ASSUME NEW r \in saReqs, NEW new, Further(r, new), ViewsStay, NEW p \in SaPages, BoundTells(p),
         NEW a \in Bindable, strat'.bound[a] = strat.bound[a],
         Binding(new, a) <=> Binding(r, a), Unbound(new, a) <=> Unbound(r, a)
  PROVE  /\ \A q \in Of(p)' : Binding(q, a) => strat'.bound[a] = "on" /\ a \notin BoundOn(p)'
         /\ \A q \in Of(p)' : Unbound(q, a) => strat'.bound[a] = "none"
         /\ (\A q \in Of(p)' : ~Binding(q, a) /\ ~Unbound(q, a)) =>
              {x \in ToSet(saPage'[p].bound) : x.account = a} = {x \in RowsSet(strat') : x.account = a}
<1>1. saPage'[p].bound = saPage[p].bound /\ BoundOn(p)' = BoundOn(p)
  BY DEF ViewsStay, BoundOn
<1>2. \A q \in Of(p)' : (q = new /\ r \in Of(p)) \/ q \in Of(p)
  BY DEF Of, Further
<1>3. \A q \in Of(p) : q \in Of(p)' \/ (q = r /\ new \in Of(p)')
  BY DEF Of, Further
<1>4. {x \in RowsSet(strat') : x.account = a} = {x \in RowsSet(strat) : x.account = a}
  BY DEF RowsSet
<1>5. ASSUME \A q \in Of(p)' : ~Binding(q, a) /\ ~Unbound(q, a)
      PROVE  {x \in ToSet(saPage[p].bound) : x.account = a} = {x \in RowsSet(strat) : x.account = a}
  <2>1. \A q \in Of(p) : ~Binding(q, a) /\ ~Unbound(q, a)
    BY <1>3, <1>5
  <2> QED BY <2>1 DEF BoundTells
<1>6. /\ \A q \in Of(p)' : Binding(q, a) => strat.bound[a] = "on" /\ a \notin BoundOn(p)
      /\ \A q \in Of(p)' : Unbound(q, a) => strat.bound[a] = "none"
  BY <1>2 DEF BoundTells
<1> QED BY <1>1, <1>4, <1>5, <1>6

\* A step that leaves all of them right.
LEMMA BoundsQuiet ==
  ASSUME NEW r \in saReqs, NEW new, Further(r, new), ViewsStay, NEW p \in SaPages, BoundTells(p),
         strat'.bound = strat.bound,
         \A a : Binding(new, a) <=> Binding(r, a), \A a : Unbound(new, a) <=> Unbound(r, a)
  PROVE  BoundTells(p)'
<1>1. saPage'[p].bound = saPage[p].bound
  BY DEF ViewsStay
<1>2. OneRowEach(saPage'[p].bound)
  BY <1>1 DEF BoundTells
<1>3. ASSUME NEW a \in Bindable
      PROVE  /\ \A q \in Of(p)' : Binding(q, a) => strat'.bound[a] = "on" /\ a \notin BoundOn(p)'
             /\ \A q \in Of(p)' : Unbound(q, a) => strat'.bound[a] = "none"
             /\ (\A q \in Of(p)' : ~Binding(q, a) /\ ~Unbound(q, a)) =>
                  {x \in ToSet(saPage'[p].bound) : x.account = a} = {x \in RowsSet(strat') : x.account = a}
  BY BoundQuiet
<1> QED BY <1>2, <1>3 DEF BoundTells, Binding, Unbound

\* A step that changes nothing a page shows.
LEMMA QuietAdvance ==
  ASSUME AdminInv, NEW r \in saReqs, NEW new, Further(r, new), ViewsStay, saHist'.mixed = saHist.mixed,
         strat'.exists <=> strat.exists, strat'.active = strat.active, strat'.bound = strat.bound,
         Toggling(new) <=> Toggling(r), Deleted(new) <=> Deleted(r),
         \A a : Binding(new, a) <=> Binding(r, a), \A a : Unbound(new, a) <=> Unbound(r, a)
  PROVE  \A p \in SaPages : PageFollows(p)'
<1> SUFFICES ASSUME NEW p \in SaPages, Tracks(p), RowTells(p), strat.exists => BoundTells(p)
             PROVE  RowTells(p)' /\ (strat'.exists => BoundTells(p)')
  BY PagesAdvance
<1>1. RowTells(p)'
  BY RowQuiet
<1>2. BoundTells(p) => BoundTells(p)'
  BY BoundsQuiet
<1> QED BY <1>1, <1>2

\* The jobs while no request is half done.
LEMMA JobsNow ==
  ASSUME AdminInv, NEW r \in saReqs, ~Finished(r), r.stage # "committed", ~saHist.raced, ~saHist.flipped
  PROVE  groups = Scheduled(strat)
BY DEF AdminInv, JobsFollow, Finished

LEMMA ScheduledIs ==
  ASSUME NEW s
  PROVE  /\ Scheduled(s) \in [TradedSymbols -> SUBSET Bindable]
         /\ \A sym \in TradedSymbols : \A a \in Bindable :
              a \in Scheduled(s)[sym] <=>
                s.exists /\ s.active /\ sym \in s.symbols /\ s.bound[a] = "on" /\ s.open[a]
BY DEF Scheduled

\* A page's own request is the only one about its thing.
LEMMA OnlyOne ==
  ASSUME AdminInv, NEW r \in saReqs, NEW new, Further(r, new), NEW p \in SaPages, p = r.page, p \notin saHist.mixed
  PROVE  /\ new \in Of(p)' /\ r \in Of(p)
         /\ \A q \in Of(p) : q.account = r.account => q = r
         /\ \A q \in Of(p)' : q.account = r.account => q = new
         /\ \A q \in Of(p)' : q # new => q \in Of(p) /\ q # r
<1>1. \A x, q \in Of(p) : x.account = q.account => x = q
  BY DEF AdminInv, PageFollows
<1>2. new \in Of(p)' /\ r \in Of(p) /\ \A q \in Of(p)' : q # new => q \in Of(p) /\ q # r
  BY DEF Of, Further
<1> QED BY <1>1, <1>2

\* A request that advances is the same request.
LEMMA AdvanceIs ==
  ASSUME SaTypeOK, NEW r \in saReqs, NEW stage \in Stages,
         NEW read \in Reads, Advance(r, stage, read)
  PROVE  \E new : Further(r, new) /\ new.stage = stage /\ new.read = read
<1>1. r \in SaRequests
  BY DEF SaTypeOK
<1>2. saReqs' = (saReqs \ {r}) \cup {Advanced(r, stage, read)}
  BY DEF Advance, Advanced
<1>3. \A x \in SaRequests, y \in Stages, z \in Reads :
        LET new == Advanced(x, y, z)
        IN /\ new \in SaRequests /\ new.page = x.page /\ new.op = x.op /\ new.account = x.account
           /\ new.value = x.value /\ new.stage = y /\ new.read = z
  BY AdvancedIs
<1> DEFINE new == Advanced(r, stage, read)
<1>4. /\ new \in SaRequests /\ new.page = r.page /\ new.op = r.op /\ new.account = r.account
      /\ new.value = r.value /\ new.stage = stage /\ new.read = read
  BY <1>1, <1>3
<1>5. saReqs' = (saReqs \ {r}) \cup {new}
  BY <1>2
<1> HIDE DEF new
<1>6. Further(r, new)
  BY <1>4, <1>5 DEF Further
<1> QED BY <1>4, <1>6

\* What is refused changes nothing; an unbinding that finds no row had no job.
LEMMA RefuseKeeps ==
  ASSUME AdminInv, NEW r \in saReqs, ~Finished(r), Refuse(r),
         r.stage # "committed" \/ (r.op = "unbind" /\ strat.bound[r.account] = "none")
  PROVE  AdminInv'
<1>0. SaTypeOK /\ r \in SaRequests /\ {} \in Reads /\ RequestOK(r)
  BY DEF AdminInv, SaTypeOK, Reads
<1> PICK new : Further(r, new) /\ new.stage = "refused"
  BY <1>0, StagesAre, AdvanceIs DEF Refuse
<1>1. UNCHANGED <<strat, groups, saPage, saHist>>
  BY DEF Refuse
<1>2. SaTypeOK' /\ RequestOK(new)
  BY <1>0, <1>1 DEF SaTypeOK, Further, RequestOK
<1>3. \A q \in saReqs' : RequestOK(q)
  BY <1>1, <1>2 DEF AdminInv, Further
<1>4. ASSUME ~saHist.raced, ~saHist.flipped PROVE groups = Scheduled(strat)
  <2>1. CASE r.stage # "committed"
    BY <1>4, <2>1, JobsNow
  <2>2. CASE r.stage = "committed"
    <3>1. groups = [sym \in TradedSymbols |-> Scheduled(strat)[sym] \ {r.account}]
      BY <1>4, <2>2 DEF AdminInv, JobsFollow, JobsDuring
    <3>2. \A sym \in TradedSymbols : r.account \notin Scheduled(strat)[sym]
      BY <2>2 DEF Scheduled
    <3>3. Scheduled(strat) \in [TradedSymbols -> SUBSET Bindable]
      BY ScheduledIs
    <3> QED BY <3>1, <3>2, <3>3
  <2> QED BY <2>1, <2>2
<1>5. JobsFollow'
  <2>1. JobsDuring(new)'
    BY <1>1 DEF JobsDuring
  <2> QED BY <1>1, <1>4, <2>1, JobsAdvance
<1>6. ViewsStay
  BY <1>0, <1>1 DEF ViewsStay, SaTypeOK
<1>7. \A p \in SaPages : PageFollows(p)'
  <2>1. /\ Toggling(new) <=> Toggling(r)
        /\ Deleted(new) <=> Deleted(r)
        /\ \A a : Binding(new, a) <=> Binding(r, a)
        /\ \A a : Unbound(new, a) <=> Unbound(r, a)
    BY <1>1 DEF Further, Finished, Toggling, Deleted, Binding, Unbound
  <2> QED BY <1>1, <1>6, <2>1, QuietAdvance
<1> QED BY <1>2, <1>3, <1>5, <1>7 DEF AdminInv

\* A server's step that a page does not see: what is left is its jobs.
LEMMA UnseenKeeps ==
  ASSUME AdminInv, NEW r \in saReqs, NEW new, ~Finished(r), Further(r, new), RequestOK(new),
         UNCHANGED <<strat, saPage, saHist>>, groups' \in [TradedSymbols -> SUBSET Bindable],
         Toggling(new) <=> Toggling(r), Deleted(new) <=> Deleted(r),
         \A a : Binding(new, a) <=> Binding(r, a), \A a : Unbound(new, a) <=> Unbound(r, a),
         ~saHist.raced /\ ~saHist.flipped =>
           (new.stage # "committed" => groups' = Scheduled(strat)) /\ JobsDuring(new)'
  PROVE  AdminInv'
<1>0. SaTypeOK
  BY DEF AdminInv
<1>1. SaTypeOK'
  BY <1>0 DEF SaTypeOK, Further
<1>2. \A q \in saReqs' : RequestOK(q)
  BY DEF AdminInv, Further
<1>3. JobsFollow'
  BY JobsAdvance
<1>4. ViewsStay
  BY <1>0 DEF ViewsStay, SaTypeOK
<1>5. \A p \in SaPages : PageFollows(p)'
  BY <1>4, QuietAdvance
<1> QED BY <1>1, <1>2, <1>3, <1>5 DEF AdminInv

\* The jobs after an update: those of its bindings, for its symbols.
LEMMA UpdateReschedulesKeeps ==
  ASSUME AdminInv, NEW r \in saReqs, UpdateReschedules(r)
  PROVE  AdminInv'
<1>0. SaTypeOK /\ RequestOK(r) /\ {} \in Reads
  BY DEF AdminInv, Reads
<1>1. r.op \in {"toggle", "edit"} /\ r.stage = "committed" /\ UNCHANGED <<strat, saPage, saHist>>
  BY DEF UpdateReschedules
<1> PICK new : Further(r, new) /\ new.stage = "done"
  BY <1>0, StagesAre, AdvanceIs DEF UpdateReschedules
<1> DEFINE here == {a \in Bindable : strat.bound[a] # "none"}
           back == {a \in here : strat.bound[a] = "on" /\ strat.open[a]}
           jobs(sym) == IF r.read.active /\ sym \in r.read.symbols
                        THEN (groups[sym] \ here) \cup back ELSE groups[sym] \ here
<1>2. groups' = [sym \in TradedSymbols |-> jobs(sym)]
  BY DEF UpdateReschedules, ForgottenOf
<1>3. groups' \in [TradedSymbols -> SUBSET Bindable]
  BY <1>0, <1>2 DEF SaTypeOK
<1>4. ASSUME ~saHist.raced, ~saHist.flipped PROVE groups' = Scheduled(strat)
  <2>1. /\ strat.exists /\ r.read.active = strat.active /\ r.read.symbols = strat.symbols
        /\ \A sym \in TradedSymbols : \A a \in groups[sym] : strat.bound[a] # "none"
    BY <1>1, <1>4 DEF AdminInv, JobsFollow, JobsDuring, HasRead
  <2>2. \A sym \in TradedSymbols : groups[sym] \ here = {}
    BY <1>0, <2>1 DEF SaTypeOK
  <2>3. \A sym \in TradedSymbols : jobs(sym) =
          IF strat.active /\ sym \in strat.symbols THEN back ELSE {}
    BY <2>1, <2>2
  <2>4. \A sym \in TradedSymbols : jobs(sym) =
          {a \in Bindable : strat.exists /\ strat.active /\ sym \in strat.symbols /\ strat.bound[a] = "on" /\ strat.open[a]}
    BY <2>1, <2>3
  <2> QED BY <1>2, <2>4 DEF Scheduled
<1>5. RequestOK(new)
  BY <1>0, <1>1 DEF RequestOK, Further
<1>6. JobsDuring(new)'
  BY DEF JobsDuring
<1>7. /\ Toggling(new) <=> Toggling(r)
      /\ Deleted(new) <=> Deleted(r)
      /\ \A a : Binding(new, a) <=> Binding(r, a)
      /\ \A a : Unbound(new, a) <=> Unbound(r, a)
  BY <1>1 DEF Further, Toggling, Deleted, Binding, Unbound
<1> QED BY <1>1, <1>3, <1>4, <1>5, <1>6, <1>7, UnseenKeeps DEF Finished

\* A binding is read, and later scheduled by what was read.
LEMMA BindReadsKeeps ==
  ASSUME AdminInv, NEW r \in saReqs, BindReads(r)
  PROVE  AdminInv'
<1> DEFINE read == [active |-> strat.active, symbols |-> strat.symbols, open |-> strat.open[r.account]]
<1>0. SaTypeOK /\ RequestOK(r) /\ r.op = "bind" /\ r.stage = "sent" /\ UNCHANGED <<strat, groups, saPage, saHist>>
  BY DEF AdminInv, BindReads
<1>1. read \in Reads
  BY <1>0 DEF RequestOK, SaTypeOK, SaStrategies, Reads
<1> PICK new : Further(r, new) /\ new.stage = "read" /\ new.read = read
  BY <1>0, <1>1, StagesAre, AdvanceIs DEF BindReads
<1>2. RequestOK(new)
  BY <1>0 DEF RequestOK, Further
<1>3. JobsDuring(new)'
  BY <1>0 DEF JobsDuring, HasRead, Further
<1>4. /\ Toggling(new) <=> Toggling(r)
      /\ Deleted(new) <=> Deleted(r)
      /\ \A a : Binding(new, a) <=> Binding(r, a)
      /\ \A a : Unbound(new, a) <=> Unbound(r, a)
  BY <1>0 DEF Further, Toggling, Deleted, Binding, Unbound
<1>5. ~saHist.raced /\ ~saHist.flipped => groups = Scheduled(strat)
  BY <1>0, JobsNow DEF Finished
<1>6. groups' \in [TradedSymbols -> SUBSET Bindable]
  BY <1>0 DEF SaTypeOK
<1> QED BY <1>0, <1>2, <1>3, <1>4, <1>5, <1>6, UnseenKeeps DEF Finished

LEMMA BindSchedulesKeeps ==
  ASSUME AdminInv, NEW r \in saReqs, BindSchedules(r)
  PROVE  AdminInv'
<1>0. /\ SaTypeOK /\ RequestOK(r) /\ r.op = "bind" /\ r.stage = "committed" /\ {} \in Reads
      /\ UNCHANGED <<strat, saPage, saHist>>
  BY DEF AdminInv, BindSchedules, Reads
<1> PICK new : Further(r, new) /\ new.stage = "done"
  BY <1>0, StagesAre, AdvanceIs DEF BindSchedules
<1>1. r.account \in Bindable
  BY <1>0 DEF RequestOK
<1>2. groups' = IF SchedulesNow(r) THEN With(groups, r.account, r.read.symbols) ELSE groups
  BY DEF BindSchedules
<1>3. groups' \in [TradedSymbols -> SUBSET Bindable]
  BY <1>0, <1>1, <1>2 DEF SaTypeOK, With
<1>4. ASSUME ~saHist.raced, ~saHist.flipped PROVE groups' = Scheduled(strat)
  <2>1. /\ strat.exists /\ strat.bound[r.account] = "on" /\ r.read.active = strat.active
        /\ r.read.symbols = strat.symbols /\ r.read.open = strat.open[r.account]
        /\ groups = [sym \in TradedSymbols |-> Scheduled(strat)[sym] \ {r.account}]
    BY <1>0, <1>4 DEF AdminInv, JobsFollow, JobsDuring, HasRead
  <2>2. \A sym \in TradedSymbols : r.account \in Scheduled(strat)[sym] <=>
          SchedulesNow(r) /\ sym \in r.read.symbols
    BY <1>1, <2>1, ScheduledIs DEF SchedulesNow
  <2>3. Scheduled(strat) \in [TradedSymbols -> SUBSET Bindable]
    BY ScheduledIs
  <2>4. \A sym \in TradedSymbols : groups'[sym] = Scheduled(strat)[sym]
    <3>1. CASE SchedulesNow(r)
      <4>1. groups' = [sym \in TradedSymbols |-> IF sym \in r.read.symbols THEN groups[sym] \cup {r.account} ELSE groups[sym]]
        BY <1>2, <3>1 DEF With
      <4> QED BY <2>1, <2>2, <2>3, <3>1, <4>1
    <3>2. CASE ~SchedulesNow(r)
      BY <1>2, <2>1, <2>2, <2>3, <3>2
    <3> QED BY <3>1, <3>2
  <2> QED BY <1>3, <2>3, <2>4
<1>5. RequestOK(new)
  BY <1>0 DEF RequestOK, Further
<1>6. JobsDuring(new)'
  BY DEF JobsDuring
<1>7. /\ Toggling(new) <=> Toggling(r)
      /\ Deleted(new) <=> Deleted(r)
      /\ \A a : Binding(new, a) <=> Binding(r, a)
      /\ \A a : Unbound(new, a) <=> Unbound(r, a)
  BY <1>0 DEF Further, Toggling, Deleted, Binding, Unbound
<1> QED BY <1>0, <1>3, <1>4, <1>5, <1>6, <1>7, UnseenKeeps DEF Finished

\* Unbinding and deleting take the account, or all, out of the jobs first.
LEMMA UnbindStartsKeeps ==
  ASSUME AdminInv, NEW r \in saReqs, UnbindStarts(r)
  PROVE  AdminInv'
<1>0. /\ SaTypeOK /\ RequestOK(r) /\ r.op = "unbind" /\ r.stage = "sent" /\ {} \in Reads
      /\ UNCHANGED <<strat, saPage, saHist>>
  BY DEF AdminInv, UnbindStarts, Reads
<1> PICK new : Further(r, new) /\ new.stage = "committed"
  BY <1>0, StagesAre, AdvanceIs DEF UnbindStarts
<1>1. groups' = [sym \in TradedSymbols |-> IF sym \in strat.symbols THEN groups[sym] \ {r.account} ELSE groups[sym]]
  BY DEF UnbindStarts, UnbindRemoves, Without
<1>2. groups' \in [TradedSymbols -> SUBSET Bindable]
  BY <1>0, <1>1 DEF SaTypeOK
<1>3. ASSUME ~saHist.raced, ~saHist.flipped
      PROVE  groups' = [sym \in TradedSymbols |-> Scheduled(strat)[sym] \ {r.account}]
  <2>1. groups = Scheduled(strat)
    BY <1>0, <1>3, JobsNow DEF Finished
  <2>2. \A sym \in TradedSymbols : sym \notin strat.symbols => Scheduled(strat)[sym] = {}
    BY DEF Scheduled
  <2> QED BY <1>1, <2>1, <2>2
<1>4. RequestOK(new)
  BY <1>0 DEF RequestOK, Further
<1>5. ~saHist.raced /\ ~saHist.flipped => JobsDuring(new)'
  <2> SUFFICES ASSUME ~saHist.raced, ~saHist.flipped PROVE JobsDuring(new)'
    OBVIOUS
  <2>1. new.op = "unbind" /\ new.account = r.account
    BY <1>0 DEF Further
  <2>2. Scheduled(strat') = Scheduled(strat)
    BY <1>0
  <2> QED BY <1>3, <2>1, <2>2 DEF JobsDuring
<1>6. /\ Toggling(new) <=> Toggling(r)
      /\ Deleted(new) <=> Deleted(r)
      /\ \A a : Binding(new, a) <=> Binding(r, a)
      /\ \A a : Unbound(new, a) <=> Unbound(r, a)
  BY <1>0 DEF Further, Toggling, Deleted, Binding, Unbound
<1> QED BY <1>0, <1>2, <1>4, <1>5, <1>6, UnseenKeeps DEF Finished

LEMMA DeleteStartsKeeps ==
  ASSUME AdminInv, NEW r \in saReqs, DeleteStarts(r)
  PROVE  AdminInv'
<1>0. /\ SaTypeOK /\ RequestOK(r) /\ r.op = "delete" /\ r.stage = "sent" /\ {} \in Reads
      /\ UNCHANGED <<strat, saPage, saHist>>
  BY DEF AdminInv, DeleteStarts, Reads
<1> PICK new : Further(r, new) /\ new.stage = "committed"
  BY <1>0, StagesAre, AdvanceIs DEF DeleteStarts
<1>1. groups' = [sym \in TradedSymbols |-> groups[sym] \ {a \in Bindable : strat.bound[a] # "none"}]
  BY DEF DeleteStarts
<1>2. groups' \in [TradedSymbols -> SUBSET Bindable]
  BY <1>0, <1>1 DEF SaTypeOK
<1>3. ASSUME ~saHist.raced, ~saHist.flipped PROVE \A sym \in TradedSymbols : groups'[sym] = {}
  <2>1. groups = Scheduled(strat)
    BY <1>0, <1>3, JobsNow DEF Finished
  <2>2. \A sym \in TradedSymbols : \A a \in Scheduled(strat)[sym] : a \in Bindable /\ strat.bound[a] # "none"
    BY DEF Scheduled
  <2> QED BY <1>1, <2>1, <2>2
<1>4. RequestOK(new)
  BY <1>0 DEF RequestOK, Further
<1>5. ~saHist.raced /\ ~saHist.flipped => JobsDuring(new)'
  BY <1>0, <1>3 DEF JobsDuring, Further
<1>6. /\ Toggling(new) <=> Toggling(r)
      /\ Deleted(new) <=> Deleted(r)
      /\ \A a : Binding(new, a) <=> Binding(r, a)
      /\ \A a : Unbound(new, a) <=> Unbound(r, a)
  BY <1>0 DEF Further, Toggling, Deleted, Binding, Unbound
<1> QED BY <1>0, <1>2, <1>4, <1>5, <1>6, UnseenKeeps DEF Finished

LEMMA TriggerStartsKeeps ==
  ASSUME AdminInv, NEW r \in saReqs, TriggerStarts(r)
  PROVE  AdminInv'
<1>0. /\ SaTypeOK /\ RequestOK(r) /\ r.op = "trigger" /\ r.stage = "sent" /\ {} \in Reads
      /\ UNCHANGED <<strat, groups, saPage, saHist>>
  BY DEF AdminInv, TriggerStarts, Reads
<1> PICK new : Further(r, new) /\ new.stage = "done"
  BY <1>0, StagesAre, AdvanceIs DEF TriggerStarts
<1>1. RequestOK(new) /\ JobsDuring(new)' /\ groups' \in [TradedSymbols -> SUBSET Bindable]
  BY <1>0 DEF RequestOK, Further, JobsDuring, SaTypeOK
<1>2. /\ Toggling(new) <=> Toggling(r)
      /\ Deleted(new) <=> Deleted(r)
      /\ \A a : Binding(new, a) <=> Binding(r, a)
      /\ \A a : Unbound(new, a) <=> Unbound(r, a)
  BY <1>0 DEF Further, Toggling, Deleted, Binding, Unbound
<1>3. ~saHist.raced /\ ~saHist.flipped => groups = Scheduled(strat)
  BY <1>0, JobsNow DEF Finished
<1> QED BY <1>0, <1>1, <1>2, <1>3, UnseenKeeps DEF Finished

\* The row is written; its page learns of it from the answer, the other from a
\* visit.
LEMMA UpdateCommitsKeeps ==
  ASSUME AdminInv, NEW r \in saReqs, UpdateCommits(r)
  PROVE  AdminInv'
<1>0. /\ SaTypeOK /\ r \in SaRequests /\ RequestOK(r) /\ r.op \in {"toggle", "edit"} /\ r.stage = "sent"
      /\ strat.exists /\ TellsNobody(r) /\ UNCHANGED <<groups, saHist>>
  BY DEF AdminInv, UpdateCommits, SaTypeOK
<1>1. /\ strat' \in SaStrategies /\ strat'.exists = strat.exists /\ strat'.bound = strat.bound
      /\ r.op = "toggle" => strat'.active = r.value
      /\ r.op = "edit" => strat'.active = strat.active
  <2>1. strat \in SaStrategies
    BY <1>0 DEF SaTypeOK
  <2>2. CASE r.op = "toggle"
    BY <1>0, <2>1, <2>2 DEF UpdateCommits, SaStrategies, RequestOK
  <2>3. CASE r.op = "edit"
    BY <1>0, <2>1, <2>3 DEF UpdateCommits, SaStrategies, RequestOK
  <2> QED BY <1>0, <2>2, <2>3
<1> PICK read : read = [active |-> strat'.active, symbols |-> strat'.symbols]
  OBVIOUS
<1>2. read \in Reads
  BY <1>1 DEF Reads, SaStrategies
<1> PICK new : Further(r, new) /\ new.stage = "committed" /\ new.read = read
  BY <1>0, <1>2, StagesAre, AdvanceIs DEF UpdateCommits
<1>3. SaTypeOK'
  BY <1>0, <1>1, ViewsAreTold DEF SaTypeOK, Further, ViewsStay
<1>4. \A q \in saReqs' : RequestOK(q)
  <2>1. RequestOK(new)
    BY <1>0 DEF RequestOK, Further
  <2> QED BY <2>1 DEF AdminInv, Further
<1>5. JobsFollow'
  <2>1. ASSUME ~saHist.raced, ~saHist.flipped PROVE JobsDuring(new)'
    <3>1. groups = Scheduled(strat)
      BY <1>0, <2>1, JobsNow DEF Finished
    <3>2. \A sym \in TradedSymbols : \A a \in groups'[sym] : strat'.bound[a] # "none"
      BY <1>0, <1>1, <3>1 DEF Scheduled
    <3>3. HasRead(new)' /\ strat'.exists
      BY <1>0, <1>1 DEF HasRead
    <3> QED BY <1>0, <3>2, <3>3 DEF JobsDuring, Further
  <2> QED BY <1>0, <2>1, JobsAdvance DEF Finished
<1>6. ASSUME NEW p \in SaPages PROVE PageFollows(p)'
  <2>0. ViewsStay /\ (p # r.page => saPage'[p].foreign)
    BY <1>0, ViewsAreTold
  <2> SUFFICES ASSUME Tracks(p), Tracks(p)', RowTells(p), strat.exists => BoundTells(p)
               PROVE  RowTells(p)' /\ (strat'.exists => BoundTells(p)')
    BY <1>0, <2>0, PagesAdvance
  <2>1. p = r.page /\ p \notin saHist.mixed
    BY <2>0 DEF Tracks
  <2>2. RowTells(p)'
    <3>1. CASE r.op = "edit"
      <4>1. /\ ~Toggling(new) /\ ~Toggling(r) /\ ~Deleted(new) /\ ~Deleted(r)
        BY <3>1 DEF Toggling, Deleted, Further
      <4> QED BY <1>1, <2>0, <3>1, <4>1, RowQuiet
    <3>2. CASE r.op = "toggle"
      <4>1. \A q \in Of(p)' : Toggling(q) \/ Deleted(q) => q.account = NoBindable
        BY <1>4 DEF Of, Toggling, Deleted, RequestOK
      <4>2. \A q \in Of(p) : Toggling(q) \/ Deleted(q) => q.account = NoBindable
        BY DEF AdminInv, Of, Toggling, Deleted, RequestOK
      <4>3. r.account = NoBindable
        BY <1>0, <3>2 DEF RequestOK
      <4>4. \A q \in Of(p)' : Toggling(q) \/ Deleted(q) => q = new
        BY <2>1, <4>1, <4>3, OnlyOne
      <4>5. \A q \in Of(p) : ~Toggling(q) /\ ~Deleted(q)
        <5>1. \A q \in Of(p) : Toggling(q) \/ Deleted(q) => q = r
          BY <2>1, <4>2, <4>3, OnlyOne
        <5> QED BY <1>0, <5>1 DEF Toggling, Deleted
      <4>6. saPage'[p].row \in {"on", "off"}
        BY <1>0, <2>0, <4>5 DEF RowTells, RowOf, ViewsStay
      <4>7. new \in Of(p)' /\ Toggling(new) /\ ~Deleted(new) /\ strat'.active = new.value /\ strat'.exists
        BY <1>0, <1>1, <2>1, <3>2, OnlyOne DEF Toggling, Deleted, Further
      <4> QED BY <4>4, <4>6, <4>7 DEF RowTells, Toggling, Deleted
    <3> QED BY <1>0, <3>1, <3>2
  <2>3. BoundTells(p)'
    <3>1. (\A a : Binding(new, a) <=> Binding(r, a)) /\ (\A a : Unbound(new, a) <=> Unbound(r, a))
      BY <1>0 DEF Binding, Unbound, Further
    <3> QED BY <1>0, <1>1, <2>0, <3>1, BoundsQuiet
  <2> QED BY <2>2, <2>3
<1> QED BY <1>3, <1>4, <1>5, <1>6 DEF AdminInv

\* A binding is written: no row of its page is of that account.
LEMMA BindCommitsKeeps ==
  ASSUME AdminInv, NEW r \in saReqs, BindCommits(r)
  PROVE  AdminInv'
<1>0. /\ SaTypeOK /\ r \in SaRequests /\ RequestOK(r) /\ r.op = "bind" /\ r.stage = "read" /\ r.account \in Bindable
      /\ r.read \in Reads
  BY DEF AdminInv, BindCommits, SaTypeOK, RequestOK, SaRequests
<1> SUFFICES ASSUME strat.exists, strat.bound[r.account] = "none" PROVE AdminInv'
  BY <1>0, RefuseKeeps DEF BindCommits, Finished
<1>1. /\ strat' = [strat EXCEPT !.bound[r.account] = "on"] /\ Advance(r, "committed", r.read) /\ TellsNobody(r)
      /\ UNCHANGED <<groups, saHist>>
  BY DEF BindCommits
<1>2. /\ strat' \in SaStrategies /\ strat'.exists = strat.exists /\ strat'.active = strat.active
      /\ strat'.symbols = strat.symbols /\ strat'.open = strat.open /\ strat'.bound[r.account] = "on"
      /\ \A b \in Bindable : b # r.account => strat'.bound[b] = strat.bound[b]
  <2>1. strat \in SaStrategies
    BY <1>0 DEF SaTypeOK
  <2> QED BY <1>0, <1>1, <2>1 DEF SaStrategies
<1> PICK new : Further(r, new) /\ new.stage = "committed" /\ new.read = r.read
  BY <1>0, <1>1, StagesAre, AdvanceIs
<1>3. SaTypeOK'
  BY <1>0, <1>1, <1>2, ViewsAreTold DEF SaTypeOK, Further, ViewsStay
<1>4. \A q \in saReqs' : RequestOK(q)
  <2>1. RequestOK(new)
    BY <1>0 DEF RequestOK, Further
  <2> QED BY <2>1 DEF AdminInv, Further
<1>5. JobsFollow'
  <2>1. ASSUME ~saHist.raced, ~saHist.flipped PROVE JobsDuring(new)'
    <3>1. groups = Scheduled(strat)
      BY <1>0, <2>1, JobsNow DEF Finished
    <3>2. HasRead(r) /\ r.read.open = strat.open[r.account]
      BY <1>0, <2>1 DEF AdminInv, JobsFollow, JobsDuring
    <3>3. \A sym \in TradedSymbols : Scheduled(strat)[sym] = Scheduled(strat')[sym] \ {r.account}
      BY <1>0, <1>2 DEF Scheduled
    <3>4. groups' = [sym \in TradedSymbols |-> Scheduled(strat')[sym] \ {r.account}]
      <4>1. Scheduled(strat) \in [TradedSymbols -> SUBSET Bindable]
        BY ScheduledIs
      <4> QED BY <1>1, <3>1, <3>3, <4>1
    <3>5. HasRead(new)' /\ new.read.open = strat'.open[new.account] /\ strat'.exists
          /\ strat'.bound[new.account] = "on"
      BY <1>2, <3>2 DEF HasRead, Further
    <3>6. new.op = "bind" /\ new.account = r.account
      BY <1>0 DEF Further
    <3> QED BY <3>4, <3>5, <3>6 DEF JobsDuring
  <2> QED BY <1>0, <1>1, <2>1, JobsAdvance DEF Finished
<1>6. ASSUME NEW p \in SaPages PROVE PageFollows(p)'
  <2>0. ViewsStay /\ (p # r.page => saPage'[p].foreign)
    BY <1>0, <1>1, ViewsAreTold
  <2> SUFFICES ASSUME Tracks(p), Tracks(p)', RowTells(p), BoundTells(p)
               PROVE  RowTells(p)' /\ BoundTells(p)'
    BY <1>1, <2>0, PagesAdvance
  <2>1. p = r.page /\ p \notin saHist.mixed
    BY <2>0 DEF Tracks
  <2>2. RowTells(p)'
    <3>1. /\ ~Toggling(new) /\ ~Toggling(r) /\ ~Deleted(new) /\ ~Deleted(r)
      BY <1>0 DEF Toggling, Deleted, Further
    <3> QED BY <1>2, <2>0, <3>1, RowQuiet
  <2>3. OneRowEach(saPage'[p].bound)
    BY <2>0 DEF BoundTells, ViewsStay
  <2>4. ASSUME NEW b \in Bindable
        PROVE  /\ \A q \in Of(p)' : Binding(q, b) => strat'.bound[b] = "on" /\ b \notin BoundOn(p)'
               /\ \A q \in Of(p)' : Unbound(q, b) => strat'.bound[b] = "none"
               /\ (\A q \in Of(p)' : ~Binding(q, b) /\ ~Unbound(q, b)) =>
                    {x \in ToSet(saPage'[p].bound) : x.account = b} = {x \in RowsSet(strat') : x.account = b}
    <3>1. CASE b # r.account
      <4>1. (Binding(new, b) <=> Binding(r, b)) /\ (Unbound(new, b) <=> Unbound(r, b))
        BY <3>1 DEF Binding, Unbound, Further
      <4> QED BY <1>2, <2>0, <3>1, <4>1, BoundQuiet
    <3>2. CASE b = r.account
      <4>1. new \in Of(p)' /\ Binding(new, b) /\ ~Unbound(new, b)
        BY <1>0, <2>1, <3>2, OnlyOne DEF Binding, Unbound, Further
      <4>2. \A q \in Of(p)' : Binding(q, b) \/ Unbound(q, b) => q = new
        BY <2>1, <3>2, OnlyOne DEF Binding, Unbound
      <4>3. \A q \in Of(p) : ~Binding(q, b) /\ ~Unbound(q, b)
        <5>1. \A q \in Of(p) : Binding(q, b) \/ Unbound(q, b) => q = r
          BY <2>1, <3>2, OnlyOne DEF Binding, Unbound
        <5> QED BY <1>0, <5>1 DEF Binding, Unbound
      <4>4. {x \in ToSet(saPage[p].bound) : x.account = b} = {x \in RowsSet(strat) : x.account = b}
        BY <4>3 DEF BoundTells
      <4>5. {x \in RowsSet(strat) : x.account = b} = {}
        BY <3>2 DEF RowsSet
      <4>6. b \notin BoundOn(p)'
        <5>1. saPage'[p].bound = saPage[p].bound
          BY <2>0 DEF ViewsStay
        <5>2. \A i \in DOMAIN saPage[p].bound : saPage[p].bound[i].account # b
          BY <4>4, <4>5 DEF ToSet
        <5> QED BY <5>1, <5>2 DEF BoundOn
      <4> QED BY <1>2, <3>2, <4>1, <4>2, <4>6
    <3> QED BY <3>1, <3>2
  <2>5. BoundTells(p)'
    BY <2>3, <2>4 DEF BoundTells, Binding, Unbound
  <2> QED BY <2>2, <2>5
<1> QED BY <1>3, <1>4, <1>5, <1>6 DEF AdminInv

\* The switch of a binding is refused: the body has no account_id.
LEMMA FlipCommitsKeeps ==
  ASSUME AdminInv, NEW r \in saReqs, FlipCommits(r)
  PROVE  AdminInv'
<1>1. ~(RequiredFields \subseteq ToggleBody)
  BY DEF RequiredFields, ToggleBody
<1>2. r.stage = "sent" /\ Refuse(r)
  BY <1>1 DEF FlipCommits
<1> QED BY <1>2, RefuseKeeps DEF Finished

LEMMA RefusedKeeps ==
  ASSUME AdminInv, NEW r \in saReqs, Refused(r)
  PROVE  AdminInv'
<1>1. r.stage = "sent" /\ Refuse(r)
  BY DEF Refused
<1> QED BY <1>1, RefuseKeeps DEF Finished

\* The row of a binding goes; the page takes it out when it is told.
LEMMA UnbindCommitsKeeps ==
  ASSUME AdminInv, NEW r \in saReqs, UnbindCommits(r)
  PROVE  AdminInv'
<1>0. /\ SaTypeOK /\ r \in SaRequests /\ RequestOK(r) /\ r.op = "unbind" /\ r.stage = "committed"
      /\ r.account \in Bindable /\ {} \in Reads
  BY DEF AdminInv, UnbindCommits, SaTypeOK, RequestOK, Reads
<1> SUFFICES ASSUME strat.bound[r.account] # "none" PROVE AdminInv'
  BY <1>0, RefuseKeeps DEF UnbindCommits, Finished
<1>1. /\ strat' = [strat EXCEPT !.bound[r.account] = "none"] /\ Advance(r, "done", {}) /\ TellsNobody(r)
      /\ UNCHANGED <<groups, saHist>>
  BY DEF UnbindCommits
<1>2. /\ strat' \in SaStrategies /\ strat'.exists = strat.exists /\ strat'.active = strat.active
      /\ strat'.symbols = strat.symbols /\ strat'.open = strat.open /\ strat'.bound[r.account] = "none"
      /\ \A b \in Bindable : b # r.account => strat'.bound[b] = strat.bound[b]
  <2>1. strat \in SaStrategies
    BY <1>0 DEF SaTypeOK
  <2> QED BY <1>0, <1>1, <2>1 DEF SaStrategies
<1> PICK new : Further(r, new) /\ new.stage = "done" /\ new.read = {}
  BY <1>0, <1>1, StagesAre, AdvanceIs
<1>3. SaTypeOK'
  BY <1>0, <1>1, <1>2, ViewsAreTold DEF SaTypeOK, Further, ViewsStay
<1>4. \A q \in saReqs' : RequestOK(q)
  <2>1. RequestOK(new)
    BY <1>0 DEF RequestOK, Further
  <2> QED BY <2>1 DEF AdminInv, Further
<1>5. JobsFollow'
  <2>1. ASSUME ~saHist.raced, ~saHist.flipped PROVE groups' = Scheduled(strat')
    <3>1. groups = [sym \in TradedSymbols |-> Scheduled(strat)[sym] \ {r.account}]
      BY <1>0, <2>1 DEF AdminInv, JobsFollow, JobsDuring
    <3>2. \A sym \in TradedSymbols : Scheduled(strat')[sym] = Scheduled(strat)[sym] \ {r.account}
      BY <1>0, <1>2 DEF Scheduled
    <3>3. Scheduled(strat') \in [TradedSymbols -> SUBSET Bindable]
      BY ScheduledIs
    <3> QED BY <1>1, <3>1, <3>2, <3>3
  <2>2. JobsDuring(new)'
    BY DEF JobsDuring
  <2> QED BY <1>0, <1>1, <2>1, <2>2, JobsAdvance DEF Finished
<1>6. ASSUME NEW p \in SaPages PROVE PageFollows(p)'
  <2>0. ViewsStay /\ (p # r.page => saPage'[p].foreign)
    BY <1>0, <1>1, ViewsAreTold
  <2> SUFFICES ASSUME Tracks(p), Tracks(p)', RowTells(p), strat.exists => BoundTells(p)
               PROVE  RowTells(p)' /\ (strat'.exists => BoundTells(p)')
    BY <1>1, <2>0, PagesAdvance
  <2>1. p = r.page /\ p \notin saHist.mixed
    BY <2>0 DEF Tracks
  <2>2. RowTells(p)'
    <3>1. /\ ~Toggling(new) /\ ~Toggling(r) /\ ~Deleted(new) /\ ~Deleted(r)
      BY <1>0 DEF Toggling, Deleted, Further
    <3> QED BY <1>2, <2>0, <3>1, RowQuiet
  <2> SUFFICES ASSUME BoundTells(p) PROVE BoundTells(p)'
    BY <1>2, <2>2
  <2>3. OneRowEach(saPage'[p].bound)
    BY <2>0 DEF BoundTells, ViewsStay
  <2>4. ASSUME NEW b \in Bindable
        PROVE  /\ \A q \in Of(p)' : Binding(q, b) => strat'.bound[b] = "on" /\ b \notin BoundOn(p)'
               /\ \A q \in Of(p)' : Unbound(q, b) => strat'.bound[b] = "none"
               /\ (\A q \in Of(p)' : ~Binding(q, b) /\ ~Unbound(q, b)) =>
                    {x \in ToSet(saPage'[p].bound) : x.account = b} = {x \in RowsSet(strat') : x.account = b}
    <3>1. CASE b # r.account
      <4>1. (Binding(new, b) <=> Binding(r, b)) /\ (Unbound(new, b) <=> Unbound(r, b))
        BY <3>1 DEF Binding, Unbound, Further
      <4> QED BY <1>2, <2>0, <3>1, <4>1, BoundQuiet
    <3>2. CASE b = r.account
      <4>1. new \in Of(p)' /\ ~Binding(new, b) /\ Unbound(new, b)
        BY <1>0, <2>1, <3>2, OnlyOne DEF Binding, Unbound, Further
      <4>2. \A q \in Of(p)' : Binding(q, b) \/ Unbound(q, b) => q = new
        BY <2>1, <3>2, OnlyOne DEF Binding, Unbound
      <4> QED BY <1>2, <3>2, <4>1, <4>2
    <3> QED BY <3>1, <3>2
  <2> QED BY <2>3, <2>4 DEF BoundTells, Binding, Unbound
<1> QED BY <1>3, <1>4, <1>5, <1>6 DEF AdminInv

\* The strategy goes, and its bindings with it; it had no jobs left.
LEMMA DeleteCommitsKeeps ==
  ASSUME AdminInv, NEW r \in saReqs, DeleteCommits(r)
  PROVE  AdminInv'
<1>0. /\ SaTypeOK /\ r \in SaRequests /\ RequestOK(r) /\ r.op = "delete" /\ r.stage = "committed"
      /\ r.account = NoBindable /\ {} \in Reads
      /\ strat' = [strat EXCEPT !.exists = FALSE, !.bound = [a \in Bindable |-> "none"]]
      /\ Advance(r, "done", {}) /\ TellsNobody(r) /\ UNCHANGED <<groups, saHist>>
  BY DEF AdminInv, DeleteCommits, SaTypeOK, RequestOK, Reads
<1>1. strat' \in SaStrategies /\ ~strat'.exists
  <2>1. strat \in SaStrategies
    BY <1>0 DEF SaTypeOK
  <2>2. strat' \in SaStrategies
    BY <1>0, <2>1 DEF SaStrategies
  <2>3. strat'.exists = FALSE
    BY <1>0, <2>1 DEF SaStrategies
  <2> QED BY <2>2, <2>3
<1> PICK new : Further(r, new) /\ new.stage = "done" /\ new.read = {}
  BY <1>0, StagesAre, AdvanceIs
<1>2. SaTypeOK'
  BY <1>0, <1>1, ViewsAreTold DEF SaTypeOK, Further, ViewsStay
<1>3. \A q \in saReqs' : RequestOK(q)
  <2>1. RequestOK(new)
    BY <1>0 DEF RequestOK, Further
  <2> QED BY <2>1 DEF AdminInv, Further
<1>4. JobsFollow'
  <2>1. ASSUME ~saHist.raced, ~saHist.flipped PROVE groups' = Scheduled(strat')
    <3>1. \A sym \in TradedSymbols : groups[sym] = {}
      BY <1>0, <2>1 DEF AdminInv, JobsFollow, JobsDuring
    <3>2. \A sym \in TradedSymbols : Scheduled(strat')[sym] = {}
      BY <1>1 DEF Scheduled
    <3>3. Scheduled(strat') \in [TradedSymbols -> SUBSET Bindable]
      BY ScheduledIs
    <3> QED BY <1>0, <3>1, <3>2, <3>3 DEF SaTypeOK
  <2>2. JobsDuring(new)'
    BY DEF JobsDuring
  <2> QED BY <1>0, <2>1, <2>2, JobsAdvance DEF Finished
<1>5. ASSUME NEW p \in SaPages PROVE PageFollows(p)'
  <2>0. ViewsStay /\ (p # r.page => saPage'[p].foreign)
    BY <1>0, ViewsAreTold
  <2> SUFFICES ASSUME Tracks(p), Tracks(p)' PROVE RowTells(p)'
    BY <1>0, <1>1, <2>0, PagesAdvance
  <2>1. p = r.page /\ p \notin saHist.mixed
    BY <2>0 DEF Tracks
  <2>2. \A q \in Of(p)' : Toggling(q) => q.account = NoBindable
    BY <1>3 DEF Of, Toggling, RequestOK
  <2>3. \A q \in Of(p)' : Toggling(q) => q = new
    BY <1>0, <2>1, <2>2, OnlyOne
  <2>4. new \in Of(p)' /\ ~Toggling(new) /\ Deleted(new)
    BY <1>0, <2>1, OnlyOne DEF Toggling, Deleted, Further
  <2> QED BY <1>1, <2>3, <2>4 DEF RowTells, Toggling, Deleted
<1> QED BY <1>2, <1>3, <1>4, <1>5 DEF AdminInv

\* What a page makes of an answer (a switch of a binding is never done).
LEMMA AnsweredIs ==
  ASSUME NEW page \in SaViews, NEW r \in SaRequests, RequestOK(r), r.op # "flip"
  PROVE  /\ Answered(page, r) \in SaViews /\ Answered(page, r).foreign = page.foreign
         /\ Answered(page, r).row =
              IF r.op = "toggle" THEN IF page.row = "absent" THEN "absent" ELSE IF r.value THEN "on" ELSE "off"
              ELSE IF r.op = "delete" THEN "absent" ELSE page.row
         /\ Answered(page, r).bound =
              IF r.op = "bind" THEN Append(page.bound, [account |-> r.account, on |-> TRUE])
              ELSE IF r.op = "unbind" THEN Unlisted(page.bound, r.account) ELSE page.bound
<1>0. r.op \in Ops
  BY DEF SaRequests
<1>1. CASE r.op = "toggle"
  <2>1. Answered(page, r) =
          [page EXCEPT !.row = IF page.row = "absent" THEN "absent" ELSE IF r.value THEN "on" ELSE "off"]
    BY <1>1 DEF Answered, SaViews
  <2> QED BY <1>1, <2>1 DEF SaViews
<1>2. CASE r.op = "bind"
  <2>1. Answered(page, r) = [page EXCEPT !.bound = Append(page.bound, [account |-> r.account, on |-> TRUE])]
    BY <1>2 DEF Answered, SaViews
  <2>2. r.account \in Bindable
    BY <1>2 DEF RequestOK
  <2>3. [account |-> r.account, on |-> TRUE] \in BoundRow
    BY <2>2 DEF BoundRow
  <2>4. Append(page.bound, [account |-> r.account, on |-> TRUE]) \in Seq(BoundRow)
    BY <2>3 DEF SaViews
  <2> QED BY <1>2, <2>1, <2>4 DEF SaViews
<1>3. CASE r.op = "unbind"
  <2>1. Answered(page, r) = [page EXCEPT !.bound = Unlisted(page.bound, r.account)]
    BY <1>3 DEF Answered, SaViews
  <2>2. Unlisted(page.bound, r.account) \in Seq(BoundRow)
    BY UnlistedIsRest DEF SaViews
  <2> QED BY <1>3, <2>1, <2>2 DEF SaViews
<1>4. CASE r.op = "delete"
  <2>1. Answered(page, r) = [page EXCEPT !.row = "absent", !.deleting = FALSE]
    BY <1>4 DEF Answered
  <2> QED BY <1>4, <2>1 DEF SaViews
<1>5. CASE r.op \in {"edit", "trigger"}
  <2>1. Answered(page, r) = page
    BY <1>5 DEF Answered
  <2> QED BY <1>5, <2>1 DEF SaViews
<1> QED BY <1>0, <1>1, <1>2, <1>3, <1>4, <1>5 DEF Ops

\* The view after an answer, a refusal included.
Seen(r) == IF r.stage = "done" THEN Answered(saPage[r.page], r) ELSE saPage[r.page]

LEMMA SeenIs ==
  ASSUME AdminInv, NEW r \in saReqs, AdminAnswer(r), r.page \in SaPages
  PROVE  /\ saPage' \in [SaPages -> SaViews] /\ \A p \in SaPages : p # r.page => saPage'[p] = saPage[p]
         /\ saPage'[r.page].row = Seen(r).row /\ saPage'[r.page].bound = Seen(r).bound
         /\ saPage'[r.page].foreign = saPage[r.page].foreign
<1>1. /\ saPage \in [SaPages -> SaViews] /\ r \in SaRequests /\ RequestOK(r) /\ Finished(r)
  BY DEF AdminInv, SaTypeOK, AdminAnswer
<1>2. Seen(r) \in SaViews /\ Seen(r).foreign = saPage[r.page].foreign
  <2>1. r.stage = "done" => r.op # "flip"
    BY <1>1 DEF RequestOK
  <2>2. CASE r.stage = "done"
    BY <1>1, <2>1, <2>2, AnsweredIs DEF Seen
  <2>3. CASE r.stage # "done"
    BY <1>1, <2>3 DEF Seen
  <2> QED BY <2>2, <2>3
<1>3. saPage' = [saPage EXCEPT ![r.page] = Settled(Seen(r), r)]
  BY <1>1 DEF AdminAnswer, Seen
<1> PICK view : view = Settled(Seen(r), r)
  OBVIOUS
<1>4. view \in SaViews /\ view.row = Seen(r).row /\ view.bound = Seen(r).bound /\ view.foreign = Seen(r).foreign
  <2>1. CASE Seen(r).triggering /\ r.op # "trigger"
    <3>1. view = [Seen(r) EXCEPT !.triggering = TRUE]
      BY <2>1 DEF Settled
    <3> QED BY <1>2, <3>1 DEF SaViews
  <2>2. CASE ~(Seen(r).triggering /\ r.op # "trigger")
    <3>1. view = [Seen(r) EXCEPT !.triggering = FALSE]
      BY <2>2 DEF Settled
    <3> QED BY <1>2, <3>1 DEF SaViews
  <2> QED BY <2>1, <2>2
<1>5. saPage' = [saPage EXCEPT ![r.page] = view]
  BY <1>3
<1> QED BY <1>1, <1>2, <1>4, <1>5

\* The rows that a page shows after an answer are right.
LEMMA BoundAnswered ==
  ASSUME AdminInv, NEW r \in saReqs, AdminAnswer(r), r.page \in SaPages, r.page \notin saHist.mixed,
         BoundTells(r.page)
  PROVE  BoundTells(r.page)'
<1> DEFINE p == r.page
<1>0. /\ saReqs' = saReqs \ {r} /\ strat' = strat /\ Finished(r) /\ r \in SaRequests /\ RequestOK(r)
      /\ saPage[p] \in SaViews /\ saPage'[p].bound = Seen(r).bound
  BY SeenIs DEF AdminAnswer, AdminInv, SaTypeOK
<1>1. /\ r \in Of(p) /\ \A q \in Of(p)' : q \in Of(p) /\ q # r
      /\ \A q \in Of(p) : q # r => q \in Of(p)' /\ q.account # r.account
  BY <1>0 DEF Of, AdminInv, PageFollows
<1>2. saPage[p].bound \in Seq(BoundRow)
  BY <1>0 DEF SaViews
\* It is enough to look at the rows, account by account.
<1>3. SUFFICES
        /\ OneRowEach(saPage'[p].bound)
        /\ \A b \in Bindable :
             \/ /\ {x \in ToSet(saPage'[p].bound) : x.account = b} = {x \in ToSet(saPage[p].bound) : x.account = b}
                /\ ~Binding(r, b) /\ ~Unbound(r, b)
             \/ /\ b = r.account
                /\ {x \in ToSet(saPage'[p].bound) : x.account = b} = {x \in RowsSet(strat) : x.account = b}
  <2> SUFFICES ASSUME NEW b \in Bindable
               PROVE  /\ \A q \in Of(p)' : Binding(q, b) => strat'.bound[b] = "on" /\ b \notin BoundOn(p)'
                      /\ \A q \in Of(p)' : Unbound(q, b) => strat'.bound[b] = "none"
                      /\ (\A q \in Of(p)' : ~Binding(q, b) /\ ~Unbound(q, b)) =>
                           {x \in ToSet(saPage'[p].bound) : x.account = b} = {x \in RowsSet(strat') : x.account = b}
    BY <1>3 DEF BoundTells, Binding, Unbound
  <2>1. CASE /\ {x \in ToSet(saPage'[p].bound) : x.account = b} = {x \in ToSet(saPage[p].bound) : x.account = b}
             /\ ~Binding(r, b) /\ ~Unbound(r, b)
    <3>1. b \notin BoundOn(p) => b \notin BoundOn(p)'
      BY <2>1 DEF BoundOn, ToSet
    <3>2. (\A q \in Of(p)' : ~Binding(q, b) /\ ~Unbound(q, b)) => \A q \in Of(p) : ~Binding(q, b) /\ ~Unbound(q, b)
      BY <1>1, <2>1
    <3>3. /\ \A q \in Of(p)' : Binding(q, b) => strat.bound[b] = "on" /\ b \notin BoundOn(p)
          /\ \A q \in Of(p)' : Unbound(q, b) => strat.bound[b] = "none"
      BY <1>1 DEF BoundTells
    <3>4. (\A q \in Of(p) : ~Binding(q, b) /\ ~Unbound(q, b)) =>
            {x \in ToSet(saPage[p].bound) : x.account = b} = {x \in RowsSet(strat) : x.account = b}
      BY DEF BoundTells
    <3> QED BY <1>0, <2>1, <3>1, <3>2, <3>3, <3>4
  <2>2. CASE /\ b = r.account
             /\ {x \in ToSet(saPage'[p].bound) : x.account = b} = {x \in RowsSet(strat) : x.account = b}
    <3>1. \A q \in Of(p)' : ~Binding(q, b) /\ ~Unbound(q, b)
      BY <1>1, <2>2 DEF Binding, Unbound
    <3> QED BY <1>0, <2>2, <3>1
  <2> QED BY <1>3, <2>1, <2>2
<1>4. CASE r.stage = "done" /\ r.op = "bind"
  <2>1. Binding(r, r.account) /\ r.account \in Bindable
    BY <1>0, <1>4 DEF Binding, RequestOK
  <2>2. strat.bound[r.account] = "on" /\ r.account \notin BoundOn(p)
    BY <1>1, <2>1 DEF BoundTells
  <2> PICK row : row = [account |-> r.account, on |-> TRUE]
    OBVIOUS
  <2>3. row \in BoundRow /\ row.account = r.account
    BY <2>1 DEF BoundRow
  <2>4. saPage'[p].bound = Append(saPage[p].bound, row)
    BY <1>0, <1>4, AnsweredIs DEF Seen
  <2>5. \A i \in DOMAIN saPage[p].bound : saPage[p].bound[i].account # r.account
    BY <2>2 DEF BoundOn
  <2>6. /\ Len(saPage[p].bound) \in Nat /\ DOMAIN saPage[p].bound = 1 .. Len(saPage[p].bound)
        /\ DOMAIN saPage'[p].bound = 1 .. Len(saPage[p].bound) + 1
        /\ saPage'[p].bound[Len(saPage[p].bound) + 1] = row
        /\ \A i \in DOMAIN saPage[p].bound : saPage'[p].bound[i] = saPage[p].bound[i]
    BY <1>2, <2>3, <2>4
  <2>7. \A i \in DOMAIN saPage'[p].bound : i = Len(saPage[p].bound) + 1 \/ i \in DOMAIN saPage[p].bound
    BY <2>6
  <2>8. OneRowEach(saPage'[p].bound)
    BY <2>3, <2>5, <2>6, <2>7 DEF OneRowEach, BoundTells
  <2>9. ToSet(saPage'[p].bound) = ToSet(saPage[p].bound) \cup {row}
    <3>1. \A i \in DOMAIN saPage[p].bound : i \in DOMAIN saPage'[p].bound
      BY <2>6
    <3>2. Len(saPage[p].bound) + 1 \in DOMAIN saPage'[p].bound
      BY <2>6
    <3> QED BY <2>6, <2>7, <3>1, <3>2 DEF ToSet
  <2>10. ASSUME NEW b \in Bindable, b # r.account
         PROVE  /\ {x \in ToSet(saPage'[p].bound) : x.account = b} = {x \in ToSet(saPage[p].bound) : x.account = b}
                /\ ~Binding(r, b) /\ ~Unbound(r, b)
    BY <2>3, <2>9, <2>10 DEF Binding, Unbound
  <2>11. {x \in ToSet(saPage'[p].bound) : x.account = r.account} = {x \in RowsSet(strat) : x.account = r.account}
    <3>1. \A x \in ToSet(saPage[p].bound) : x.account # r.account
      BY <2>5 DEF ToSet
    <3>2. {x \in ToSet(saPage'[p].bound) : x.account = r.account} = {row}
      BY <2>3, <2>9, <3>1
    <3>3. {x \in RowsSet(strat) : x.account = r.account} = {row}
      <4>1. row = [account |-> r.account, on |-> strat.bound[r.account] = "on"]
        BY <2>2
      <4>2. row \in RowsSet(strat)
        BY <2>1, <2>2, <4>1 DEF RowsSet
      <4>3. \A x \in RowsSet(strat) : x.account = r.account => x = row
        BY <4>1 DEF RowsSet
      <4> QED BY <2>3, <4>2, <4>3
    <3> QED BY <3>2, <3>3
  <2> QED BY <2>8, <2>10, <2>11
<1>5. CASE r.stage = "done" /\ r.op = "unbind"
  <2>1. Unbound(r, r.account) /\ r.account \in Bindable
    BY <1>0, <1>5 DEF Unbound, RequestOK
  <2>2. strat.bound[r.account] = "none"
    BY <1>1, <2>1 DEF BoundTells
  <2>3. saPage'[p].bound = Unlisted(saPage[p].bound, r.account)
    BY <1>0, <1>5, AnsweredIs DEF Seen
  <2>4. /\ ToSet(saPage'[p].bound) = {x \in ToSet(saPage[p].bound) : x.account # r.account}
        /\ OneRowEach(saPage'[p].bound)
    BY <1>2, <2>3, UnlistedIsRest DEF BoundTells
  <2>5. ASSUME NEW b \in Bindable, b # r.account
        PROVE  /\ {x \in ToSet(saPage'[p].bound) : x.account = b} = {x \in ToSet(saPage[p].bound) : x.account = b}
               /\ ~Binding(r, b) /\ ~Unbound(r, b)
    BY <2>4, <2>5 DEF Binding, Unbound
  <2>6. {x \in RowsSet(strat) : x.account = r.account} = {}
    BY <2>2 DEF RowsSet
  <2> QED BY <2>4, <2>5, <2>6
<1>6. CASE ~(r.stage = "done" /\ r.op \in {"bind", "unbind"})
  <2>1. saPage'[p].bound = saPage[p].bound
    <3>1. CASE r.stage = "done"
      <4>1. r.op # "flip"
        BY <1>0, <3>1 DEF RequestOK
      <4> QED BY <1>0, <1>6, <3>1, <4>1, AnsweredIs DEF Seen
    <3>2. CASE r.stage # "done"
      BY <1>0, <3>2 DEF Seen
    <3> QED BY <3>1, <3>2
  <2>2. \A b : ~Binding(r, b) /\ ~Unbound(r, b)
    BY <1>0, <1>6 DEF Binding, Unbound, Finished
  <2> QED BY <2>1, <2>2 DEF BoundTells
<1> QED BY <1>4, <1>5, <1>6

\* The row that a page shows after an answer is right.
LEMMA RowAnswered ==
  ASSUME AdminInv, NEW r \in saReqs, AdminAnswer(r), r.page \in SaPages, r.page \notin saHist.mixed,
         RowTells(r.page)
  PROVE  RowTells(r.page)'
<1> DEFINE p == r.page
<1>0. /\ saReqs' = saReqs \ {r} /\ strat' = strat /\ Finished(r) /\ r \in SaRequests /\ RequestOK(r)
      /\ saPage[p] \in SaViews /\ saPage'[p].row = Seen(r).row /\ strat \in SaStrategies
  BY SeenIs DEF AdminAnswer, AdminInv, SaTypeOK
<1>1. /\ r \in Of(p) /\ \A q \in Of(p)' : q \in Of(p) /\ q # r /\ RequestOK(q)
      /\ \A q \in Of(p) : q # r => q \in Of(p)' /\ q.account # r.account
  BY <1>0 DEF Of, AdminInv, PageFollows
<1>2. CASE Toggling(r) \/ Deleted(r)
  <2>1. r.stage = "done" /\ r.account = NoBindable /\ r.op \in {"toggle", "delete"}
    BY <1>0, <1>2 DEF Toggling, Deleted, Finished, RequestOK
  <2>2. \A q \in Of(p)' : ~Toggling(q) /\ ~Deleted(q)
    <3>1. \A q \in Of(p)' : Toggling(q) \/ Deleted(q) => q.account = NoBindable
      BY <1>1 DEF Toggling, Deleted, RequestOK
    <3> QED BY <1>1, <2>1, <3>1
  <2>3. saPage'[p].row = RowOf(strat)
    <3>1. CASE r.op = "toggle"
      <4>1. strat.exists /\ strat.active = r.value /\ saPage[p].row \in {"on", "off"}
        BY <1>1, <2>1, <3>1 DEF RowTells, Toggling
      <4>2. saPage'[p].row = IF r.value THEN "on" ELSE "off"
        BY <1>0, <2>1, <3>1, <4>1, AnsweredIs DEF Seen
      <4> QED BY <4>1, <4>2 DEF RowOf
    <3>2. CASE r.op = "delete"
      <4>1. ~strat.exists
        BY <1>1, <2>1, <3>2 DEF RowTells, Deleted
      <4>2. saPage'[p].row = "absent"
        BY <1>0, <2>1, <3>2, AnsweredIs DEF Seen
      <4> QED BY <4>1, <4>2 DEF RowOf
    <3> QED BY <2>1, <3>1, <3>2
  <2> QED BY <1>0, <2>2, <2>3 DEF RowTells, Toggling, Deleted
<1>3. CASE ~Toggling(r) /\ ~Deleted(r)
  <2>1. saPage'[p].row = saPage[p].row
    <3>1. CASE r.stage = "done"
      <4>1. r.op \notin {"flip", "toggle", "delete"}
        BY <1>0, <1>3, <3>1 DEF RequestOK, Toggling, Deleted
      <4> QED BY <1>0, <3>1, <4>1, AnsweredIs DEF Seen
    <3>2. CASE r.stage # "done"
      BY <1>0, <3>2 DEF Seen
    <3> QED BY <3>1, <3>2
  <2>2. \A q \in Of(p)' : /\ Toggling(q) => strat.exists /\ strat.active = q.value /\ saPage[p].row \in {"on", "off"}
                          /\ Deleted(q) => ~strat.exists
    BY <1>1 DEF RowTells
  <2>3. (\A q \in Of(p)' : ~Toggling(q) /\ ~Deleted(q)) => saPage[p].row = RowOf(strat)
    <3>1. (\A q \in Of(p)' : ~Toggling(q) /\ ~Deleted(q)) => \A q \in Of(p) : ~Toggling(q) /\ ~Deleted(q)
      BY <1>1, <1>3
    <3> QED BY <3>1 DEF RowTells
  <2> QED BY <1>0, <2>1, <2>2, <2>3 DEF RowTells, Toggling, Deleted
<1> QED BY <1>2, <1>3

LEMMA AdminAnswerKeeps ==
  ASSUME AdminInv, NEW r \in saReqs, AdminAnswer(r)
  PROVE  AdminInv'
<1>0. saReqs' = saReqs \ {r} /\ UNCHANGED <<strat, groups, saHist>> /\ Finished(r) /\ SaTypeOK
  BY DEF AdminAnswer, AdminInv
<1>1. SaTypeOK'
  <2>1. saPage' \in [SaPages -> SaViews]
    BY <1>0, SeenIs DEF AdminAnswer, SaTypeOK
  <2> QED BY <1>0, <2>1 DEF SaTypeOK
<1>2. \A q \in saReqs' : RequestOK(q)
  BY <1>0 DEF AdminInv
<1>3. JobsFollow'
  <2> SUFFICES ASSUME ~saHist.raced, ~saHist.flipped
               PROVE  /\ \A x, q \in saReqs' : ~Finished(x) /\ ~Finished(q) => x = q
                      /\ (\A x \in saReqs' : x.stage # "committed") => groups' = Scheduled(strat')
                      /\ \A x \in saReqs' : JobsDuring(x)'
    BY <1>0 DEF JobsFollow, Finished
  <2>1. /\ \A x, q \in saReqs : ~Finished(x) /\ ~Finished(q) => x = q
        /\ (\A x \in saReqs : x.stage # "committed") => groups = Scheduled(strat)
        /\ \A x \in saReqs : JobsDuring(x)
    BY DEF AdminInv, JobsFollow
  <2>2. \A x : JobsDuring(x)' <=> JobsDuring(x)
    BY <1>0 DEF JobsDuring, HasRead
  <2>3. r.stage # "committed"
    BY <1>0 DEF Finished
  <2>4. Scheduled(strat') = Scheduled(strat)
    BY <1>0
  <2> QED BY <1>0, <2>1, <2>2, <2>3, <2>4
<1>4. ASSUME NEW p \in SaPages PROVE PageFollows(p)'
  <2>0. PageFollows(p)
    BY DEF AdminInv
  <2>1. CASE p # r.page
    <3>1. saPage'[p] = saPage[p] /\ Of(p)' = Of(p)
      BY <1>0, <2>1, SeenIs DEF AdminAnswer, Of
    <3>2. BoundOn(p)' = BoundOn(p)
      BY <3>1 DEF BoundOn
    <3>3. Tracks(p)' <=> Tracks(p)
      BY <1>0, <3>1 DEF Tracks
    <3>4. RowTells(p)' <=> RowTells(p)
      BY <1>0, <3>1 DEF RowTells, Toggling, Deleted
    <3>5. BoundTells(p)' <=> BoundTells(p)
      BY <1>0, <3>1, <3>2 DEF BoundTells, Binding, Unbound
    <3> QED BY <1>0, <2>0, <3>1, <3>3, <3>4, <3>5 DEF PageFollows
  <2>2. CASE p = r.page
    <3>1. r \in Of(p) /\ Of(p)' \subseteq Of(p)
      BY <1>0, <2>2 DEF Of
    <3>2. saPage[p].row # "loading" /\ saPage[p] \in SaViews /\ r \in SaRequests /\ RequestOK(r)
      BY <1>0, <2>0, <3>1 DEF PageFollows, AdminInv, SaTypeOK
    <3>3. saPage'[p].row = Seen(r).row /\ saPage'[p].foreign = saPage[p].foreign
      BY <2>2, SeenIs
    <3>4. Seen(r).row # "loading"
      <4>1. CASE r.stage = "done"
        <5>1. r.op # "flip"
          BY <3>2, <4>1 DEF RequestOK
        <5> QED BY <2>2, <3>2, <4>1, <5>1, AnsweredIs DEF Seen
      <4>2. CASE r.stage # "done"
        BY <2>2, <3>2, <4>2 DEF Seen
      <4> QED BY <4>1, <4>2
    <3>5. p \notin saHist'.mixed => \A x, q \in Of(p)' : x.account = q.account => x = q
      BY <1>0, <2>0, <3>1 DEF PageFollows
    <3>6. ASSUME Tracks(p)' PROVE RowTells(p)' /\ (strat'.exists => BoundTells(p)')
      <4>1. Tracks(p)
        BY <1>0, <3>2, <3>3, <3>6 DEF Tracks
      <4>2. RowTells(p) /\ (strat.exists => BoundTells(p)) /\ r.page \notin saHist.mixed
        BY <2>0, <2>2, <4>1 DEF PageFollows, Tracks
      <4>3. RowTells(p)'
        BY <2>2, <4>2, RowAnswered
      <4>4. strat.exists => BoundTells(p)'
        BY <2>2, <4>2, BoundAnswered
      <4> QED BY <1>0, <4>3, <4>4
    <3> QED BY <3>3, <3>4, <3>5, <3>6 DEF PageFollows
  <2> QED BY <2>1, <2>2
<1> QED BY <1>1, <1>2, <1>3, <1>4 DEF AdminInv

-----------------------------------------------------------------------------
(* The user's steps *)

\* A request is sent: it has told nobody anything yet.
LEMMA SendKeeps ==
  ASSUME AdminInv, NEW p \in SaPages \cup {"edit"}, NEW op \in Ops, NEW a \in Bindable \cup {NoBindable},
         NEW v \in BOOLEAN \cup SUBSET TradedSymbols, Send(p, op, a, v), UNCHANGED <<strat, groups>>, ViewsStay,
         \A q \in SaPages : saPage'[q].foreign <=> saPage[q].foreign,
         op = "toggle" => v \in BOOLEAN, op = "edit" => v \in SUBSET TradedSymbols,
         op \in {"toggle", "delete"} => a = NoBindable, op \in {"bind", "unbind"} => a \in Bindable,
         p \in SaPages => saPage[p].row # "loading"
  PROVE  AdminInv'
<1> PICK r : r = [page |-> p, op |-> op, account |-> a, value |-> v, stage |-> "sent", read |-> {}]
  OBVIOUS
<1>0. /\ SaTypeOK /\ saReqs' = saReqs \cup {r}
      /\ saHist' = [saHist EXCEPT
            !.clicks = @ + 1,
            !.raced = @ \/ \E q \in saReqs : ~Finished(q),
            !.mixed = @ \cup {t \in {p} : \E q \in saReqs : q.page = p /\ q.account = a}]
  BY DEF AdminInv, Send
<1>1. /\ r \in SaRequests /\ RequestOK(r) /\ r.stage = "sent" /\ r.page = p /\ r.account = a
  <2>1. r \in SaRequests
    BY StagesAre DEF SaRequests, Reads
  <2> QED BY <2>1 DEF RequestOK
<1>2. /\ saHist' \in SaHists /\ saHist'.flipped = saHist.flipped /\ saHist.mixed \subseteq saHist'.mixed
      /\ (\E q \in saReqs : q.page = p /\ q.account = a) => p \in saHist'.mixed
      /\ ~saHist'.raced => ~saHist.raced /\ \A q \in saReqs : Finished(q)
  <2>1. saHist \in SaHists
    BY <1>0 DEF SaTypeOK
  <2> PICK many : many = saHist.mixed \cup {t \in {p} : \E q \in saReqs : q.page = p /\ q.account = a}
    OBVIOUS
  <2> PICK n \in Nat : n = saHist.clicks + 1
    BY <2>1 DEF SaHists
  <2>2. many \in SUBSET (SaPages \cup {"edit"})
    BY <2>1 DEF SaHists
  <2>3. CASE saHist.raced \/ \E q \in saReqs : ~Finished(q)
    <3>1. saHist' = [saHist EXCEPT !.clicks = n, !.raced = TRUE, !.mixed = many]
      BY <1>0, <2>3
    <3>2. saHist' \in SaHists
      BY <2>1, <2>2, <3>1 DEF SaHists
    <3>3. saHist'.flipped = saHist.flipped /\ saHist'.mixed = many
      BY <2>1, <3>1, Zenon DEF SaHists
    <3>4. saHist'.raced = TRUE
      BY <2>1, <3>1 DEF SaHists
    <3> QED BY <2>2, <3>2, <3>3, <3>4
  <2>4. CASE ~(saHist.raced \/ \E q \in saReqs : ~Finished(q))
    <3>1. saHist' = [saHist EXCEPT !.clicks = n, !.raced = FALSE, !.mixed = many]
      BY <1>0, <2>4
    <3>2. saHist' \in SaHists
      BY <2>1, <2>2, <3>1 DEF SaHists
    <3>3. saHist'.flipped = saHist.flipped /\ saHist'.mixed = many
      BY <2>1, <3>1, Zenon DEF SaHists
    <3> QED BY <2>2, <2>4, <3>2, <3>3
  <2> QED BY <2>3, <2>4
<1>3. SaTypeOK'
  BY <1>0, <1>1, <1>2 DEF SaTypeOK, ViewsStay
<1>4. \A q \in saReqs' : RequestOK(q)
  BY <1>0, <1>1 DEF AdminInv
<1>5. JobsFollow'
  <2> SUFFICES ASSUME ~saHist'.raced, ~saHist'.flipped
               PROVE  /\ \A x, q \in saReqs' : ~Finished(x) /\ ~Finished(q) => x = q
                      /\ (\A x \in saReqs' : x.stage # "committed") => groups' = Scheduled(strat')
                      /\ \A x \in saReqs' : JobsDuring(x)'
    BY DEF JobsFollow, Finished
  <2>1. \A q \in saReqs : Finished(q)
    BY <1>2
  <2>2. groups = Scheduled(strat)
    BY <1>2, <2>1 DEF AdminInv, JobsFollow, Finished
  <2>3. \A x : Finished(x) \/ x.stage = "sent" => JobsDuring(x)'
    BY DEF JobsDuring, Finished
  <2>4. groups' = Scheduled(strat')
    BY <2>2
  <2> QED BY <1>0, <1>1, <2>1, <2>3, <2>4
<1>6. ASSUME NEW q \in SaPages PROVE PageFollows(q)'
  <2>0. PageFollows(q) /\ saPage'[q].row = saPage[q].row /\ saPage'[q].bound = saPage[q].bound
        /\ saPage'[q].deleting = saPage[q].deleting
    BY DEF AdminInv, ViewsStay
  <2>1. Of(q) \subseteq Of(q)' /\ \A x \in Of(q)' : x \in Of(q) \/ (x = r /\ q = p)
    BY <1>0, <1>1 DEF Of
  <2>2. saPage'[q].row = "loading" => Of(q)' = {} /\ saPage'[q].deleting = FALSE
    <3> SUFFICES ASSUME saPage'[q].row = "loading" PROVE Of(q)' = {} /\ saPage'[q].deleting = FALSE
      OBVIOUS
    <3>1. Of(q) = {} /\ saPage[q].deleting = FALSE /\ q # p
      BY <2>0 DEF PageFollows
    <3>2. Of(q)' = {}
      BY <2>1, <3>1
    <3> QED BY <2>0, <3>1, <3>2
  <2>3. q \notin saHist'.mixed => \A x, y \in Of(q)' : x.account = y.account => x = y
    <3> SUFFICES ASSUME q \notin saHist'.mixed PROVE \A x, y \in Of(q)' : x.account = y.account => x = y
      OBVIOUS
    <3>1. \A x, y \in Of(q) : x.account = y.account => x = y
      BY <1>2, <2>0 DEF PageFollows
    <3>2. q = p => \A x \in Of(q) : x.account # r.account
      BY <1>1, <1>2 DEF Of
    <3> QED BY <2>1, <3>1, <3>2
  <2>4. ASSUME Tracks(q)' PROVE RowTells(q)' /\ (strat'.exists => BoundTells(q)')
    <3>1. Tracks(q)
      BY <1>2, <2>0, <2>4 DEF Tracks
    <3>2. RowTells(q) /\ (strat.exists => BoundTells(q))
      BY <2>0, <3>1 DEF PageFollows
    <3>3. \A x : x.stage = "sent" => ~Toggling(x) /\ ~Deleted(x) /\ \A b : ~Binding(x, b) /\ ~Unbound(x, b)
      BY DEF Toggling, Deleted, Binding, Unbound
    <3>4. \A x \in Of(q)' : x \notin Of(q) =>
            ~Toggling(x) /\ ~Deleted(x) /\ \A b : ~Binding(x, b) /\ ~Unbound(x, b)
      BY <1>1, <2>1, <3>3
    <3>5. RowTells(q)'
      <4>1. \A x \in Of(q)' : /\ Toggling(x) => strat.exists /\ strat.active = x.value /\ saPage[q].row \in {"on", "off"}
                              /\ Deleted(x) => ~strat.exists
        BY <3>2, <3>4 DEF RowTells
      <4>2. (\A x \in Of(q)' : ~Toggling(x) /\ ~Deleted(x)) => saPage[q].row = RowOf(strat)
        BY <2>1, <3>2 DEF RowTells
      <4> QED BY <2>0, <4>1, <4>2 DEF RowTells, Toggling, Deleted
    <3>6. ASSUME BoundTells(q) PROVE BoundTells(q)'
      <4>1. BoundOn(q)' = BoundOn(q)
        BY <2>0 DEF BoundOn
      <4>2. ASSUME NEW b \in Bindable
            PROVE  /\ \A x \in Of(q)' : Binding(x, b) => strat.bound[b] = "on" /\ b \notin BoundOn(q)
                   /\ \A x \in Of(q)' : Unbound(x, b) => strat.bound[b] = "none"
                   /\ (\A x \in Of(q)' : ~Binding(x, b) /\ ~Unbound(x, b)) =>
                        {x \in ToSet(saPage[q].bound) : x.account = b} = {x \in RowsSet(strat) : x.account = b}
        BY <2>1, <3>4, <3>6 DEF BoundTells
      <4>3. OneRowEach(saPage[q].bound)
        BY <3>6 DEF BoundTells
      <4> QED BY <2>0, <4>1, <4>2, <4>3 DEF BoundTells, Binding, Unbound
    <3> QED BY <3>2, <3>5, <3>6
  <2> QED BY <2>2, <2>3, <2>4 DEF PageFollows
<1> QED BY <1>3, <1>4, <1>5, <1>6 DEF AdminInv

\* Views that nothing was said to.
LEMMA ViewsRest == SaTypeOK /\ UNCHANGED saPage => ViewsStay
BY DEF SaTypeOK, ViewsStay

LEMMA ClicksKeep ==
  ASSUME AdminInv,
         \/ \E p \in SaPages : ClickStrategy(p) \/ ClickBinding(p)
         \/ \E a \in Bindable : ClickBind(a) \/ ClickUnbind(a)
         \/ \E syms \in SUBSET TradedSymbols \ {{}} : SaveSymbols(syms)
         \/ ConfirmDelete
  PROVE  AdminInv'
<1>0. SaTypeOK /\ \A p \in SaPages : saPage[p] \in SaViews
  BY DEF AdminInv, SaTypeOK
<1> USE DEF SaPages, Ops
<1>1. ASSUME NEW p \in SaPages, ClickStrategy(p) PROVE AdminInv'
  <2> PICK v : v = (saPage[p].row = "off")
    OBVIOUS
  <2>1. v \in BOOLEAN
    OBVIOUS
  <2>2. Send(p, "toggle", NoBindable, v) /\ saPage[p].row # "loading" /\ UNCHANGED <<strat, groups, saPage>>
    BY <1>1 DEF ClickStrategy
  <2> QED BY <1>0, <2>1, <2>2, ViewsRest, SendKeeps
<1>2. ASSUME NEW p \in SaPages, ClickBinding(p) PROVE AdminInv'
  <2>1. saPage[p].row # "loading" /\ UNCHANGED <<strat, groups, saPage>> /\ saPage[p].bound \in Seq(BoundRow)
    BY <1>0, <1>2 DEF ClickBinding, SaViews
  <2>2. PICK i \in DOMAIN saPage[p].bound : Send(p, "flip", saPage[p].bound[i].account, ~saPage[p].bound[i].on)
    BY <1>2 DEF ClickBinding
  <2> PICK a, v : a = saPage[p].bound[i].account /\ v = ~saPage[p].bound[i].on
    OBVIOUS
  <2>3. saPage[p].bound[i] \in BoundRow
    BY <2>1
  <2>4. a \in Bindable /\ v \in BOOLEAN /\ Send(p, "flip", a, v)
    BY <2>2, <2>3 DEF BoundRow
  <2> QED BY <1>0, <2>1, <2>4, ViewsRest, SendKeeps
<1>3. ASSUME NEW a \in Bindable, ClickBind(a) PROVE AdminInv'
  <2>1. Send("detail", "bind", a, TRUE) /\ saPage["detail"].row # "loading" /\ UNCHANGED <<strat, groups, saPage>>
    BY <1>3 DEF ClickBind
  <2> QED BY <1>0, <2>1, ViewsRest, SendKeeps
<1>4. ASSUME NEW a \in Bindable, ClickUnbind(a) PROVE AdminInv'
  <2>1. Send("detail", "unbind", a, FALSE) /\ saPage["detail"].row # "loading" /\ UNCHANGED <<strat, groups, saPage>>
    BY <1>4 DEF ClickUnbind
  <2> QED BY <1>0, <2>1, ViewsRest, SendKeeps
<1>5. ASSUME NEW syms \in SUBSET TradedSymbols \ {{}}, SaveSymbols(syms) PROVE AdminInv'
  <2>1. Send("edit", "edit", NoBindable, syms) /\ UNCHANGED <<strat, groups, saPage>>
    BY <1>5 DEF SaveSymbols
  <2> QED BY <1>0, <2>1, ViewsRest, SendKeeps
<1>6. ASSUME ConfirmDelete PROVE AdminInv'
  <2>1. Send("list", "delete", NoBindable, TRUE) /\ saPage["list"].deleting /\ UNCHANGED <<strat, groups, saPage>>
    BY <1>6 DEF ConfirmDelete
  <2>2. saPage["list"].row # "loading"
    BY <2>1 DEF AdminInv, PageFollows
  <2> QED BY <1>0, <2>1, <2>2, ViewsRest, SendKeeps
<1> QED BY <1>1, <1>2, <1>3, <1>4, <1>5, <1>6

LEMMA ClickTriggerKeeps ==
  ASSUME AdminInv, ClickTrigger
  PROVE  AdminInv'
<1>1. /\ Send("list", "trigger", NoBindable, TRUE) /\ saPage["list"].row # "loading" /\ UNCHANGED <<strat, groups>>
      /\ saPage' = [saPage EXCEPT !["list"].triggering = TRUE] /\ saPage \in [SaPages -> SaViews]
  BY DEF ClickTrigger, AdminInv, SaTypeOK
<1>2. ASSUME NEW p \in SaPages
      PROVE  /\ saPage'[p] \in SaViews /\ saPage'[p].row = saPage[p].row /\ saPage'[p].bound = saPage[p].bound
             /\ saPage'[p].deleting = saPage[p].deleting /\ saPage'[p].foreign = saPage[p].foreign
  <2>1. saPage[p] \in SaViews
    BY <1>1
  <2>2. CASE p = "list"
    <3>1. saPage'[p] = [saPage[p] EXCEPT !.triggering = TRUE]
      BY <1>1, <2>2
    <3> QED BY <2>1, <3>1 DEF SaViews
  <2>3. CASE p # "list"
    BY <1>1, <2>1, <2>3
  <2> QED BY <2>2, <2>3
<1>3. ViewsStay
  BY <1>1, <1>2 DEF ViewsStay
<1> QED BY <1>1, <1>2, <1>3, SendKeeps DEF SaPages, Ops

\* A page that only one thing happens to: the others follow as they did.
LEMMA OtherFollows ==
  ASSUME NEW p \in SaPages, PageFollows(p), UNCHANGED <<strat, saReqs>>, saHist'.mixed = saHist.mixed,
         saPage'[p] = saPage[p]
  PROVE  PageFollows(p)'
<1>1. Of(p)' = Of(p) /\ BoundOn(p)' = BoundOn(p)
  BY DEF Of, BoundOn
<1>2. Tracks(p)' <=> Tracks(p)
  BY DEF Tracks
<1>3. RowTells(p)' <=> RowTells(p)
  BY <1>1 DEF RowTells, Toggling, Deleted
<1>4. BoundTells(p)' <=> BoundTells(p)
  BY <1>1 DEF BoundTells, Binding, Unbound
<1> QED BY <1>1, <1>2, <1>3, <1>4 DEF PageFollows

\* Jobs that nothing happens to.
LEMMA JobsRest ==
  ASSUME JobsFollow, UNCHANGED <<strat, groups, saReqs, saHist>>
  PROVE  JobsFollow'
BY DEF JobsFollow, JobsDuring, HasRead, Finished, Scheduled

\* A visit: what the page gets is what there is.
LEMMA LoadPageKeeps ==
  ASSUME AdminInv, NEW p \in SaPages, LoadPage(p)
  PROVE  AdminInv'
<1>0. /\ UNCHANGED <<strat, groups, saReqs, saHist>> /\ SaTypeOK /\ saPage[p].row = "loading"
      /\ saPage \in [SaPages -> SaViews] /\ strat \in SaStrategies
  BY DEF LoadPage, AdminInv, SaTypeOK
<1> PICK late : late = \E r \in saReqs : ~Finished(r)
  OBVIOUS
<1>1. saPage' = [saPage EXCEPT ![p] = [saPage[p] EXCEPT !.row = RowOf(strat), !.bound = BoundRows(strat), !.foreign = late]]
  BY DEF LoadPage
<1>2. late \in BOOLEAN /\ RowOf(strat) \in {"absent", "on", "off"} /\ BoundRows(strat) \in Seq(BoundRow)
  BY <1>0, RowsAreBindings DEF RowOf
<1>3. /\ saPage'[p] \in SaViews /\ saPage'[p].row = RowOf(strat) /\ saPage'[p].bound = BoundRows(strat)
  <2>1. saPage'[p] = [saPage[p] EXCEPT !.row = RowOf(strat), !.bound = BoundRows(strat), !.foreign = late]
    BY <1>0, <1>1
  <2> QED BY <1>0, <1>2, <2>1 DEF SaViews
<1>4. saPage' \in [SaPages -> SaViews] /\ \A q \in SaPages : q # p => saPage'[q] = saPage[q]
  BY <1>0, <1>1, <1>3
<1>5. SaTypeOK'
  BY <1>0, <1>4 DEF SaTypeOK
<1>6. JobsFollow'
  BY <1>0, JobsRest DEF AdminInv
<1>7. ASSUME NEW q \in SaPages PROVE PageFollows(q)'
  <2>1. CASE q # p
    BY <1>0, <1>4, <2>1, OtherFollows DEF AdminInv
  <2>2. CASE q = p
    <3>1. Of(p)' = {}
      BY <1>0 DEF Of, AdminInv, PageFollows
    <3>2. saPage'[p].row # "loading"
      BY <1>2, <1>3
    <3>3. RowTells(p)'
      BY <1>0, <1>3, <3>1 DEF RowTells
    <3>4. BoundTells(p)'
      <4>1. OneRowEach(saPage'[p].bound) /\ ToSet(saPage'[p].bound) = RowsSet(strat)
        BY <1>0, <1>3, RowsAreBindings
      <4> QED BY <1>0, <3>1, <4>1 DEF BoundTells
    <3> QED BY <2>2, <3>1, <3>2, <3>3, <3>4 DEF PageFollows
  <2> QED BY <2>1, <2>2
<1> QED BY <1>0, <1>5, <1>6, <1>7 DEF AdminInv

LEMMA DeleteDialogKeeps ==
  ASSUME AdminInv, DeleteDialog
  PROVE  AdminInv'
<1>0. /\ UNCHANGED <<strat, groups, saReqs, saHist>> /\ SaTypeOK /\ saPage["list"].row # "loading"
      /\ saPage \in [SaPages -> SaViews] /\ "list" \in SaPages
  BY DEF DeleteDialog, AdminInv, SaTypeOK, SaPages
<1> PICK shown : shown = ~saPage["list"].deleting
  OBVIOUS
<1>1. saPage' = [saPage EXCEPT !["list"] = [saPage["list"] EXCEPT !.deleting = shown]]
  BY DEF DeleteDialog
<1>2. shown \in BOOLEAN
  BY <1>0 DEF SaViews
<1>3. /\ saPage'["list"] \in SaViews /\ saPage'["list"].row = saPage["list"].row
      /\ saPage'["list"].bound = saPage["list"].bound /\ saPage'["list"].foreign = saPage["list"].foreign
  <2>1. saPage'["list"] = [saPage["list"] EXCEPT !.deleting = shown]
    BY <1>0, <1>1
  <2> QED BY <1>0, <1>2, <2>1 DEF SaViews
<1>4. saPage' \in [SaPages -> SaViews] /\ \A q \in SaPages : q # "list" => saPage'[q] = saPage[q]
  BY <1>0, <1>1, <1>3
<1>5. SaTypeOK'
  BY <1>0, <1>4 DEF SaTypeOK
<1>6. JobsFollow'
  BY <1>0, JobsRest DEF AdminInv
<1>7. ASSUME NEW q \in SaPages PROVE PageFollows(q)'
  <2>1. CASE q # "list"
    BY <1>0, <1>4, <2>1, OtherFollows DEF AdminInv
  <2>2. CASE q = "list"
    <3>1. Of(q)' = Of(q) /\ BoundOn(q)' = BoundOn(q) /\ PageFollows(q)
      BY <1>0, <1>3, <2>2 DEF Of, BoundOn, AdminInv
    <3>2. Tracks(q)' <=> Tracks(q)
      BY <1>0, <1>3, <2>2 DEF Tracks
    <3>3. RowTells(q)' <=> RowTells(q)
      BY <1>0, <1>3, <2>2, <3>1 DEF RowTells, Toggling, Deleted
    <3>4. BoundTells(q)' <=> BoundTells(q)
      BY <1>0, <1>3, <2>2, <3>1 DEF BoundTells, Binding, Unbound
    <3> QED BY <1>0, <1>3, <2>2, <3>1, <3>2, <3>3, <3>4 DEF PageFollows
  <2> QED BY <2>1, <2>2
<1> QED BY <1>0, <1>5, <1>6, <1>7 DEF AdminInv

\* An account that is switched off: the scheduler is not told, the pages need not be.
LEMMA FlipAccountKeeps ==
  ASSUME AdminInv, NEW a \in Bindable, FlipAccount(a)
  PROVE  AdminInv'
<1>0. /\ UNCHANGED <<groups, saReqs, saPage>> /\ SaTypeOK /\ strat \in SaStrategies /\ saHist \in SaHists
  BY DEF FlipAccount, AdminInv, SaTypeOK
<1> PICK open : open = ~strat.open[a]
  OBVIOUS
<1>1. strat' = [strat EXCEPT !.open = [strat.open EXCEPT ![a] = open]]
  BY DEF FlipAccount
<1>2. open \in BOOLEAN
  BY <1>0 DEF SaStrategies
<1>3. /\ strat' \in SaStrategies /\ strat'.exists = strat.exists /\ strat'.active = strat.active
      /\ strat'.bound = strat.bound
  <2> PICK all : all = [strat.open EXCEPT ![a] = open]
    OBVIOUS
  <2>1. all \in [Bindable -> BOOLEAN] /\ strat' = [strat EXCEPT !.open = all]
    <3>1. strat.open \in [Bindable -> BOOLEAN]
      BY <1>0 DEF SaStrategies
    <3>2. all \in [Bindable -> BOOLEAN]
      BY <1>2, <3>1
    <3> QED BY <1>1, <3>2
  <2>2. strat' \in SaStrategies
    BY <1>0, <2>1 DEF SaStrategies
  <2>3. strat'.exists = strat.exists /\ strat'.active = strat.active /\ strat'.bound = strat.bound
    BY <1>0, <2>1, Zenon DEF SaStrategies
  <2> QED BY <2>2, <2>3
<1>4. saHist' \in SaHists /\ saHist'.mixed = saHist.mixed /\ saHist'.flipped
  <2> PICK n \in Nat : n = saHist.mishaps + 1
    BY <1>0 DEF SaHists
  <2>1. saHist' = [saHist EXCEPT !.flipped = TRUE, !.mishaps = n]
    BY DEF FlipAccount
  <2>2. saHist' \in SaHists /\ saHist'.mixed = saHist.mixed
    BY <1>0, <2>1 DEF SaHists
  <2>3. saHist'.flipped = TRUE
    BY <1>0, <2>1 DEF SaHists
  <2> QED BY <2>2, <2>3
<1>5. SaTypeOK'
  BY <1>0, <1>3, <1>4 DEF SaTypeOK
<1>6. JobsFollow'
  BY <1>4 DEF JobsFollow
<1>7. ASSUME NEW p \in SaPages PROVE PageFollows(p)'
  <2>1. Of(p)' = Of(p) /\ BoundOn(p)' = BoundOn(p) /\ RowsSet(strat') = RowsSet(strat) /\ RowOf(strat') = RowOf(strat)
    BY <1>0, <1>3 DEF Of, BoundOn, RowsSet, RowOf
  <2>2. Tracks(p)' <=> Tracks(p)
    BY <1>0, <1>4 DEF Tracks
  <2>3. RowTells(p)' <=> RowTells(p)
    BY <1>0, <1>3, <2>1 DEF RowTells, Toggling, Deleted
  <2>4. BoundTells(p)' <=> BoundTells(p)
    BY <1>0, <1>3, <2>1 DEF BoundTells, Binding, Unbound
  <2>5. PageFollows(p)
    BY DEF AdminInv
  <2> QED BY <1>0, <1>3, <1>4, <2>1, <2>2, <2>3, <2>4, <2>5 DEF PageFollows
<1> QED BY <1>0, <1>5, <1>6, <1>7 DEF AdminInv

\* After a restart the jobs are those of the database, and every page is late.
LEMMA AdminRestartKeeps ==
  ASSUME AdminInv, AdminRestart
  PROVE  AdminInv'
<1>0. /\ UNCHANGED strat /\ groups' = Scheduled(strat) /\ SaTypeOK /\ saHist \in SaHists /\ {} \in Reads
      /\ saReqs \subseteq SaRequests /\ saPage \in [SaPages -> SaViews] /\ "refused" \in Stages
  BY StagesAre DEF AdminRestart, AdminInv, SaTypeOK, Reads
<1>1. saReqs' = {Advanced(r, "refused", {}) : r \in saReqs}
  BY DEF AdminRestart, Advanced
<1>2. \A r \in saReqs : /\ Advanced(r, "refused", {}) \in SaRequests
                        /\ Advanced(r, "refused", {}).page = r.page /\ Advanced(r, "refused", {}).op = r.op
                        /\ Advanced(r, "refused", {}).account = r.account
                        /\ Advanced(r, "refused", {}).value = r.value
                        /\ Advanced(r, "refused", {}).stage = "refused"
  BY <1>0, AdvancedIs
<1>3. saReqs' \subseteq SaRequests /\ \A q \in saReqs' : q.stage = "refused" /\ RequestOK(q)
  <2>1. \A r \in saReqs : RequestOK(r)
    BY DEF AdminInv
  <2> QED BY <1>1, <1>2, <2>1 DEF RequestOK
<1>4. saHist' \in SaHists /\ saHist'.mixed = saHist.mixed
  <2> PICK n \in Nat : n = saHist.mishaps + 1
    BY <1>0 DEF SaHists
  <2>1. saHist' = [saHist EXCEPT !.raced = FALSE, !.flipped = FALSE, !.mishaps = n]
    BY DEF AdminRestart
  <2> QED BY <1>0, <2>1 DEF SaHists
<1>5. /\ saPage' \in [SaPages -> SaViews]
      /\ \A p \in SaPages : /\ saPage'[p].row = saPage[p].row /\ saPage'[p].deleting = saPage[p].deleting
                            /\ saPage'[p].foreign
  <2>1. saPage' = [p \in SaPages |-> [saPage[p] EXCEPT !.foreign = TRUE]]
    BY DEF AdminRestart
  <2>2. ASSUME NEW p \in SaPages
        PROVE  /\ saPage'[p] \in SaViews /\ saPage'[p].row = saPage[p].row
               /\ saPage'[p].deleting = saPage[p].deleting /\ saPage'[p].foreign
    <3>1. saPage'[p] = [saPage[p] EXCEPT !.foreign = TRUE] /\ saPage[p] \in SaViews
      BY <1>0, <2>1
    <3>2. /\ saPage'[p] \in SaViews /\ saPage'[p].row = saPage[p].row
          /\ saPage'[p].deleting = saPage[p].deleting
      BY <3>1 DEF SaViews
    <3>3. saPage'[p].foreign = TRUE
      BY <3>1 DEF SaViews
    <3> QED BY <3>2, <3>3
  <2> QED BY <2>1, <2>2
<1>6. SaTypeOK'
  <2>1. groups' \in [TradedSymbols -> SUBSET Bindable]
    BY <1>0, ScheduledIs
  <2> QED BY <1>0, <1>3, <1>4, <1>5, <2>1 DEF SaTypeOK
<1>7. JobsFollow'
  <2>1. \A q : q.stage = "refused" => JobsDuring(q)'
    BY DEF JobsDuring
  <2>2. groups' = Scheduled(strat')
    BY <1>0
  <2> QED BY <1>3, <2>1, <2>2 DEF JobsFollow, Finished
<1>8. ASSUME NEW p \in SaPages PROVE PageFollows(p)'
  <2>1. PageFollows(p)
    BY DEF AdminInv
  <2>2. \A q \in Of(p)' : \E r \in Of(p) : q = Advanced(r, "refused", {}) /\ q.account = r.account
    BY <1>1, <1>2 DEF Of
  <2>3. ~Tracks(p)'
    BY <1>5 DEF Tracks
  <2>4. saPage'[p].row = "loading" => Of(p)' = {} /\ saPage'[p].deleting = FALSE
    <3> SUFFICES ASSUME saPage'[p].row = "loading" PROVE Of(p)' = {} /\ saPage'[p].deleting = FALSE
      OBVIOUS
    <3>1. Of(p) = {} /\ saPage[p].deleting = FALSE
      BY <1>5, <2>1 DEF PageFollows
    <3>2. Of(p)' = {}
      BY <2>2, <3>1
    <3>3. saPage'[p].deleting = FALSE
      BY <1>5, <3>1
    <3> QED BY <3>2, <3>3
  <2>5. p \notin saHist'.mixed => \A x, y \in Of(p)' : x.account = y.account => x = y
    <3> SUFFICES ASSUME p \notin saHist.mixed, NEW x \in Of(p)', NEW y \in Of(p)', x.account = y.account
                 PROVE  x = y
      BY <1>4
    <3>1. PICK r \in Of(p) : x = Advanced(r, "refused", {}) /\ x.account = r.account
      BY <2>2
    <3>2. PICK q \in Of(p) : y = Advanced(q, "refused", {}) /\ y.account = q.account
      BY <2>2
    <3>3. r = q
      BY <2>1, <3>1, <3>2 DEF PageFollows
    <3> QED BY <3>1, <3>2, <3>3
  <2> QED BY <2>3, <2>4, <2>5 DEF PageFollows
<1> QED BY <1>3, <1>6, <1>7, <1>8 DEF AdminInv

LEMMA AdminStep == AdminInv /\ [SaNext]_saVars => AdminInv'
<1> SUFFICES ASSUME AdminInv, [SaNext]_saVars PROVE AdminInv'
  OBVIOUS
<1>1. CASE SaUser
  <2>1. ASSUME NEW p \in SaPages, LoadPage(p) PROVE AdminInv'
    BY <2>1, LoadPageKeeps
  <2> QED BY <1>1, <2>1, ClicksKeep, ClickTriggerKeeps, DeleteDialogKeeps DEF SaUser
<1>2. CASE SaServer
  <2>1. PICK r \in saReqs :
          \/ UpdateCommits(r) \/ UpdateReschedules(r) \/ BindReads(r) \/ BindCommits(r) \/ BindSchedules(r)
          \/ FlipCommits(r) \/ UnbindStarts(r) \/ UnbindCommits(r) \/ DeleteStarts(r) \/ DeleteCommits(r)
          \/ TriggerStarts(r) \/ Refused(r) \/ AdminAnswer(r)
    BY <1>2 DEF SaServer
  <2>2. CASE UpdateCommits(r) \/ UpdateReschedules(r)
    BY <2>2, UpdateCommitsKeeps, UpdateReschedulesKeeps
  <2>3. CASE BindReads(r) \/ BindCommits(r) \/ BindSchedules(r)
    BY <2>3, BindReadsKeeps, BindCommitsKeeps, BindSchedulesKeeps
  <2>4. CASE FlipCommits(r) \/ UnbindStarts(r) \/ UnbindCommits(r)
    BY <2>4, FlipCommitsKeeps, UnbindStartsKeeps, UnbindCommitsKeeps
  <2>5. CASE DeleteStarts(r) \/ DeleteCommits(r)
    BY <2>5, DeleteStartsKeeps, DeleteCommitsKeeps
  <2>6. CASE TriggerStarts(r) \/ Refused(r) \/ AdminAnswer(r)
    BY <2>6, TriggerStartsKeeps, RefusedKeeps, AdminAnswerKeeps
  <2> QED BY <2>1, <2>2, <2>3, <2>4, <2>5, <2>6
<1>3. CASE AdminRestart
  BY <1>3, AdminRestartKeeps
<1>4. CASE \E a \in Bindable : FlipAccount(a)
  BY <1>4, FlipAccountKeeps
<1>5. CASE UNCHANGED saVars
  <2>1. UNCHANGED <<strat, groups, saReqs, saPage, saHist>>
    BY <1>5 DEF saVars
  <2>2. SaTypeOK' /\ (\A r \in saReqs' : RequestOK(r)) /\ JobsFollow'
    BY <2>1, JobsRest DEF AdminInv, SaTypeOK
  <2>3. \A p \in SaPages : PageFollows(p)'
    BY <2>1, OtherFollows DEF AdminInv
  <2> QED BY <2>2, <2>3 DEF AdminInv
<1> QED BY <1>1, <1>2, <1>3, <1>4, <1>5 DEF SaNext

\* The scheduler's jobs are those of the active bindings whenever no request
\* of the strategy routes is under way (none overlapped, and no account was
\* switched off, since the start), and the strategies pages tell the database's
\* row and bindings, whatever update_strategy, bind_account, unbind_account,
\* delete_strategy and a restart do in between.
THEOREM BindingsAreRight == SaSpec => []BindingsAreTrue
<1>1. SaSpec => []AdminInv
  BY InitAdmin, AdminStep, PTL DEF SaSpec
<1> QED BY <1>1, AdminTells, PTL
=============================================================================

---------------------------- MODULE StrategyAdmin ----------------------------
(***************************************************************************)
(* A strategy, the accounts bound to it and the jobs scheduled for them:   *)
(* the routes (src/backend/api/routes/strategies/_crud.py, _bindings.py),  *)
(* the scheduler's groups (services/scheduler/_lifecycle.py,               *)
(* _group_job.py) and the two pages that drive them (src/frontend/src/app/ *)
(* strategies/page.tsx, strategies/[id]/page.tsx).  A route commits first  *)
(* and reschedules after another await, from what it read before.          *)
(***************************************************************************)
EXTENDS Naturals, FiniteSets, SequencesExt

CONSTANTS
  Bindable,      \* accounts
  TradedSymbols,       \* symbols a strategy may have
  MaxSaRequests, MaxSaClicks, MaxSaMishaps  \* bounds: requests under way, requests in all;
                                            \* restarts and account changes

ASSUME AdminAssumption == IsFiniteSet(Bindable) /\ IsFiniteSet(TradedSymbols) /\ TradedSymbols # {}

VARIABLES
  strat,    \* the database: the strategy, its bindings, whether an account is active
  groups,   \* the scheduler: the accounts of the job of each symbol
  saReqs,   \* requests of the pages, by how far the server is with them
  saPage,   \* what each page shows: the row, the bindings, the dialog
  saHist    \* history: requests overlapped, or those of one page about one thing did;
            \* an account was (de)activated; mishaps
saVars == <<strat, groups, saReqs, saPage, saHist>>

SaPages == {"list", "detail"}
NoBindable == "none"
Unloaded == [row |-> "loading", bound |-> <<>>, deleting |-> FALSE, triggering |-> FALSE, foreign |-> FALSE]

\* start_scheduler: one job a symbol, with the accounts that are bound and
\* active, of a strategy that is.
Scheduled(s) ==
  [sym \in TradedSymbols |->
     {a \in Bindable : s.exists /\ s.active /\ sym \in s.symbols /\ s.bound[a] = "on" /\ s.open[a]}]

SaInit ==
  /\ strat = [exists |-> TRUE, active |-> TRUE, symbols |-> {CHOOSE x \in TradedSymbols : TRUE},
              bound |-> [a \in Bindable |-> "none"], open |-> [a \in Bindable |-> TRUE]]
  /\ groups = Scheduled(strat) /\ saReqs = {}
  /\ saPage = [p \in SaPages |-> Unloaded]
  /\ saHist = [raced |-> FALSE, mixed |-> {}, flipped |-> FALSE, clicks |-> 0, mishaps |-> 0]

-----------------------------------------------------------------------------
(* The pages *)

Finished(r) == r.stage \in {"done", "refused"}
BoundRows(s) ==
  SetToSeq({[account |-> a, on |-> s.bound[a] = "on"] : a \in {b \in Bindable : s.bound[b] # "none"}})
RowOf(s) == IF ~s.exists THEN "absent" ELSE IF s.active THEN "on" ELSE "off"

\* The strategy, its bindings (and the statistics, the runs, the accounts).
LoadPage(p) ==
  /\ saPage[p].row = "loading"
  /\ saPage' = [saPage EXCEPT ![p].row = RowOf(strat), ![p].bound = BoundRows(strat),
                              ![p].foreign = \E r \in saReqs : ~Finished(r)]
  /\ UNCHANGED <<strat, groups, saReqs, saHist>>

Send(p, op, a, v) ==
  LET r == [page |-> p, op |-> op, account |-> a, value |-> v, stage |-> "sent", read |-> {}]
  IN /\ Cardinality(saReqs) < MaxSaRequests /\ saHist.clicks < MaxSaClicks /\ r \notin saReqs
     /\ saReqs' = saReqs \cup {r}
     /\ saHist' = [saHist EXCEPT
          !.clicks = @ + 1,
          !.raced = @ \/ \E q \in saReqs : ~Finished(q),
          !.mixed = @ \cup {t \in {p} : \E q \in saReqs : q.page = p /\ q.account = a}]

BoundOn(p) == {saPage[p].bound[i].account : i \in DOMAIN saPage[p].bound}

\* The switch of the strategy, on the card and on the detail page.
ClickStrategy(p) ==
  /\ saPage[p].row \in {"on", "off"} /\ Send(p, "toggle", NoBindable, saPage[p].row = "off")
  /\ UNCHANGED <<strat, groups, saPage>>

\* The switch of a binding: the accounts view, and the detail page.
ClickBinding(p) ==
  /\ saPage[p].row \in {"on", "off"}
  /\ \E i \in DOMAIN saPage[p].bound : Send(p, "flip", saPage[p].bound[i].account, ~saPage[p].bound[i].on)
  /\ UNCHANGED <<strat, groups, saPage>>

ClickBind(a) ==
  /\ saPage["detail"].row \in {"on", "off"} /\ a \notin BoundOn("detail")
  /\ Send("detail", "bind", a, TRUE)
  /\ UNCHANGED <<strat, groups, saPage>>

ClickUnbind(a) ==
  /\ saPage["detail"].row \in {"on", "off"} /\ a \in BoundOn("detail")
  /\ Send("detail", "unbind", a, FALSE)
  /\ UNCHANGED <<strat, groups, saPage>>

\* The edit page saves other symbols.
SaveSymbols(syms) ==
  /\ Send("edit", "edit", NoBindable, syms) /\ UNCHANGED <<strat, groups, saPage>>

ClickTrigger ==
  /\ saPage["list"].row = "on" /\ ~saPage["list"].triggering
  /\ Send("list", "trigger", NoBindable, TRUE)
  /\ saPage' = [saPage EXCEPT !["list"].triggering = TRUE]
  /\ UNCHANGED <<strat, groups>>

DeleteDialog ==
  /\ saPage["list"].row \in {"on", "off"}
  /\ saPage' = [saPage EXCEPT !["list"].deleting = ~@]
  /\ UNCHANGED <<strat, groups, saReqs, saHist>>

ConfirmDelete ==
  /\ saPage["list"].deleting /\ Send("list", "delete", NoBindable, TRUE)
  /\ UNCHANGED <<strat, groups, saPage>>

\* What the list page shows of the strategy, by view.
CardShowsStrategy(view) ==
  CASE saPage["list"].row = "loading" -> "skeleton"
    [] saPage["list"].row = "absent" -> "No strategies yet"
    [] view = "strategies" -> "card with switch, badges, statistics, buttons"
    [] OTHER -> "accounts with the strategies bound to them"
DetailShows ==
  CASE saPage["detail"].row = "loading" -> "Loading..."
    [] saPage["detail"].row = "absent" -> "Strategy not found."
    [] saPage["detail"].bound = <<>> -> "No accounts bound yet."
    [] OTHER -> "Bound accounts"
OffersToBind == Bindable \ BoundOn("detail")

-----------------------------------------------------------------------------
(* The server: the database *)

Advance(r, stage, read) == saReqs' = (saReqs \ {r}) \cup {[r EXCEPT !.stage = stage, !.read = read]}
Refuse(r) == Advance(r, "refused", {}) /\ UNCHANGED <<strat, groups, saPage, saHist>>

\* Another page's view is out of date from now on.
TellsNobody(r) == saPage' = [p \in SaPages |-> [saPage[p] EXCEPT !.foreign = @ \/ p # r.page]]

\* update_strategy commits what it was given, and keeps the row it wrote.
UpdateCommits(r) ==
  /\ r.op \in {"toggle", "edit"} /\ r.stage = "sent" /\ strat.exists
  /\ strat' = IF r.op = "toggle" THEN [strat EXCEPT !.active = r.value] ELSE [strat EXCEPT !.symbols = r.value]
  /\ Advance(r, "committed", [active |-> strat'.active, symbols |-> strat'.symbols])
  /\ TellsNobody(r) /\ UNCHANGED <<groups, saHist>>

Without(g, a, syms) == [sym \in TradedSymbols |-> IF sym \in syms THEN g[sym] \ {a} ELSE g[sym]]
With(g, a, syms) == [sym \in TradedSymbols |-> IF sym \in syms THEN g[sym] \cup {a} ELSE g[sym]]

\* Bug variant: only the jobs of the new symbols are looked at.
ForgottenSymbols(r) == r.read.symbols

\* remove_all_binding_jobs goes by the id of the strategy, not by its symbols.
ForgottenOf(r) == TradedSymbols

\* Then every binding is taken out of all jobs, and put back if it is active.
UpdateReschedules(r) ==
  /\ r.op \in {"toggle", "edit"} /\ r.stage = "committed"
  /\ groups' = [sym \in TradedSymbols |->
       LET here == {a \in Bindable : strat.bound[a] # "none"}
           gone == IF sym \in ForgottenOf(r) THEN groups[sym] \ here ELSE groups[sym]
       IN IF r.read.active /\ sym \in r.read.symbols
            THEN gone \cup {a \in here : strat.bound[a] = "on" /\ strat.open[a]} ELSE gone]
  /\ Advance(r, "done", {}) /\ UNCHANGED <<strat, saPage, saHist>>

\* bind_account reads the strategy and the account, inserts, then schedules.
BindReads(r) ==
  /\ r.op = "bind" /\ r.stage = "sent" /\ strat.exists
  /\ Advance(r, "read", [active |-> strat.active, symbols |-> strat.symbols, open |-> strat.open[r.account]])
  /\ UNCHANGED <<strat, groups, saPage, saHist>>

BindCommits(r) ==
  /\ r.op = "bind" /\ r.stage = "read"
  /\ IF strat.exists /\ strat.bound[r.account] = "none"
       THEN /\ strat' = [strat EXCEPT !.bound[r.account] = "on"]
            /\ Advance(r, "committed", r.read) /\ TellsNobody(r) /\ UNCHANGED <<groups, saHist>>
       ELSE Refuse(r)

SchedulesNow(r) == r.read.active /\ r.read.open

BindSchedules(r) ==
  /\ r.op = "bind" /\ r.stage = "committed"
  /\ groups' = IF SchedulesNow(r) THEN With(groups, r.account, r.read.symbols) ELSE groups
  /\ Advance(r, "done", {}) /\ UNCHANGED <<strat, saPage, saHist>>

\* The frontend's body of the PATCH, and the fields the route's BindRequest
\* has no default for.
ToggleBody == {"is_active"}
RequiredFields == {"account_id"}

FlipCommits(r) ==
  /\ r.op = "flip" /\ r.stage = "sent"
  /\ IF RequiredFields \subseteq ToggleBody /\ strat.bound[r.account] # "none"
       THEN /\ strat' = [strat EXCEPT !.bound[r.account] = IF r.value THEN "on" ELSE "off"]
            /\ groups' = IF r.value
                 THEN (IF strat.active /\ strat.open[r.account]
                        THEN With(groups, r.account, strat.symbols) ELSE groups)
                 ELSE Without(groups, r.account, strat.symbols)
            /\ Advance(r, "done", {}) /\ TellsNobody(r) /\ UNCHANGED saHist
       ELSE Refuse(r)

UnbindRemoves(r) == Without(groups, r.account, strat.symbols)

\* unbind_account takes the account out of the jobs, then deletes the row (an
\* error if another request has deleted it).
UnbindStarts(r) ==
  /\ r.op = "unbind" /\ r.stage = "sent" /\ strat.bound[r.account] # "none"
  /\ groups' = UnbindRemoves(r)
  /\ Advance(r, "committed", {}) /\ UNCHANGED <<strat, saPage, saHist>>

UnbindCommits(r) ==
  /\ r.op = "unbind" /\ r.stage = "committed"
  /\ IF strat.bound[r.account] # "none"
       THEN /\ strat' = [strat EXCEPT !.bound[r.account] = "none"]
            /\ Advance(r, "done", {}) /\ TellsNobody(r) /\ UNCHANGED <<groups, saHist>>
       ELSE Refuse(r)

DeleteStarts(r) ==
  /\ r.op = "delete" /\ r.stage = "sent" /\ strat.exists
  /\ groups' = [sym \in TradedSymbols |-> groups[sym] \ {a \in Bindable : strat.bound[a] # "none"}]
  /\ Advance(r, "committed", {}) /\ UNCHANGED <<strat, saPage, saHist>>

DeleteCommits(r) ==
  /\ r.op = "delete" /\ r.stage = "committed"
  /\ strat' = [strat EXCEPT !.exists = FALSE, !.bound = [a \in Bindable |-> "none"]]
  /\ Advance(r, "done", {}) /\ TellsNobody(r) /\ UNCHANGED <<groups, saHist>>

Triggerable == strat.exists /\ strat.active /\ \E a \in Bindable : strat.bound[a] = "on" /\ strat.open[a]

\* trigger_strategy starts a job of its own for each symbol; it changes none.
TriggerStarts(r) ==
  /\ r.op = "trigger" /\ r.stage = "sent" /\ Triggerable
  /\ Advance(r, "done", {}) /\ UNCHANGED <<strat, groups, saPage, saHist>>

\* 404, or 400 for a trigger of nothing.
Refused(r) ==
  /\ r.stage = "sent"
  /\ \/ r.op \in {"toggle", "edit", "bind", "delete"} /\ ~strat.exists
     \/ r.op = "unbind" /\ strat.bound[r.account] = "none"
     \/ r.op = "trigger" /\ ~Triggerable
  /\ Refuse(r)

\* Deactivating an account (_crud.py of the accounts) tells the scheduler nothing.
FlipAccount(a) ==
  /\ saHist.mishaps < MaxSaMishaps
  /\ strat' = [strat EXCEPT !.open[a] = ~@]
  /\ saHist' = [saHist EXCEPT !.flipped = TRUE, !.mishaps = @ + 1]
  /\ UNCHANGED <<groups, saReqs, saPage>>

\* The backend stops and starts: what was under way is refused.
AdminRestart ==
  /\ saHist.mishaps < MaxSaMishaps
  /\ groups' = Scheduled(strat)
  /\ saReqs' = {[r EXCEPT !.stage = "refused", !.read = {}] : r \in saReqs}
  /\ saPage' = [p \in SaPages |-> [saPage[p] EXCEPT !.foreign = TRUE]]
  /\ saHist' = [saHist EXCEPT !.raced = FALSE, !.flipped = FALSE, !.mishaps = @ + 1]
  /\ UNCHANGED strat

-----------------------------------------------------------------------------
(* The answers *)

\* The rows of the other accounts, in their order.
Unlisted(rows, a) ==
  LET kept[n \in 0 .. Len(rows)] ==
        IF n = 0 THEN <<>> ELSE IF rows[n].account = a THEN kept[n - 1] ELSE Append(kept[n - 1], rows[n])
  IN kept[Len(rows)]

\* What a page makes of an answer that is not an error; a row that was taken
\* out of the list is not put back.
Answered(page, r) ==
  CASE r.op = "toggle" -> [page EXCEPT !.row = IF @ = "absent" THEN @ ELSE IF r.value THEN "on" ELSE "off"]
    [] r.op = "bind" -> [page EXCEPT !.bound = Append(@, [account |-> r.account, on |-> TRUE])]
    [] r.op = "unbind" -> [page EXCEPT !.bound = Unlisted(@, r.account)]
    [] r.op = "flip" -> [page EXCEPT !.bound = [i \in DOMAIN @ |->
          IF @[i].account = r.account THEN [@[i] EXCEPT !.on = r.value] ELSE @[i]]]
    [] r.op = "delete" -> [page EXCEPT !.row = "absent", !.deleting = FALSE]
    [] OTHER -> page

\* The button of the trigger is free again, whatever the answer was.
Settled(page, r) == [page EXCEPT !.triggering = @ /\ r.op # "trigger"]

AdminAnswer(r) ==
  /\ Finished(r) /\ saReqs' = saReqs \ {r}
  /\ saPage' = IF r.page \notin SaPages THEN saPage
               ELSE [saPage EXCEPT ![r.page] = Settled(IF r.stage = "done" THEN Answered(@, r) ELSE @, r)]
  /\ UNCHANGED <<strat, groups, saHist>>

-----------------------------------------------------------------------------
SaUser ==
  \/ \E p \in SaPages : LoadPage(p) \/ ClickStrategy(p) \/ ClickBinding(p)
  \/ \E a \in Bindable : ClickBind(a) \/ ClickUnbind(a)
  \/ (\E syms \in SUBSET TradedSymbols \ {{}} : SaveSymbols(syms))
  \/ ClickTrigger \/ DeleteDialog \/ ConfirmDelete
SaServer ==
  \E r \in saReqs :
    \/ UpdateCommits(r) \/ UpdateReschedules(r) \/ BindReads(r) \/ BindCommits(r) \/ BindSchedules(r)
    \/ FlipCommits(r) \/ UnbindStarts(r) \/ UnbindCommits(r) \/ DeleteStarts(r) \/ DeleteCommits(r)
    \/ TriggerStarts(r) \/ Refused(r) \/ AdminAnswer(r)
SaNext == SaUser \/ SaServer \/ AdminRestart \/ \E a \in Bindable : FlipAccount(a)
SaSpec == SaInit /\ [][SaNext]_saVars

-----------------------------------------------------------------------------
\* The scheduler's jobs are those of the bindings in the database once no
\* request is under way (no two overlapped since the backend started, and no
\* account was deactivated): the lists that _lifecycle.py keeps by hand.
JobsAreOfBindings ==
  saReqs = {} /\ ~saHist.raced /\ ~saHist.flipped => groups = Scheduled(strat)

\* A page on which nothing is under way, and beside which nobody else changed
\* the strategy, tells what the database has; no binding is on it twice,
\* however the requests of the two pages are interleaved (but for two requests
\* of one page about the same thing, which may be answered in the other order).
PageTellsBindings ==
  \A p \in SaPages :
    (/\ saPage[p].row # "loading" /\ ~saPage[p].foreign
     /\ p \notin saHist.mixed /\ \A r \in saReqs : r.page # p)
      => /\ saPage[p].row = RowOf(strat)
         /\ strat.exists => /\ Len(saPage[p].bound) = Len(BoundRows(strat))
                            /\ ToSet(saPage[p].bound) = ToSet(BoundRows(strat))

\* The scheduler and the pages agree with the database.
BindingsAreTrue == JobsAreOfBindings /\ PageTellsBindings

\* The plan of the routes: "PATCH /strategies/{id}/bind/{account_id} - toggle
\* is_active; start/stop jobs".  A click on the switch of a binding that is
\* there changes it.
ToggleTakesEffect ==
  [][\A r \in saReqs : FlipCommits(r) /\ strat.bound[r.account] # "none"
       => strat'.bound[r.account] = IF r.value THEN "on" ELSE "off"]_saVars
=============================================================================

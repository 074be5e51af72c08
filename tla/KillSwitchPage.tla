---------------------------- MODULE KillSwitchPage ----------------------------
(***************************************************************************)
(* The kill switch page (src/frontend/src/app/kill-switch/page.tsx) against *)
(* the kill switch of the backend.  The page reads the switch and its log  *)
(* with two requests that are answered at different moments, once when it  *)
(* is opened and once after every request of its own; nothing tells it of  *)
(* what others do to the switch.                                           *)
(***************************************************************************)
EXTENDS KillSwitch

CONSTANT PageUser  \* the operator whose requests come from the page

ASSUME PageUserAssumption == PageUser \in Operators

VARIABLES
  ksPage,   \* the page's state
  ksLoads,  \* the calls of load that wait for their two answers
  ksFresh   \* nobody else changed the switch and nothing failed since the
            \* newest load began, and no other load was under way then

ksVars == <<ksPage, ksLoads, ksFresh>>
ksAllVars == <<switchVars, ksVars>>

Asked == "asked"
Load(w) == [who |-> w, status |-> Asked, row |-> Asked]
SwitchState == IF active THEN "on" ELSE "off"

KsInit ==
  /\ ksPage = [stage |-> "away", shown |-> "unknown", row |-> "none",
               reason |-> FALSE, error |-> FALSE]
  /\ ksLoads = {}
  /\ ksFresh = FALSE

\* The status card, and the newest line of the event log.
KsShows == IF ksPage.shown = "on" THEN "ACTIVE" ELSE "INACTIVE"
KsLogShows == IF ksPage.row = "none" THEN "No events" ELSE ksPage.row

\* What the page offers: one button, not while a request is under way; a page
\* that knows nothing of the switch shows it as inactive.
OffersActivate == ksPage.stage = "ready" /\ ksPage.shown # "on" /\ ksPage.reason
OffersDeactivate == ksPage.stage = "ready" /\ ksPage.shown = "on"

KsOpen ==
  /\ ksPage.stage = "away"
  /\ ksPage' = [ksPage EXCEPT !.stage = "ready"]
  /\ ksLoads' = {Load("open")}
  /\ ksFresh' = TRUE
  /\ UNCHANGED switchVars

KsType ==
  /\ ksPage.stage # "away" /\ ksPage.shown # "on"
  /\ ksPage' = [ksPage EXCEPT !.reason = ~@]
  /\ UNCHANGED <<switchVars, ksLoads, ksFresh>>

\* handleActivate and handleDeactivate up to the request.
KsAct(x) ==
  /\ IF x = "activated" THEN OffersActivate ELSE OffersDeactivate
  /\ Request(PageUser, x)
  /\ ksPage' = [ksPage EXCEPT !.stage = "acting", !.error = FALSE]
  /\ UNCHANGED <<ksLoads, ksFresh>>

\* Bug variant: the answer is shown, and the log is not loaded again.
KsAnsweredOnly ==
  /\ ksPage.stage = "acting"
  /\ flip[PageUser] = "idle"
  /\ ksPage' = [ksPage EXCEPT !.stage = "ready", !.shown = SwitchState,
                              !.reason = IF want[PageUser] = "activated" THEN FALSE ELSE @]
  /\ ksFresh' = (ksLoads = {})
  /\ UNCHANGED <<switchVars, ksLoads>>

\* The request is answered with the state the switch has by then; load again.
KsAnswered ==
  /\ ksPage.stage = "acting"
  /\ flip[PageUser] = "idle"
  /\ ksPage' = [ksPage EXCEPT !.stage = "reloading", !.shown = SwitchState,
                              !.reason = IF want[PageUser] = "activated" THEN FALSE ELSE @]
  /\ ksLoads' = ksLoads \cup {Load("act")}
  /\ ksFresh' = (ksLoads = {})
  /\ UNCHANGED switchVars

\* The connection breaks before the answer comes: the backend goes on.
KsAnswerLost ==
  /\ ksPage.stage = "acting"
  /\ ksPage' = [ksPage EXCEPT !.stage = "ready", !.error = TRUE]
  /\ ksFresh' = FALSE
  /\ UNCHANGED <<switchVars, ksLoads>>

\* GET /kill-switch and GET /kill-switch/logs, each when its turn comes.
KsRead(l) ==
  /\ \/ l.status = Asked /\ ksLoads' = (ksLoads \ {l}) \cup {[l EXCEPT !.status = SwitchState]}
     \/ l.row = Asked /\ ksLoads' = (ksLoads \ {l}) \cup {[l EXCEPT !.row = lastLog]}
  /\ UNCHANGED <<switchVars, ksPage, ksFresh>>

LoadEnds(l) ==
  /\ ksLoads' = ksLoads \ {l}
  /\ UNCHANGED switchVars

StageAfter(l) == IF l.who = "act" THEN "ready" ELSE ksPage.stage

\* Both answers are there.
KsLoaded(l) ==
  /\ Asked \notin {l.status, l.row}
  /\ LoadEnds(l)
  /\ ksPage' = [ksPage EXCEPT !.shown = l.status, !.row = l.row, !.stage = StageAfter(l)]
  /\ UNCHANGED ksFresh

\* Bug variant: the error of the reload leaves the button disabled.
KsLoadFailsStuck(l) ==
  /\ LoadEnds(l)
  /\ ksPage' = [ksPage EXCEPT !.error = TRUE]
  /\ ksFresh' = FALSE

\* One of them failed: load tells so and swallows the error.
KsLoadFails(l) ==
  /\ LoadEnds(l)
  /\ ksPage' = [ksPage EXCEPT !.error = TRUE, !.stage = StageAfter(l)]
  /\ ksFresh' = FALSE

\* Somebody else's step that sets the flag or writes the row.
OthersChange ==
  \E u \in Operators \ {PageUser} : flip[u] \in {"wait", "persist"} /\ flip'[u] # flip[u]

\* The backend's own steps; a restart breaks every connection.
KsBackend ==
  \/ /\ \/ \E u \in Operators \ {PageUser}, x \in Wishes : Request(u, x)
        \/ \E u \in Operators : Flipping(u)
     /\ ksFresh' = (ksFresh /\ ~OthersChange)
     /\ UNCHANGED <<ksPage, ksLoads>>
  \/ /\ Restart
     /\ ksLoads' = {}
     /\ ksFresh' = FALSE
     /\ ksPage' = IF ksPage.stage = "away" THEN ksPage
                  ELSE [ksPage EXCEPT !.stage = "ready",
                                      !.error = @ \/ ksLoads # {} \/ ksPage.stage = "acting"]

KsNext ==
  \/ KsOpen \/ KsType \/ KsAnswered \/ KsAnswerLost \/ KsBackend
  \/ \E x \in Wishes : KsAct(x)
  \/ \E l \in ksLoads : KsRead(l) \/ KsLoaded(l) \/ KsLoadFails(l)

\* Every request is answered or breaks.
KsFairness ==
  /\ \A u \in Operators : SF_ksAllVars(Flip(u) /\ KsBackend)
                            /\ WF_ksAllVars((Persist(u) \/ Tell(u)) /\ KsBackend)
  /\ WF_ksAllVars(KsAnswered \/ \E l \in ksLoads : KsRead(l) \/ KsLoaded(l))

KsStart == SwitchInit /\ KsInit
KsSpec == KsStart /\ [][KsNext]_ksAllVars /\ KsFairness

-----------------------------------------------------------------------------
\* With nothing under way the page shows whether trading is halted and the
\* newest row of the audit trail, unless somebody else used the switch, or an
\* answer was lost, after the newest load began.
PageTellsSwitch ==
  ksPage.stage = "ready" /\ ksLoads = {} /\ ksFresh =>
    ksPage.shown = SwitchState /\ ksPage.row = lastLog

\* The button that was pressed works again, however the request ends.
ButtonComesBack == ksPage.stage \in {"acting", "reloading"} ~> ksPage.stage = "ready"
=============================================================================

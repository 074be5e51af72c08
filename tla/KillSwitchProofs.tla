--------------------------- MODULE KillSwitchProofs ---------------------------
(***************************************************************************)
(* Proofs about the kill switch and its page, for any number of operators, *)
(* with failed writes and restarts, lost answers and failed loads.         *)
(***************************************************************************)
EXTENDS KillSwitchPage, TLAPS

(***************************************************************************)
(* The inductive invariant.  Between the change of the flag and the row of *)
(* the log the two may differ; that the row then written is right follows  *)
(* from the lock being held all along (OneFlips), so that the flag is      *)
(* still what the holder asked for (FlagIsHolders).                        *)
(***************************************************************************)
OneFlips ==
  \A u \in Operators : flip[u] \in {"persist", "tell"} <=> flipper = u

FlagIsHolders ==
  \A u \in Operators :
    flip[u] \in {"persist", "tell"} => (active <=> want[u] = "activated")

ToldIsLogged ==
  \A u \in Operators :
    flip[u] = "tell" /\ since = "row" => (active <=> lastLog = "activated")

SwitchInv ==
  SwitchTypeOK /\ OneFlips /\ FlagIsHolders /\ ToldIsLogged /\ AuditTellsState

LEMMA InitSwitch == SwitchInit => SwitchInv
  BY OperatorsAssumption
  DEF SwitchInit, SwitchInv, SwitchTypeOK, OneFlips, FlagIsHolders,
      ToldIsLogged, AuditTellsState, Wishes

\* Every action keeps the inductive invariant.
LEMMA SwitchStep == SwitchInv /\ [SwitchNext]_switchVars => SwitchInv'
  <1> SUFFICES ASSUME SwitchInv, [SwitchNext]_switchVars PROVE SwitchInv'
    OBVIOUS
  <1> USE OperatorsAssumption
          DEF SwitchInv, SwitchTypeOK, OneFlips, FlagIsHolders, ToldIsLogged,
              AuditTellsState, Wishes
  <1>1. ASSUME NEW u \in Operators, NEW x \in Wishes, Request(u, x)
        PROVE SwitchInv'
    BY <1>1 DEF Request
  <1>2. ASSUME NEW u \in Operators, Flip(u) PROVE SwitchInv'
    BY <1>2 DEF Flip
  <1>3. ASSUME NEW u \in Operators, Persist(u) PROVE SwitchInv'
    BY <1>3 DEF Persist
  <1>4. ASSUME NEW u \in Operators, Tell(u) PROVE SwitchInv'
    BY <1>4 DEF Tell
  <1>5. CASE Restart BY <1>5 DEF Restart
  <1>6. CASE UNCHANGED switchVars BY <1>6 DEF switchVars
  <1> QED BY <1>1, <1>2, <1>3, <1>4, <1>5, <1>6 DEF SwitchNext, Flipping

\* In whatever order any number of operators change the switch, its newest
\* audit row tells whether it is on, until a write fails or the process
\* restarts.
THEOREM AuditTrailIsRight == SwitchSpec => []AuditTellsState
  <1>1. SwitchInv => AuditTellsState
    BY DEF SwitchInv
  <1> QED BY <1>1, InitSwitch, SwitchStep, PTL DEF SwitchSpec
-----------------------------------------------------------------------------
(***************************************************************************)
(* The page.  Every step of it is a step of the switch or leaves it alone, *)
(* so what is proved of the switch holds of the two together.              *)
(***************************************************************************)
LEMMA PageStepsSwitch == KsNext => [SwitchNext]_switchVars
  BY PageUserAssumption
  DEF KsNext, KsOpen, KsType, KsAct, KsAnswered, KsAnswerLost, KsRead, KsLoaded,
      KsLoadFails, LoadEnds, KsBackend, SwitchNext

\* The audit trail is right beside the page, whatever requests it sends.
LEMMA SwitchOfPage == KsSpec => []SwitchInv
  <1>1. KsStart => SwitchInv
    BY InitSwitch DEF KsStart
  <1>2. SwitchInv /\ [KsNext]_ksAllVars => SwitchInv'
    BY PageStepsSwitch, SwitchStep DEF ksAllVars
  <1> QED BY <1>1, <1>2, PTL DEF KsSpec

(***************************************************************************)
(* The inductive invariant of the page.  That a page with nothing under    *)
(* way shows the truth needs to know what the answers that are still under *)
(* way will show (FreshLoadsAreTrue), that no request of the page itself   *)
(* is at work outside the acting stage (OwnRequestIsOver; a request whose  *)
(* answer was lost goes on, but then the page is not fresh), and that the  *)
(* reload of an act is the only one and ends the reloading stage           *)
(* (ReloadIsOne): the acting stage is not left by an answer to load.       *)
(***************************************************************************)
Stages == {"away", "ready", "acting", "reloading"}
Statuses == {"on", "off"}
Rows == Wishes \cup {"none"}

LoadsOf ==
  [who: {"open", "act"}, status: Statuses \cup {Asked}, row: Rows \cup {Asked}]

KsTypeOK ==
  /\ ksPage \in [stage: Stages, shown: Statuses \cup {"unknown"}, row: Rows,
                 reason: BOOLEAN, error: BOOLEAN]
  /\ ksLoads \subseteq LoadsOf
  /\ ksFresh \in BOOLEAN

OwnRequestIsOver ==
  /\ ksPage.stage = "away" => flip[PageUser] = "idle"
  /\ ksFresh /\ ksPage.stage \in {"ready", "reloading"} => flip[PageUser] = "idle"

ReloadIsOne ==
  \A l, m \in ksLoads :
    l.who = "act" => ksPage.stage = "reloading" /\ (m.who = "act" => l = m)

FreshLoadsAreTrue ==
  ksFresh /\ ksPage.stage \in {"ready", "reloading"} =>
    \A l \in ksLoads : l.status \in {Asked, SwitchState} /\ l.row \in {Asked, lastLog}

PageInv ==
  KsTypeOK /\ OwnRequestIsOver /\ ReloadIsOne /\ FreshLoadsAreTrue /\ PageTellsSwitch

LEMMA InitPage == KsStart => PageInv
  <1> SUFFICES ASSUME KsStart PROVE PageInv
    OBVIOUS
  <1>1. KsTypeOK
    BY DEF KsStart, KsInit, KsTypeOK, Stages, Statuses, Rows
  <1>2. ksPage.stage = "away" /\ ksLoads = {} /\ flip[PageUser] = "idle"
    BY PageUserAssumption DEF KsStart, KsInit, SwitchInit
  <1> QED
    BY <1>1, <1>2
    DEF PageInv, OwnRequestIsOver, ReloadIsOne, FreshLoadsAreTrue, PageTellsSwitch

\* What the actions do to the page and its loads leaves them well-formed.
LEMMA PageUpdates ==
  ASSUME KsTypeOK, SwitchTypeOK
  PROVE  /\ \A w \in {"open", "act"} : Load(w) \in LoadsOf
         /\ \A l \in ksLoads : [l EXCEPT !.status = SwitchState] \in LoadsOf
         /\ \A l \in ksLoads : [l EXCEPT !.row = lastLog] \in LoadsOf
  BY DEF KsTypeOK, SwitchTypeOK, LoadsOf, Load, SwitchState, Statuses, Rows

\* A fresh page outside the acting stage sees no change of the switch.
LEMMA FreshSeesNoChange ==
  ASSUME SwitchTypeOK, OwnRequestIsOver, KsBackend, ksFresh',
         ksPage.stage \in {"ready", "reloading"}
  PROVE  active' = active /\ lastLog' = lastLog /\ flip'[PageUser] = "idle"
  <1>1. ksFresh /\ flip[PageUser] = "idle" /\ ~OthersChange
    BY DEF KsBackend, OwnRequestIsOver
  <1>2. ASSUME NEW u \in Operators \ {PageUser}, NEW x \in Wishes, Request(u, x)
        PROVE  active' = active /\ lastLog' = lastLog /\ flip'[PageUser] = "idle"
    BY <1>1, <1>2, PageUserAssumption DEF Request, SwitchTypeOK
  <1>3. ASSUME NEW u \in Operators, Flipping(u)
        PROVE  active' = active /\ lastLog' = lastLog /\ flip'[PageUser] = "idle"
    <2>1. u # PageUser
      BY <1>1, <1>3 DEF Flipping, Flip, Persist, Tell
    <2>2. ~Flip(u) /\ ~Persist(u)
      BY <1>1, <2>1 DEF OthersChange, Flip, Persist, SwitchTypeOK
    <2> QED BY <1>1, <1>3, <2>1, <2>2, PageUserAssumption DEF Flipping, Tell, SwitchTypeOK
  <1> QED BY <1>2, <1>3 DEF KsBackend

\* Every step of the page or the backend keeps the page's invariant.
LEMMA PageStep ==
  ASSUME SwitchTypeOK, PageInv, [KsNext]_ksAllVars
  PROVE  PageInv'
  <1> USE PageUserAssumption
      DEF PageInv, OwnRequestIsOver, ReloadIsOne, FreshLoadsAreTrue,
          PageTellsSwitch, SwitchState
  <1>1. CASE KsOpen
    <2>1. ksPage' = [ksPage EXCEPT !.stage = "ready"]
      BY <1>1 DEF KsOpen
    <2>2. KsTypeOK'
      BY <1>1, <2>1, PageUpdates DEF KsOpen, KsTypeOK, Stages
    <2>3. /\ ksLoads' = {Load("open")}
          /\ Load("open").who = "open"
          /\ Load("open").status = Asked /\ Load("open").row = Asked
      BY <1>1 DEF KsOpen, Load
    <2> QED BY <1>1, <2>2, <2>3 DEF KsOpen, switchVars
  <1>2. CASE KsType
    BY <1>2 DEF KsType, switchVars, KsTypeOK
  <1>3. CASE KsAnswered
    <2>1. ksPage'.stage = "reloading"
      BY <1>3 DEF KsAnswered, KsTypeOK
    <2>2. KsTypeOK'
      BY <1>3, PageUpdates DEF KsAnswered, KsTypeOK, Stages, Statuses
    <2>3. /\ ksLoads' = ksLoads \cup {Load("act")}
          /\ Load("act").who = "act"
          /\ Load("act").status = Asked /\ Load("act").row = Asked
      BY <1>3 DEF KsAnswered, Load
    <2>4. \A l \in ksLoads : l.who # "act"
      BY <1>3 DEF KsAnswered
    <2> QED BY <1>3, <2>1, <2>2, <2>3, <2>4 DEF KsAnswered, switchVars
  <1>4. CASE KsAnswerLost
    BY <1>4 DEF KsAnswerLost, switchVars, KsTypeOK, Stages
  <1>5. ASSUME NEW x \in Wishes, KsAct(x) PROVE PageInv'
    BY <1>5 DEF KsAct, OffersActivate, OffersDeactivate, KsTypeOK, Stages
  <1>6. ASSUME NEW l \in ksLoads, KsRead(l) PROVE PageInv'
    <2>1. UNCHANGED <<switchVars, ksPage, ksFresh>>
      BY <1>6 DEF KsRead
    <2> DEFINE st == [l EXCEPT !.status = SwitchState]
               rw == [l EXCEPT !.row = lastLog]
    <2>a. l \in LoadsOf
      BY DEF KsTypeOK
    <2>b. st \in LoadsOf /\ st.who = l.who /\ st.status = SwitchState /\ st.row = l.row
      BY <2>a, PageUpdates DEF LoadsOf
    <2>c. rw \in LoadsOf /\ rw.who = l.who /\ rw.status = l.status /\ rw.row = lastLog
      BY <2>a, PageUpdates DEF LoadsOf
    <2>d. \E m \in {st, rw} : ksLoads' = (ksLoads \ {l}) \cup {m}
      BY <1>6 DEF KsRead
    <2> HIDE DEF st, rw
    <2>2. PICK m \in LoadsOf :
            /\ ksLoads' = (ksLoads \ {l}) \cup {m}
            /\ m.who = l.who
            /\ m.status \in {l.status, SwitchState}
            /\ m.row \in {l.row, lastLog}
      BY <2>b, <2>c, <2>d
    <2> QED BY <2>1, <2>2 DEF switchVars, KsTypeOK
  <1>7. ASSUME NEW l \in ksLoads, KsLoaded(l) PROVE PageInv'
    <2>1. /\ ksLoads' = ksLoads \ {l}
          /\ l.status # Asked /\ l.row # Asked
          /\ UNCHANGED <<switchVars, ksFresh>>
      BY <1>7 DEF KsLoaded, LoadEnds
    <2>2. /\ ksPage'.shown = l.status /\ ksPage'.row = l.row
          /\ ksPage'.stage = IF l.who = "act" THEN "ready" ELSE ksPage.stage
      BY <1>7 DEF KsLoaded, StageAfter, KsTypeOK
    <2>3. KsTypeOK'
      BY <1>7, <2>1 DEF KsLoaded, StageAfter, KsTypeOK, LoadsOf, Stages
    <2> QED BY <2>1, <2>2, <2>3 DEF switchVars
  <1>8. ASSUME NEW l \in ksLoads, KsLoadFails(l) PROVE PageInv'
    <2>1. ksLoads' = ksLoads \ {l} /\ ~ksFresh' /\ UNCHANGED switchVars
      BY <1>8 DEF KsLoadFails, LoadEnds
    <2>2. ksPage'.stage = IF l.who = "act" THEN "ready" ELSE ksPage.stage
      BY <1>8 DEF KsLoadFails, StageAfter, KsTypeOK
    <2>3. KsTypeOK'
      BY <1>8, <2>1 DEF KsLoadFails, StageAfter, KsTypeOK, Stages
    <2> QED BY <2>1, <2>2, <2>3 DEF switchVars
  <1>9. CASE KsBackend
    <2>1. KsTypeOK'
      BY <1>9 DEF KsBackend, KsTypeOK, Stages
    <2>2. CASE Restart /\ ksLoads' = {} /\ ~ksFresh'
      BY <2>1, <2>2 DEF Restart
    <2>3. CASE UNCHANGED <<ksPage, ksLoads>>
      <3>1. ksPage.stage = "away" => flip'[PageUser] = "idle"
        BY <1>9 DEF KsBackend, Request, Restart, Flipping, Flip, Persist, Tell, SwitchTypeOK
      <3>2. ksFresh' => ksFresh
        BY <1>9 DEF KsBackend
      <3> QED BY <1>9, <2>1, <2>3, <3>1, <3>2, FreshSeesNoChange
    <2> QED BY <1>9, <2>2, <2>3 DEF KsBackend
  <1>10. CASE UNCHANGED ksAllVars
    BY <1>10 DEF ksAllVars, ksVars, switchVars, KsTypeOK
  <1> QED
    BY <1>1, <1>2, <1>3, <1>4, <1>5, <1>6, <1>7, <1>8, <1>9, <1>10 DEF KsNext

\* The page that is not waiting for anything shows whether trading is halted,
\* and the newest audit row, with any number of other operators, failed loads,
\* lost answers and restarts, unless one of them came after its newest load.
THEOREM PageIsRight == KsSpec => []PageTellsSwitch
  <1>1. SwitchInv => SwitchTypeOK
    BY DEF SwitchInv
  <1>2. SwitchInv /\ PageInv /\ [KsNext]_ksAllVars => PageInv'
    BY <1>1, PageStep
  <1>3. PageInv => PageTellsSwitch
    BY DEF PageInv
  <1> QED BY <1>2, <1>3, InitPage, SwitchOfPage, PTL DEF KsSpec
=============================================================================

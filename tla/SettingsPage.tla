---------------------------- MODULE SettingsPage ----------------------------
(***************************************************************************)
(* The settings page (src/frontend/src/app/settings/page.tsx), its         *)
(* sections for maintenance, news, agents, risk rules and Telegram, the    *)
(* rows these are stored in, and the copy of the settings the running      *)
(* backend works with (api/routes/settings, main.py).                      *)
(***************************************************************************)
EXTENDS Naturals, FiniteSets

CONSTANTS
  Minutes,          \* intervals that are typed; 0 is refused
  Levels, TooHigh,  \* values of a risk rule, and those the route refuses
  MaxSetEdits, MaxSetMishaps  \* bounds

ASSUME SettingsAssumption ==
  /\ Minutes \subseteq Nat /\ Minutes \ {0} # {}
  /\ TooHigh \subseteq Levels /\ Levels # TooHigh

VARIABLES
  setRows,   \* the rows: global settings, risk rules, Telegram
  memory,    \* core.config.settings (and the scheduler's jobs): globals, Telegram token
  setPage,   \* what the sections show, which are saving, their timers
  patches,   \* requests, and how far each one is
  unsure,    \* topics that lost, failed and overtaken requests leave to chance
  setBounds
setVars == <<setRows, memory, setPage, patches, unsure, setBounds>>

Off == 0
On == 1
Switches == {"task", "news", "pipeline", "agent"}
Globals == Switches \cup {"minutes"}
Rules == {"drawdown", "hedging"}
Telegram == {"token", "alerts"}
Columns == Globals \cup Rules \cup Telegram
NoTimer == <<"none", 0>>

\* Requests about one topic may overtake each other.
Topic(column) ==
  IF column \in Rules THEN "rules" ELSE IF column \in Telegram THEN "telegram" ELSE column
About(topic) == {p \in patches : Topic(p.column) = topic}
TopicRow(column, rows) == [c \in {d \in Columns : Topic(d) = Topic(column)} |-> rows[c]]

FirstRows ==
  [c \in Columns |-> IF c = "minutes" THEN CHOOSE m \in Minutes : m > 0
                     ELSE IF c \in Rules THEN CHOOSE v \in Levels \ TooHigh : TRUE ELSE Off]

\* A page that has loaded its sections.
Opened(rows) == [shown |-> rows, saving |-> {}, minutesTimer |-> NoTimer, ruleTimer |-> NoTimer]

\* What a restarted backend reads from the rows (main.py).
Booted(rows) ==
  [c \in Globals \cup {"token"} |->
     IF c = "token" /\ rows["alerts"] = Off THEN Off ELSE rows[c]]

SetInit ==
  /\ setRows = FirstRows /\ memory = Booted(FirstRows) /\ setPage = Opened(FirstRows)
  /\ patches = {} /\ unsure = [page |-> {}, memory |-> {}]
  /\ setBounds = [edits |-> 0, mishaps |-> 0]

Edits == setBounds.edits < MaxSetEdits /\ setBounds' = [setBounds EXCEPT !.edits = @ + 1]
SetMishap(ok) ==
  /\ ok \/ setBounds.mishaps < MaxSetMishaps
  /\ setBounds' = [setBounds EXCEPT !.mishaps = IF ok THEN @ ELSE @ + 1]

Sends(column, value) ==
  LET others == About(Topic(column))
      p == [column |-> column, value |-> value, at |-> "sent", read |-> TopicRow(column, setRows),
            alone |-> others = {}, id |-> setBounds.edits]
  IN /\ patches' = (patches \ others) \cup {[q EXCEPT !.alone = FALSE] : q \in others} \cup {p}
     /\ unsure' = IF others = {} THEN unsure
                  ELSE [t \in DOMAIN unsure |-> unsure[t] \cup {Topic(column)}]

-----------------------------------------------------------------------------
(* The sections *)

\* A section disables its switches while it saves one of them; in the Telegram
\* section saving credentials and turning the alerts exclude only themselves.
Section(column) == IF column \in {"pipeline", "agent"} THEN "agents" ELSE column

\* handleToggle: the switch is turned before the answer is there.
TurnSetting(f) ==
  /\ Section(f) \notin setPage.saving /\ Edits
  /\ f = "agent" => setPage.shown["pipeline"] = On
  /\ setPage' = [setPage EXCEPT !.shown[f] = 1 - @, !.saving = @ \cup {Section(f)}]
  /\ Sends(f, 1 - setPage.shown[f])
  /\ UNCHANGED <<setRows, memory>>

\* Typing an interval restarts its timer; 800 ms later the value is sent.
TypeMinutes(m) ==
  /\ m # setPage.shown["minutes"] /\ Edits
  /\ setPage' = [setPage EXCEPT !.shown["minutes"] = m, !.minutesTimer = <<"minutes", m>>]
  /\ UNCHANGED <<setRows, memory, patches, unsure>>

MinutesFire ==
  /\ setPage.minutesTimer # NoTimer
  /\ setPage' = [setPage EXCEPT !.minutesTimer = NoTimer]
  /\ Sends("minutes", setPage.minutesTimer[2])
  /\ UNCHANGED <<setRows, memory, setBounds>>

\* handleChange: the risk rules share one timer, which holds the last change.
ChangeRule(r, v) ==
  /\ v # setPage.shown[r] /\ Edits
  /\ setPage' = [setPage EXCEPT !.shown[r] = v, !.ruleTimer = <<r, v>>]
  /\ UNCHANGED <<setRows, memory, patches, unsure>>

RuleFires ==
  /\ setPage.ruleTimer # NoTimer
  /\ setPage' = [setPage EXCEPT !.ruleTimer = NoTimer]
  /\ Sends(setPage.ruleTimer[1], setPage.ruleTimer[2])
  /\ UNCHANGED <<setRows, memory, setBounds>>

\* Telegram shows nothing before the answer; the alerts can be turned once
\* there are credentials.
SaveToken ==
  /\ "token" \notin setPage.saving /\ Edits
  /\ setPage' = [setPage EXCEPT !.saving = @ \cup {"token"}]
  /\ Sends("token", On)
  /\ UNCHANGED <<setRows, memory>>

IsConfigured == setPage.shown["token"] = On

TurnAlerts ==
  /\ IsConfigured /\ "alerts" \notin setPage.saving /\ Edits
  /\ setPage' = [setPage EXCEPT !.saving = @ \cup {"alerts"}]
  /\ Sends("alerts", 1 - setPage.shown["alerts"])
  /\ UNCHANGED <<setRows, memory>>

\* The page is opened anew with nothing under way (the sections load on their
\* own; each one can be used when its settings are there).
OpenSettings ==
  /\ patches = {} /\ setPage.minutesTimer = NoTimer /\ setPage.ruleTimer = NoTimer
  /\ setPage' = Opened(setRows) /\ unsure' = [unsure EXCEPT !.page = {}]
  /\ UNCHANGED <<setRows, memory, patches, setBounds>>

-----------------------------------------------------------------------------
(* The routes *)

Refuses(p) ==
  (p.column = "minutes" /\ p.value < 1) \/ (p.column \in Rules /\ p.value \in TooHigh)

\* patch_global_settings and patch_telegram_settings change the memory before
\* they commit.
MemoryAfter(p) ==
  CASE p.column \in Globals -> [memory EXCEPT ![p.column] = p.value]
    [] p.column = "alerts" ->
         [memory EXCEPT !["token"] = IF p.value = Off THEN Off
                                     ELSE IF setRows["token"] = On THEN On ELSE @]
    [] OTHER -> memory

Handle(p) ==
  /\ p \in patches /\ p.at = "sent"
  /\ patches' = (patches \ {p}) \cup
       {[p EXCEPT !.at = IF Refuses(p) THEN "failed" ELSE "handled",
                  !.read = TopicRow(p.column, setRows)]}
  /\ memory' = IF Refuses(p) THEN memory ELSE MemoryAfter(p)
  /\ UNCHANGED <<setRows, setPage, unsure, setBounds>>

\* A commit writes the columns that differ from what was loaded; saving
\* credentials turns the alerts on.
RowsAfter(p) ==
  LET set == IF p.column = "token" THEN Telegram ELSE {p.column} IN
  [c \in Columns |-> IF c \notin set THEN setRows[c]
                     ELSE IF p.value = p.read[c] THEN setRows[c] ELSE p.value]

\* save_telegram_settings changes the memory after its commit.  The row is read
\* again for the answer.
Commit(p, ok) ==
  /\ p \in patches /\ p.at = "handled" /\ SetMishap(ok)
  /\ setRows' = IF ok THEN RowsAfter(p) ELSE setRows
  /\ memory' = IF ok /\ p.column = "token" THEN [memory EXCEPT !["token"] = On] ELSE memory
  /\ patches' = (patches \ {p}) \cup
       {[p EXCEPT !.at = IF ok THEN "saved" ELSE "failed",
                  !.read = TopicRow(p.column, setRows')]}
  /\ unsure' = [unsure EXCEPT !.memory = IF ~ok THEN @ \cup {Topic(p.column)}
                                         ELSE IF p.alone THEN @ \ {Topic(p.column)} ELSE @]
  /\ UNCHANGED setPage

\* A restart ends what the backend was doing.
RestartReads ==
  /\ SetMishap(FALSE)
  /\ memory' = Booted(setRows)
  /\ patches' =
       {IF p.at \in {"sent", "handled"} THEN [p EXCEPT !.at = "failed"] ELSE p : p \in patches}
  /\ unsure' = [unsure EXCEPT !.memory = {}]
  /\ UNCHANGED <<setRows, setPage>>

-----------------------------------------------------------------------------
(* The answers *)

\* The maintenance section does not turn its switch back.
RollsBack(column) == column \in {"news", "pipeline", "agent"}

\* The risk rules and Telegram show what the answer says.
AnswerShown(p, ok) ==
  LET answered == CASE p.column \in Rules -> Rules
                    [] p.column \in Telegram -> Telegram
                    [] OTHER -> {}
  IN
  [setPage EXCEPT
     !.saving = @ \ {Section(p.column)},
     !.shown = [c \in Columns |-> IF ok /\ c \in answered THEN p.read[c]
                                  ELSE IF ~ok /\ c = p.column /\ RollsBack(c) THEN 1 - p.value
                                  ELSE @[c]]]

\* A failed request leaves the page in doubt where it is not rolled back, and
\* a lost answer where the request was carried out.
LeftUnsure(p) == p.at = "saved" \/ ~(RollsBack(p.column) \/ p.column \in Telegram)

PatchAnswered(p, heard) ==
  LET ok == heard /\ p.at = "saved" IN
  /\ p \in patches /\ p.at \in {"saved", "failed"} /\ SetMishap(heard \/ p.at = "failed")
  /\ patches' = patches \ {p}
  /\ setPage' = AnswerShown(p, ok)
  /\ unsure' = [unsure EXCEPT !.page = IF ~ok /\ LeftUnsure(p) THEN @ \cup {Topic(p.column)}
                                       ELSE IF ok /\ p.alone THEN @ \ {Topic(p.column)} ELSE @]
  /\ UNCHANGED <<setRows, memory>>

SetNext ==
  \/ \E f \in Switches : TurnSetting(f)
  \/ \E m \in Minutes : TypeMinutes(m)
  \/ MinutesFire \/ RuleFires \/ SaveToken \/ TurnAlerts \/ OpenSettings \/ RestartReads
  \/ \E r \in Rules, v \in Levels : ChangeRule(r, v)
  \/ \E p \in patches : Handle(p) \/ \E ok \in BOOLEAN : Commit(p, ok) \/ PatchAnswered(p, ok)
SetSpec == SetInit /\ [][SetNext]_setVars

-----------------------------------------------------------------------------

\* Where no request is under way and no timer runs, a section shows what is
\* stored, also after answers that refuse or tell of an error; excepted are
\* lost answers, requests that overtook each other, and failures in the
\* sections that ignore them.
SectionsTellStored ==
  \A c \in Columns :
    /\ About(Topic(c)) = {} /\ Topic(c) \notin unsure.page
    /\ c = "minutes" => setPage.minutesTimer = NoTimer
    /\ c \in Rules => setPage.ruleTimer = NoTimer
    => setPage.shown[c] = setRows[c]

\* The backend works with what is stored ("persisted to DB and applied
\* in-memory immediately", _global.py:74), also after a restart, where no
\* handler is at work, no commit failed and no two handlers of a topic met.
BackendUsesStored ==
  \A c \in Globals \cup {"token"} :
    About(Topic(c)) = {} /\ Topic(c) \notin unsure.memory => memory[c] = Booted(setRows)[c]
=============================================================================

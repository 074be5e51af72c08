---------------------------- MODULE AccountsPage ----------------------------
(***************************************************************************)
(* The accounts page (src/frontend/src/components/accounts: accounts-view, *)
(* account-card, add-account-dialog, edit-account-dialog, mt5-info-sheet), *)
(* the accounts of the store (hooks/use-trading-store.ts) and the rows     *)
(* (api/routes/accounts/_crud.py).                                         *)
(***************************************************************************)
EXTENDS Naturals

CONSTANTS
  Accts, FirstAcct, NoAcct,  \* ids in the order they are created; the one there at first
  Fields,                    \* what an account may have: risk per trade, in hundredths
                             \* of a percent, and path of its terminal ("" is none)
  MaxAcMishaps               \* bound: failed and lost requests

ASSUME AccountsAssumption ==
  FirstAcct \in Accts /\ Accts \subseteq Nat /\ NoAcct \notin Accts

VARIABLES
  acRows,  \* the rows: active, and the fields of an account
  store,   \* the store: accounts, active account
  acPage,  \* the page: loading, the dialog that is open, its form
  acReqs,  \* requests under way
  acTrue   \* no request overlapped another one, none was lost
acVars == <<acRows, store, acPage, acReqs, acTrue>>

NoneYet == [i \in {} |-> 0]
Stored == [i \in {j \in Accts : acRows[j].active} |-> acRows[i].fields]
WithoutAcct(f, id) == [i \in DOMAIN f \ {id} |-> f[i]]
WithAcct(f, id, x) == [i \in DOMAIN f \cup {id} |-> IF i = id THEN x ELSE f[i]]

\* The input shows tenths of a percent (toFixed(1)).
Tenths(risk) == ((risk + 5) \div 10) * 10
FormOf(fields) == [fields EXCEPT !.risk = Tenths(@)]

ShutForm == [dialog |-> "none", id |-> NoAcct, form |-> [risk |-> 0, path |-> ""], touched |-> FALSE]

AcInit ==
  /\ acRows = [i \in Accts |->
                [active |-> i = FirstAcct, used |-> i = FirstAcct, fields |-> CHOOSE f \in Fields : TRUE]]
  /\ store = [list |-> NoneYet, active |-> NoAcct]
  /\ acPage = [loading |-> TRUE, mishaps |-> 0, at |-> ShutForm]
  /\ acReqs = {[kind |-> "list"]} /\ acTrue = TRUE

AcMishap(ok) == ok \/ acPage.mishaps < MaxAcMishaps
AcCount(ok) == IF ok THEN acPage.mishaps ELSE acPage.mishaps + 1
\* Bound: no new request is followed after an overlap or a loss.
Asks(r) == acTrue /\ acReqs' = acReqs \cup {r} /\ acTrue' = (acReqs = {})

\* The buttons of a dialog are disabled while its request is under way.
Submitting(id) == \E r \in acReqs : r.kind \in {"add", "edit"} /\ r.id = id

\* The effect of the edit dialog: another account object resets the form.
Reform(at, list) ==
  IF /\ at.dialog = "edit" /\ at.id \in DOMAIN list
     /\ at.id \notin DOMAIN store.list \/ list[at.id] # store.list[at.id]
    THEN [at EXCEPT !.form = FormOf(list[at.id]), !.touched = FALSE] ELSE at

\* A card whose account is gone is unmounted with its dialog.
Showing(list) ==
  LET at == Reform(acPage.at, list)
  IN IF at.dialog \in {"edit", "info"} /\ at.id \notin DOMAIN list THEN ShutForm ELSE at

-----------------------------------------------------------------------------
(* The list *)

AccountsArrive(ok) ==
  /\ [kind |-> "list"] \in acReqs /\ AcMishap(ok)
  /\ acReqs' = acReqs \ {[kind |-> "list"]}
  /\ store' = [store EXCEPT !.list = IF ok THEN Stored ELSE @]
  /\ acPage' = [acPage EXCEPT !.loading = FALSE, !.mishaps = AcCount(ok), !.at = Showing(store'.list)]
  /\ acTrue' = (acTrue /\ ok)
  /\ UNCHANGED acRows

\* Leaving the page, with nothing under way, and coming back: the list is asked
\* for again, the store keeps its accounts meanwhile.
ComeBack ==
  /\ acPage.at = ShutForm /\ acReqs = {}
  /\ Asks([kind |-> "list"])
  /\ acPage' = [acPage EXCEPT !.loading = TRUE]
  /\ UNCHANGED <<acRows, store>>

ViewSays ==
  IF acPage.loading THEN "Loading"
  ELSE IF store.list = NoneYet THEN "No accounts yet" ELSE "cards"

PickActive(id) ==
  /\ id \in DOMAIN store.list \cup {NoAcct} /\ id # store.active
  /\ store' = [store EXCEPT !.active = id]
  /\ UNCHANGED <<acRows, acPage, acReqs, acTrue>>

-----------------------------------------------------------------------------
(* Adding *)

OpenAdd ==
  /\ acPage.at = ShutForm
  /\ \E f \in Fields :
       acPage' = [acPage EXCEPT !.at = [dialog |-> "add", id |-> NoAcct, form |-> FormOf(f), touched |-> TRUE]]
  /\ UNCHANGED <<acRows, store, acReqs, acTrue>>

\* The request, and the list of the render in which it was submitted: the
\* answer will be appended to that list.
SubmitAdd ==
  /\ acPage.at.dialog = "add" /\ ~Submitting(NoAcct)
  /\ Asks([kind |-> "add", id |-> NoAcct, fields |-> acPage.at.form, list |-> store.list])
  /\ UNCHANGED <<acRows, store, acPage>>

NextAcct == CHOOSE i \in Accts : ~acRows[i].used /\ \A j \in Accts : ~acRows[j].used => i <= j

AddArrives(r, stored, ok) ==
  /\ r \in acReqs /\ r.kind = "add" /\ (ok => stored) /\ AcMishap(ok)
  /\ \E i \in Accts : ~acRows[i].used
  /\ acRows' = IF stored
               THEN [acRows EXCEPT ![NextAcct] = [active |-> TRUE, used |-> TRUE, fields |-> r.fields]]
               ELSE acRows
  /\ store' = IF ok THEN [store EXCEPT !.list = WithAcct(r.list, NextAcct, r.fields)] ELSE store
  /\ acReqs' = acReqs \ {r} /\ acTrue' = (acTrue /\ ok)
  /\ acPage' = [acPage EXCEPT !.mishaps = AcCount(ok),
                              !.at = IF ok /\ @.dialog = "add" THEN ShutForm ELSE Showing(store'.list)]

-----------------------------------------------------------------------------
(* Editing *)

OpenEdit(id) ==
  /\ acPage.at = ShutForm /\ id \in DOMAIN store.list
  /\ acPage' = [acPage EXCEPT
       !.at = [dialog |-> "edit", id |-> id, form |-> FormOf(store.list[id]), touched |-> FALSE]]
  /\ UNCHANGED <<acRows, store, acReqs, acTrue>>

\* The input takes steps of a tenth of a percent.
TypeField(form) ==
  /\ acPage.at.dialog = "edit" /\ form # acPage.at.form
  /\ acPage' = [acPage EXCEPT !.at.form = form, !.at.touched = TRUE]
  /\ UNCHANGED <<acRows, store, acReqs, acTrue>>

\* Escape closes a dialog also while it is submitting.
ShutDialog ==
  /\ acPage.at # ShutForm /\ acPage' = [acPage EXCEPT !.at = ShutForm]
  /\ UNCHANGED <<acRows, store, acReqs, acTrue>>

SubmitEdit ==
  /\ acPage.at.dialog = "edit" /\ ~Submitting(acPage.at.id)
  /\ Asks([kind |-> "edit", id |-> acPage.at.id, fields |-> acPage.at.form])
  /\ UNCHANGED <<acRows, store, acPage>>

\* update_account: an empty path is not sent, so the row keeps its path.
UpdatedAcct(row, fields) ==
  [row EXCEPT !.fields = [fields EXCEPT !.path = IF @ = "" THEN row.fields.path ELSE @]]

EditArrives(r, stored, ok) ==
  /\ r \in acReqs /\ r.kind = "edit" /\ (ok => stored) /\ AcMishap(ok)
  /\ stored => acRows[r.id].active
  /\ acRows' = IF stored THEN [acRows EXCEPT ![r.id] = UpdatedAcct(@, r.fields)] ELSE acRows
  /\ store' = IF ok /\ r.id \in DOMAIN store.list
                THEN [store EXCEPT !.list[r.id] = acRows'[r.id].fields] ELSE store
  /\ acReqs' = acReqs \ {r} /\ acTrue' = (acTrue /\ ok)
  /\ acPage' = [acPage EXCEPT !.mishaps = AcCount(ok),
                              !.at = IF ok /\ @.id = r.id THEN ShutForm ELSE Showing(store'.list)]

-----------------------------------------------------------------------------
(* Removing, and the sheet of a card *)

\* The confirmation closes at once; the card stays until the answer.
RemoveAcct(id) ==
  /\ acPage.at = ShutForm /\ id \in DOMAIN store.list /\ [kind |-> "remove", id |-> id] \notin acReqs
  /\ Asks([kind |-> "remove", id |-> id])
  /\ UNCHANGED <<acRows, store, acPage>>

\* removeAccount of the store.
Removed(id) ==
  [list |-> WithoutAcct(store.list, id), active |-> IF store.active = id THEN NoAcct ELSE store.active]

RemoveArrives(r, stored, ok) ==
  /\ r \in acReqs /\ r.kind = "remove" /\ (ok => stored) /\ AcMishap(ok)
  /\ acRows' = IF stored THEN [acRows EXCEPT ![r.id].active = FALSE] ELSE acRows
  /\ store' = IF ok THEN Removed(r.id) ELSE store
  /\ acReqs' = acReqs \ {r} /\ acTrue' = (acTrue /\ ok)
  /\ acPage' = [acPage EXCEPT !.mishaps = AcCount(ok), !.at = Showing(store'.list)]

\* The terminal is asked for its account (answered at once here); the sheet
\* opens with the answer.
GetInfo(id) ==
  /\ acPage.at = ShutForm /\ id \in DOMAIN store.list
  /\ acPage' = [acPage EXCEPT !.at = [ShutForm EXCEPT !.dialog = "info", !.id = id]]
  /\ UNCHANGED <<acRows, store, acReqs, acTrue>>

\* The badge of the sheet, and of the mark at its floating profit.
ModeBadge(mode) == IF mode = 2 THEN "Live" ELSE IF mode = 1 THEN "Contest" ELSE "Demo"
ProfitMark(gain, loss) == IF gain > loss THEN "up" ELSE IF gain < loss THEN "down" ELSE "flat"
SheetShows(mode, gain, loss) ==
  IF acPage.at.dialog # "info" THEN {}
  ELSE {ModeBadge(mode), ProfitMark(gain, loss), "balance", "margin", "account"}

\* A card: the fields of its account, a default for an empty path, and the live
\* figures when the terminal has answered; what it offers.
CardShows(id, live) ==
  [risk |-> Tenths(store.list[id].risk),
   path |-> IF store.list[id].path = "" THEN "default" ELSE store.list[id].path,
   figures |-> IF live THEN {"balance", "equity", "profit"} ELSE {}]
CardOffers(id) == IF id \in DOMAIN store.list THEN {"info", "history", "edit", "remove"} ELSE {}

-----------------------------------------------------------------------------
AcUser ==
  \/ ComeBack \/ OpenAdd \/ SubmitAdd \/ SubmitEdit \/ ShutDialog
  \/ \E f \in Fields : TypeField(FormOf(f))
  \/ \E i \in Accts : OpenEdit(i) \/ RemoveAcct(i) \/ GetInfo(i)
  \/ \E i \in Accts \cup {NoAcct} : PickActive(i)
AcAnswers ==
  \E ok \in BOOLEAN :
    \/ AccountsArrive(ok)
    \/ \E r \in acReqs, stored \in BOOLEAN :
         AddArrives(r, stored, ok) \/ EditArrives(r, stored, ok) \/ RemoveArrives(r, stored, ok)
AcNext == AcUser \/ AcAnswers
AcSpec == AcInit /\ [][AcNext]_acVars

-----------------------------------------------------------------------------
\* With nothing under way the store has the accounts of the backend (where no
\* request overlapped another one and none was lost), and the active account
\* is one of them.
StoreIsTrue ==
  acReqs = {} /\ acTrue => store.list = Stored /\ store.active \in DOMAIN store.list \cup {NoAcct}

\* An edit dialog that was not touched shows the account as the store has it.
UntouchedFormIsCurrent ==
  acPage.at.dialog = "edit" /\ ~acPage.at.touched => acPage.at.form = FormOf(store.list[acPage.at.id])
=============================================================================

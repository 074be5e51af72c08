---------------------------- MODULE StrategyForms ----------------------------
(***************************************************************************)
(* The two strategy wizards of the frontend: app/strategies/new/page.tsx   *)
(* and app/strategies/[id]/edit/page.tsx with their configuration steps,   *)
(* and what the requests they send do to the stored strategy.  The fields  *)
(* of a form that behave alike are one field here: options stands for the  *)
(* description, prompt, interval and risk sizing, skips for hours and days *)
(* that are skipped; a provider and a model are set or not.                *)
(***************************************************************************)
EXTENDS Naturals, FiniteSets

CONSTANTS
  Modes, LlmOnly, RuleOnly,  \* execution modes; all but RuleOnly use a model
  Entries, ModeOf,           \* registered strategy classes and their modes
  Unset,                     \* no value
  FormSymbols, Frames, Slots,
  FormAccounts,
  MaxEdits                   \* bound: changes of the forms

ASSUME StrategyFormAssumption ==
  /\ {LlmOnly, RuleOnly} \subseteq Modes /\ ModeOf \in [Entries -> Modes \ {LlmOnly}]
  /\ Unset \notin Entries /\ MaxEdits \in Nat

VARIABLES
  wizard,     \* the page: which one, its step, what it waits for
  form,       \* what its fields hold
  stored,     \* the strategy the backend holds
  bound,      \* the accounts bound to it
  edits       \* changes of the forms so far

formVars == <<wizard, form, stored, bound, edits>>

Steps == 0..3

Frame0 == CHOOSE f \in Frames : TRUE
EmptyForm == [name |-> FALSE, mode |-> LlmOnly, symbols |-> {}, primary |-> Frame0,
              context |-> {}, skips |-> {}, key |-> Unset, class |-> FALSE, params |-> Unset,
              options |-> FALSE, provider |-> FALSE, model |-> FALSE]
NoWizard == [kind |-> "none", step |-> 0, loaded |-> FALSE, waits |-> "nothing",
             touched |-> FALSE, chosen |-> {}, sent |-> EmptyForm, toBind |-> {}]

FormInit ==
  /\ wizard = NoWizard /\ form = EmptyForm
  /\ stored = {} /\ bound = {} /\ edits = 0

WizardOpen(kind) ==
  /\ wizard.kind = "none" /\ (kind = "edit") = (stored # {})
  /\ wizard' = [NoWizard EXCEPT !.kind = kind] /\ form' = EmptyForm
  /\ UNCHANGED <<stored, bound, edits>>

\* The new page shows the form at once, the edit page when it has loaded; a
\* failed load leaves an empty form.
LoadedForm(s) == s

WizardLoads(ok) ==
  /\ wizard.kind # "none" /\ ~wizard.loaded
  /\ wizard' = [wizard EXCEPT !.loaded = TRUE]
  /\ IF ok /\ wizard.kind = "edit"
     THEN \E s \in stored : form' = LoadedForm(s)
     ELSE UNCHANGED form
  /\ UNCHANGED <<stored, bound, edits>>

Shows(step) ==
  /\ wizard.kind # "none" /\ wizard.step = step
  /\ wizard.kind = "edit" => wizard.loaded

-----------------------------------------------------------------------------
(* Navigation *)

UsesModel(f) == f.mode # RuleOnly
ModelNamed(f) == UsesModel(f) /\ f.provider => f.model
CanNext(step, f) ==
  /\ step = 2 => ModelNamed(f)
  /\ wizard.kind = "new" => (step = 0 => f.name) /\ (step = 1 => f.symbols # {})

StepNext ==
  /\ wizard.step < 3 /\ Shows(wizard.step) /\ CanNext(wizard.step, form)
  /\ wizard' = [wizard EXCEPT !.step = @ + 1]
  /\ UNCHANGED <<form, stored, bound, edits>>

StepBack ==
  /\ wizard.step > 0 /\ Shows(wizard.step)
  /\ wizard' = [wizard EXCEPT !.step = @ - 1]
  /\ UNCHANGED <<form, stored, bound, edits>>

\* Cancel, or any link: answers to the page that was left change nothing.
LeavesForm == wizard' = NoWizard /\ form' = EmptyForm
WizardLeft ==
  /\ wizard.kind # "none" /\ wizard.waits = "nothing" /\ LeavesForm
  /\ UNCHANGED <<stored, bound, edits>>

-----------------------------------------------------------------------------
(* The fields, step by step *)

Edit(step, f) ==
  /\ Shows(step) /\ f # form /\ edits < MaxEdits
  /\ form' = f /\ wizard' = [wizard EXCEPT !.touched = TRUE] /\ edits' = edits + 1
  /\ UNCHANGED <<stored, bound>>

FlipIn(S, x) == IF x \in S THEN S \ {x} ELSE S \cup {x}

SetName(b) == Edit(0, [form EXCEPT !.name = b])

\* On the new page another mode drops a registered class that does not fit it,
\* on the edit page the class stays; the registry may not have been loaded yet.
NewMode(m) ==
  [form EXCEPT !.mode = m,
               !.key = IF @ # Unset /\ ModeOf[@] # m THEN Unset ELSE @]

EditMode(m) == [form EXCEPT !.mode = m]

PickMode(m) ==
  Edit(0, IF wizard.kind = "new" THEN NewMode(m) ELSE EditMode(m))

ToggleSymbol(s) == Edit(1, [form EXCEPT !.symbols = FlipIn(@, s)])

\* The primary timeframe leaves the context ones, which are offered without it.
PickPrimary(tf) ==
  Edit(1, [form EXCEPT !.primary = tf, !.context = @ \ {tf}])

ToggleContext(tf) ==
  tf # form.primary /\ Edit(1, [form EXCEPT !.context = FlipIn(@, tf)])

\* SkipHoursGrid, SkipWeekdaysGrid
ToggleSkip(h) == Edit(1, [form EXCEPT !.skips = FlipIn(@, h)])

\* A registered class of the mode, with the defaults of its parameters.
OfferedKeys == IF wizard.loaded /\ form.mode # LlmOnly
           THEN {k \in Entries : ModeOf[k] = form.mode} ELSE {}

PickEntry(k) ==
  /\ k \in OfferedKeys
  /\ Edit(2, [form EXCEPT !.key = k, !.mode = ModeOf[k], !.class = FALSE, !.params = k])
 

SetCustomClass(b) ==
  /\ form.mode # LlmOnly
  /\ Edit(2, [form EXCEPT !.class = b, !.key = Unset])

SetOptions(b) == Edit(2, [form EXCEPT !.options = b])

\* A provider; the model's name stays when another one is picked.  The model
\* is one of the provider's list, or typed where no list came.
PickProvider(b) ==
  UsesModel(form) /\ Edit(2, [form EXCEPT !.provider = b, !.model = @ /\ b])

PickModel(b) == UsesModel(form) /\ form.provider /\ Edit(2, [form EXCEPT !.model = b])

ToggleAccount(a) ==
  /\ wizard.kind = "new" /\ Shows(3) /\ wizard.loaded
  /\ wizard' = [wizard EXCEPT !.chosen = FlipIn(@, a)]
  /\ UNCHANGED <<form, stored, bound, edits>>

-----------------------------------------------------------------------------
(* Submission; what is sent is what the page held at the click, and the     *)
(* operator may go back and change the form while the answer is awaited.    *)

Submits ==
  /\ Shows(3) /\ wizard.waits = "nothing" /\ form.name /\ form.symbols # {}
  /\ wizard' = [wizard EXCEPT !.waits = "answer", !.sent = form, !.toBind = wizard.chosen]
  /\ UNCHANGED <<form, stored, bound, edits>>

SubmitFails ==
  wizard' = [wizard EXCEPT !.waits = "nothing", !.sent = EmptyForm, !.toBind = {}]

\* A second strategy of the same name is refused, so a retry after the
\* creation never binds.  The answer may be lost after the row was written.
StrategyCreated(outcome) ==
  /\ wizard.kind = "new" /\ wizard.waits = "answer"
  /\ stored # {} => outcome = "failed"
  /\ stored' = IF outcome = "failed" THEN stored ELSE {wizard.sent}
  /\ IF outcome # "ok" THEN SubmitFails /\ UNCHANGED form
     ELSE IF wizard.toBind = {} THEN LeavesForm
     ELSE wizard' = [wizard EXCEPT !.waits = "binds"] /\ UNCHANGED form
  /\ UNCHANGED <<bound, edits>>

\* Promise.all: all bind, or the first failure ends the wait.
BoundTo(a, ok) ==
  /\ wizard.waits = "binds" /\ a \in wizard.toBind
  /\ bound' = IF ok THEN bound \cup {a} ELSE bound
  /\ IF ok /\ wizard.toBind = {a} THEN LeavesForm
     ELSE /\ IF ok THEN wizard' = [wizard EXCEPT !.toBind = @ \ {a}] ELSE SubmitFails
          /\ UNCHANGED form
  /\ UNCHANGED <<stored, edits>>

\* A field without a value is not in the request, and the row keeps its own.
Patched(s, f) ==
  [f EXCEPT !.key = IF @ = Unset THEN s.key ELSE @, !.class = @ \/ s.class,
            !.params = IF @ = Unset THEN s.params ELSE @, !.options = @ \/ s.options,
            !.provider = @ \/ s.provider, !.model = @ \/ s.model]

Updated(outcome) ==
  /\ wizard.kind = "edit" /\ wizard.waits = "answer"
  /\ stored' = IF outcome = "failed" THEN stored ELSE {Patched(s, wizard.sent) : s \in stored}
  /\ IF outcome = "ok" THEN LeavesForm ELSE SubmitFails /\ UNCHANGED form
  /\ UNCHANGED <<bound, edits>>

-----------------------------------------------------------------------------
FormStep ==
  \/ \E k \in {"new", "edit"} : WizardOpen(k)
  \/ \E b \in BOOLEAN : WizardLoads(b) \/ SetName(b) \/ SetCustomClass(b)
                         \/ SetOptions(b) \/ PickProvider(b) \/ PickModel(b)
  \/ StepNext \/ StepBack \/ WizardLeft
  \/ \E m \in Modes : PickMode(m)
  \/ \E s \in FormSymbols : ToggleSymbol(s)
  \/ \E tf \in Frames : PickPrimary(tf) \/ ToggleContext(tf)
  \/ \E h \in Slots : ToggleSkip(h)
  \/ \E k \in Entries : PickEntry(k)
  \/ \E a \in FormAccounts : ToggleAccount(a)
Answers ==
  \/ \E o \in {"ok", "lost", "failed"} : StrategyCreated(o) \/ Updated(o)
  \/ \E a \in FormAccounts, b \in BOOLEAN : BoundTo(a, b)

FormNext == FormStep \/ Submits \/ Answers

FormSpec == FormInit /\ [][FormNext]_formVars

-----------------------------------------------------------------------------

\* Whatever the operator did on the way, going back included, the last step is
\* reached with a complete form: the submit button checks the name and the
\* symbols, nothing but the way there checks the model.
SubmittedNamesModel ==
  /\ wizard.kind # "none" /\ wizard.step = 3 => ModelNamed(form)
  /\ wizard.kind = "new" => \A s \in stored : ModelNamed(s)

\* On the new page a registered class is one of the mode that is selected, and
\* a class is registered or custom, never both.
ClassFitsMode ==
  wizard.kind = "new" =>
    /\ form.key # Unset => form.mode = ModeOf[form.key] /\ ~form.class
    /\ \A s \in stored : s.key # Unset => s.mode = ModeOf[s.key]

\* No strategy has its primary timeframe among the context ones.
ContextWithoutPrimary ==
  form.primary \notin form.context /\ \A s \in stored : s.primary \notin s.context

\* The new page leaves by itself only when the strategy is stored as sent and
\* every account that was chosen is bound.
LeavesWhenBound ==
  [][wizard.kind = "new" /\ wizard.waits # "nothing" /\ wizard'.kind = "none" =>
       stored' = {wizard.sent} /\ wizard.toBind \subseteq bound']_formVars

\* Saving a strategy that was opened and not changed changes nothing.
UntouchedSaveKeeps ==
  [][wizard.kind = "edit" /\ ~wizard.touched => stored' = stored]_formVars

=============================================================================

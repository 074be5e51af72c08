----------------------------- MODULE TradeReconcile -----------------------------
(***************************************************************************)
(* The trades table against the broker: trades recorded by the pipeline,   *)
(* and the synchronisations that bring their rows up to date               *)
(* (src/backend/api/routes/accounts/_sync.py, services/history_sync.py).   *)
(*                                                                         *)
(* A synchronisation loads the open rows, reads the terminal four times,   *)
(* commits its verdicts (sync_orders ends here), and then looks every      *)
(* closing deal up and commits again.  The history buttons and the live    *)
(* poller do the last part only.  Several run at once, each in a database  *)
(* session of its own whose objects are not refreshed by later queries.    *)
(* MT5Session makes the four reads exclusive; they only read, so the model *)
(* does not repeat the lock.                                               *)
(***************************************************************************)
EXTENDS Naturals, FiniteSets

CONSTANTS
  Tickets,   \* what may become an order of one account
  System,    \* those the pipeline places; the others come from the terminal
  Pending,   \* those placed as limit or stop orders
  Partial,   \* those whose position may be closed in parts
  Syncs,     \* synchronisations that may run at the same time
  Periodic,  \* those that are sync_account in the equity poller's loop
  SyncFaults     \* "blind" reads come back empty, rows fail to "persist", "abort"

ASSUME ReconcileAssumption ==
  /\ System \subseteq Tickets
  /\ Pending \subseteq Tickets
  /\ Partial \subseteq Tickets
  /\ Periodic \subseteq Syncs
  /\ SyncFaults \subseteq {"blind", "persist", "abort"}

VARIABLES
  br,       \* what the broker has under each ticket
  dealt,    \* the tickets with a closing deal in the broker's history
  unsaved,  \* placed by the pipeline, persist_trade still to come
  status,   \* order_status of each ticket's row, "none" where there is no row
  closed,   \* the rows with closed_at
  result,   \* the rows with profit and close_price
  at,       \* what each synchronisation waits for
  open,     \* open_trades: the status each loaded row had
  poss, ords, hist, deals,  \* the four reads
  missing,  \* phase 2 found no row for these
  still,    \* phase 2 found these rows open
  blind,    \* a read of this synchronisation came back empty
  misread   \* rows closed on the word of such a synchronisation

brokerVars == <<br, dealt>>
rowVars == <<status, closed, result, misread>>
readVars == <<open, poss, ords, hist, deals, missing, still, blind>>
vars == <<brokerVars, unsaved, rowVars, at, readVars>>

BrokerState == {"none", "order", "position", "closed", "cancelled", "expired"}
RowStatus == {"none", "pending", "filled", "cancelled", "expired"}
Stage == {"idle", "positions", "orders", "history", "deals",
          "phase1", "lookup", "phase2"}

Row(t) == IF t \in Pending THEN "pending" ELSE "filled"

\* What history_orders_get says of an order.
History(b) ==
  IF b \in {"position", "closed"} THEN "filled"
  ELSE IF b \in {"cancelled", "expired"} THEN b ELSE "none"

Nothing == [t \in Tickets |-> "none"]

Init ==
  /\ br = Nothing
  /\ dealt = {}
  /\ unsaved = {}
  /\ status = Nothing
  /\ closed = {} /\ result = {} /\ misread = {}
  /\ at = [s \in Syncs |-> "idle"]
  /\ open = [s \in Syncs |-> Nothing]
  /\ poss = [s \in Syncs |-> {}] /\ ords = [s \in Syncs |-> {}]
  /\ hist = [s \in Syncs |-> Nothing] /\ deals = [s \in Syncs |-> {}]
  /\ missing = [s \in Syncs |-> {}] /\ still = [s \in Syncs |-> {}]
  /\ blind = [s \in Syncs |-> FALSE]

-----------------------------------------------------------------------------
(***************************************************************************)
(* The broker, and persist_trade of the pipeline.                          *)
(***************************************************************************)

Place(t) ==
  /\ br[t] = "none"
  /\ br' = [br EXCEPT ![t] = IF t \in Pending THEN "order" ELSE "position"]
  /\ unsaved' = unsaved \cup ({t} \cap System)
  /\ UNCHANGED <<dealt, rowVars, at, readVars>>

FillAtBroker(t) ==
  /\ br[t] = "order"
  /\ br' = [br EXCEPT ![t] = "position"]
  /\ UNCHANGED <<dealt, unsaved, rowVars, at, readVars>>

Withdraw(t) ==
  /\ br[t] = "order"
  /\ br' \in {[br EXCEPT ![t] = x] : x \in {"cancelled", "expired"}}
  /\ UNCHANGED <<dealt, unsaved, rowVars, at, readVars>>

\* A closing deal ends the position, or a part of it.
Deal(t) ==
  /\ br[t] = "position"
  /\ dealt' = dealt \cup {t}
  /\ \/ br' = [br EXCEPT ![t] = "closed"]
     \/ t \in Partial \ dealt /\ UNCHANGED br
  /\ UNCHANGED <<unsaved, rowVars, at, readVars>>

\* persist_trade.  uq_trade_account_ticket refuses a second row.
StoreRow(t) ==
  /\ t \in unsaved
  /\ unsaved' = unsaved \ {t}
  /\ \/ /\ status[t] = "none"
        /\ status' = [status EXCEPT ![t] = Row(t)]
     \/ /\ status[t] # "none" \/ "persist" \in SyncFaults
        /\ UNCHANGED status
  /\ UNCHANGED <<brokerVars, closed, result, misread, at, readVars>>

-----------------------------------------------------------------------------
(***************************************************************************)
(* The reads of a synchronisation.                                         *)
(***************************************************************************)

Goes(s, x) == at' = [at EXCEPT ![s] = x]

\* The session is closed and everything the task had read is gone.
Quit(s) ==
  /\ Goes(s, "idle")
  /\ open' = [open EXCEPT ![s] = Nothing]
  /\ poss' = [poss EXCEPT ![s] = {}]
  /\ ords' = [ords EXCEPT ![s] = {}]
  /\ hist' = [hist EXCEPT ![s] = Nothing]
  /\ deals' = [deals EXCEPT ![s] = {}]
  /\ missing' = [missing EXCEPT ![s] = {}]
  /\ still' = [still EXCEPT ![s] = {}]
  /\ blind' = [blind EXCEPT ![s] = FALSE]

IsOpen(t) == status[t] \in {"pending", "filled"} /\ t \notin closed

\* sync_orders and sync_account load every open row, before the MT5 lock.
Load(s) ==
  /\ at[s] = "idle"
  /\ Goes(s, "positions")
  /\ open' = [open EXCEPT ![s] =
                [t \in Tickets |-> IF IsOpen(t) THEN status[t] ELSE "none"]]
  /\ UNCHANGED <<brokerVars, unsaved, rowVars, poss, ords, hist, deals,
                 missing, still, blind>>

\* The history buttons and the live poller read the deals only.
BeginHistory(s) ==
  /\ at[s] = "idle"
  /\ s \notin Periodic
  /\ Goes(s, "deals")
  /\ UNCHANGED <<brokerVars, unsaved, rowVars, readVars>>

(***************************************************************************)
(* The reads, while the broker moves on.  "if raw else []" in the bridge   *)
(* turns a failed read into an empty answer: ok is FALSE.  Of positions    *)
(* and orders only those with a loaded row are ever looked at.             *)
(***************************************************************************)
Reads == IF "blind" \in SyncFaults THEN BOOLEAN ELSE {TRUE}

Loaded(s) == {t \in Tickets : open[s][t] # "none"}

\* The pending orders that are no longer active.
Left(s) == {t \in Tickets : open[s][t] = "pending" /\ t \notin ords[s]}

With(b) == {t \in Tickets : br[t] = b}
Answer(ok, x) == IF ok THEN x ELSE {}

Reading(s, from, to, ok) ==
  /\ at[s] = from
  /\ Goes(s, to)
  /\ blind' = [blind EXCEPT ![s] = @ \/ ~ok]
  /\ UNCHANGED <<brokerVars, unsaved, rowVars, open, missing, still>>

GetPositions(s, ok) ==
  /\ Reading(s, "positions", "orders", ok)
  /\ poss' = [poss EXCEPT ![s] = Answer(ok, With("position") \cap Loaded(s))]
  /\ UNCHANGED <<ords, hist, deals>>

GetOrders(s, ok) ==
  /\ Reading(s, "orders", "history", ok)
  /\ ords' = [ords EXCEPT ![s] = Answer(ok, With("order") \cap Loaded(s))]
  /\ UNCHANGED <<poss, hist, deals>>

GetHistory(s, ok) ==
  /\ Reading(s, "history", "deals", ok)
  /\ hist' = [hist EXCEPT ![s] =
                [t \in Tickets |->
                   IF ok /\ t \in Left(s) THEN History(br[t]) ELSE "none"]]
  /\ UNCHANGED <<poss, ords, deals>>

GetDeals(s, ok) ==
  /\ Reading(s, "deals", "phase1", ok)
  /\ deals' = [deals EXCEPT ![s] = Answer(ok, dealt)]
  /\ UNCHANGED <<poss, ords, hist>>

-----------------------------------------------------------------------------
(***************************************************************************)
(* Phase 1: a verdict on every loaded row.                                 *)
(***************************************************************************)

Filled(s) == {t \in Left(s) : hist[s][t] = "filled"}

\* Bug variant: the rows are loaded after the terminal was read.
EndsFresh(s) ==
  {t \in Tickets : status[t] = "filled" /\ t \notin closed /\ t \notin poss[s]}
    \cup (Left(s) \ (Filled(s) \cap poss[s]))

\* The rows that get closed_at.
Ends(s) ==
  {t \in Tickets : open[s][t] = "filled" /\ t \notin poss[s]}
    \cup (Left(s) \ (Filled(s) \cap poss[s]))

\* Bug variant: MT5's word is stored as it is.
VerdictRaw(s, t) == IF t \in Left(s) THEN hist[s][t] ELSE status[t]

\* Bug variant: an order that is not active any more was cancelled.
VerdictCancelled(s, t) == IF t \in Left(s) THEN "cancelled" ELSE status[t]

\* The order_status the row gets; FILLED and EXPIRED are recognised.
Verdict(s, t) ==
  IF t \in Left(s)
    THEN IF hist[s][t] = "none" THEN "cancelled" ELSE hist[s][t]
    ELSE status[t]

\* Bug variant: the result is left to phase 2.
ResultsLater(s) == {}

\* The rows whose closing deal was found.
Results(s) == {t \in Ends(s) \cap deals[s] : open[s][t] = "filled" \/ t \in Filled(s)}

\* The commit.  sync_orders is over; sync_account goes on, with the rows of
\* this session as it left them.  One that loaded no row has nothing to write.
Commit(s) ==
  /\ at[s] = "phase1"
  /\ status' = [t \in Tickets |-> Verdict(s, t)]
  /\ closed' = closed \cup Ends(s)
  /\ result' = result \cup Results(s)
  /\ misread' = IF blind[s] THEN misread \cup Ends(s) ELSE misread
  /\ \/ s \notin Periodic /\ Quit(s)
     \/ /\ Goes(s, "lookup")
        /\ open' = [open EXCEPT ![s] =
                      [t \in Tickets |-> IF t \in Ends(s) THEN "ended" ELSE @[t]]]
        /\ poss' = [poss EXCEPT ![s] = {}]
        /\ ords' = [ords EXCEPT ![s] = {}]
        /\ hist' = [hist EXCEPT ![s] = Nothing]
        /\ UNCHANGED <<deals, missing, still, blind>>
  /\ UNCHANGED <<brokerVars, unsaved>>

-----------------------------------------------------------------------------
(***************************************************************************)
(* Phase 2: sync_deals_to_db.                                              *)
(***************************************************************************)

\* Bug variant: only the rows there are get updated.
LookupRows(s) ==
  /\ at[s] = "lookup"
  /\ Goes(s, "phase2")
  /\ missing' = [missing EXCEPT ![s] = {}]
  /\ still' = [still EXCEPT ![s] = {t \in deals[s] : open[s][t] = "none" /\ IsOpen(t)}]
  /\ open' = [open EXCEPT ![s] = Nothing]
  /\ deals' = [deals EXCEPT ![s] = {}]
  /\ UNCHANGED <<brokerVars, unsaved, rowVars, poss, ords, hist, blind>>

\* Each deal's row is looked up.  A row this session has loaded is seen as it
\* was then; the model reads the others at once.
Lookup(s) ==
  /\ at[s] = "lookup"
  /\ Goes(s, "phase2")
  /\ missing' = [missing EXCEPT ![s] = {t \in deals[s] : status[t] = "none"}]
  /\ still' = [still EXCEPT ![s] =
                 {t \in deals[s] : \/ open[s][t] \in {"pending", "filled"}
                                   \/ open[s][t] = "none" /\ IsOpen(t)}]
  /\ open' = [open EXCEPT ![s] = Nothing]
  /\ deals' = [deals EXCEPT ![s] = {}]
  /\ UNCHANGED <<brokerVars, unsaved, rowVars, poss, ords, hist, blind>>

\* The commit of the batch.  A ticket that got its row since the lookup makes
\* the insert fail and the whole batch is rolled back.
Backfill(s) ==
  /\ at[s] = "phase2"
  /\ \/ /\ \E t \in missing[s] : status[t] # "none"
        /\ UNCHANGED rowVars
     \/ /\ \A t \in missing[s] : status[t] = "none"
        /\ status' = [t \in Tickets |-> IF t \in missing[s] THEN "filled" ELSE status[t]]
        /\ closed' = closed \cup missing[s] \cup still[s]
        /\ result' = result \cup missing[s] \cup still[s]
        /\ UNCHANGED misread
  /\ Quit(s)
  /\ UNCHANGED <<brokerVars, unsaved>>

\* The terminal is not available, the session is pinned to another account,
\* the database fails, or the task is cancelled: no commit.
Abort(s) ==
  /\ "abort" \in SyncFaults
  /\ at[s] # "idle"
  /\ Quit(s)
  /\ UNCHANGED <<brokerVars, unsaved, rowVars>>

BrokerActs(t) == Place(t) \/ FillAtBroker(t) \/ Withdraw(t) \/ Deal(t)

Fetch(s, ok) ==
  GetPositions(s, ok) \/ GetOrders(s, ok) \/ GetHistory(s, ok) \/ GetDeals(s, ok)

Sync(s) ==
  \/ Load(s) \/ BeginHistory(s)
  \/ \E ok \in Reads : Fetch(s, ok)
  \/ Commit(s) \/ Lookup(s) \/ Backfill(s) \/ Abort(s)

Next ==
  \/ \E t \in Tickets : BrokerActs(t) \/ StoreRow(t)
  \/ \E s \in Syncs : Sync(s)

Spec == Init /\ [][Next]_vars

(***************************************************************************)
(* Fairness.  The equity poller calls sync_account every minute, its       *)
(* awaits end, and one that gets to a step with good answers again and     *)
(* again does not fail there every time; persist_trade ends.  The broker   *)
(* and the users do as they please.                                        *)
(***************************************************************************)
Step(s) ==
  \/ GetPositions(s, TRUE) \/ GetOrders(s, TRUE) \/ GetHistory(s, TRUE)
  \/ GetDeals(s, TRUE) \/ Commit(s) \/ Lookup(s) \/ Backfill(s)

Fairness ==
  /\ \A t \in Tickets : WF_vars(StoreRow(t))
  /\ \A s \in Periodic :
       /\ WF_vars(Sync(s))
       /\ \A x \in Stage : SF_vars(at[s] = x /\ ~blind[s] /\ Step(s))

FairSpec == Spec /\ Fairness

-----------------------------------------------------------------------------
(***************************************************************************)
(* Properties.                                                             *)
(***************************************************************************)

\* Every variable holds a value the code can give it.
TypeOK ==
  /\ br \in [Tickets -> BrokerState]
  /\ dealt \subseteq Tickets
  /\ unsaved \subseteq System
  /\ status \in [Tickets -> RowStatus]
  /\ closed \subseteq {t \in Tickets : status[t] # "none"}
  /\ result \subseteq closed
  /\ misread \subseteq closed
  /\ at \in [Syncs -> Stage]
  /\ open \in [Syncs -> [Tickets -> {"none", "pending", "filled", "ended"}]]
  /\ poss \in [Syncs -> SUBSET Tickets]
  /\ ords \in [Syncs -> SUBSET Tickets]
  /\ hist \in [Syncs -> [Tickets -> {"none", "filled", "cancelled", "expired"}]]
  /\ deals \in [Syncs -> SUBSET Tickets]
  /\ missing \in [Syncs -> SUBSET Tickets]
  /\ still \in [Syncs -> SUBSET Tickets]
  /\ blind \in [Syncs -> BOOLEAN]

\* A row is closed only for what is over at the broker, whatever happens
\* between the four reads: no active order, and no position that was opened
\* at market and is closed in one piece.
ClosedIsGone ==
  \A t \in closed \ misread :
    /\ br[t] # "order"
    /\ t \notin Pending \cup Partial => br[t] # "position"

\* An order's row ends as the order did, although it is first seen to be
\* inactive and its history is read afterwards.
EndsLikeOrder ==
  \A t \in closed \ misread :
    status[t] \in {"cancelled", "expired"} => br[t] = status[t]

\* Whoever closes the row of a market position knows its result: phase 2 and
\* every later synchronisation skip a closed row.
ClosedHasResult ==
  \A t \in closed \ misread :
    t \notin Pending /\ br[t] = "closed" => t \in result

\* What is over at the broker is closed in the table in the end: positions of
\* the pipeline and of the terminal, and the pipeline's orders.
EventuallyReconciled ==
  \A t \in Tickets :
    (br[t] = "closed" \/ (br[t] \in {"cancelled", "expired"} /\ status[t] # "none"))
      ~> t \in closed
=============================================================================

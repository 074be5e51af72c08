------------------------- MODULE TradeReconcileProofs -------------------------
(***************************************************************************)
(* Proofs about the trades table and the broker, for any number of         *)
(* tickets and of synchronisations at the same time, with every fault.     *)
(***************************************************************************)
EXTENDS TradeReconcile, TLAPS

(***************************************************************************)
(* The inductive invariant.  What a synchronisation has read grows stale   *)
(* while the broker moves on; the properties follow because the verdicts   *)
(* use only what cannot become false again: a row that was loaded was      *)
(* placed before, what is not active any more stays so, and a history read *)
(* after an order left tells its end.                                      *)
(***************************************************************************)
\* What the broker's own rules give.
BrokerRules ==
  \A t \in Tickets :
    /\ t \notin Pending => br[t] \in {"none", "position", "closed"}
    /\ t \in dealt => br[t] \in {"position", "closed"}
    /\ br[t] = "closed" => t \in dealt
    /\ t \in dealt \ Partial => br[t] = "closed"

\* What a row says of its order.
RowsTell ==
  \A t \in Tickets :
    /\ t \in unsaved => br[t] # "none"
    /\ status[t] # "none" => br[t] # "none"
    /\ status[t] = "pending" => t \in Pending
    /\ status[t] = "filled" => br[t] \in {"position", "closed"}
    /\ status[t] = "expired" => br[t] = "expired"
    /\ status[t] \in {"cancelled", "expired"} => t \in closed

\* What a synchronisation holds of each ticket, however old.
SessionTells ==
  \A s \in Syncs, t \in Tickets :
    /\ at[s] = "idle" => open[s][t] = "none"
    /\ open[s][t] # "none" => status[t] # "none"
    /\ open[s][t] = "pending" => t \in Pending
    /\ open[s][t] = "filled" => br[t] \in {"position", "closed"}
    /\ hist[s][t] = "filled" => br[t] \in {"position", "closed"}
    /\ hist[s][t] = "expired" => br[t] = "expired"
    /\ t \in deals[s] \cup missing[s] \cup still[s] => t \in dealt
    /\ t \in still[s] => status[t] # "none"

\* What its reads tell when none of them failed.
Afterwards(s, x) == at[s] \in x /\ ~blind[s]

ReadsTell ==
  \A s \in Syncs, t \in Tickets :
    /\ Afterwards(s, {"orders", "history", "deals", "phase1"}) =>
         (open[s][t] = "filled" /\ t \notin poss[s] => br[t] = "closed")
    /\ Afterwards(s, {"history", "deals", "phase1"}) =>
         (t \in Left(s) => br[t] # "order")
    /\ Afterwards(s, {"deals", "phase1"}) =>
         (t \in Left(s) => hist[s][t] = History(br[t]))
    /\ Afterwards(s, {"phase1"}) =>
         (open[s][t] = "filled" /\ t \notin poss[s] => t \in deals[s])

\* ClosedHasResult, without its condition on the broker.
ResultKnown == \A t \in closed \ misread : t \notin Pending => t \in result

Outcome == ClosedIsGone /\ EndsLikeOrder /\ ResultKnown

ReconcileInv ==
  /\ TypeOK
  /\ BrokerRules
  /\ RowsTell
  /\ SessionTells
  /\ ReadsTell
  /\ Outcome

-----------------------------------------------------------------------------
LEMMA InitReconcile == Init => ReconcileInv
  BY ReconcileAssumption
  DEF Init, ReconcileInv, TypeOK, BrokerRules, RowsTell, SessionTells, ReadsTell,
      Afterwards, Left, Outcome, ClosedIsGone, EndsLikeOrder, ResultKnown, Nothing,
      BrokerState, RowStatus, Stage

LEMMA StutterReconcile ==
  ASSUME ReconcileInv, UNCHANGED vars
  PROVE  ReconcileInv'
  BY DEF ReconcileInv, TypeOK, BrokerRules, RowsTell, SessionTells, ReadsTell,
      Afterwards, Left, Outcome, ClosedIsGone, EndsLikeOrder, ResultKnown,
      vars, brokerVars, rowVars, readVars

(***************************************************************************)
(* The broker and persist_trade leave what the sessions hold alone.        *)
(***************************************************************************)
LEMMA PlaceReconcile ==
  ASSUME ReconcileInv, NEW t \in Tickets, Place(t)
  PROVE  ReconcileInv'
  <1> USE DEF ReconcileInv
  <1>1. TypeOK'
    BY DEF Place, TypeOK, BrokerState, rowVars, readVars
  <1>2. BrokerRules'
    BY DEF Place, TypeOK, BrokerRules
  <1>3. RowsTell'
    BY DEF Place, TypeOK, RowsTell, rowVars
  <1>4. SessionTells'
    BY DEF Place, TypeOK, SessionTells, RowsTell, rowVars, readVars
  <1>5. ReadsTell'
    BY DEF Place, TypeOK, ReadsTell, Afterwards, Left, SessionTells, RowsTell, rowVars, readVars
  <1>6. Outcome'
    BY DEF Place, TypeOK, Outcome, ClosedIsGone, EndsLikeOrder, ResultKnown, RowsTell, rowVars
  <1> QED BY <1>1, <1>2, <1>3, <1>4, <1>5, <1>6

LEMMA FillReconcile ==
  ASSUME ReconcileInv, NEW t \in Tickets, FillAtBroker(t)
  PROVE  ReconcileInv'
  <1> USE DEF ReconcileInv
  <1>1. TypeOK'
    BY DEF FillAtBroker, TypeOK, BrokerState, rowVars, readVars
  <1>2. BrokerRules'
    BY DEF FillAtBroker, TypeOK, BrokerRules
  <1>3. RowsTell'
    BY DEF FillAtBroker, TypeOK, RowsTell, rowVars
  <1>4. SessionTells'
    BY DEF FillAtBroker, TypeOK, SessionTells, rowVars, readVars
  <1>5. ReadsTell'
    BY DEF FillAtBroker, TypeOK, ReadsTell, Afterwards, Left, rowVars, readVars, History
  <1>6. Outcome'
    BY DEF FillAtBroker, TypeOK, Outcome, ClosedIsGone, EndsLikeOrder, ResultKnown, BrokerRules, rowVars
  <1> QED BY <1>1, <1>2, <1>3, <1>4, <1>5, <1>6

LEMMA WithdrawReconcile ==
  ASSUME ReconcileInv, NEW t \in Tickets, Withdraw(t)
  PROVE  ReconcileInv'
  <1> USE DEF ReconcileInv
  <1>0. PICK x \in {"cancelled", "expired"} : br' = [br EXCEPT ![t] = x]
    BY DEF Withdraw
  <1>1. TypeOK'
    BY <1>0 DEF Withdraw, TypeOK, BrokerState, rowVars, readVars
  <1>2. BrokerRules'
    BY <1>0 DEF Withdraw, TypeOK, BrokerRules
  <1>3. RowsTell'
    BY <1>0 DEF Withdraw, TypeOK, RowsTell, rowVars
  <1>4. SessionTells'
    BY <1>0 DEF Withdraw, TypeOK, SessionTells, rowVars, readVars
  <1>5. ReadsTell'
    BY <1>0 DEF Withdraw, TypeOK, ReadsTell, Afterwards, Left, rowVars, readVars, History
  <1>6. Outcome'
    BY <1>0 DEF Withdraw, TypeOK, Outcome, ClosedIsGone, EndsLikeOrder, ResultKnown, rowVars
  <1> QED BY <1>1, <1>2, <1>3, <1>4, <1>5, <1>6

LEMMA DealReconcile ==
  ASSUME ReconcileInv, NEW t \in Tickets, Deal(t)
  PROVE  ReconcileInv'
  <1> USE DEF ReconcileInv
  <1>1. TypeOK'
    BY DEF Deal, TypeOK, BrokerState, rowVars, readVars
  <1>2. BrokerRules'
    BY DEF Deal, TypeOK, BrokerRules
  <1>3. RowsTell'
    BY DEF Deal, TypeOK, RowsTell, rowVars
  <1>4. SessionTells'
    BY DEF Deal, TypeOK, SessionTells, rowVars, readVars
  <1>5. ReadsTell'
    BY DEF Deal, TypeOK, ReadsTell, Afterwards, Left, rowVars, readVars, History
  <1>6. Outcome'
    BY DEF Deal, TypeOK, Outcome, ClosedIsGone, EndsLikeOrder, ResultKnown, rowVars
  <1> QED BY <1>1, <1>2, <1>3, <1>4, <1>5, <1>6

LEMMA PersistReconcile ==
  ASSUME ReconcileInv, NEW t \in Tickets, StoreRow(t)
  PROVE  ReconcileInv'
  <1> USE DEF ReconcileInv
  <1>0. status' \in [Tickets -> RowStatus]
        /\ \A u \in Tickets : \/ status'[u] = status[u]
                              \/ u = t /\ status[u] = "none" /\ status'[u] = Row(t)
    BY DEF StoreRow, TypeOK, Row, RowStatus
  <1>1. TypeOK'
    BY <1>0 DEF StoreRow, TypeOK, Row, brokerVars, readVars
  <1>2. BrokerRules'
    BY DEF StoreRow, BrokerRules, brokerVars
  <1>3. RowsTell'
    BY <1>0 DEF StoreRow, TypeOK, RowsTell, BrokerRules, Row, brokerVars
  <1>4. SessionTells'
    BY <1>0 DEF StoreRow, TypeOK, SessionTells, brokerVars, readVars, Row
  <1>5. ReadsTell'
    BY DEF StoreRow, ReadsTell, Afterwards, Left, brokerVars, readVars
  <1>6. Outcome'
    BY <1>0 DEF StoreRow, TypeOK, Outcome, ClosedIsGone, EndsLikeOrder, ResultKnown, brokerVars, Row
  <1> QED BY <1>1, <1>2, <1>3, <1>4, <1>5, <1>6

-----------------------------------------------------------------------------
(***************************************************************************)
(* The steps of a synchronisation that leave broker and table alone.       *)
(***************************************************************************)
LEMMA QuietReconcile ==
  ASSUME ReconcileInv, UNCHANGED <<brokerVars, unsaved, rowVars>>
  PROVE  BrokerRules' /\ RowsTell' /\ Outcome'
  <1> USE DEF ReconcileInv, brokerVars, rowVars
  <1>1. BrokerRules' BY DEF BrokerRules
  <1>2. RowsTell' BY DEF RowsTell
  <1>3. Outcome' BY DEF Outcome, ClosedIsGone, EndsLikeOrder, ResultKnown
  <1> QED BY <1>1, <1>2, <1>3

LEMMA LoadReconcile ==
  ASSUME ReconcileInv, NEW s \in Syncs, Load(s)
  PROVE  ReconcileInv'
  <1> USE DEF ReconcileInv, Load, Goes, brokerVars, rowVars
  <1>0. \A u \in Syncs, t \in Tickets :
          \/ open'[u][t] = open[u][t]
          \/ u = s /\ open'[u][t] = "none"
          \/ u = s /\ open'[u][t] \in {"pending", "filled"} /\ open'[u][t] = status[t]
    BY DEF TypeOK, IsOpen
  <1>1. TypeOK'
    BY DEF TypeOK, IsOpen, RowStatus, Stage
  <1>2. BrokerRules' /\ RowsTell' /\ Outcome'
    BY QuietReconcile
  <1>3. SessionTells'
    BY <1>0 DEF TypeOK, SessionTells, RowsTell
  <1>4. ReadsTell'
    BY DEF TypeOK, ReadsTell, Afterwards, Left
  <1> QED BY <1>1, <1>2, <1>3, <1>4

LEMMA BeginHistoryReconcile ==
  ASSUME ReconcileInv, NEW s \in Syncs, BeginHistory(s)
  PROVE  ReconcileInv'
  <1> USE DEF ReconcileInv, BeginHistory, Goes, brokerVars, rowVars, readVars
  <1>1. TypeOK'
    BY DEF TypeOK, Stage
  <1>2. BrokerRules' /\ RowsTell' /\ Outcome'
    BY QuietReconcile
  <1>3. SessionTells'
    BY DEF TypeOK, SessionTells
  <1>4. ReadsTell'
    BY DEF TypeOK, ReadsTell, Afterwards, Left, SessionTells
  <1> QED BY <1>1, <1>2, <1>3, <1>4

LEMMA PositionsReconcile ==
  ASSUME ReconcileInv, NEW s \in Syncs, NEW ok \in BOOLEAN, GetPositions(s, ok)
  PROVE  ReconcileInv'
  <1> USE DEF ReconcileInv, GetPositions, Reading, Goes, brokerVars, rowVars
  <1>1. TypeOK'
    BY DEF TypeOK, Stage, Answer, With
  <1>2. BrokerRules' /\ RowsTell' /\ Outcome'
    BY QuietReconcile
  <1>3. SessionTells'
    BY DEF TypeOK, SessionTells
  <1>4. ReadsTell'
    BY DEF TypeOK, ReadsTell, Afterwards, Left, Answer, With, Loaded, SessionTells
  <1> QED BY <1>1, <1>2, <1>3, <1>4

LEMMA OrdersReconcile ==
  ASSUME ReconcileInv, NEW s \in Syncs, NEW ok \in BOOLEAN, GetOrders(s, ok)
  PROVE  ReconcileInv'
  <1> USE DEF ReconcileInv, GetOrders, Reading, Goes, brokerVars, rowVars
  <1>1. TypeOK'
    BY DEF TypeOK, Stage, Answer, With
  <1>2. BrokerRules' /\ RowsTell' /\ Outcome'
    BY QuietReconcile
  <1>3. SessionTells'
    BY DEF TypeOK, SessionTells
  <1>4. ReadsTell'
    BY DEF TypeOK, ReadsTell, Afterwards, Left, Answer, With, Loaded
  <1> QED BY <1>1, <1>2, <1>3, <1>4

LEMMA HistoryReconcile ==
  ASSUME ReconcileInv, NEW s \in Syncs, NEW ok \in BOOLEAN, GetHistory(s, ok)
  PROVE  ReconcileInv'
  <1> USE DEF ReconcileInv, GetHistory, Reading, Goes, brokerVars, rowVars
  <1>0. hist' \in [Syncs -> [Tickets -> {"none", "filled", "cancelled", "expired"}]]
        /\ \A u \in Syncs, t \in Tickets :
             \/ u # s /\ hist'[u][t] = hist[u][t]
             \/ u = s /\ hist'[u][t] = IF ok /\ t \in Left(s) THEN History(br[t]) ELSE "none"
    BY DEF TypeOK, History
  <1>1. TypeOK'
    BY <1>0 DEF TypeOK, Stage
  <1>2. BrokerRules' /\ RowsTell' /\ Outcome'
    BY QuietReconcile
  <1>3. SessionTells'
    BY <1>0 DEF TypeOK, SessionTells, History
  <1>4. ReadsTell'
    BY <1>0 DEF TypeOK, ReadsTell, Afterwards, Left
  <1> QED BY <1>1, <1>2, <1>3, <1>4

LEMMA DealsReconcile ==
  ASSUME ReconcileInv, NEW s \in Syncs, NEW ok \in BOOLEAN, GetDeals(s, ok)
  PROVE  ReconcileInv'
  <1> USE DEF ReconcileInv, GetDeals, Reading, Goes, brokerVars, rowVars
  <1>1. TypeOK'
    BY DEF TypeOK, Stage, Answer
  <1>2. BrokerRules' /\ RowsTell' /\ Outcome'
    BY QuietReconcile
  <1>3. SessionTells'
    BY DEF TypeOK, SessionTells, Answer
  <1>4. ReadsTell'
    BY DEF TypeOK, ReadsTell, Afterwards, Left, Answer, BrokerRules
  <1> QED BY <1>1, <1>2, <1>3, <1>4

LEMMA LookupReconcile ==
  ASSUME ReconcileInv, NEW s \in Syncs, Lookup(s)
  PROVE  ReconcileInv'
  <1> USE DEF ReconcileInv, Lookup, Goes, brokerVars, rowVars
  <1>1. TypeOK'
    BY DEF TypeOK, Stage, Nothing
  <1>2. BrokerRules' /\ RowsTell' /\ Outcome'
    BY QuietReconcile
  <1>3. SessionTells'
    BY DEF TypeOK, SessionTells, Nothing, IsOpen
  <1>4. ReadsTell'
    BY DEF TypeOK, ReadsTell, Afterwards, Left, Nothing
  <1> QED BY <1>1, <1>2, <1>3, <1>4

(***************************************************************************)
(* The end of a session, with or without a commit.                         *)
(***************************************************************************)
LEMMA QuitKeepsReads ==
  ASSUME ReconcileInv, NEW s \in Syncs, Quit(s), UNCHANGED brokerVars,
         \A t \in Tickets : status[t] # "none" => status'[t] # "none"
  PROVE  /\ SessionTells' /\ ReadsTell'
         /\ at' \in [Syncs -> Stage]
         /\ open' \in [Syncs -> [Tickets -> {"none", "pending", "filled", "ended"}]]
         /\ poss' \in [Syncs -> SUBSET Tickets]
         /\ ords' \in [Syncs -> SUBSET Tickets]
         /\ hist' \in [Syncs -> [Tickets -> {"none", "filled", "cancelled", "expired"}]]
         /\ deals' \in [Syncs -> SUBSET Tickets]
         /\ missing' \in [Syncs -> SUBSET Tickets]
         /\ still' \in [Syncs -> SUBSET Tickets]
         /\ blind' \in [Syncs -> BOOLEAN]
  <1> USE DEF ReconcileInv, Quit, Goes, Nothing, brokerVars
  <1>1. SessionTells'
    BY DEF TypeOK, SessionTells
  <1>2. ReadsTell'
    BY DEF TypeOK, ReadsTell, Afterwards, Left
  <1> QED BY <1>1, <1>2 DEF TypeOK, Stage

LEMMA AbortReconcile ==
  ASSUME ReconcileInv, NEW s \in Syncs, Abort(s)
  PROVE  ReconcileInv'
  <1> USE DEF ReconcileInv, Abort, brokerVars, rowVars
  <1>1. BrokerRules' /\ RowsTell' /\ Outcome'
    BY QuietReconcile
  <1>2. TypeOK' /\ SessionTells' /\ ReadsTell'
    BY QuitKeepsReads DEF TypeOK
  <1> QED BY <1>1, <1>2

LEMMA BackfillReconcile ==
  ASSUME ReconcileInv, NEW s \in Syncs, Backfill(s)
  PROVE  ReconcileInv'
  <1> USE DEF ReconcileInv
  <1>1. CASE UNCHANGED rowVars
    <2>1. BrokerRules' /\ RowsTell' /\ Outcome'
      BY <1>1, QuietReconcile DEF Backfill
    <2>2. TypeOK' /\ SessionTells' /\ ReadsTell'
      BY <1>1, QuitKeepsReads DEF Backfill, TypeOK, brokerVars, rowVars
    <2> QED BY <2>1, <2>2
  <1>2. CASE /\ \A t \in missing[s] : status[t] = "none"
             /\ status' = [t \in Tickets |-> IF t \in missing[s] THEN "filled" ELSE status[t]]
             /\ closed' = closed \cup missing[s] \cup still[s]
             /\ result' = result \cup missing[s] \cup still[s]
             /\ UNCHANGED misread
    <2>0. UNCHANGED <<br, dealt, unsaved>> /\ Quit(s)
      BY DEF Backfill, brokerVars
    <2>1. \A t \in missing[s] \cup still[s] : t \in Tickets /\ t \in dealt
      BY DEF TypeOK, SessionTells
    <2>2. TypeOK' /\ SessionTells' /\ ReadsTell'
      <3>1. \A t \in Tickets : status[t] # "none" => status'[t] # "none"
        BY <1>2
      <3>2. \A t \in missing[s] \cup still[s] : status'[t] # "none"
        BY <1>2, <2>1 DEF SessionTells, TypeOK
      <3>3. status' \in [Tickets -> RowStatus]
        BY <1>2 DEF TypeOK, RowStatus
      <3>4. SessionTells' /\ ReadsTell'
        BY <2>0, <3>1, QuitKeepsReads DEF brokerVars
      <3>5. closed' \subseteq {t \in Tickets : status'[t] # "none"}
            /\ result' \subseteq closed' /\ misread' \subseteq closed'
        BY <1>2, <2>1, <3>1, <3>2 DEF TypeOK
      <3> QED BY <2>0, <3>1, <3>3, <3>4, <3>5, QuitKeepsReads DEF TypeOK, brokerVars
    <2>3. BrokerRules'
      BY <2>0 DEF BrokerRules
    <2>4. RowsTell'
      BY <1>2, <2>0, <2>1 DEF RowsTell, BrokerRules, TypeOK
    <2>5. Outcome'
      BY <1>2, <2>0, <2>1 DEF Outcome, ClosedIsGone, EndsLikeOrder, ResultKnown, BrokerRules, RowsTell, TypeOK
    <2> QED BY <2>2, <2>3, <2>4, <2>5
  <1> QED BY <1>1, <1>2 DEF Backfill

(***************************************************************************)
(* The verdicts.                                                           *)
(***************************************************************************)
LEMMA CommitReconcile ==
  ASSUME ReconcileInv, NEW s \in Syncs, Commit(s)
  PROVE  ReconcileInv'
  <1> USE DEF ReconcileInv
  <1>0. /\ at[s] = "phase1"
        /\ UNCHANGED <<br, dealt, unsaved>>
        /\ status' = [t \in Tickets |-> Verdict(s, t)]
        /\ closed' = closed \cup Ends(s)
        /\ result' = result \cup Results(s)
        /\ misread' = IF blind[s] THEN misread \cup Ends(s) ELSE misread
    BY DEF Commit, brokerVars
  <1>1. \A t \in Tickets :
          \/ t \notin Left(s) /\ status'[t] = status[t]
          \/ t \in Left(s) /\ hist[s][t] \in {"filled", "cancelled", "expired"}
               /\ status'[t] = hist[s][t]
          \/ t \in Left(s) /\ hist[s][t] = "none" /\ status'[t] = "cancelled"
    BY <1>0 DEF Verdict, TypeOK
  <1>2. status' \in [Tickets -> RowStatus]
    BY <1>0, <1>1 DEF TypeOK, RowStatus
  <1>3. \A t \in Tickets : status[t] # "none" => status'[t] # "none"
    BY <1>1
  <1>4. \A t \in Ends(s) : t \in Tickets /\ status'[t] # "none"
    BY <1>3 DEF Ends, Left, SessionTells
  <1>5. closed' \subseteq {t \in Tickets : status'[t] # "none"}
        /\ result' \subseteq closed' /\ misread' \subseteq closed'
    BY <1>0, <1>3, <1>4 DEF TypeOK, Results
  <1>6. BrokerRules'
    BY <1>0 DEF BrokerRules
  <1>7. RowsTell'
    BY <1>0, <1>1, <1>2 DEF RowsTell, SessionTells, Left, Ends, Filled, TypeOK
  <1>8. \* what a good commit closes
        \A t \in Ends(s) : ~blind[s] =>
          /\ br[t] # "order"
          /\ t \notin Pending => br[t] = "closed" /\ t \in Results(s)
          /\ status'[t] \in {"cancelled", "expired"} =>
               status'[t] = br[t] \/ (t \in closed /\ status'[t] = status[t])
    <2> SUFFICES ASSUME NEW t \in Ends(s), ~blind[s]
                 PROVE  /\ br[t] # "order"
                        /\ t \notin Pending => br[t] = "closed" /\ t \in Results(s)
                        /\ status'[t] \in {"cancelled", "expired"} =>
                             status'[t] = br[t] \/ (t \in closed /\ status'[t] = status[t])
      OBVIOUS
    <2>0. t \in Tickets
      BY <1>4
    <2>1. CASE t \in Left(s)
      <3>1. t \in Pending /\ br[t] # "order" /\ hist[s][t] = History(br[t]) /\ br[t] # "none"
        BY <2>0, <2>1, <1>0 DEF Left, SessionTells, ReadsTell, Afterwards, RowsTell
      <3>2. br[t] \in BrokerState
        BY <2>0 DEF TypeOK
      <3> QED BY <3>1, <3>2, <2>1, <2>0, <1>1 DEF History, BrokerState
    <2>2. CASE t \notin Left(s)
      <3>1. open[s][t] = "filled" /\ t \notin poss[s]
        BY <2>2 DEF Ends
      <3>2. br[t] = "closed" /\ t \in deals[s]
        BY <2>0, <3>1, <1>0 DEF ReadsTell, Afterwards
      <3>3. t \in Results(s)
        BY <3>1, <3>2 DEF Results
      <3>4. status'[t] = status[t] /\ (status[t] \in {"cancelled", "expired"} => t \in closed)
        BY <2>0, <2>2, <1>1 DEF RowsTell
      <3> QED BY <3>2, <3>3, <3>4
    <2> QED BY <2>1, <2>2
  <1>9. \* a row that is not closed here is only upgraded
        \A t \in Tickets \ Ends(s) : status'[t] = status[t] \/ status'[t] = "filled"
    BY <1>1 DEF Ends, Filled
  <1>10. Outcome'
    <2>1. ClosedIsGone'
      BY <1>0, <1>4, <1>8 DEF Outcome, ClosedIsGone, TypeOK
    <2>2. EndsLikeOrder'
      BY <1>0, <1>4, <1>8, <1>9 DEF Outcome, EndsLikeOrder, TypeOK
    <2>3. ResultKnown'
      BY <1>0, <1>4, <1>8 DEF Outcome, ResultKnown, TypeOK
    <2> QED BY <2>1, <2>2, <2>3 DEF Outcome
  <1>11. CASE Quit(s)
    <2>1. SessionTells' /\ ReadsTell'
      BY <1>0, <1>3, <1>11, QuitKeepsReads DEF brokerVars
    <2>2. TypeOK'
      BY <1>0, <1>2, <1>3, <1>5, <1>11, QuitKeepsReads DEF TypeOK, brokerVars
    <2> QED BY <2>1, <2>2, <1>6, <1>7, <1>10
  <1>12. CASE /\ Goes(s, "lookup")
              /\ open' = [open EXCEPT ![s] =
                            [t \in Tickets |-> IF t \in Ends(s) THEN "ended" ELSE @[t]]]
              /\ poss' = [poss EXCEPT ![s] = {}]
              /\ ords' = [ords EXCEPT ![s] = {}]
              /\ hist' = [hist EXCEPT ![s] = Nothing]
              /\ UNCHANGED <<deals, missing, still, blind>>
    <2> USE <1>12 DEF Goes, Nothing
    <2>1. open' \in [Syncs -> [Tickets -> {"none", "pending", "filled", "ended"}]]
          /\ \A u \in Syncs, t \in Tickets :
               \/ open'[u][t] = open[u][t]
               \/ u = s /\ t \in Ends(s) /\ open'[u][t] = "ended"
      BY DEF TypeOK
    <2>2. hist' \in [Syncs -> [Tickets -> {"none", "filled", "cancelled", "expired"}]]
          /\ \A u \in Syncs, t \in Tickets :
               hist'[u][t] = hist[u][t] \/ hist'[u][t] = "none"
      BY DEF TypeOK
    <2>3. TypeOK'
      BY <1>0, <1>2, <1>5, <2>1, <2>2 DEF TypeOK, Stage
    <2>4. SessionTells'
      <3>1. \A u \in Syncs : at'[u] = "idle" => u # s /\ at[u] = "idle"
        BY DEF TypeOK
      <3>2. \A u \in Syncs, t \in Tickets : u # s => open'[u][t] = open[u][t]
        BY DEF TypeOK
      <3>3. UNCHANGED <<br, dealt, deals, missing, still>>
        BY <1>0
      <3> HIDE <1>12 DEF Goes, Nothing
      <3> QED BY <1>3, <1>4, <2>1, <2>2, <3>1, <3>2, <3>3 DEF SessionTells
    <2>5. ReadsTell'
      BY <1>0 DEF ReadsTell, Afterwards, Left, TypeOK
    <2> QED BY <2>3, <2>4, <2>5, <1>6, <1>7, <1>10
  <1> QED BY <1>11, <1>12 DEF Commit

-----------------------------------------------------------------------------
(***************************************************************************)
(* The invariant, and the properties it gives.                             *)
(***************************************************************************)
LEMMA FetchReconcile ==
  ASSUME ReconcileInv, NEW s \in Syncs, NEW ok \in BOOLEAN, Fetch(s, ok)
  PROVE  ReconcileInv'
  BY PositionsReconcile, OrdersReconcile, HistoryReconcile, DealsReconcile DEF Fetch

LEMMA NextReconcile ==
  ASSUME ReconcileInv, [Next]_vars
  PROVE  ReconcileInv'
  <1>1. CASE UNCHANGED vars
    BY <1>1, StutterReconcile
  <1>2. CASE \E t \in Tickets : BrokerActs(t) \/ StoreRow(t)
    BY <1>2, PlaceReconcile, FillReconcile, WithdrawReconcile, DealReconcile,
       PersistReconcile DEF BrokerActs
  <1>3. CASE \E s \in Syncs : Sync(s)
    <2>1. PICK s \in Syncs : Sync(s)
      BY <1>3
    <2>2. CASE \E ok \in Reads : Fetch(s, ok)
      <3>1. Reads \subseteq BOOLEAN
        BY DEF Reads
      <3> QED BY <2>2, <3>1, FetchReconcile
    <2>3. CASE Load(s) \/ BeginHistory(s)
      BY <2>3, LoadReconcile, BeginHistoryReconcile
    <2>4. CASE Commit(s)
      BY <2>4, CommitReconcile
    <2>5. CASE Lookup(s)
      BY <2>5, LookupReconcile
    <2>6. CASE Backfill(s)
      BY <2>6, BackfillReconcile
    <2>7. CASE Abort(s)
      BY <2>7, AbortReconcile
    <2> QED BY <2>1, <2>2, <2>3, <2>4, <2>5, <2>6, <2>7 DEF Sync
  <1> QED BY <1>1, <1>2, <1>3 DEF Next

LEMMA AlwaysReconcileInv == Spec => []ReconcileInv
  BY InitReconcile, NextReconcile, PTL DEF Spec

\* The table, the broker and the sessions always hold values the code can
\* give them.
THEOREM ReconcileTypesCorrect == Spec => []TypeOK
  <1>1. ReconcileInv => TypeOK BY DEF ReconcileInv
  <1> QED BY <1>1, AlwaysReconcileInv, PTL

\* No synchronisation, at any moment and next to any others, closes a row
\* whose order is active or whose market position is open (_sync.py, phase 1).
THEOREM ClosedRowsAreGone == Spec => []ClosedIsGone
  <1>1. ReconcileInv => ClosedIsGone BY DEF ReconcileInv, Outcome
  <1> QED BY <1>1, AlwaysReconcileInv, PTL

\* A row that says cancelled or expired tells how its order ended.
THEOREM RowsEndLikeOrders == Spec => []EndsLikeOrder
  <1>1. ReconcileInv => EndsLikeOrder BY DEF ReconcileInv, Outcome
  <1> QED BY <1>1, AlwaysReconcileInv, PTL

\* A closed row of a market position has its profit, so the later
\* synchronisations may skip it (history_sync.py, sync_deals_to_db).
THEOREM ResultsAreKnown == Spec => []ClosedHasResult
  <1>1. ReconcileInv => ClosedHasResult
    BY DEF ReconcileInv, Outcome, ResultKnown, ClosedHasResult
  <1> QED BY <1>1, AlwaysReconcileInv, PTL
=============================================================================

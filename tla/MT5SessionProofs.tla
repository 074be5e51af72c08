-------------------------- MODULE MT5SessionProofs --------------------------
(***************************************************************************)
(* Proofs about the warm MT5 session, for any number of accounts, callers, *)
(* pollers and symbols, and whichever tasks may be cancelled.              *)
(***************************************************************************)
EXTENDS MT5Session, TLAPS

(***************************************************************************)
(* The inductive invariant.  LockHeldByUser and BurstOnOwnAccount are not  *)
(* inductive alone: that a burst finds its own login depends on the record *)
(* _live being right, or the login lost, whenever it is warm, and this on  *)
(* the record not being warm while a login is in flight.                   *)
(***************************************************************************)
PinningIsEntering ==
  \A t \in Tasks :
    pinning[t] => t \in Pollers /\ pc[t] \in {"wait", "swap", "conn", "err"}

RoleOK == \A t \in Tasks : pc[t] \in PollerOnly => t \in Pollers

RecordOK == Warm => terminal \in {live.key, NoAccount}

EnteringOK ==
  \A t \in Tasks :
    /\ pc[t] = "swap" => live.pins = 0
    /\ pc[t] \in {"conn", "err"} => ~Warm
    /\ pc[t] = "use" => Warm /\ live.key = acct[t]

IInv ==
  /\ TypeOK
  /\ LockHeldByUser
  /\ PinningIsEntering
  /\ RoleOK
  /\ RecordOK
  /\ EnteringOK
  /\ ReaperWatches

\* Only tasks are cancelled.
LEMMA CancelsAreTasks == \A t \in Cancellable : Cancel(t) => t \in Tasks
  BY ConstantsAssumption

LEMMA InitInv == Init => IInv
  <1> SUFFICES ASSUME Init PROVE IInv
    OBVIOUS
  <1>1. TypeOK
    BY DEF Init, TypeOK, NoSession, Session, Stage
  <1>2. \A t \in Tasks : pc[t] = "idle" /\ lock # t /\ ~pinning[t]
    BY ConstantsAssumption DEF Init
  <1>3. ~Held
    BY DEF Init, NoSession, Held
  <1> QED
    BY <1>1, <1>2, <1>3
    DEF IInv, LockHeldByUser, PinningIsEntering, RoleOK, RecordOK, EnteringOK,
        ReaperWatches, Warm, Critical, PollerOnly

\* What the actions do to the record leaves it well-formed.
LEMMA SessionUpdates ==
  ASSUME live \in Session
  PROVE  /\ Touched \in Session
         /\ NoSession \in Session
         /\ \A a \in Accounts, n \in {0, 1} : Fresh(a, n) \in Session
         /\ [Touched EXCEPT !.pins = @ + 1] \in Session
         /\ live.pins > 0 => [live EXCEPT !.pins = @ - 1] \in Session
         /\ [live EXCEPT !.connected = FALSE] \in Session
         /\ [live EXCEPT !.idle = TRUE] \in Session
  <1> USE DEF Session
  <1>1. Touched \in Session BY DEF Touched
  <1>2. NoSession \in Session BY DEF NoSession
  <1>3. \A a \in Accounts, n \in {0, 1} : Fresh(a, n) \in Session BY DEF Fresh
  <1>4. [Touched EXCEPT !.pins = @ + 1] \in Session BY <1>1
  <1>5. live.pins > 0 => [live EXCEPT !.pins = @ - 1] \in Session OBVIOUS
  <1>6. [live EXCEPT !.connected = FALSE] \in Session OBVIOUS
  <1>7. [live EXCEPT !.idle = TRUE] \in Session OBVIOUS
  <1> QED BY <1>1, <1>2, <1>3, <1>4, <1>5, <1>6, <1>7

\* Every action keeps the types.
LEMMA TypeStep == TypeOK /\ [Next]_vars => TypeOK'
  <1> SUFFICES ASSUME TypeOK, [Next]_vars PROVE TypeOK'
    OBVIOUS
  <1> USE SessionUpdates
  <1> USE ConstantsAssumption DEF TypeOK, Stage, Critical, PollerOnly, Goto, Tasks
  <1>1. ASSUME NEW c \in Callers, NEW a \in Accounts, StartBurst(c, a)
        PROVE TypeOK'
    BY <1>1 DEF StartBurst
  <1>2. ASSUME NEW p \in Pollers, NEW a \in Accounts, StartPoller(p, a)
        PROVE TypeOK'
    BY <1>2 DEF StartPoller
  <1>3. ASSUME NEW t \in Tasks, Enter(t) PROVE TypeOK'
    <2>1. CASE Reuse(t)
      <3>1. live' \in Session BY <2>1 DEF Reuse
      <3>2. lock' \in Tasks \cup {NoTask, Orphan} BY <2>1 DEF Reuse
      <3>3. pc' \in [Tasks -> Stage] BY <2>1 DEF Reuse
      <3> QED BY <2>1, <3>1, <3>2, <3>3 DEF Reuse
    <2>2. CASE Busy(t) BY <2>2 DEF Busy, Failed
    <2>3. CASE BeginSwap(t) BY <2>3 DEF BeginSwap
    <2>4. CASE BeginConnect(t) BY <2>4 DEF BeginConnect
    <2>5. CASE FinishSwap(t) BY <2>5 DEF FinishSwap
    <2>6. CASE ConnectOk(t)
      <3>1. live' \in Session BY <2>6 DEF ConnectOk
      <3>2. lock' \in Tasks \cup {NoTask, Orphan} BY <2>6 DEF ConnectOk
      <3>3. pc' \in [Tasks -> Stage] BY <2>6 DEF ConnectOk
      <3> QED BY <2>6, <3>1, <3>2, <3>3 DEF ConnectOk
    <2>7. CASE ConnectRefused(t) BY <2>7 DEF ConnectRefused
    <2>8. CASE RaiseRefused(t) BY <2>8 DEF RaiseRefused, Failed
    <2> QED BY <1>3, <2>1, <2>2, <2>3, <2>4, <2>5, <2>6, <2>7, <2>8 DEF Enter
  <1>4. ASSUME NEW t \in Tasks, LeaveBurst(t) PROVE TypeOK'
    <2>1. live' \in Session BY <1>4 DEF LeaveBurst
    <2>2. pc' \in [Tasks -> Stage] BY <1>4 DEF LeaveBurst
    <2> QED BY <1>4, <2>1, <2>2 DEF LeaveBurst
  <1>5. ASSUME NEW t \in Tasks, Cancel(t) PROVE TypeOK'
    <2>1. CASE CancelOutside(t) BY <2>1 DEF CancelOutside, Cancelled
    <2>2. CASE CancelUnprotected(t) BY <2>2 DEF CancelUnprotected
    <2>3. CASE CancelUse(t) BY <2>3 DEF CancelUse, Cancelled
    <2>4. CASE CancelEntering(t) BY <2>4 DEF CancelEntering, Cancelled
    <2> QED BY <1>5, <2>1, <2>2, <2>3, <2>4 DEF Cancel
  <1>6. ASSUME NEW t \in Tasks, NEW s \in Symbols, ResolveSymbol(t, s)
        PROVE TypeOK'
    BY <1>6 DEF ResolveSymbol
  <1>7. ASSUME NEW p \in Pollers, Poll(p) PROVE TypeOK'
    <2>1. CASE Repin(p) BY <2>1 DEF Repin
    <2>2. CASE WarmUp(p) BY <2>2 DEF WarmUp
    <2>3. CASE Heartbeat(p) BY <2>3 DEF Heartbeat
    <2>4. CASE Invalidate(p) BY <2>4 DEF Invalidate
    <2>5. CASE Unpin(p)
      <3>1. live' \in Session BY <2>5 DEF Unpin
      <3>2. pc' \in [Tasks -> Stage] BY <2>5 DEF Unpin
      <3> QED BY <2>5, <3>1, <3>2 DEF Unpin
    <2> QED BY <1>7, <2>1, <2>2, <2>3, <2>4, <2>5 DEF Poll
  <1>8. CASE TimePasses BY <1>8 DEF TimePasses
  <1>9. CASE ReaperTick BY <1>9 DEF ReaperTick
  <1>10. CASE BeginShutdown BY <1>10 DEF BeginShutdown
  <1>11. CASE ForceShutdown BY <1>11 DEF ForceShutdown
  <1>12. CASE UNCHANGED vars BY <1>12 DEF vars
  <1> QED
    BY <1>1, <1>2, <1>3, <1>4, <1>5, <1>6, <1>7, <1>8, <1>9, <1>10, <1>11, <1>12, CancelsAreTasks
    DEF Next

\* Every action keeps the inductive invariant.
LEMMA InvStep == IInv /\ [Next]_vars => IInv'
  <1> SUFFICES ASSUME IInv, [Next]_vars PROVE IInv'
    OBVIOUS
  <1>0. TypeOK'
    BY TypeStep DEF IInv
  <1> USE ConstantsAssumption, <1>0
      DEF IInv, LockHeldByUser, PinningIsEntering, RoleOK, RecordOK, EnteringOK,
          ReaperWatches, TypeOK, Session, Stage, Critical, PollerOnly, Goto,
          Tasks, Warm, Held
  <1>1. ASSUME NEW c \in Callers, NEW a \in Accounts, StartBurst(c, a)
        PROVE IInv'
    BY <1>1 DEF StartBurst
  <1>2. ASSUME NEW p \in Pollers, NEW a \in Accounts, StartPoller(p, a)
        PROVE IInv'
    BY <1>2 DEF StartPoller
  <1>3. ASSUME NEW t \in Tasks, Enter(t) PROVE IInv'
    <2>1. CASE Reuse(t)
      <3>1. /\ live'.key = live.key
            /\ live'.connected = live.connected
        <4>1. Touched \in Session /\ Touched.key = live.key
                /\ Touched.connected = live.connected
          BY SessionUpdates DEF Touched
        <4>2. live' = Touched \/ live' = [Touched EXCEPT !.pins = @ + 1]
          BY <2>1 DEF Reuse
        <4> QED BY <4>1, <4>2
      <3>2. CASE pinning[t] BY <2>1, <3>1, <3>2 DEF Reuse, AtLock
      <3>3. CASE ~pinning[t] BY <2>1, <3>1, <3>3 DEF Reuse, AtLock
      <3> QED BY <3>2, <3>3
    <2>2. CASE Busy(t) BY <2>2 DEF Busy, AtLock, Failed
    <2>3. CASE BeginSwap(t) BY <2>3 DEF BeginSwap, AtLock
    <2>4. CASE BeginConnect(t) BY <2>4 DEF BeginConnect, AtLock
    <2>5. CASE FinishSwap(t) BY <2>5 DEF FinishSwap, NoSession
    <2>6. CASE ConnectOk(t)
      <3>1. CASE pinning[t] BY <2>6, <3>1 DEF ConnectOk, Fresh
      <3>2. CASE ~pinning[t] BY <2>6, <3>2 DEF ConnectOk, Fresh
      <3> QED BY <3>1, <3>2
    <2>7. CASE ConnectRefused(t) BY <2>7 DEF ConnectRefused
    <2>8. CASE RaiseRefused(t) BY <2>8 DEF RaiseRefused, Failed
    <2> QED BY <1>3, <2>1, <2>2, <2>3, <2>4, <2>5, <2>6, <2>7, <2>8 DEF Enter
  <1>4. ASSUME NEW t \in Tasks, LeaveBurst(t) PROVE IInv'
    BY <1>4 DEF LeaveBurst, Touched
  <1>5. ASSUME NEW t \in Tasks, Cancel(t) PROVE IInv'
    <2>1. CASE CancelOutside(t) BY <2>1 DEF CancelOutside, Cancelled, InTry
    <2>2. CASE CancelUnprotected(t) BY <2>2 DEF CancelUnprotected
    <2>3. CASE CancelUse(t) BY <2>3 DEF CancelUse, Cancelled, Touched, InTry
    <2>4. CASE CancelEntering(t) BY <2>4 DEF CancelEntering, Cancelled, InTry
    <2> QED BY <1>5, <2>1, <2>2, <2>3, <2>4 DEF Cancel
  <1>6. ASSUME NEW t \in Tasks, NEW s \in Symbols, ResolveSymbol(t, s)
        PROVE IInv'
    BY <1>6 DEF ResolveSymbol
  <1>7. ASSUME NEW p \in Pollers, Poll(p) PROVE IInv'
    <2>1. CASE Repin(p) BY <2>1 DEF Repin
    <2>2. CASE WarmUp(p) BY <2>2 DEF WarmUp
    <2>3. CASE Heartbeat(p) BY <2>3 DEF Heartbeat
    <2>4. CASE Invalidate(p) BY <2>4 DEF Invalidate
    <2>5. CASE Unpin(p)
      <3>1. /\ live'.key = live.key
            /\ live'.connected = live.connected
            /\ live.pins = 0 => live'.pins = 0
        BY <2>5 DEF Unpin
      <3> QED BY <2>5, <3>1 DEF Unpin
    <2> QED BY <1>7, <2>1, <2>2, <2>3, <2>4, <2>5 DEF Poll
  <1>8. CASE TimePasses BY <1>8 DEF TimePasses
  <1>9. CASE ReaperTick BY <1>9 DEF ReaperTick, NoSession
  <1>10. CASE BeginShutdown BY <1>10 DEF BeginShutdown
  <1>11. CASE ForceShutdown BY <1>11 DEF ForceShutdown, NoSession
  <1>12. CASE UNCHANGED vars BY <1>12 DEF vars
  <1> QED
    BY <1>1, <1>2, <1>3, <1>4, <1>5, <1>6, <1>7, <1>8, <1>9, <1>10, <1>11, <1>12, CancelsAreTasks
    DEF Next

\* The inductive invariant holds of every reachable state.
THEOREM Invariance == Spec => []IInv
  BY InitInv, InvStep, PTL DEF Spec

\* Every variable always holds a value the code can give it.
THEOREM TypeCorrect == Spec => []TypeOK
  BY Invariance, PTL DEF IInv

\* _MT5_LOCK excludes: one task at a time between taking and releasing it.
THEOREM MutualExclusion == Spec => []LockHeldByUser
  BY Invariance, PTL DEF IInv

\* A burst never runs on another account's login, whatever was cancelled.
THEOREM OwnAccount == Spec => []BurstOnOwnAccount
  <1>1. IInv => BurstOnOwnAccount
    BY DEF IInv, EnteringOK, RecordOK, BurstOnOwnAccount, Warm
  <1> QED
    BY <1>1, Invariance, PTL

\* Every session has a reaper.
THEOREM SessionWatched == Spec => []ReaperWatches
  BY Invariance, PTL DEF IInv

\* A pinned connected session keeps its account until the shutdown.
THEOREM PinKeepsAccount == Spec => PinPreventsSwap
  <1> DEFINE Keeps == Warm /\ live.pins > 0 /\ app' = app => live'.key = live.key
  <1>1. IInv /\ [Next]_vars => Keeps
    <2> SUFFICES ASSUME IInv, [Next]_vars, Warm, live.pins > 0, app' = app
                 PROVE live'.key = live.key
      OBVIOUS
    <2> USE DEF IInv, TypeOK, EnteringOK
    <2>1. CASE live' = live
      BY <2>1
    <2>2. ASSUME NEW t \in Tasks, Enter(t) PROVE live'.key = live.key
      <3>1. CASE Reuse(t) BY <2>2, <3>1, SessionUpdates DEF Reuse, Touched, Session
      <3>2. CASE FinishSwap(t) BY <2>2, <3>2 DEF FinishSwap
      <3>3. CASE ConnectOk(t) BY <2>2, <3>3 DEF ConnectOk
      <3> QED BY <2>1, <2>2, <3>1, <3>2, <3>3
              DEF Enter, Busy, BeginSwap, BeginConnect, ConnectRefused, RaiseRefused
    <2>3. ASSUME NEW t \in Tasks, LeaveBurst(t) \/ Cancel(t)
          PROVE live'.key = live.key
      BY <2>3 DEF LeaveBurst, Cancel, CancelOutside, CancelUnprotected, CancelUse,
                  CancelEntering, Touched, Session
    <2>4. ASSUME NEW p \in Pollers, Poll(p) PROVE live'.key = live.key
      BY <2>4 DEF Poll, Repin, WarmUp, Heartbeat, Invalidate, Unpin, Session
    <2>5. CASE TimePasses \/ ReaperTick
      BY <2>5 DEF TimePasses, ReaperTick, Session
    <2>6. CASE BeginShutdown \/ ForceShutdown
      BY <2>6 DEF BeginShutdown, ForceShutdown
    <2> QED
      BY <2>1, <2>2, <2>3, <2>4, <2>5, <2>6, CancelsAreTasks
      DEF Next, vars, StartBurst, StartPoller, ResolveSymbol
  <1>2. IInv /\ [Next]_vars => [Keeps]_vars
    BY <1>1
  <1> QED
    BY <1>2, Invariance, PTL DEF Spec, PinPreventsSwap

-----------------------------------------------------------------------------
(***************************************************************************)
(* The session implements the lease.                                       *)
(***************************************************************************)

Leased == {<<t, acct[t]>> : t \in InUse}

LEMMA LeaseInit == Init => Lease!Init
  BY DEF Init, Lease!Init, InUse

\* A task in use is the one that holds the lock.
LEMMA UserHoldsLock ==
  ASSUME IInv
  PROVE  InUse = IF lock \in Tasks /\ pc[lock] = "use" THEN {lock} ELSE {}
  BY ConstantsAssumption DEF IInv, LockHeldByUser, InUse, Critical

\* A change of the login while nobody is in use, before or after.
LEMMA ReloginStep ==
  ASSUME TypeOK', InUse = {}, InUse' = {}
  PROVE  [Lease!Next]_<<terminal, Leased>>
  <1>1. Leased = {} /\ Leased' = {}
    BY DEF Leased
  <1>2. terminal' \in Accounts \cup {NoAccount}
    BY DEF TypeOK
  <1>3. Lease!Relogin(terminal')
    BY <1>1 DEF Lease!Relogin, Leased
  <1> QED
    BY <1>2, <1>3 DEF Lease!Next

\* A burst begins: task t alone is in use afterwards, on its own account.
LEMMA BeginStep ==
  ASSUME NEW t \in Tasks, TypeOK, InUse = {}, InUse' = {t}, acct' = acct,
         terminal' \in {terminal, acct[t]}, terminal' \in {acct[t], NoAccount}
  PROVE  [Lease!Next]_<<terminal, Leased>>
  <1>1. Leased = {} /\ Leased' = {<<t, acct[t]>>}
    BY DEF Leased
  <1>2. acct[t] \in Accounts
    BY DEF TypeOK
  <1>3. \E u \in Tasks, a \in Accounts : Lease!Begin(u, a)
    BY <1>1, <1>2 DEF Lease!Begin, Leased
  <1> QED
    BY <1>3 DEF Lease!Next

\* A burst ends: nobody is in use afterwards, and the login is untouched.
LEMMA EndStep ==
  ASSUME InUse # {}, InUse' = {}, terminal' = terminal
  PROVE  [Lease!Next]_<<terminal, Leased>>
  <1>1. Leased # {} /\ Leased' = {}
    BY DEF Leased
  <1>2. Lease!End
    BY <1>1 DEF Lease!End, Leased
  <1> QED
    BY <1>2 DEF Lease!Next

\* The steps of tasks that are not in use, before or after.
LEMMA IdleStep ==
  ASSUME InUse' = InUse, terminal' = terminal,
         \A t \in InUse : acct'[t] = acct[t]
  PROVE  [Lease!Next]_<<terminal, Leased>>
  BY DEF Leased

\* Every step of the session is a step of the lease or a stutter.
LEMMA LeaseStep ==
  ASSUME IInv, IInv', [Next]_vars
  PROVE  [Lease!Next]_<<terminal, Leased>>
  <1> USE ConstantsAssumption DEF Goto
  <1>t. TypeOK /\ TypeOK'
    BY DEF IInv
  <1>f. lock = NoTask => InUse = {}
    BY UserHoldsLock
  <1>1. ASSUME NEW c \in Tasks, NEW a \in Accounts,
               StartBurst(c, a) \/ StartPoller(c, a)
        PROVE [Lease!Next]_<<terminal, Leased>>
    <2>1. InUse' = InUse
      BY <1>1, <1>t DEF StartBurst, StartPoller, TypeOK, InUse
    <2>2. terminal' = terminal /\ \A t \in InUse : acct'[t] = acct[t]
      BY <1>1, <1>t DEF StartBurst, StartPoller, TypeOK, InUse
    <2> QED BY <2>1, <2>2, IdleStep
  <1>2. ASSUME NEW t \in Tasks, Enter(t)
        PROVE [Lease!Next]_<<terminal, Leased>>
    <2>1. CASE Reuse(t)
      <3>1. InUse = {}
        BY <1>f, <2>1 DEF Reuse, AtLock
      <3>2. CASE pinning[t]
        BY <2>1, <3>1, <3>2, <1>t, IdleStep DEF Reuse, InUse, TypeOK
      <3>3. CASE ~pinning[t]
        <4>1. InUse' = {t}
          BY <2>1, <3>1, <3>3, <1>t DEF Reuse, InUse, TypeOK
        <4>2. terminal' = terminal /\ terminal \in {acct[t], NoAccount} /\ acct' = acct
          BY <2>1 DEF Reuse, IInv, RecordOK, Warm
        <4> QED BY <3>1, <4>1, <4>2, <1>t, BeginStep
      <3> QED BY <3>2, <3>3
    <2>2. CASE Busy(t) \/ BeginSwap(t) \/ BeginConnect(t) \/ RaiseRefused(t)
      <3>1. terminal' = terminal /\ acct' = acct
        BY <2>2 DEF Busy, BeginSwap, BeginConnect, RaiseRefused
      <3>2. InUse' = InUse
        BY <2>2, <1>t DEF Busy, BeginSwap, BeginConnect, RaiseRefused, AtLock, InUse,
                          TypeOK, Failed
      <3> QED BY <3>1, <3>2, IdleStep
    <2>3. CASE FinishSwap(t) \/ ConnectRefused(t) \/ ConnectOk(t)
      <3>1. InUse = {}
        BY <2>3, UserHoldsLock
        DEF FinishSwap, ConnectRefused, ConnectOk, IInv, LockHeldByUser, Critical
      <3>2. CASE FinishSwap(t) \/ ConnectRefused(t) \/ pinning[t]
        <4>1. InUse' = {}
          BY <2>3, <3>1, <3>2, <1>t DEF FinishSwap, ConnectRefused, ConnectOk, InUse, TypeOK
        <4> QED BY <3>1, <4>1, <1>t, ReloginStep
      <3>3. CASE ConnectOk(t) /\ ~pinning[t]
        <4>1. InUse' = {t}
          BY <3>1, <3>3, <1>t DEF ConnectOk, InUse, TypeOK
        <4>2. terminal' = acct[t] /\ acct' = acct
          BY <3>3 DEF ConnectOk
        <4> QED BY <3>1, <4>1, <4>2, <1>t, BeginStep
      <3> QED BY <2>3, <3>2, <3>3
    <2> QED BY <1>2, <2>1, <2>2, <2>3 DEF Enter
  <1>3. ASSUME NEW t \in Tasks, LeaveBurst(t) \/ CancelUse(t)
        PROVE [Lease!Next]_<<terminal, Leased>>
    <2>1. InUse = {t}
      BY <1>3, UserHoldsLock DEF LeaveBurst, CancelUse, IInv, LockHeldByUser, Critical
    <2>2. InUse' = {}
      BY <1>3, <2>1, <1>t DEF LeaveBurst, CancelUse, Cancelled, InUse, TypeOK
    <2>3. terminal' = terminal
      BY <1>3 DEF LeaveBurst, CancelUse
    <2> QED BY <2>1, <2>2, <2>3, EndStep
  <1>4. ASSUME NEW t \in Tasks, CancelOutside(t) \/ CancelUnprotected(t)
        PROVE [Lease!Next]_<<terminal, Leased>>
    <2>1. InUse' = InUse
      BY <1>4, <1>t DEF CancelOutside, CancelUnprotected, Cancelled, InUse, TypeOK
    <2> QED BY <1>4, <2>1, IdleStep DEF CancelOutside, CancelUnprotected
  <1>5. ASSUME NEW t \in Tasks, CancelEntering(t)
        PROVE [Lease!Next]_<<terminal, Leased>>
    <2>1. InUse = {}
      BY <1>5, UserHoldsLock DEF CancelEntering, IInv, LockHeldByUser, Critical
    <2>2. InUse' = {}
      BY <1>5, <2>1, <1>t DEF CancelEntering, Cancelled, InUse, TypeOK
    <2> QED BY <2>1, <2>2, <1>t, ReloginStep
  <1>6. ASSUME NEW p \in Pollers, Poll(p)
        PROVE [Lease!Next]_<<terminal, Leased>>
    <2>1. terminal' = terminal /\ acct' = acct
      BY <1>6 DEF Poll, Repin, WarmUp, Heartbeat, Invalidate, Unpin
    <2>2. InUse' = InUse
      BY <1>6, <1>t DEF Poll, Repin, WarmUp, Heartbeat, Invalidate, Unpin, InUse,
                        TypeOK, Tasks
    <2> QED BY <2>1, <2>2, IdleStep
  <1>7. CASE ReaperTick \/ ForceShutdown
    <2>1. InUse = {} /\ InUse' = {}
      BY <1>7, <1>f DEF ReaperTick, ForceShutdown, InUse
    <2> QED BY <2>1, <1>t, ReloginStep
  <1>8. CASE UNCHANGED <<terminal, pc, acct>>
    BY <1>8, IdleStep DEF InUse
  <1> QED
    BY <1>1, <1>2, <1>3, <1>4, <1>5, <1>6, <1>7, <1>8, CancelsAreTasks
    DEF Next, vars, Cancel, ResolveSymbol, TimePasses, BeginShutdown, Tasks

\* The session implements the lease, whoever is cancelled.
THEOREM SessionImplementsLease == Spec => ImplementsLease
  <1>1. Init => Lease!Init
    BY LeaseInit
  <1>2. IInv /\ IInv' /\ [Next]_vars => [Lease!Next]_<<terminal, Leased>>
    BY LeaseStep
  <1> QED
    BY <1>1, <1>2, Invariance, PTL DEF Spec, ImplementsLease, Lease!Spec, Leased

-----------------------------------------------------------------------------
(***************************************************************************)
(* With one poller task, the poller keeps the session it pinned.           *)
(***************************************************************************)

\* While poller p is pinned its session is not being swapped or connected by
\* anybody, so it stays warm, on its account and pinned.
THEOREM OnePollerKeepsSession ==
  ASSUME \A p, q \in Pollers : p = q
  PROVE  Spec => []PollerKeepsSession
  <1>1. Init => PollerKeepsSession
    BY DEF Init, PollerKeepsSession, Pinned, Tasks, Critical
  <1>2. IInv /\ PollerKeepsSession /\ [Next]_vars => PollerKeepsSession'
    <2> SUFFICES ASSUME IInv, PollerKeepsSession, [Next]_vars,
                        NEW p \in Pollers, Pinned(p)', app' # "down"
                 PROVE  (Warm /\ live.key = acct[p] /\ live.pins > 0)'
      BY DEF PollerKeepsSession
    <2> USE ConstantsAssumption
        DEF IInv, TypeOK, EnteringOK, LockHeldByUser, RoleOK, PinningIsEntering,
            PollerKeepsSession, Pinned, Warm, Held, Critical, PollerOnly, Goto, Tasks
    <2> DEFINE Goal == (Warm /\ live.key = acct[p] /\ live.pins > 0)'
    <2>1. ASSUME NEW c \in Callers, NEW a \in Accounts, StartBurst(c, a) PROVE Goal
      BY <2>1 DEF StartBurst
    <2>2. ASSUME NEW q \in Pollers, NEW a \in Accounts, StartPoller(q, a) PROVE Goal
      BY <2>2 DEF StartPoller
    <2>3. ASSUME NEW t \in Tasks, Enter(t) PROVE Goal
      <3>1. CASE Reuse(t)
        <4>1. /\ Touched \in Session
              /\ Touched.key = live.key
              /\ Touched.connected = live.connected
              /\ Touched.pins = live.pins
          BY SessionUpdates DEF Touched
        <4>2. CASE pinning[t]
          <5>1. live' = [Touched EXCEPT !.pins = @ + 1]
            BY <3>1, <4>2 DEF Reuse
          <5>2. /\ live'.key = live.key
                /\ live'.connected = live.connected
                /\ live'.pins = live.pins + 1
            BY <4>1, <5>1 DEF Session
          <5>3. live.pins \in Nat
            BY DEF Session
          <5>4. Warm' /\ live'.pins > 0
            BY <3>1, <5>2, <5>3 DEF Reuse
          <5> QED BY <3>1, <4>2, <5>2, <5>4 DEF Reuse, AtLock
        <4>3. CASE ~pinning[t]
          <5>1. live' = Touched /\ acct' = acct /\ app' = app /\ Warm
            BY <3>1, <4>3 DEF Reuse
          <5>2. Pinned(p)
            BY <3>1, <4>3 DEF Reuse, AtLock
          <5> QED BY <4>1, <5>1, <5>2
        <4> QED BY <4>2, <4>3
      <3>2. CASE Busy(t) BY <3>2 DEF Busy, AtLock, Failed
      <3>3. CASE BeginSwap(t) BY <3>3 DEF BeginSwap, AtLock
      <3>4. CASE BeginConnect(t) BY <3>4 DEF BeginConnect, AtLock
      <3>5. CASE FinishSwap(t) BY <3>5 DEF FinishSwap
      <3>6. CASE ConnectOk(t)
        <4>1. CASE t = p
          <5>1. pinning[t] => live' = Fresh(acct[t], 1)
            BY <3>6 DEF ConnectOk
          <5>2. ~pinning[t] => Pinned(p) /\ app # "down" /\ ~Warm
            BY <3>6, <4>1 DEF ConnectOk
          <5>3. pinning[t]
            BY <5>2 DEF Pinned
          <5> QED BY <3>6, <4>1, <5>1, <5>3 DEF ConnectOk, Fresh
        <4>2. CASE t # p
          <5>1. ~Warm
            BY <3>6 DEF ConnectOk
          <5>2. Pinned(p) /\ app # "down"
            BY <3>6, <4>2 DEF ConnectOk
          <5> QED BY <5>1, <5>2
        <4> QED BY <4>1, <4>2
      <3>7. CASE ConnectRefused(t) BY <3>7 DEF ConnectRefused
      <3>8. CASE RaiseRefused(t) BY <3>8 DEF RaiseRefused, Failed
      <3> QED BY <2>3, <3>1, <3>2, <3>3, <3>4, <3>5, <3>6, <3>7, <3>8 DEF Enter
    <2>4. ASSUME NEW t \in Tasks, LeaveBurst(t) PROVE Goal
      BY <2>4 DEF LeaveBurst, Touched, Session
    <2>5. ASSUME NEW t \in Tasks, Cancel(t) PROVE Goal
      <3>1. CASE CancelOutside(t) BY <3>1 DEF CancelOutside, Cancelled, InTry
      <3>2. CASE CancelUnprotected(t) BY <3>2 DEF CancelUnprotected
      <3>3. CASE CancelUse(t) BY <3>3 DEF CancelUse, Cancelled, InTry, Touched, Session
      <3>4. CASE CancelEntering(t) BY <3>4 DEF CancelEntering, Cancelled, InTry
      <3> QED BY <2>5, <3>1, <3>2, <3>3, <3>4 DEF Cancel
    <2>6. ASSUME NEW t \in Tasks, NEW s \in Symbols, ResolveSymbol(t, s) PROVE Goal
      BY <2>6 DEF ResolveSymbol
    <2>7. ASSUME NEW q \in Pollers, Poll(q) PROVE Goal
      <3>0. q = p OBVIOUS
      <3>1. CASE Repin(q) BY <3>0, <3>1 DEF Repin
      <3>2. CASE WarmUp(q) BY <3>0, <3>2 DEF WarmUp
      <3>3. CASE Heartbeat(q) BY <3>0, <3>3 DEF Heartbeat
      <3>4. CASE Invalidate(q) BY <3>0, <3>4 DEF Invalidate
      <3>5. CASE Unpin(q) BY <3>0, <3>5 DEF Unpin
      <3> QED BY <2>7, <3>1, <3>2, <3>3, <3>4, <3>5 DEF Poll
    <2>8. CASE TimePasses BY <2>8 DEF TimePasses, Session
    <2>9. CASE ReaperTick BY <2>9 DEF ReaperTick
    <2>10. CASE BeginShutdown BY <2>10 DEF BeginShutdown
    <2>11. CASE ForceShutdown BY <2>11 DEF ForceShutdown
    <2>12. CASE UNCHANGED vars BY <2>12 DEF vars
    <2> QED
      BY <2>1, <2>2, <2>3, <2>4, <2>5, <2>6, <2>7, <2>8, <2>9, <2>10, <2>11, <2>12, CancelsAreTasks
      DEF Next
  <1> QED
    BY <1>1, <1>2, Invariance, PTL DEF Spec
-----------------------------------------------------------------------------
(***************************************************************************)
(* Where no task is cancelled, the record describes the login.             *)
(***************************************************************************)

\* A warm record names the account the terminal is logged in to.  RecordOK
\* allows the login to be lost as well: only a cancelled task leaves a call
\* behind that takes it away while the record stays.
LoginIsRecorded == Warm => terminal = live.key

\* Every action but those of a cancelled task keeps the record true: the login
\* changes together with _live, or while _live is not warm.
LEMMA LoginStep ==
  ASSUME Cancellable = {}, IInv, LoginIsRecorded, [Next]_vars
  PROVE  LoginIsRecorded'
  <1> USE DEF IInv, TypeOK, EnteringOK, LoginIsRecorded, Warm, Held
  <1>1. CASE UNCHANGED <<live, terminal>>
    BY <1>1
  <1>2. ASSUME NEW t \in Tasks, Enter(t) PROVE LoginIsRecorded'
    <2>1. CASE Reuse(t)
      <3>1. /\ Touched \in Session
            /\ Touched.key = live.key
        BY SessionUpdates DEF Touched
      <3>2. live' = Touched \/ live' = [Touched EXCEPT !.pins = @ + 1]
        BY <2>1 DEF Reuse
      <3>3. live'.key = live.key
        BY <3>1, <3>2 DEF Session
      <3> QED BY <2>1, <3>3 DEF Reuse
    <2>2. CASE FinishSwap(t) BY <2>2 DEF FinishSwap, NoSession
    <2>3. CASE ConnectOk(t) BY <2>3 DEF ConnectOk, Fresh
    <2>4. CASE ConnectRefused(t) BY <2>4 DEF ConnectRefused
    <2> QED BY <1>1, <1>2, <2>1, <2>2, <2>3, <2>4
            DEF Enter, Busy, BeginSwap, BeginConnect, RaiseRefused
  <1>3. ASSUME NEW t \in Tasks, LeaveBurst(t) PROVE LoginIsRecorded'
    BY <1>3 DEF LeaveBurst, Touched, Session
  <1>4. ASSUME NEW p \in Pollers, Poll(p) PROVE LoginIsRecorded'
    BY <1>1, <1>4 DEF Poll, Repin, WarmUp, Heartbeat, Invalidate, Unpin, Session
  <1>5. CASE TimePasses BY <1>5 DEF TimePasses, Session
  <1>6. CASE ReaperTick BY <1>6 DEF ReaperTick, NoSession
  <1>7. CASE ForceShutdown BY <1>7 DEF ForceShutdown, NoSession
  <1> QED
    BY <1>1, <1>2, <1>3, <1>4, <1>5, <1>6, <1>7
    DEF Next, vars, StartBurst, StartPoller, ResolveSymbol, BeginShutdown

LEMMA LoginInvariance ==
  ASSUME Cancellable = {}
  PROVE  Spec => []LoginIsRecorded
  <1>1. Init => LoginIsRecorded
    BY DEF Init, NoSession, LoginIsRecorded, Warm, Held
  <1>2. IInv /\ LoginIsRecorded /\ [Next]_vars => LoginIsRecorded'
    BY LoginStep
  <1> QED
    BY <1>1, <1>2, Invariance, PTL DEF Spec

\* Where no task is cancelled, _live describes the login the process really
\* holds, through every swap, refusal, reaping and invalidation.
THEOREM RecordIsReal ==
  ASSUME Cancellable = {}
  PROVE  Spec => []SessionIsReal
  <1>1. LoginIsRecorded => SessionIsReal
    BY DEF LoginIsRecorded, SessionIsReal
  <1> QED
    BY <1>1, LoginInvariance, PTL

\* Where no task is cancelled, every burst runs on a terminal that is logged
\* in to its own account, not merely on one that is on no other.
THEOREM BurstLoggedIn ==
  ASSUME Cancellable = {}
  PROVE  Spec => []BurstIsLoggedIn
  <1>1. IInv /\ LoginIsRecorded => BurstIsLoggedIn
    BY DEF IInv, EnteringOK, LoginIsRecorded, BurstIsLoggedIn
  <1> QED
    BY <1>1, LoginInvariance, Invariance, PTL
=============================================================================

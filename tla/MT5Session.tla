----------------------------- MODULE MT5Session -----------------------------
(***************************************************************************)
(* The one warm MetaTrader 5 session of the backend process                *)
(* (src/backend/mt5/bridge.py) and the tasks that share it.                *)
(*                                                                         *)
(* The MetaTrader5 package is a per-process singleton: one terminal, one   *)
(* login.  Every task therefore brackets its calls with                    *)
(* "async with MT5Bridge(creds)", which takes the process-wide _MT5_LOCK,  *)
(* reuses the session held in _live when it is for the same account, and   *)
(* swaps it otherwise.  The dashboard poller also pins the session, so     *)
(* that neither the idle reaper nor another account can take it away.      *)
(*                                                                         *)
(* asyncio switches tasks only at an await, so one action is the code from *)
(* one suspension point to the next.  Cancellation (Task.cancel) arrives   *)
(* at a suspension point and raises CancelledError, a BaseException, there.*)
(***************************************************************************)
EXTENDS Naturals, FiniteSets

CONSTANTS
  Accounts,     \* trading accounts, i.e. (login, server) pairs
  Callers,      \* tasks that run bursts: equity poller, jobs, HTTP handlers
  Pollers,      \* dashboard poller tasks (services/mt5_poller.py)
  Cancellable,  \* the tasks somebody may cancel
  Symbols,      \* bare symbol names looked up in _SYMBOL_CACHE
  MaxPins,      \* bound: pins the model counts up to
  NoAccount,    \* nobody is logged in; also "not cached"
  NoTask,       \* _MT5_LOCK is free
  Orphan        \* _MT5_LOCK is locked and its taker is gone

Tasks == Callers \cup Pollers

ASSUME ConstantsAssumption ==
  /\ NoAccount \notin Accounts
  /\ NoTask \notin Tasks
  /\ Orphan \notin Tasks
  /\ Orphan # NoTask
  /\ Callers \cap Pollers = {}
  /\ Cancellable \subseteq Tasks
  /\ MaxPins \in Nat \ {0}

VARIABLES
  lock,      \* _MT5_LOCK: the task that holds it, NoTask, or Orphan
  live,      \* _live: the session record the process believes in
  terminal,  \* the account the MT5 terminal is really logged in to
  cache,     \* _SYMBOL_CACHE: the account each name was resolved for
  reaper,    \* _reaper_task exists and is not done
  pc,        \* where each task is suspended
  acct,      \* the account in each task's credentials
  pinning,   \* the task is inside pin_session, not in __aenter__
  app        \* the lifespan of main.py: "up", "closing", "down"

vars == <<lock, live, terminal, cache, reaper, pc, acct, pinning, app>>

(***************************************************************************)
(* _live.  key = NoAccount stands for _live = None.  "idle" says that      *)
(* _IDLE_TIMEOUT seconds have passed since last_used.                      *)
(***************************************************************************)
Session == [key: Accounts \cup {NoAccount}, connected: BOOLEAN,
            pins: Nat, idle: BOOLEAN]

NoSession == [key |-> NoAccount, connected |-> FALSE, pins |-> 0, idle |-> FALSE]

Fresh(a, n) == [key |-> a, connected |-> TRUE, pins |-> n, idle |-> FALSE]

Held == live.key # NoAccount
Warm == Held /\ live.connected
Touched == IF Held THEN [live EXCEPT !.idle = FALSE] ELSE live

(***************************************************************************)
(* Suspension points.  wait: at the lock; swap: mt5.shutdown of another    *)
(* account's session; conn: mt5.initialize; err: mt5.last_error after a    *)
(* refused login; use: the body of the burst; warm: the heartbeats between *)
(* pin_session and the poll loop; poll: heartbeat or sleep of the poll     *)
(* loop; dead: waiting for the lock in invalidate; unpinRetry, unpinStop:  *)
(* waiting for the lock in unpin_session, to retry later or to end; retry: *)
(* sleeping RETRY_DELAY.                                                   *)
(***************************************************************************)
Critical == {"swap", "conn", "err", "use"}

PollerOnly == {"warm", "poll", "dead", "unpinRetry", "unpinStop", "retry"}

Stage == {"idle", "wait"} \cup Critical \cup PollerOnly

Goto(t, s) == pc' = [pc EXCEPT ![t] = s]

\* Where an exception raised while entering the session takes task t.
Failed(t) ==
  IF t \in Callers THEN "idle" ELSE IF pinning[t] THEN "retry" ELSE "unpinRetry"

Init ==
  /\ lock = NoTask
  /\ live = NoSession
  /\ terminal = NoAccount
  /\ cache = [s \in Symbols |-> NoAccount]
  /\ reaper = FALSE
  /\ pc = [t \in Tasks |-> "idle"]
  /\ acct \in [Tasks -> Accounts]
  /\ pinning = [t \in Tasks |-> FALSE]
  /\ app = "up"

-----------------------------------------------------------------------------
(***************************************************************************)
(* Tasks arriving.                                                         *)
(***************************************************************************)

\* A caller reaches "async with MT5Bridge(creds)" for account a.
StartBurst(c, a) ==
  /\ app = "up"
  /\ pc[c] = "idle"
  /\ Goto(c, "wait")
  /\ acct' = [acct EXCEPT ![c] = a]
  /\ UNCHANGED <<lock, live, terminal, cache, reaper, pinning, app>>

\* start_account creates a poll task unless one is registered for account a
\* (a task being stopped no longer is); the task calls pin_session.
StartPoller(p, a) ==
  /\ app = "up"
  /\ pc[p] = "idle"
  /\ \A q \in Pollers : acct[q] = a => pc[q] \in {"idle", "unpinStop"}
  /\ Goto(p, "wait")
  /\ acct' = [acct EXCEPT ![p] = a]
  /\ pinning' = [pinning EXCEPT ![p] = TRUE]
  /\ UNCHANGED <<lock, live, terminal, cache, reaper, app>>

\* RETRY_DELAY is over: _poll_loop runs another _poll_session.
Repin(p) ==
  /\ pc[p] = "retry"
  /\ Goto(p, "wait")
  /\ pinning' = [pinning EXCEPT ![p] = TRUE]
  /\ UNCHANGED <<lock, live, terminal, cache, reaper, acct, app>>

-----------------------------------------------------------------------------
(***************************************************************************)
(* _acquire_session, from the lock to the first await or to its return.    *)
(***************************************************************************)

AtLock(t) == pc[t] = "wait" /\ lock = NoTask

\* Bug variant: the account of the warm session is not compared.
ReuseAnyAccount(t) ==
  /\ AtLock(t)
  /\ Warm
  /\ ~pinning[t]
  /\ lock' = t
  /\ live' = Touched
  /\ Goto(t, "use")
  /\ UNCHANGED <<terminal, cache, reaper, acct, pinning, app>>

\* The warm session is ours: a burst starts using it, a pin only counts it.
Reuse(t) ==
  /\ AtLock(t)
  /\ Warm
  /\ live.key = acct[t]
  /\ \/ /\ ~pinning[t]
        /\ lock' = t
        /\ live' = Touched
        /\ Goto(t, "use")
     \/ /\ pinning[t]
        /\ live.pins < MaxPins
        /\ live' = [Touched EXCEPT !.pins = @ + 1]
        /\ Goto(t, "warm")
        /\ UNCHANGED lock
  /\ pinning' = [pinning EXCEPT ![t] = FALSE]
  /\ UNCHANGED <<terminal, cache, reaper, acct, app>>

\* Another account is pinned: SessionBusyError, and the lock is given back.
Busy(t) ==
  /\ AtLock(t)
  /\ Warm
  /\ live.key # acct[t]
  /\ live.pins > 0
  /\ Goto(t, Failed(t))
  /\ pinning' = [pinning EXCEPT ![t] = FALSE]
  /\ UNCHANGED <<lock, live, terminal, cache, reaper, acct, app>>

\* Bug variant: the pins of the other account's session are not looked at.
BeginSwapPinned(t) ==
  /\ AtLock(t)
  /\ Warm
  /\ live.key # acct[t]
  /\ lock' = t
  /\ Goto(t, "swap")
  /\ UNCHANGED <<live, terminal, cache, reaper, acct, pinning, app>>

\* Another account is warm and unpinned: its session is shut down first.
BeginSwap(t) ==
  /\ AtLock(t)
  /\ Warm
  /\ live.key # acct[t]
  /\ live.pins = 0
  /\ lock' = t
  /\ Goto(t, "swap")
  /\ UNCHANGED <<live, terminal, cache, reaper, acct, pinning, app>>

\* No session, or one marked dead by invalidate, whatever pins it carries.
BeginConnect(t) ==
  /\ AtLock(t)
  /\ ~Warm
  /\ lock' = t
  /\ Goto(t, "conn")
  /\ UNCHANGED <<live, terminal, cache, reaper, acct, pinning, app>>

\* Bug variant: _live is not cleared before the new login.
FinishSwapKeepsRecord(t) ==
  /\ pc[t] = "swap"
  /\ terminal' = NoAccount
  /\ Goto(t, "conn")
  /\ UNCHANGED <<lock, live, cache, reaper, acct, pinning, app>>

\* mt5.shutdown returned; _live = None; mt5.initialize is next.
FinishSwap(t) ==
  /\ pc[t] = "swap"
  /\ terminal' = NoAccount
  /\ live' = NoSession
  /\ Goto(t, "conn")
  /\ UNCHANGED <<lock, cache, reaper, acct, pinning, app>>

\* Bug variant: the reaper is not restarted.
ConnectNoReaper(t) ==
  /\ pc[t] = "conn"
  /\ terminal' = acct[t]
  /\ live' = Fresh(acct[t], IF pinning[t] THEN 1 ELSE 0)
  /\ lock' = IF pinning[t] THEN NoTask ELSE lock
  /\ Goto(t, IF pinning[t] THEN "warm" ELSE "use")
  /\ pinning' = [pinning EXCEPT ![t] = FALSE]
  /\ UNCHANGED <<cache, reaper, acct, app>>

\* mt5.initialize accepted the login.  _live is a new record, so pins of an
\* invalidated predecessor are gone; _ensure_reaper runs under the lock.
ConnectOk(t) ==
  /\ pc[t] = "conn"
  /\ terminal' = acct[t]
  /\ reaper' = TRUE
  /\ \/ /\ ~pinning[t]
        /\ live' = Fresh(acct[t], 0)
        /\ Goto(t, "use")
        /\ UNCHANGED lock
     \/ /\ pinning[t]
        /\ live' = Fresh(acct[t], 1)
        /\ Goto(t, "warm")
        /\ lock' = NoTask
  /\ pinning' = [pinning EXCEPT ![t] = FALSE]
  /\ UNCHANGED <<cache, acct, app>>

\* mt5.initialize refused; the terminal keeps its login or loses it.
ConnectRefused(t) ==
  /\ pc[t] = "conn"
  /\ terminal' \in {terminal, NoAccount}
  /\ Goto(t, "err")
  /\ UNCHANGED <<lock, live, cache, reaper, acct, pinning, app>>

\* Bug variant: the lock is not released when the login is refused.
RaiseRefusedLocked(t) ==
  /\ pc[t] = "err"
  /\ Goto(t, Failed(t))
  /\ pinning' = [pinning EXCEPT ![t] = FALSE]
  /\ UNCHANGED <<lock, live, terminal, cache, reaper, acct, app>>

\* mt5.last_error returned: the lock is released, ConnectionError raised.
RaiseRefused(t) ==
  /\ pc[t] = "err"
  /\ lock' = NoTask
  /\ Goto(t, Failed(t))
  /\ pinning' = [pinning EXCEPT ![t] = FALSE]
  /\ UNCHANGED <<live, terminal, cache, reaper, acct, app>>

-----------------------------------------------------------------------------
(***************************************************************************)
(* The body of a burst.                                                    *)
(***************************************************************************)

\* get_broker_symbol: a hit needs no call; a miss enumerates the symbols of
\* the account in use and is remembered.
ResolveSymbol(t, s) ==
  /\ pc[t] = "use"
  /\ cache[s] = NoAccount
  /\ cache' = [cache EXCEPT ![s] = acct[t]]
  /\ UNCHANGED <<lock, live, terminal, reaper, pc, acct, pinning, app>>

\* __aexit__.  A poller goes on polling, or an exception of its body unpins.
LeaveBurst(t) ==
  /\ pc[t] = "use"
  /\ lock' = NoTask
  /\ live' = Touched
  /\ \/ t \in Callers /\ Goto(t, "idle")
     \/ t \in Pollers /\ Goto(t, "poll")
     \/ t \in Pollers /\ Goto(t, "unpinRetry")
  /\ UNCHANGED <<terminal, cache, reaper, acct, pinning, app>>

-----------------------------------------------------------------------------
(***************************************************************************)
(* The poller between bursts, without the lock.                            *)
(***************************************************************************)

\* The heartbeats after pin_session: a good one, or fifteen bad ones.
WarmUp(p) ==
  /\ pc[p] = "warm"
  /\ \E s \in {"poll", "unpinRetry"} : Goto(p, s)
  /\ UNCHANGED <<lock, live, terminal, cache, reaper, acct, pinning, app>>

\* The heartbeat of the poll loop: good starts a burst, bad invalidates.
Heartbeat(p) ==
  /\ pc[p] = "poll"
  /\ \E s \in {"wait", "dead"} : Goto(p, s)
  /\ UNCHANGED <<lock, live, terminal, cache, reaper, acct, pinning, app>>

\* invalidate: whatever session is cached is marked dead.
Invalidate(p) ==
  /\ pc[p] = "dead"
  /\ lock = NoTask
  /\ live' = [live EXCEPT !.connected = FALSE]
  /\ Goto(p, "unpinRetry")
  /\ UNCHANGED <<lock, terminal, cache, reaper, acct, pinning, app>>

\* Bug variant: unpinning a session that is not pinned counts below zero.
UnpinUnchecked(p) ==
  /\ pc[p] \in {"unpinRetry", "unpinStop"}
  /\ lock = NoTask
  /\ live' = [live EXCEPT !.pins = @ - 1]
  /\ Goto(p, IF pc[p] = "unpinRetry" THEN "retry" ELSE "idle")
  /\ UNCHANGED <<lock, terminal, cache, reaper, acct, pinning, app>>

\* unpin_session: an anonymous decrement of whatever session is cached.
Unpin(p) ==
  /\ pc[p] \in {"unpinRetry", "unpinStop"}
  /\ lock = NoTask
  /\ live' = IF live.pins > 0 THEN [live EXCEPT !.pins = @ - 1] ELSE live
  /\ Goto(p, IF pc[p] = "unpinRetry" THEN "retry" ELSE "idle")
  /\ UNCHANGED <<lock, terminal, cache, reaper, acct, pinning, app>>

-----------------------------------------------------------------------------
(***************************************************************************)
(* Cancellation.  stop_account cancels a poller at any time; the lifespan  *)
(* cancels the equity poller, and the scheduler its jobs, at shutdown.     *)
(* A poller cancelled inside its try block still has its finally to run.   *)
(***************************************************************************)

MayCancel(t) == t \in Cancellable /\ (t \in Pollers \/ app # "up")

InTry(t) == t \in Pollers /\ ~pinning[t]

Cancelled(t) ==
  /\ Goto(t, IF InTry(t) THEN "unpinStop" ELSE "idle")
  /\ pinning' = [pinning EXCEPT ![t] = FALSE]

\* At the lock, in the poll loop or in invalidate: nothing of the session is
\* touched.
CancelOutside(t) ==
  /\ MayCancel(t)
  /\ pc[t] \in {"wait", "poll", "dead"}
  /\ Cancelled(t)
  /\ UNCHANGED <<lock, live, terminal, cache, reaper, acct, app>>

\* Before the try block, in the finally block, or between two sessions: the
\* task ends at once, with the pin it may have taken.
CancelUnprotected(p) ==
  /\ MayCancel(p)
  /\ pc[p] \in {"warm", "unpinRetry", "retry"}
  /\ Goto(p, "idle")
  /\ UNCHANGED <<lock, live, terminal, cache, reaper, acct, pinning, app>>

\* In the body: __aexit__ runs.
CancelUse(t) ==
  /\ MayCancel(t)
  /\ pc[t] = "use"
  /\ lock' = NoTask
  /\ live' = Touched
  /\ Cancelled(t)
  /\ UNCHANGED <<terminal, cache, reaper, acct, app>>

\* While _acquire_session or get_last_error is suspended.  pin_session holds
\* the lock with "async with" and releases it; __aenter__ releases it only
\* for an Exception.  The call already given to the MT5 thread may still run,
\* and runs before any later one.
CancelEntering(t) ==
  /\ MayCancel(t)
  /\ \/ pc[t] = "swap" /\ terminal' \in {terminal, NoAccount}
     \/ pc[t] = "conn" /\ terminal' \in {terminal, NoAccount, acct[t]}
     \/ pc[t] = "err" /\ terminal' = terminal
  /\ lock' = IF pinning[t] THEN NoTask ELSE Orphan
  /\ Cancelled(t)
  /\ UNCHANGED <<live, cache, reaper, acct, app>>

-----------------------------------------------------------------------------
(***************************************************************************)
(* The reaper and the lifespan.  Each holds the lock for the whole step.   *)
(***************************************************************************)

TimePasses ==
  /\ Held
  /\ ~live.idle
  /\ live' = [live EXCEPT !.idle = TRUE]
  /\ UNCHANGED <<lock, terminal, cache, reaper, pc, acct, pinning, app>>

\* Bug variant: the reaper does not look at the pins.
ReaperTickPinned ==
  /\ reaper
  /\ lock = NoTask
  /\ Held
  /\ live.idle
  /\ live' = NoSession
  /\ terminal' = NoAccount
  /\ reaper' = FALSE
  /\ UNCHANGED <<lock, cache, pc, acct, pinning, app>>

\* Bug variant: the reaper shuts the terminal down and leaves _live.
ReaperTickKeepsRecord ==
  /\ reaper
  /\ lock = NoTask
  /\ Held
  /\ live.pins = 0
  /\ live.idle
  /\ terminal' = NoAccount
  /\ reaper' = FALSE
  /\ UNCHANGED <<lock, live, cache, pc, acct, pinning, app>>

\* One wake-up that ends the reaper: nothing to watch, or an idle session.
ReaperTick ==
  /\ reaper
  /\ lock = NoTask
  /\ \/ ~Held /\ UNCHANGED <<live, terminal>>
     \/ /\ Held
        /\ live.pins = 0
        /\ live.idle
        /\ live' = NoSession
        /\ terminal' = NoAccount
  /\ reaper' = FALSE
  /\ UNCHANGED <<lock, cache, pc, acct, pinning, app>>

BeginShutdown ==
  /\ app = "up"
  /\ app' = "closing"
  /\ UNCHANGED <<lock, live, terminal, cache, reaper, pc, acct, pinning>>

\* Bug variant: the lifespan shuts the session down without the lock.
ForceShutdownUnlocked ==
  /\ app = "closing"
  /\ app' = "down"
  /\ reaper' = FALSE
  /\ terminal' = IF Warm THEN NoAccount ELSE terminal
  /\ live' = NoSession
  /\ UNCHANGED <<lock, cache, pc, acct, pinning>>

ForceShutdown ==
  /\ app = "closing"
  /\ lock = NoTask
  /\ app' = "down"
  /\ reaper' = FALSE
  /\ terminal' = IF Warm THEN NoAccount ELSE terminal
  /\ live' = NoSession
  /\ UNCHANGED <<lock, cache, pc, acct, pinning>>

-----------------------------------------------------------------------------

Enter(t) ==
  \/ Reuse(t) \/ Busy(t) \/ BeginSwap(t) \/ BeginConnect(t)
  \/ FinishSwap(t) \/ ConnectOk(t) \/ ConnectRefused(t) \/ RaiseRefused(t)

Poll(p) ==
  Repin(p) \/ WarmUp(p) \/ Heartbeat(p) \/ Invalidate(p) \/ Unpin(p)

Cancel(t) ==
  CancelOutside(t) \/ CancelUnprotected(t) \/ CancelUse(t) \/ CancelEntering(t)

Next ==
  \/ \E c \in Callers, a \in Accounts : StartBurst(c, a)
  \/ \E p \in Pollers, a \in Accounts : StartPoller(p, a)
  \/ \E t \in Tasks : Enter(t) \/ LeaveBurst(t)
  \/ \E t \in Cancellable : Cancel(t)
  \/ \E t \in Tasks, s \in Symbols : ResolveSymbol(t, s)
  \/ \E p \in Pollers : Poll(p)
  \/ TimePasses \/ ReaperTick \/ BeginShutdown \/ ForceShutdown

Spec == Init /\ [][Next]_vars

(***************************************************************************)
(* Fairness.  Every MT5 call returns, a burst ends, and asyncio.Lock wakes *)
(* its waiters in FIFO order, so a task that finds the lock free again and *)
(* again gets it (strong fairness on taking it).  Nothing obliges a task   *)
(* to start, a pinned poller to stop, or anybody to cancel.                *)
(***************************************************************************)
TakeLock(t) == Reuse(t) \/ Busy(t) \/ BeginSwap(t) \/ BeginConnect(t)

HoldLock(t) ==
  FinishSwap(t) \/ ConnectOk(t) \/ ConnectRefused(t) \/ RaiseRefused(t)
  \/ LeaveBurst(t)

Fairness ==
  /\ \A t \in Tasks : SF_vars(TakeLock(t)) /\ WF_vars(HoldLock(t))
  /\ \A p \in Pollers : SF_vars(Invalidate(p)) /\ SF_vars(Unpin(p))
  /\ SF_vars(ReaperTick)
  /\ SF_vars(ForceShutdown)

FairSpec == Spec /\ Fairness

-----------------------------------------------------------------------------
(***************************************************************************)
(* Properties.                                                             *)
(***************************************************************************)

\* Every variable holds a value the code can give it.
TypeOK ==
  /\ lock \in Tasks \cup {NoTask, Orphan}
  /\ live \in Session
  /\ terminal \in Accounts \cup {NoAccount}
  /\ cache \in [Symbols -> Accounts \cup {NoAccount}]
  /\ reaper \in BOOLEAN
  /\ pc \in [Tasks -> Stage]
  /\ acct \in [Tasks -> Accounts]
  /\ pinning \in [Tasks -> BOOLEAN]
  /\ app \in {"up", "closing", "down"}

\* At most one task is between taking and releasing _MT5_LOCK, and it is the
\* one the lock records: mt5.shutdown, mt5.initialize and the calls of a burst
\* never overlap those of another task.
LockHeldByUser == \A t \in Tasks : pc[t] \in Critical <=> lock = t

(***************************************************************************)
(* The abstract specification this module implements: whoever runs a burst *)
(* holds the terminal exclusively, on its own account.                     *)
(***************************************************************************)
InUse == {t \in Tasks : pc[t] = "use"}

Lease == INSTANCE TerminalLease
           WITH login <- terminal,
                lease <- {<<t, acct[t]>> : t \in InUse}

\* Every step of the session is a step of the lease or leaves it alone: the
\* login never changes while a burst runs, and no burst begins on a login
\* that is not its own.
ImplementsLease == Lease!Spec

\* No burst ever runs against another account's login, whatever was swapped,
\* reaped, refused, invalidated or cancelled before it: an order computed for
\* one account cannot reach another one.
BurstOnOwnAccount ==
  \A t \in Tasks :
    pc[t] = "use" =>
      live.key = acct[t] /\ live.connected /\ terminal \in {acct[t], NoAccount}

\* Where no task is cancelled, a burst finds the terminal logged in.
BurstIsLoggedIn == \A t \in Tasks : pc[t] = "use" => terminal = acct[t]

\* A session is never left without a reaper, so an unused login does not stay
\* open for ever (_ensure_reaper against the reaper that ends itself).
ReaperWatches == Held => reaper

\* Poller p has pinned and not yet begun to give its pin back.
Pinned(p) ==
  \/ pc[p] \in {"warm", "poll", "dead"}
  \/ pc[p] \in {"wait"} \cup Critical /\ ~pinning[p]

\* While one poller task exists at a time, the poller works on the session it
\* pinned: it is never swapped, reaped or downgraded under it.
PollerKeepsSession ==
  \A p \in Pollers :
    Pinned(p) /\ app # "down" => Warm /\ live.key = acct[p] /\ live.pins > 0

\* A connected session with a pin stays with its account: no swap, no reaping
\* and no connect replaces it until the process shuts down (pin_session).
PinPreventsSwap ==
  [][Warm /\ live.pins > 0 /\ app' = app => live'.key = live.key]_vars

\* Where no task is cancelled, a task at the lock is eventually served: it
\* enters, is refused, or finds the session busy.
WaiterServed == \A t \in Tasks : pc[t] = "wait" ~> pc[t] # "wait"

\* Where no task is cancelled, an unpinned session that stays unused is
\* eventually reaped.
IdleSessionReaped ==
  (Held /\ live.pins = 0 /\ live.idle)
    ~> (~Held \/ live.pins > 0 \/ ~live.idle)

\* The record _live describes the login the process really holds
\* (bridge.py:59) whenever nobody is in the middle of changing it.
SessionIsReal == lock = NoTask /\ Warm => terminal = live.key

\* The lifespan's force_shutdown tears the session down and returns.
ShutdownCompletes == app = "closing" ~> app = "down"
=============================================================================

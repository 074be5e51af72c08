------------------------------ MODULE OrderGate ------------------------------
(***************************************************************************)
(* From a trading signal to an order at the broker: the checks of          *)
(* src/backend/mt5/executor.py and src/backend/services/risk_manager.py,   *)
(* entered by the AI pipeline (src/backend/services/ai_trading) and by     *)
(* position maintenance, with the kill switch, the broker and the trades   *)
(* table changing between any two of their awaits.                         *)
(*                                                                         *)
(* The body of a request runs inside "async with MT5Bridge", so one worker *)
(* at a time is between Enter and the release of _MT5_LOCK; MT5Session     *)
(* models that lock.  The risk settings are constants: a row of the        *)
(* database that users seldom change.                                      *)
(***************************************************************************)
EXTENDS KillSwitch

CONSTANTS
  TradingAccounts, Symbols,
  Workers,         \* pipeline jobs and maintenance sweeps
  Secondary,       \* workers that trade a signal shared by a primary account
  Paper,           \* accounts with paper_trade_enabled
  Renamed,         \* symbols whose broker name differs from the bare name
  Kinds,           \* the requests made: see Kind
  Sides,           \* the directions the signals have
  MaxPositions,    \* max_open_positions
  MaxTrades,       \* rate_limit_max_trades
  HedgingAllowed,  \* hedging_allowed
  ReadFaults,      \* get_positions may raise
  Bound,           \* bound: counters saturate here
  NoWorker         \* _MT5_LOCK is free

Dirs == {"BUY", "SELL"}
Kind == {"market", "pending", "close", "modify"}

ASSUME GateAssumption ==
  /\ NoWorker \notin Workers
  /\ Kinds \subseteq Kind
  /\ Sides \subseteq Dirs
  /\ Secondary \subseteq Workers
  /\ Paper \subseteq TradingAccounts
  /\ HedgingAllowed \in BOOLEAN
  /\ ReadFaults \in BOOLEAN
  /\ MaxPositions \in Nat /\ MaxTrades \in Nat /\ Bound \in Nat \ {0}

VARIABLES
  holder,   \* the worker inside "async with MT5Bridge"
  job,      \* where each worker is suspended
  req,      \* the request each worker makes
  seen,     \* the positions each worker's risk check looks at
  retried,  \* the worker has used its one stale-entry retry
  pos,      \* open positions at the broker, per account, symbol, direction
  pend,     \* pending orders at the broker
  rows,     \* Trade rows of each symbol inside the rate-limit window
  late      \* requests sent to the broker since the kill switch went on

gateVars == <<holder, job, req, seen, retried, pos, pend, rows, late>>
allVars == <<gateVars, switchVars>>

Opposite(d) == IF d = "BUY" THEN "SELL" ELSE "BUY"

Request_ == [acct: TradingAccounts, sym: Symbols, dir: Dirs, kind: Kind]

Book == [Symbols \X Dirs -> 0..Bound]
EmptyBook == [x \in Symbols \X Dirs |-> 0]

\* The open positions of book b, one element each: len(positions).
Open(b) == {x \in (Symbols \X Dirs) \X (1..Bound) : x[2] <= b[x[1]]}
AtLeast(b, n) == Cardinality(Open(b)) >= n

Plus(n) == IF n < Bound THEN n + 1 ELSE n
Add(b, s, d) == [b EXCEPT ![<<s, d>>] = Plus(@)]
Drop(b, s, d) == [b EXCEPT ![<<s, d>>] = @ - 1]

(***************************************************************************)
(* thinking: analysis; queued: at the lock; entered: session acquired, no  *)
(* check done; positions, risk, rate, auto, filling, find, tick, send: the *)
(* awaits of the executor, named for what they wait for; stale: told that  *)
(* the entry price is stale; persist: accepted, Trade row not written.     *)
(***************************************************************************)
Admitted == {"positions", "risk", "rate", "auto", "filling", "find", "tick", "send"}
Inside == {"entered"} \cup Admitted
JobStage == {"idle", "thinking", "queued", "stale", "persist"} \cup Inside

Opens(w) == req[w].kind \in {"market", "pending"}
Mine(w) == pos[req[w].acct]
To(w, s) == job' = [job EXCEPT ![w] = s]

GateInit ==
  /\ SwitchInit
  /\ holder = NoWorker
  /\ job = [w \in Workers |-> "idle"]
  /\ req \in [Workers -> [acct: TradingAccounts, sym: Symbols, dir: {"BUY"}, kind: {"market"}]]
  /\ seen = [w \in Workers |-> EmptyBook]
  /\ retried = [w \in Workers |-> FALSE]
  /\ pos = [a \in TradingAccounts |-> EmptyBook]
  /\ pend = [a \in TradingAccounts |-> EmptyBook]
  /\ rows = [s \in Symbols |-> 0]
  /\ late = 0

-----------------------------------------------------------------------------
(***************************************************************************)
(* Before the executor.                                                    *)
(***************************************************************************)

\* A job starts.  The pipeline stops early while the switch is on, and a
\* primary account's analysis is skipped when a limit is reached already;
\* a secondary account takes the shared signal without that pre-check.
Analyse(w, r) ==
  /\ job[w] = "idle"
  /\ ~active
  /\ r.kind \in Kinds /\ r.dir \in Sides
  /\ r.kind \in {"market", "pending"} /\ w \notin Secondary =>
       /\ ReadFaults \/ ~AtLeast(pos[r.acct], MaxPositions)
       /\ rows[r.sym] < MaxTrades
  /\ req' = [req EXCEPT ![w] = r]
  /\ retried' = [retried EXCEPT ![w] = FALSE]
  /\ To(w, "thinking")
  /\ UNCHANGED <<holder, seen, pos, pend, rows, late, switchVars>>

\* The analysis is over: no trade, or the switch is on, or a request goes to
\* the lock.
Decide(w) ==
  /\ job[w] = "thinking"
  /\ \/ To(w, "idle")
     \/ ~active /\ To(w, "queued")
  /\ UNCHANGED <<holder, req, seen, retried, pos, pend, rows, late, switchVars>>

Enter(w) ==
  /\ job[w] = "queued"
  /\ holder = NoWorker
  /\ holder' = w
  /\ To(w, "entered")
  /\ UNCHANGED <<req, seen, retried, pos, pend, rows, late, switchVars>>

-----------------------------------------------------------------------------
(***************************************************************************)
(* place_order, close_position, modify_order.                              *)
(***************************************************************************)

Finish(w, s) ==
  /\ To(w, s)
  /\ holder' = NoWorker
  /\ seen' = [seen EXCEPT ![w] = EmptyBook]

Reject(w) ==
  /\ Finish(w, "idle")
  /\ UNCHANGED <<req, retried, pos, pend, rows, late, switchVars>>

Next_(w, s) ==
  /\ To(w, s)
  /\ UNCHANGED <<holder, req, seen, retried, pos, pend, rows, late, switchVars>>

\* Bug variant: the executor trusts the check its caller made.
GateUnchecked(w) ==
  /\ job[w] = "entered"
  /\ Next_(w, IF Opens(w) THEN "positions" ELSE "auto")

\* The kill switch gate.
Gate(w) ==
  /\ job[w] = "entered"
  /\ \/ active /\ Reject(w)
     \/ ~active /\ Next_(w, IF Opens(w) THEN "positions" ELSE "auto")

\* get_positions; a failure is logged and read as "no positions".
ReadPositions(w) ==
  /\ job[w] = "positions"
  /\ \/ seen' = [seen EXCEPT ![w] = Mine(w)]
     \/ ReadFaults /\ seen' = [seen EXCEPT ![w] = EmptyBook]
  /\ To(w, "risk")
  /\ UNCHANGED <<holder, req, retried, pos, pend, rows, late, switchVars>>

\* Bug variant: the limit is compared with ">".
LimitReachedLate(w) == AtLeast(seen[w], MaxPositions + 1)

LimitReached(w) == AtLeast(seen[w], MaxPositions)

\* Bug variant: the opposite of the opposite.
HedgesSameSide(w) == ~HedgingAllowed /\ seen[w][<<req[w].sym, req[w].dir>>] > 0

Hedges(w) == ~HedgingAllowed /\ seen[w][<<req[w].sym, Opposite(req[w].dir)>>] > 0

\* load_risk_config returned: position limit, then hedging.
CheckRisk(w) ==
  /\ job[w] = "risk"
  /\ \/ (LimitReached(w) \/ Hedges(w)) /\ Reject(w)
     \/ /\ ~LimitReached(w) /\ ~Hedges(w)
        /\ To(w, "rate")
        /\ seen' = [seen EXCEPT ![w] = EmptyBook]
        /\ UNCHANGED <<holder, req, retried, pos, pend, rows, late, switchVars>>

\* Bug variant: the count is compared with ">".
CheckRateLate(w) ==
  /\ job[w] = "rate"
  /\ \/ rows[req[w].sym] > MaxTrades /\ Reject(w)
     \/ rows[req[w].sym] <= MaxTrades /\ Next_(w, "auto")

\* Trade rows carry the bare symbol, the request the broker's name.
Counted(w) == IF req[w].sym \in Renamed THEN 0 ELSE rows[req[w].sym]

CheckRate(w) ==
  /\ job[w] = "rate"
  /\ \/ Counted(w) >= MaxTrades /\ Reject(w)
     \/ Counted(w) < MaxTrades /\ Next_(w, "auto")

\* The AutoTrading button, then the dry run of a paper account.
CheckAuto(w) ==
  /\ job[w] = "auto"
  /\ \/ Reject(w)
     \/ /\ req[w].acct \in Paper
        /\ Finish(w, IF Opens(w) THEN "persist" ELSE "idle")
        /\ UNCHANGED <<req, retried, pos, pend, rows, late, switchVars>>
     \/ /\ req[w].acct \notin Paper
        /\ Next_(w, IF Opens(w) THEN "filling"
                    ELSE IF req[w].kind = "close" THEN "find" ELSE "send")

\* close_position looks the ticket up again, which may be gone by now.
Find(w) ==
  /\ job[w] = "find"
  /\ \/ Reject(w)
     \/ Mine(w)[<<req[w].sym, req[w].dir>>] > 0 /\ Next_(w, "tick")

Filling(w) ==
  /\ job[w] = "filling"
  /\ Next_(w, IF req[w].kind = "pending" THEN "tick" ELSE "send")

\* get_tick.  A pending order whose entry the price has passed is stale; no
\* tick stops a close only.
Tick(w) ==
  /\ job[w] = "tick"
  /\ \/ Next_(w, "send")
     \/ req[w].kind = "close" /\ Reject(w)
     \/ /\ req[w].kind = "pending"
        /\ Finish(w, "stale")
        /\ UNCHANGED <<req, retried, pos, pend, rows, late, switchVars>>

\* Bug variant: the close is taken to have worked on a position that is gone.
ExecuteBlind(r) ==
  /\ pos' = [pos EXCEPT ![r.acct] =
               IF r.kind = "close" THEN Drop(@, r.sym, r.dir)
               ELSE Add(@, r.sym, r.dir)]
  /\ UNCHANGED pend

\* What the broker does with an accepted request.
Execute(r) ==
  \/ /\ r.kind = "market"
     /\ pos' = [pos EXCEPT ![r.acct] = Add(@, r.sym, r.dir)]
     /\ UNCHANGED pend
  \/ /\ r.kind = "pending"
     /\ pend' = [pend EXCEPT ![r.acct] = Add(@, r.sym, r.dir)]
     /\ UNCHANGED pos
  \/ /\ r.kind = "close"
     /\ pos[r.acct][<<r.sym, r.dir>>] > 0
     /\ pos' = [pos EXCEPT ![r.acct] = Drop(@, r.sym, r.dir)]
     /\ UNCHANGED pend
  \/ /\ r.kind = "modify"
     /\ UNCHANGED <<pos, pend>>

\* send_order reaches the terminal; accepted, or refused with any retcode.
Send(w) ==
  /\ job[w] = "send"
  /\ \/ Execute(req[w]) /\ Finish(w, IF Opens(w) THEN "persist" ELSE "idle")
     \/ Finish(w, "idle") /\ UNCHANGED <<pos, pend>>
  /\ late' = IF active THEN Plus(late) ELSE late
  /\ UNCHANGED <<req, retried, rows, switchVars>>

-----------------------------------------------------------------------------
(***************************************************************************)
(* After the executor, without the lock.                                   *)
(***************************************************************************)

\* Bug variant: the retry is not limited to one.
RetryForEver(w) ==
  /\ job[w] = "stale"
  /\ To(w, "queued")
  /\ UNCHANGED <<holder, req, seen, retried, pos, pend, rows, late, switchVars>>

\* The stale entry is asked for again, once.  A second stale result falls
\* through to persist_trade, whose row without a ticket the database refuses.
Retry(w) ==
  /\ job[w] = "stale"
  /\ \/ To(w, "idle")
     \/ ~retried[w] /\ To(w, "queued")
  /\ retried' = [retried EXCEPT ![w] = TRUE]
  /\ UNCHANGED <<holder, req, seen, pos, pend, rows, late, switchVars>>

\* persist_trade: the row is written, or its insert fails.
PersistTrade(w) ==
  /\ job[w] = "persist"
  /\ To(w, "idle")
  /\ rows' \in {rows, [rows EXCEPT ![req[w].sym] = Plus(@)]}
  /\ UNCHANGED <<holder, req, seen, retried, pos, pend, late, switchVars>>

-----------------------------------------------------------------------------
(***************************************************************************)
(* The broker, the window, the switch.                                     *)
(***************************************************************************)

\* A pending order fills.
Fill(a, s, d) ==
  /\ pend[a][<<s, d>>] > 0
  /\ pend' = [pend EXCEPT ![a] = Drop(@, s, d)]
  /\ pos' = [pos EXCEPT ![a] = Add(@, s, d)]
  /\ UNCHANGED <<holder, job, req, seen, retried, rows, late, switchVars>>

\* A pending order expires, or a position hits its stop or target.
Leaves(a, s, d) ==
  /\ \/ /\ pend[a][<<s, d>>] > 0
        /\ pend' = [pend EXCEPT ![a] = Drop(@, s, d)]
        /\ UNCHANGED pos
     \/ /\ pos[a][<<s, d>>] > 0
        /\ pos' = [pos EXCEPT ![a] = Drop(@, s, d)]
        /\ UNCHANGED pend
  /\ UNCHANGED <<holder, job, req, seen, retried, rows, late, switchVars>>

\* A row grows older than rate_limit_window_hours.
WindowMoves(s) ==
  /\ rows[s] > 0
  /\ rows' = [rows EXCEPT ![s] = @ - 1]
  /\ UNCHANGED <<holder, job, req, seen, retried, pos, pend, late, switchVars>>

Operate ==
  /\ \E u \in Operators : (\E x \in Wishes : Request(u, x)) \/ Flipping(u)
  /\ late' = IF active /\ active' THEN late ELSE 0
  /\ UNCHANGED <<holder, job, req, seen, retried, pos, pend, rows>>

\* The process dies and starts again: what it was doing is forgotten, what
\* the broker and the database hold is not.
Crash ==
  /\ Restart
  /\ holder' = NoWorker
  /\ job' = [w \in Workers |-> "idle"]
  /\ seen' = [w \in Workers |-> EmptyBook]
  /\ late' = 0
  /\ UNCHANGED <<req, retried, pos, pend, rows>>

Executor(w) ==
  \/ Gate(w) \/ ReadPositions(w) \/ CheckRisk(w) \/ CheckRate(w)
  \/ CheckAuto(w) \/ Find(w) \/ Filling(w) \/ Tick(w) \/ Send(w)

Broker(a, s, d) == Fill(a, s, d) \/ Leaves(a, s, d)

GateNext ==
  \/ \E w \in Workers, r \in Request_ : Analyse(w, r)
  \/ \E w \in Workers :
       Decide(w) \/ Enter(w) \/ Executor(w) \/ Retry(w) \/ PersistTrade(w)
  \/ \E a \in TradingAccounts, s \in Symbols, d \in Dirs : Broker(a, s, d)
  \/ \E s \in Symbols : WindowMoves(s)
  \/ Operate
  \/ \E f \in Faults \cap {"restart"} : Crash

GateSpec == GateInit /\ [][GateNext]_allVars

(***************************************************************************)
(* Fairness.  Awaits end, and the lock is handed over in FIFO order.  No   *)
(* analysis has to end, and nobody has to operate the switch.              *)
(***************************************************************************)
GateFairness ==
  \A w \in Workers :
    /\ SF_allVars(Enter(w))
    /\ WF_allVars(Executor(w))
    /\ WF_allVars(Retry(w))
    /\ WF_allVars(PersistTrade(w))

FairGateSpec == GateSpec /\ GateFairness

-----------------------------------------------------------------------------
(***************************************************************************)
(* Properties.                                                             *)
(***************************************************************************)

\* Every variable holds a value the code can give it.
GateTypeOK ==
  /\ SwitchTypeOK
  /\ holder \in Workers \cup {NoWorker}
  /\ job \in [Workers -> JobStage]
  /\ req \in [Workers -> Request_]
  /\ seen \in [Workers -> Book]
  /\ retried \in [Workers -> BOOLEAN]
  /\ pos \in [TradingAccounts -> Book]
  /\ pend \in [TradingAccounts -> Book]
  /\ rows \in [Symbols -> 0..Bound]
  /\ late \in 0..Bound

\* The kill switch stops trading: from the moment it is on, at most the one
\* request that had passed the gate still reaches the broker, however many
\* jobs are analysing, queued, retrying or sweeping positions.
HaltStopsSending == late <= 1

\* No account ever holds more open positions than max_open_positions.
WithinPositionLimit == \A a \in TradingAccounts : ~AtLeast(pos[a], MaxPositions + 1)

\* With hedging disallowed no account is long and short on one symbol.
NoOppositePositions ==
  ~HedgingAllowed =>
    \A a \in TradingAccounts, s \in Symbols :
      pos[a][<<s, "BUY">>] = 0 \/ pos[a][<<s, "SELL">>] = 0

\* The rate limit is exceeded at most by the jobs that run at the same time:
\* each of them can pass the check before the others have written their rows.
RateOvershootBounded ==
  \A s \in Symbols : rows[s] < MaxTrades + Cardinality(Workers)

\* "Limit entries per symbol within a rolling time window"
\* (risk-manager-section.tsx:107): never more rows in a window than allowed.
RateLimited == \A s \in Symbols : rows[s] <= MaxTrades

\* Every request that reached the lock is answered: rejected, refused or
\* accepted and recorded, with at most one retry of a stale entry.
RequestAnswered == \A w \in Workers : job[w] = "queued" ~> job[w] = "idle"
=============================================================================

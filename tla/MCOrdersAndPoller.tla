-------------------------- MODULE MCOrdersAndPoller -------------------------
(***************************************************************************)
(* OrderGate under its limits, LivePoller on one account, OptimizationRun  *)
(* and LogsPage, for TLC: what a worker may order, who is polled, what a   *)
(* sweep keeps, and what is traced of a run.  They share no state, so one  *)
(* of them moves in a behaviour and the others rest.                       *)
(***************************************************************************)
EXTENDS MCOrderGate, LivePoller, OptimizationRun, LogsPage

OneWish == [u \in Operators |-> CHOOSE x \in Wishes : TRUE]
OneRequest ==
  [w \in Workers |-> [acct |-> CHOOSE a \in TradingAccounts : TRUE, sym |-> CHOOSE x \in Symbols : TRUE,
                     dir |-> "BUY", kind |-> "market"]]

VARIABLE machine   \* the one that moves, for good

Machines ==
  {"gate", "poller", "sweep", "logs"}
allMachinesVars == <<machine, allVars, vars, sweepVars, lgVars>>

\* The others rest in one of their initial states.
MachinesInit ==
  /\ machine \in Machines
  /\ GateInit /\ (machine # "gate" => req = OneRequest /\ want = OneWish)
  /\ Init /\ (machine # "poller" => at = [c \in Clients |-> CHOOSE a \in Accounts : TRUE])
  /\ SweepInit
  /\ LgInit

GateMoves ==
  /\ machine = "gate" /\ GateNext
  /\ UNCHANGED <<machine, vars, sweepVars, lgVars>>
PollerMoves ==
  /\ machine = "poller" /\ Next
  /\ UNCHANGED <<machine, allVars, sweepVars, lgVars>>
SweepMoves ==
  /\ machine = "sweep" /\ SweepNext
  /\ UNCHANGED <<machine, allVars, vars, lgVars>>
LogsMove ==
  /\ machine = "logs" /\ LgNext
  /\ UNCHANGED <<machine, allVars, vars, sweepVars>>

MachinesNext ==
  \/ GateMoves \/ PollerMoves \/ SweepMoves \/ LogsMove
MachinesSpec == MachinesInit /\ [][MachinesNext]_allMachinesVars
=============================================================================

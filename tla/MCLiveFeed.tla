----------------------------- MODULE MCLiveFeed -----------------------------
(***************************************************************************)
(* LivePoller on three accounts, LiveFeed, and OptimizationRun with the    *)
(* page that follows it, for TLC: what must come about in the end.  They   *)
(* share no state, so one of them moves in a behaviour and the others      *)
(* rest: one run asks the questions of all three.                          *)
(***************************************************************************)
EXTENDS MCLivePoller, LiveFeed, OptimizationRun

VARIABLE machine   \* the one that moves, for good

Machines ==
  {"poller", "feed", "sweep"}
allMachinesVars == <<machine, vars, feedVars, sweepVars>>

\* The others rest in one of their initial states.
MachinesInit ==
  /\ machine \in Machines
  /\ Init /\ (machine # "poller" => at = [c \in Clients |-> CHOOSE a \in Accounts : TRUE])
  /\ FeedInit /\ (machine # "feed" => chosen = NoFeed)
  /\ SweepInit

PollerMoves ==
  /\ machine = "poller" /\ Next
  /\ UNCHANGED <<machine, feedVars, sweepVars>>
FeedMoves ==
  /\ machine = "feed" /\ FeedNext
  /\ UNCHANGED <<machine, vars, sweepVars>>
SweepMoves ==
  /\ machine = "sweep" /\ SweepNext
  /\ UNCHANGED <<machine, vars, feedVars>>

MachinesNext ==
  \/ PollerMoves \/ FeedMoves \/ SweepMoves
MachinesSpec == MachinesInit /\ [][MachinesNext]_allMachinesVars
                  /\ Fairness /\ FeedFairness /\ SweepFairness
=============================================================================

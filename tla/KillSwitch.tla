------------------------------ MODULE KillSwitch ------------------------------
(***************************************************************************)
(* The kill switch (src/backend/services/kill_switch.py): a flag in memory *)
(* that is read without a lock, and changed by activate and deactivate     *)
(* under a lock that is held while the change is written to the database,  *)
(* broadcast to the dashboards and sent to Telegram.                       *)
(***************************************************************************)
EXTENDS Naturals, FiniteSets

CONSTANTS
  Operators,   \* who changes the switch: HTTP handlers, the equity poller
  NoOperator,  \* the lock is free
  Faults       \* what may go wrong: "persist" fails, the process "restart"s

ASSUME OperatorsAssumption ==
  /\ NoOperator \notin Operators
  /\ Faults \subseteq {"persist", "restart"}

VARIABLES
  active,    \* _active
  flipper,   \* the operator that holds _lock
  flip,      \* where each operator is suspended
  want,      \* the action each operator asks for
  lastLog,   \* the action of the newest row of kill_switch_log
  since      \* what became of the trail last: "row" written, write failed,
             \* process restarted

switchVars == <<active, flipper, flip, want, lastLog, since>>

Wishes == {"activated", "deactivated"}

SwitchInit ==
  /\ active = FALSE
  /\ flipper = NoOperator
  /\ flip = [u \in Operators |-> "idle"]
  /\ want \in [Operators -> Wishes]
  /\ lastLog = "none"
  /\ since = "row"

\* A request reaches activate or deactivate.  The equity poller reads
\* is_active some awaits earlier, so nothing is known of the flag here.
Request(u, x) ==
  /\ flip[u] = "idle"
  /\ flip' = [flip EXCEPT ![u] = "wait"]
  /\ want' = [want EXCEPT ![u] = x]
  /\ UNCHANGED <<active, flipper, lastLog, since>>

\* Bug variant: the log is written after the lock was given back.
FlipAndRelease(u) ==
  /\ flip[u] = "wait"
  /\ flipper = NoOperator
  /\ active' = (want[u] = "activated")
  /\ flip' = [flip EXCEPT ![u] = "persist"]
  /\ UNCHANGED <<flipper, want, lastLog, since>>

\* Bug variant: deactivate assigns a local name (no "global _active").
FlipSticky(u) ==
  /\ flip[u] = "wait"
  /\ flipper = NoOperator
  /\ flipper' = u
  /\ active' = (active \/ want[u] = "activated")
  /\ flip' = [flip EXCEPT ![u] = "persist"]
  /\ UNCHANGED <<want, lastLog, since>>

\* The lock is taken and the flag set, before the first await.
Flip(u) ==
  /\ flip[u] = "wait"
  /\ flipper = NoOperator
  /\ flipper' = u
  /\ active' = (want[u] = "activated")
  /\ flip' = [flip EXCEPT ![u] = "persist"]
  /\ UNCHANGED <<want, lastLog, since>>

\* _persist: best effort, an exception is logged and swallowed.
Persist(u) ==
  /\ flip[u] = "persist"
  /\ \/ lastLog' = want[u] /\ since' = "row"
     \/ "persist" \in Faults /\ since' = "failure" /\ UNCHANGED lastLog
  /\ flip' = [flip EXCEPT ![u] = "tell"]
  /\ UNCHANGED <<active, flipper, want>>

\* The broadcast and the alert are over; the lock is given back.
Tell(u) ==
  /\ flip[u] = "tell"
  /\ flip' = [flip EXCEPT ![u] = "idle"]
  /\ flipper' = NoOperator
  /\ UNCHANGED <<active, want, lastLog, since>>

\* The process starts again: the module's globals are as at import.
Restart ==
  /\ "restart" \in Faults
  /\ active' = FALSE
  /\ flipper' = NoOperator
  /\ flip' = [u \in Operators |-> "idle"]
  /\ since' = "restart"
  /\ UNCHANGED <<want, lastLog>>

Flipping(u) == Flip(u) \/ Persist(u) \/ Tell(u)

SwitchNext ==
  \/ \E u \in Operators, x \in Wishes : Request(u, x)
  \/ \E u \in Operators : Flipping(u)
  \/ Restart

(***************************************************************************)
(* Fairness.  The database, the sockets and Telegram answer or time out,   *)
(* and asyncio.Lock is FIFO: who waits gets the lock.                      *)
(***************************************************************************)
SwitchFairness ==
  \A u \in Operators : SF_switchVars(Flip(u)) /\ WF_switchVars(Persist(u) \/ Tell(u))

SwitchSpec == SwitchInit /\ [][SwitchNext]_switchVars /\ SwitchFairness

-----------------------------------------------------------------------------
\* Every variable holds a value the code can give it.
SwitchTypeOK ==
  /\ active \in BOOLEAN
  /\ flipper \in Operators \cup {NoOperator}
  /\ flip \in [Operators -> {"idle", "wait", "persist", "tell"}]
  /\ want \in [Operators -> Wishes]
  /\ lastLog \in Wishes \cup {"none"}
  /\ since \in {"row", "failure", "restart"}

\* Whenever nobody is changing it, the audit trail's newest row tells whether
\* the switch is on, in whatever order operators and the equity poller came
\* (kill_switch_log, "activation/deactivation audit trail"): only a failed
\* write or a restart after that row can have made it stale.
AuditTellsState ==
  flipper = NoOperator /\ since = "row" => (active <=> lastLog = "activated")

\* A request takes effect, whoever else waits for the lock and whether or not
\* its row can be written, unless the process restarts first.
RequestTakesEffect ==
  \A u \in Operators, x \in Wishes :
    flip[u] = "wait" /\ want[u] = x ~> active = (x = "activated") \/ since = "restart"
=============================================================================

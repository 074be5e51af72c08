------------------------------ MODULE LivePoller ------------------------------
(***************************************************************************)
(* The live feed of the dashboard: WebSocket handlers                      *)
(* (src/backend/api/routes/ws.py) that start and stop the poll tasks of    *)
(* src/backend/services/mt5_poller.py.                                     *)
(*                                                                         *)
(* A handler registers its socket in _connections; the first of an account *)
(* calls start_account, the last one to leave calls stop_account.  Both    *)
(* functions work on the registry _tasks and suspend while a cancelled     *)
(* poll task runs its finally block.  The lock of ws.py is never held over *)
(* an await, so one action is the code from one suspension to the next.    *)
(***************************************************************************)
EXTENDS Naturals, FiniteSets

CONSTANTS
  Accounts,   \* account ids with a dashboard
  Clients,    \* browser tabs; one has one socket at a time
  TaskIds,    \* bound: poll tasks alive at once
  Flaky,      \* clients whose socket may break before their handler notices
  Faulty,     \* clients whose handler may end by another exception
  NoTask,     \* no entry in _tasks
  NoAccount   \* an unused task id

ASSUME ConstantsAssumption ==
  /\ NoTask \notin TaskIds
  /\ NoAccount \notin Accounts
  /\ Flaky \subseteq Clients
  /\ Faulty \subseteq Clients

VARIABLES
  conns,     \* _connections: the sockets registered for each account
  reg,       \* _tasks: the task registered for each account
  owner,     \* the account a poll task polls, NoAccount when it has ended
  stopping,  \* the poll tasks that were cancelled and have not ended
  pc,        \* where each handler is suspended
  at,        \* the account in each handler's URL
  waiting,   \* the cancelled task a handler awaits in stop_account
  rest       \* what start_account's loop has still to look at

vars == <<conns, reg, owner, stopping, pc, at, waiting, rest>>

(***************************************************************************)
(* off: no socket; starting: in start_account; open: in receive_text;      *)
(* leaving: in stop_account; failed: ended without its cleanup.            *)
(***************************************************************************)
Stage == {"off", "starting", "open", "leaving", "failed"}

Alive == {i \in TaskIds : owner[i] # NoAccount}

Running == Alive \ stopping

Registered == {a \in Accounts : reg[a] # NoTask}

Init ==
  /\ conns = [a \in Accounts |-> {}]
  /\ reg = [a \in Accounts |-> NoTask]
  /\ owner = [i \in TaskIds |-> NoAccount]
  /\ stopping = {}
  /\ pc = [c \in Clients |-> "off"]
  /\ at \in [Clients -> Accounts]
  /\ waiting = [c \in Clients |-> NoTask]
  /\ rest = [c \in Clients |-> {}]

-----------------------------------------------------------------------------
(***************************************************************************)
(* stop_account and start_account.                                         *)
(***************************************************************************)

\* Bug variant: the task is cancelled but stays registered.
StopKeepsEntry(c, a) ==
  /\ stopping' = stopping \cup {reg[a]}
  /\ waiting' = [waiting EXCEPT ![c] = reg[a]]
  /\ UNCHANGED <<reg, owner>>

\* stop_account up to "await task": the entry is popped before the await.
Stop(c, a) ==
  /\ reg' = [reg EXCEPT ![a] = NoTask]
  /\ stopping' = stopping \cup {reg[a]}
  /\ waiting' = [waiting EXCEPT ![c] = reg[a]]
  /\ UNCHANGED owner

\* The end of start_account: a new task replaces whatever entry there is.
CreateTask(c, a) ==
  \E i \in TaskIds \ Alive :
    /\ owner' = [owner EXCEPT ![i] = a]
    /\ reg' = [reg EXCEPT ![a] = i]
    /\ pc' = [pc EXCEPT ![c] = "open"]
    /\ rest' = [rest EXCEPT ![c] = {}]
    /\ UNCHANGED <<stopping, waiting>>

\* The loop over the snapshot of _tasks.  The model takes it in any order.
\* An account that left _tasks since the snapshot raises KeyError, outside
\* the handler's try block.
StopOthers(c, a, others) ==
  \/ others = {} /\ CreateTask(c, a)
  \/ \E b \in others \cap Registered :
       /\ Stop(c, b)
       /\ pc' = [pc EXCEPT ![c] = "starting"]
       /\ rest' = [rest EXCEPT ![c] = others \ {b}]
  \/ \E b \in others \ Registered :
       /\ pc' = [pc EXCEPT ![c] = "failed"]
       /\ rest' = [rest EXCEPT ![c] = {}]
       /\ UNCHANGED <<reg, owner, stopping, waiting>>

-----------------------------------------------------------------------------
(***************************************************************************)
(* The handler.                                                            *)
(***************************************************************************)

\* Bug variant: is_first is not looked at, only the registry.
ConnectEveryone(c, a) ==
  /\ pc[c] = "off"
  /\ at' = [at EXCEPT ![c] = a]
  /\ conns' = [conns EXCEPT ![a] = @ \cup {c}]
  /\ \/ /\ a \notin Registered
        /\ StopOthers(c, a, Registered)
     \/ /\ a \in Registered
        /\ pc' = [pc EXCEPT ![c] = "open"]
        /\ UNCHANGED <<reg, owner, stopping, waiting, rest>>

\* accept, the registration, and for the first socket of the account
\* start_account up to its first await.
Connect(c, a) ==
  /\ pc[c] = "off"
  /\ at' = [at EXCEPT ![c] = a]
  /\ conns' = [conns EXCEPT ![a] = @ \cup {c}]
  /\ \/ /\ conns[a] = {}
        /\ a \notin Registered
        /\ StopOthers(c, a, Registered)
     \/ /\ conns[a] # {} \/ a \in Registered
        /\ pc' = [pc EXCEPT ![c] = "open"]
        /\ UNCHANGED <<reg, owner, stopping, waiting, rest>>

\* Bug variant: the loop looks at _tasks anew instead of at its snapshot.
GoOnAnew(c) ==
  /\ pc[c] = "starting"
  /\ waiting[c] = NoTask
  /\ StopOthers(c, at[c], Registered \ {at[c]})
  /\ UNCHANGED <<conns, at>>

\* The task awaited inside start_account has ended.
GoOn(c) ==
  /\ pc[c] = "starting"
  /\ waiting[c] = NoTask
  /\ StopOthers(c, at[c], rest[c])
  /\ UNCHANGED <<conns, at>>

\* Bug variant: the first to leave stops the poller.
DisconnectAlways(c) ==
  /\ pc[c] = "open"
  /\ conns' = [conns EXCEPT ![at[c]] = @ \ {c}]
  /\ \/ /\ at[c] \in Registered
        /\ Stop(c, at[c])
        /\ pc' = [pc EXCEPT ![c] = "leaving"]
     \/ /\ at[c] \notin Registered
        /\ pc' = [pc EXCEPT ![c] = "off"]
        /\ UNCHANGED <<reg, owner, stopping, waiting>>
  /\ UNCHANGED <<at, rest>>

\* Bug variant: a socket that broadcast already removed does not count as
\* the last one.
DisconnectPruned(c) ==
  /\ pc[c] = "open"
  /\ conns' = [conns EXCEPT ![at[c]] = @ \ {c}]
  /\ \/ /\ conns[at[c]] = {c}
        /\ at[c] \in Registered
        /\ Stop(c, at[c])
        /\ pc' = [pc EXCEPT ![c] = "leaving"]
     \/ /\ conns[at[c]] # {c} \/ at[c] \notin Registered
        /\ pc' = [pc EXCEPT ![c] = "off"]
        /\ UNCHANGED <<reg, owner, stopping, waiting>>
  /\ UNCHANGED <<at, rest>>

\* Bug variant: stop_account does not look whether there was an entry.
DisconnectUnguarded(c) ==
  /\ pc[c] = "open"
  /\ conns' = [conns EXCEPT ![at[c]] = @ \ {c}]
  /\ conns[at[c]] \subseteq {c}
  /\ Stop(c, at[c])
  /\ pc' = [pc EXCEPT ![c] = "leaving"]
  /\ UNCHANGED <<at, rest>>

\* Bug variant: is_last is computed before the socket is removed.
DisconnectCountsItself(c) ==
  /\ pc[c] = "open"
  /\ conns' = [conns EXCEPT ![at[c]] = @ \ {c}]
  /\ \/ /\ conns[at[c]] = {}
        /\ at[c] \in Registered
        /\ Stop(c, at[c])
        /\ pc' = [pc EXCEPT ![c] = "leaving"]
     \/ /\ conns[at[c]] # {} \/ at[c] \notin Registered
        /\ pc' = [pc EXCEPT ![c] = "off"]
        /\ UNCHANGED <<reg, owner, stopping, waiting>>
  /\ UNCHANGED <<at, rest>>

\* WebSocketDisconnect: the last socket of the account stops its poller.
Disconnect(c) ==
  /\ pc[c] = "open"
  /\ conns' = [conns EXCEPT ![at[c]] = @ \ {c}]
  /\ \/ /\ conns[at[c]] \subseteq {c}
        /\ at[c] \in Registered
        /\ Stop(c, at[c])
        /\ pc' = [pc EXCEPT ![c] = "leaving"]
     \/ /\ ~(conns[at[c]] \subseteq {c} /\ at[c] \in Registered)
        /\ pc' = [pc EXCEPT ![c] = "off"]
        /\ UNCHANGED <<reg, owner, stopping, waiting>>
  /\ UNCHANGED <<at, rest>>

\* The task awaited in stop_account has ended, and with it the handler.
Leave(c) ==
  /\ pc[c] = "leaving"
  /\ waiting[c] = NoTask
  /\ pc' = [pc EXCEPT ![c] = "off"]
  /\ UNCHANGED <<conns, reg, owner, stopping, at, waiting, rest>>

\* Any other exception in the receive loop (data.get of a message that is not
\* an object, send_text on a closed socket): no cleanup is reached.
Fail(c) ==
  /\ c \in Faulty
  /\ pc[c] = "open"
  /\ pc' = [pc EXCEPT ![c] = "failed"]
  /\ UNCHANGED <<conns, reg, owner, stopping, at, waiting, rest>>

-----------------------------------------------------------------------------
(***************************************************************************)
(* The poll tasks and the broadcasts.                                      *)
(***************************************************************************)

\* A cancelled task leaves its finally block and wakes who awaits it.
TaskEnds(i) ==
  /\ i \in stopping
  /\ stopping' = stopping \ {i}
  /\ owner' = [owner EXCEPT ![i] = NoAccount]
  /\ waiting' = [c \in Clients |-> IF waiting[c] = i THEN NoTask ELSE waiting[c]]
  /\ UNCHANGED <<conns, reg, pc, at, rest>>

\* broadcast (of the poller, or of broadcast_all) failed on a broken socket
\* and removes it; the handler is told later, or is gone already.
Prune(c) ==
  /\ c \in conns[at[c]]
  /\ pc[c] = "failed" \/ c \in Flaky
  /\ conns' = [conns EXCEPT ![at[c]] = @ \ {c}]
  /\ UNCHANGED <<reg, owner, stopping, pc, at, waiting, rest>>

Handler(c) == GoOn(c) \/ Disconnect(c) \/ Leave(c) \/ Fail(c) \/ Prune(c)

Next ==
  \/ \E c \in Clients, a \in Accounts : Connect(c, a)
  \/ \E c \in Clients : Handler(c)
  \/ \E i \in TaskIds : TaskEnds(i)

Spec == Init /\ [][Next]_vars

(***************************************************************************)
(* Fairness.  A cancelled poll task ends: its finally block waits for the  *)
(* MT5 lock, which MT5Session shows to be served.  A handler whose await   *)
(* is over is scheduled.  Nobody is obliged to connect or to leave.        *)
(***************************************************************************)
Fairness ==
  /\ \A i \in TaskIds : WF_vars(TaskEnds(i))
  /\ \A c \in Clients : WF_vars(GoOn(c)) /\ WF_vars(Leave(c))

FairSpec == Spec /\ Fairness

-----------------------------------------------------------------------------
(***************************************************************************)
(* Properties.                                                             *)
(***************************************************************************)

\* Every variable holds a value the code can give it.
TypeOK ==
  /\ conns \in [Accounts -> SUBSET Clients]
  /\ reg \in [Accounts -> TaskIds \cup {NoTask}]
  /\ owner \in [TaskIds -> Accounts \cup {NoAccount}]
  /\ stopping \subseteq TaskIds
  /\ pc \in [Clients -> Stage]
  /\ at \in [Clients -> Accounts]
  /\ waiting \in [Clients -> TaskIds \cup {NoTask}]
  /\ rest \in [Clients -> SUBSET Accounts]

\* An entry of _tasks is a task that polls that very account and was not
\* cancelled; start_account's "already running" test is then the truth.
EntryIsRunning ==
  \A a \in Registered : reg[a] \in Running /\ owner[reg[a]] = a

\* A registered poller always has a handler of its account whose end will
\* stop it: polling outlives its viewers only where a handler failed.
PollerHasHandler ==
  \A a \in Registered :
    \E c \in Clients : at[c] = a /\ pc[c] \in {"starting", "open", "failed"}

\* Every task that polls can be found in _tasks, so some stop_account can
\* still end it.
NoOrphanTask == \A i \in Running : reg[owner[i]] = i

\* While all viewers look at one account, whoever is connected is served by a
\* poller, however fast the others come and go (ws.py:4-5).
ConnectedIsPolled ==
  \A c \in Clients :
    pc[c] = "open" /\ c \in conns[at[c]] => at[c] \in Registered

\* "Only one account should be polled at a time, which the WS route enforces"
\* (mt5_poller.py:8-9): never two tasks polling.
OnePoller == Cardinality(Running) <= 1

\* When the last viewer of an account has left, its poller goes away
\* ("stops when the last client disconnects", ws.py:5).
LastViewerStops ==
  \A a \in Accounts :
    (\A c \in Clients : at[c] = a => pc[c] \in {"off", "failed"}) =>
      \A i \in Running : owner[i] # a

\* Nobody hangs: a handler that is starting or leaving gets on, although it
\* waits for a task that somebody else's handler may have cancelled too.
HandlerGetsOn ==
  \A c \in Clients :
    pc[c] \in {"starting", "leaving"} ~> pc[c] \in {"off", "open", "failed"}
=============================================================================

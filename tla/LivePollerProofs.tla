--------------------------- MODULE LivePollerProofs ---------------------------
(***************************************************************************)
(* Proofs about the registry of poll tasks, for any number of accounts,    *)
(* sockets and tasks, whichever sockets break and handlers fail.           *)
(***************************************************************************)
EXTENDS LivePoller, TLAPS

(***************************************************************************)
(* The inductive invariant.  A task that is being stopped has not ended    *)
(* (StoppingAlive), so a new task never takes its place under the entry of *)
(* another account; a registered socket belongs to a handler of that       *)
(* account which has not left (SocketsHaveHandlers), so whoever leaves     *)
(* without stopping the poller leaves somebody behind.                     *)
(***************************************************************************)
StoppingAlive == stopping \subseteq Alive

Present == {"starting", "open", "failed"}

SocketsHaveHandlers ==
  \A a \in Accounts : \A c \in conns[a] : at[c] = a /\ pc[c] \in Present

RegistryInv ==
  /\ TypeOK
  /\ StoppingAlive
  /\ SocketsHaveHandlers
  /\ EntryIsRunning
  /\ PollerHasHandler

LEMMA InitRegistry == Init => RegistryInv
  BY ConstantsAssumption
  DEF Init, RegistryInv, TypeOK, StoppingAlive, SocketsHaveHandlers,
      EntryIsRunning, PollerHasHandler, Registered, Alive, Running, Stage

\* stop_account pops the entry of one account and leaves the others.
LEMMA StopRegistry ==
  ASSUME RegistryInv, NEW c \in Clients, NEW a \in Registered, Stop(c, a)
  PROVE  /\ reg' \in [Accounts -> TaskIds \cup {NoTask}]
         /\ owner' \in [TaskIds -> Accounts \cup {NoAccount}]
         /\ stopping' \subseteq TaskIds
         /\ waiting' \in [Clients -> TaskIds \cup {NoTask}]
         /\ StoppingAlive'
         /\ Registered' = Registered \ {a}
         /\ EntryIsRunning'
  BY ConstantsAssumption
  DEF RegistryInv, TypeOK, StoppingAlive, EntryIsRunning, Registered, Alive,
      Running, Stop

\* A new task is none of those that still run or end.
LEMMA CreateRegistry ==
  ASSUME RegistryInv, NEW c \in Clients, NEW a \in Accounts, CreateTask(c, a)
  PROVE  /\ reg' \in [Accounts -> TaskIds \cup {NoTask}]
         /\ owner' \in [TaskIds -> Accounts \cup {NoAccount}]
         /\ stopping' \subseteq TaskIds
         /\ waiting' \in [Clients -> TaskIds \cup {NoTask}]
         /\ pc' = [pc EXCEPT ![c] = "open"]
         /\ rest' \in [Clients -> SUBSET Accounts]
         /\ StoppingAlive'
         /\ Registered' = Registered \cup {a}
         /\ EntryIsRunning'
  <1>1. PICK i \in TaskIds \ Alive :
          /\ owner' = [owner EXCEPT ![i] = a]
          /\ reg' = [reg EXCEPT ![a] = i]
    BY DEF CreateTask
  <1> QED
    BY <1>1, ConstantsAssumption
    DEF RegistryInv, TypeOK, StoppingAlive, EntryIsRunning, Registered, Alive,
        Running, CreateTask

\* One round of start_account's loop.  The handler stays with its account, so
\* it is the one that answers for the task it may have created.
LEMMA StopOthersRegistry ==
  ASSUME RegistryInv, NEW c \in Clients, NEW a \in Accounts,
         NEW others \in SUBSET Accounts, StopOthers(c, a, others)
  PROVE  /\ reg' \in [Accounts -> TaskIds \cup {NoTask}]
         /\ owner' \in [TaskIds -> Accounts \cup {NoAccount}]
         /\ stopping' \subseteq TaskIds
         /\ waiting' \in [Clients -> TaskIds \cup {NoTask}]
         /\ rest' \in [Clients -> SUBSET Accounts]
         /\ \E s \in Present : pc' = [pc EXCEPT ![c] = s]
         /\ StoppingAlive'
         /\ Registered' \subseteq Registered \cup {a}
         /\ EntryIsRunning'
  <1>0. rest \in [Clients -> SUBSET Accounts]
    BY DEF RegistryInv, TypeOK
  <1>1. CASE CreateTask(c, a)
    BY <1>1, CreateRegistry DEF Present
  <1>2. ASSUME NEW b \in others \cap Registered, Stop(c, b),
               pc' = [pc EXCEPT ![c] = "starting"],
               rest' = [rest EXCEPT ![c] = others \ {b}]
        PROVE  /\ rest' \in [Clients -> SUBSET Accounts]
               /\ Registered' \subseteq Registered \cup {a}
    BY <1>0, <1>2, StopRegistry
  <1>3. CASE /\ pc' = [pc EXCEPT ![c] = "failed"]
             /\ rest' = [rest EXCEPT ![c] = {}]
             /\ UNCHANGED <<reg, owner, stopping, waiting>>
    <2>1. rest' \in [Clients -> SUBSET Accounts]
      BY <1>0, <1>3
    <2> QED
      BY <1>3, <2>1
      DEF RegistryInv, TypeOK, StoppingAlive, EntryIsRunning, Registered, Alive,
          Running, Present
  <1> QED
    BY <1>1, <1>2, <1>3, StopRegistry DEF StopOthers, Present

-----------------------------------------------------------------------------
\* Every action keeps the inductive invariant.
LEMMA RegistryStep == RegistryInv /\ [Next]_vars => RegistryInv'
  <1> SUFFICES ASSUME RegistryInv, [Next]_vars PROVE RegistryInv'
    OBVIOUS
  <1> USE DEF Present
  <1>0. /\ TypeOK /\ StoppingAlive /\ SocketsHaveHandlers
        /\ EntryIsRunning /\ PollerHasHandler
    BY DEF RegistryInv
  <1>1. ASSUME NEW c \in Clients, NEW a \in Accounts, Connect(c, a)
        PROVE RegistryInv'
    <2>1. /\ at' \in [Clients -> Accounts]
          /\ conns' \in [Accounts -> SUBSET Clients]
      BY <1>0, <1>1 DEF Connect, TypeOK
    <2>2. CASE StopOthers(c, a, Registered)
      <3>0. Registered \in SUBSET Accounts
        BY DEF Registered
      <3>1. PICK s \in Present : pc' = [pc EXCEPT ![c] = s]
        BY <2>2, <3>0, StopOthersRegistry
      <3>2. SocketsHaveHandlers'
        BY <1>0, <1>1, <3>1 DEF SocketsHaveHandlers, Connect, TypeOK
      <3>3. /\ EntryIsRunning' /\ StoppingAlive'
            /\ Registered' \subseteq Registered \cup {a}
        BY <2>2, <3>0, StopOthersRegistry
      <3>4. TypeOK'
        BY <1>0, <2>1, <2>2, <3>0, <3>1, StopOthersRegistry DEF TypeOK, Stage
      <3>5. PollerHasHandler'
        BY <1>0, <1>1, <3>1, <3>3 DEF PollerHasHandler, TypeOK, Connect
      <3> QED BY <3>2, <3>3, <3>4, <3>5 DEF RegistryInv
    <2>3. CASE pc' = [pc EXCEPT ![c] = "open"]
               /\ UNCHANGED <<reg, owner, stopping, waiting, rest>>
      BY <1>0, <1>1, <2>1, <2>3
      DEF RegistryInv, TypeOK, StoppingAlive, SocketsHaveHandlers, EntryIsRunning,
          PollerHasHandler, Registered, Alive, Running, Connect, Stage
    <2> QED BY <1>1, <2>2, <2>3 DEF Connect
  <1>2. ASSUME NEW c \in Clients, GoOn(c) PROVE RegistryInv'
    <2>0. /\ at[c] \in Accounts /\ rest[c] \in SUBSET Accounts
          /\ StopOthers(c, at[c], rest[c]) /\ UNCHANGED <<conns, at>>
      BY <1>0, <1>2 DEF GoOn, TypeOK
    <2>1. PICK s \in Present : pc' = [pc EXCEPT ![c] = s]
      BY <2>0, StopOthersRegistry
    <2>2. SocketsHaveHandlers'
      BY <1>0, <2>0, <2>1 DEF SocketsHaveHandlers, TypeOK
    <2>3. /\ EntryIsRunning' /\ StoppingAlive'
          /\ Registered' \subseteq Registered \cup {at[c]}
      BY <2>0, StopOthersRegistry
    <2>4. TypeOK'
      BY <1>0, <2>0, <2>1, StopOthersRegistry DEF TypeOK, Stage
    <2>5. PollerHasHandler'
      BY <1>0, <2>0, <2>1, <2>3 DEF PollerHasHandler, TypeOK
    <2> QED BY <2>2, <2>3, <2>4, <2>5 DEF RegistryInv
  <1>3. ASSUME NEW c \in Clients, Disconnect(c) PROVE RegistryInv'
    <2>0. /\ at[c] \in Accounts /\ UNCHANGED <<at, rest>> /\ pc[c] = "open"
          /\ conns' = [conns EXCEPT ![at[c]] = @ \ {c}]
          /\ conns' \in [Accounts -> SUBSET Clients]
      BY <1>0, <1>3 DEF Disconnect, TypeOK
    <2>1. ASSUME NEW s \in {"leaving", "off"}, pc' = [pc EXCEPT ![c] = s]
          PROVE SocketsHaveHandlers'
      BY <1>0, <2>0, <2>1 DEF SocketsHaveHandlers, TypeOK
    \* The last one stops the poller: its account asks for nobody any more.
    <2>2. CASE at[c] \in Registered /\ Stop(c, at[c])
               /\ pc' = [pc EXCEPT ![c] = "leaving"]
      <3>1. PollerHasHandler'
        BY <1>0, <2>0, <2>2, StopRegistry DEF PollerHasHandler, TypeOK, Registered
      <3> QED
        BY <1>0, <2>0, <2>1, <2>2, <3>1, StopRegistry DEF RegistryInv, TypeOK, Stage
    \* Otherwise there is no poller, or another socket, whose handler stays.
    <2>3. CASE ~(conns[at[c]] \subseteq {c} /\ at[c] \in Registered)
               /\ pc' = [pc EXCEPT ![c] = "off"]
               /\ UNCHANGED <<reg, owner, stopping, waiting>>
      <3>1. PollerHasHandler'
        <4> SUFFICES ASSUME NEW a \in Registered
                     PROVE  \E d \in Clients : at[d] = a /\ pc'[d] \in Present
          BY <2>0, <2>3 DEF PollerHasHandler, Registered
        <4>1. CASE a = at[c]
          <5>1. PICK d \in conns[a] : d # c
            BY <2>3, <4>1
          <5> QED BY <1>0, <2>0, <2>3, <4>1, <5>1 DEF SocketsHaveHandlers, TypeOK
        <4>2. CASE a # at[c]
          BY <1>0, <2>3, <4>2 DEF PollerHasHandler, TypeOK, Registered
        <4> QED BY <4>1, <4>2
      <3> QED
        BY <1>0, <2>0, <2>1, <2>3, <3>1
        DEF RegistryInv, TypeOK, StoppingAlive, EntryIsRunning, Registered, Alive,
            Running, Stage
    <2> QED BY <1>3, <2>2, <2>3 DEF Disconnect
  <1>4. ASSUME NEW c \in Clients, Leave(c) \/ Fail(c) PROVE RegistryInv'
    BY <1>0, <1>4
    DEF RegistryInv, TypeOK, StoppingAlive, SocketsHaveHandlers, EntryIsRunning,
        PollerHasHandler, Registered, Alive, Running, Leave, Fail, Stage
  <1>5. ASSUME NEW c \in Clients, Prune(c) PROVE RegistryInv'
    BY <1>0, <1>5
    DEF RegistryInv, TypeOK, StoppingAlive, SocketsHaveHandlers, EntryIsRunning,
        PollerHasHandler, Registered, Alive, Running, Prune
  <1>6. ASSUME NEW i \in TaskIds, TaskEnds(i) PROVE RegistryInv'
    BY <1>0, <1>6, ConstantsAssumption
    DEF RegistryInv, TypeOK, StoppingAlive, SocketsHaveHandlers, EntryIsRunning,
        PollerHasHandler, Registered, Alive, Running, TaskEnds
  <1>7. CASE UNCHANGED vars
    BY <1>0, <1>7
    DEF RegistryInv, TypeOK, StoppingAlive, SocketsHaveHandlers, EntryIsRunning,
        PollerHasHandler, Registered, Alive, Running, vars
  <1> QED
    BY <1>1, <1>2, <1>3, <1>4, <1>5, <1>6, <1>7 DEF Next, Handler

-----------------------------------------------------------------------------
LEMMA AlwaysRegistryInv == Spec => []RegistryInv
  BY InitRegistry, RegistryStep, PTL DEF Spec

\* The types of the registry's state.
THEOREM PollerTypesCorrect == Spec => []TypeOK
  <1>1. RegistryInv => TypeOK
    BY DEF RegistryInv
  <1> QED BY <1>1, AlwaysRegistryInv, PTL

\* An entry of _tasks is always a running task of its own account, whatever
\* sockets connect, break, leave or fail (start_account's test of _tasks).
THEOREM EntriesAreRunning == Spec => []EntryIsRunning
  <1>1. RegistryInv => EntryIsRunning
    BY DEF RegistryInv
  <1> QED BY <1>1, AlwaysRegistryInv, PTL

\* A registered poller has a handler that will stop it, or one that failed:
\* is_last, computed from sockets that broadcast may have removed, never
\* leaves a poller without anybody (the disconnect branch of ws.py).
THEOREM PollersHaveHandlers == Spec => []PollerHasHandler
  <1>1. RegistryInv => PollerHasHandler
    BY DEF RegistryInv
  <1> QED BY <1>1, AlwaysRegistryInv, PTL

-----------------------------------------------------------------------------
(***************************************************************************)
(* Sockets that do not break.  A handler inside start_account then keeps   *)
(* its socket registered, so that nobody else is first of its account, and *)
(* its account has no poller until it creates one (StartersAlone): the     *)
(* task it creates replaces no entry.                                      *)
(***************************************************************************)
StartersAlone ==
  \A c \in Clients :
    pc[c] = "starting" =>
      /\ c \in conns[at[c]]
      /\ at[c] \notin Registered
      /\ \A d \in Clients : pc[d] = "starting" /\ at[d] = at[c] => d = c

OrphanInv == RegistryInv /\ StartersAlone /\ NoOrphanTask

LEMMA InitOrphan == Init => OrphanInv
  BY InitRegistry
  DEF Init, OrphanInv, StartersAlone, NoOrphanTask, Running, Alive

\* A round of start_account's loop for an account without a poller.
LEMMA StopOthersOrphan ==
  ASSUME RegistryInv, NoOrphanTask, NEW c \in Clients,
         NEW a \in Accounts \ Registered, NEW others \in SUBSET Accounts,
         StopOthers(c, a, others)
  PROVE  /\ NoOrphanTask'
         /\ \E s \in Present : pc' = [pc EXCEPT ![c] = s]
         /\ Registered' \subseteq Registered \cup {a}
         /\ pc'[c] = "starting" => Registered' \subseteq Registered
  <1>0. /\ reg \in [Accounts -> TaskIds \cup {NoTask}]
        /\ owner \in [TaskIds -> Accounts \cup {NoAccount}]
        /\ pc \in [Clients -> Stage]
        /\ reg[a] = NoTask
    BY DEF RegistryInv, TypeOK, Registered
  <1>1. CASE CreateTask(c, a)
    <2>1. PICK i \in TaskIds \ Alive :
            /\ owner' = [owner EXCEPT ![i] = a]
            /\ reg' = [reg EXCEPT ![a] = i]
      BY <1>1 DEF CreateTask
    <2>2. stopping' = stopping /\ pc' = [pc EXCEPT ![c] = "open"]
      BY <1>1 DEF CreateTask
    <2>3. ASSUME NEW j \in Running' PROVE reg'[owner'[j]] = j
      <3>1. CASE j = i
        BY <1>0, <2>1, <3>1
      <3>2. CASE j # i
        <4>1. j \in Running
          BY <1>0, <2>1, <2>2, <2>3, <3>2 DEF Running, Alive
        <4>2. reg[owner[j]] = j /\ owner[j] \in Accounts /\ owner[j] # a
          BY <1>0, <4>1, ConstantsAssumption DEF NoOrphanTask, Running, Alive
        <4> QED BY <1>0, <2>1, <3>2, <4>1, <4>2 DEF Running, Alive
      <3> QED BY <3>1, <3>2
    <2> QED BY <1>0, <1>1, <2>2, <2>3, CreateRegistry DEF NoOrphanTask, Present
  <1>2. ASSUME NEW b \in others \cap Registered, Stop(c, b),
               pc' = [pc EXCEPT ![c] = "starting"]
        PROVE  NoOrphanTask' /\ Registered' \subseteq Registered
    <2>1. Registered' \subseteq Registered
      BY <1>2, StopRegistry
    <2>2. NoOrphanTask'
      BY <1>0, <1>2 DEF NoOrphanTask, Running, Alive, Stop, Registered
    <2> QED BY <2>1, <2>2
  <1>3. CASE /\ pc' = [pc EXCEPT ![c] = "failed"]
             /\ UNCHANGED <<reg, owner, stopping, waiting>>
    BY <1>0, <1>3 DEF NoOrphanTask, Running, Alive, Registered, Present
  <1> QED
    BY <1>0, <1>1, <1>2, <1>3 DEF StopOthers, Present

LEMMA OrphanStep ==
  ASSUME Flaky = {}
  PROVE  OrphanInv /\ [Next]_vars => OrphanInv'
  <1> SUFFICES ASSUME OrphanInv, [Next]_vars PROVE OrphanInv'
    OBVIOUS
  <1>0. RegistryInv /\ RegistryInv' /\ TypeOK /\ StartersAlone /\ NoOrphanTask
    BY RegistryStep DEF OrphanInv, RegistryInv
  <1>s. SUFFICES StartersAlone' /\ NoOrphanTask'
    BY <1>0 DEF OrphanInv
  <1>1. ASSUME NEW c \in Clients, NEW a \in Accounts, Connect(c, a)
        PROVE StartersAlone' /\ NoOrphanTask'
    <2>1. /\ at' = [at EXCEPT ![c] = a] /\ at \in [Clients -> Accounts]
          /\ conns' = [conns EXCEPT ![a] = @ \cup {c}]
          /\ conns \in [Accounts -> SUBSET Clients]
          /\ pc \in [Clients -> Stage]
      BY <1>0, <1>1 DEF Connect, TypeOK
    <2>2. CASE conns[a] = {} /\ a \notin Registered /\ StopOthers(c, a, Registered)
      <3>1. /\ NoOrphanTask'
            /\ \E s \in Present : pc' = [pc EXCEPT ![c] = s]
            /\ Registered' \subseteq Registered \cup {a}
            /\ pc'[c] = "starting" => Registered' \subseteq Registered
        BY <1>0, <2>2, StopOthersOrphan DEF Registered
      \* Nobody else is starting this account: its socket would be in conns.
      <3>2. \A d \in Clients \ {c} : pc'[d] = "starting" => pc[d] = "starting" /\ at[d] # a
        BY <1>0, <2>1, <2>2, <3>1 DEF StartersAlone
      <3>3. StartersAlone'
        <4> SUFFICES ASSUME NEW d \in Clients, pc'[d] = "starting"
                     PROVE  /\ d \in conns'[at'[d]]
                            /\ at'[d] \notin Registered'
                            /\ \A e \in Clients :
                                 pc'[e] = "starting" /\ at'[e] = at'[d] => e = d
          BY DEF StartersAlone
        <4>1. CASE d = c
          BY <2>1, <2>2, <3>1, <3>2, <4>1
        <4>2. CASE d # c
          <5>1. at'[d] = at[d] /\ at[d] # a /\ pc[d] = "starting"
            BY <2>1, <3>2, <4>2
          <5>2. d \in conns'[at'[d]] /\ at'[d] \notin Registered'
            BY <1>0, <2>1, <3>1, <5>1 DEF StartersAlone
          <5>3. \A e \in Clients :
                  pc'[e] = "starting" /\ at'[e] = at'[d] => e = d
            BY <1>0, <2>1, <3>2, <5>1 DEF StartersAlone
          <5> QED BY <5>2, <5>3
        <4> QED BY <4>1, <4>2
      <3> QED BY <3>1, <3>3
    <2>3. CASE pc' = [pc EXCEPT ![c] = "open"]
               /\ UNCHANGED <<reg, owner, stopping, waiting, rest>>
      BY <1>0, <2>1, <2>3
      DEF StartersAlone, NoOrphanTask, Registered, Running, Alive
    <2> QED BY <1>1, <2>2, <2>3 DEF Connect
  <1>2. ASSUME NEW c \in Clients, GoOn(c) PROVE StartersAlone' /\ NoOrphanTask'
    <2>0. /\ at[c] \in Accounts \ Registered /\ rest[c] \in SUBSET Accounts
          /\ StopOthers(c, at[c], rest[c]) /\ UNCHANGED <<conns, at>>
          /\ pc[c] = "starting" /\ pc \in [Clients -> Stage]
      BY <1>0, <1>2 DEF GoOn, TypeOK, StartersAlone
    <2>1. /\ NoOrphanTask'
          /\ \E s \in Present : pc' = [pc EXCEPT ![c] = s]
          /\ Registered' \subseteq Registered \cup {at[c]}
          /\ pc'[c] = "starting" => Registered' \subseteq Registered
      BY <1>0, <2>0, StopOthersOrphan
    <2>2. StartersAlone'
      BY <1>0, <2>0, <2>1 DEF StartersAlone
    <2> QED BY <2>1, <2>2
  <1>3. ASSUME NEW c \in Clients, Disconnect(c) PROVE StartersAlone' /\ NoOrphanTask'
    <2>0. /\ UNCHANGED at /\ pc[c] = "open" /\ at[c] \in Accounts
          /\ conns' = [conns EXCEPT ![at[c]] = @ \ {c}]
          /\ conns \in [Accounts -> SUBSET Clients] /\ pc \in [Clients -> Stage]
          /\ at \in [Clients -> Accounts]
      BY <1>0, <1>3 DEF Disconnect, TypeOK
    <2>1. /\ \E s \in {"leaving", "off"} : pc' = [pc EXCEPT ![c] = s]
          /\ Registered' \subseteq Registered
      BY <1>0, <1>3, StopRegistry DEF Disconnect, Registered
    <2>2. StartersAlone'
      BY <1>0, <2>0, <2>1 DEF StartersAlone
    <2>3. NoOrphanTask'
      BY <1>0, <1>3
      DEF Disconnect, Stop, NoOrphanTask, Running, Alive, Registered, TypeOK
    <2> QED BY <2>2, <2>3
  <1>4. ASSUME NEW c \in Clients, Leave(c) \/ Fail(c)
        PROVE StartersAlone' /\ NoOrphanTask'
    BY <1>0, <1>4
    DEF TypeOK, StartersAlone, NoOrphanTask, Registered, Running, Alive, Leave, Fail
  \* Only the sockets of handlers that failed are pruned.
  <1>5. ASSUME NEW c \in Clients, Prune(c) PROVE StartersAlone' /\ NoOrphanTask'
    <2>1. pc[c] = "failed" /\ UNCHANGED <<reg, owner, stopping, pc, at>>
          /\ conns' = [conns EXCEPT ![at[c]] = @ \ {c}]
      BY <1>5 DEF Prune
    <2> QED
      BY <1>0, <2>1
      DEF TypeOK, StartersAlone, NoOrphanTask, Registered, Running, Alive
  <1>6. ASSUME NEW i \in TaskIds, TaskEnds(i) PROVE StartersAlone' /\ NoOrphanTask'
    BY <1>0, <1>6
    DEF TypeOK, StartersAlone, NoOrphanTask, Registered, Running, Alive, TaskEnds
  <1>7. CASE UNCHANGED vars
    BY <1>0, <1>7
    DEF StartersAlone, NoOrphanTask, Registered, Running, Alive, vars
  <1> QED
    BY <1>1, <1>2, <1>3, <1>4, <1>5, <1>6, <1>7 DEF Next, Handler

\* Where sockets do not break before their handlers notice, every task that
\* polls can be found in _tasks and stopped, however accounts are opened,
\* switched and left at the same time.
THEOREM NoTaskIsLost ==
  ASSUME Flaky = {}
  PROVE  Spec => []NoOrphanTask
  <1>1. OrphanInv => NoOrphanTask
    BY DEF OrphanInv
  <1> QED BY <1>1, InitOrphan, OrphanStep, PTL DEF Spec
-----------------------------------------------------------------------------
(***************************************************************************)
(* All viewers on one account, whatever sockets break.  start_account then *)
(* has no other poller to wait for and ends in the step that began it      *)
(* (NobodyStarts), so a registered socket, also one whose handler failed,  *)
(* always has a poller (SocketsArePolled): nothing comes between the test  *)
(* of _connections and the entry in _tasks.                                *)
(***************************************************************************)
NobodyStarts == \A c \in Clients : pc[c] # "starting"

SocketsArePolled == \A a \in Accounts : conns[a] # {} => a \in Registered

NobodyFails == Faulty = {} => \A c \in Clients : pc[c] # "failed"

OneAccountInv ==
  RegistryInv /\ NoOrphanTask /\ NobodyStarts /\ SocketsArePolled /\ NobodyFails

LEMMA InitOneAccount == Init => OneAccountInv
  BY InitOrphan
  DEF Init, OneAccountInv, OrphanInv, NobodyStarts, SocketsArePolled, NobodyFails

LEMMA OneAccountStep ==
  ASSUME \A a, b \in Accounts : a = b, OneAccountInv, [Next]_vars
  PROVE  OneAccountInv'
  <1>0. /\ RegistryInv /\ RegistryInv' /\ TypeOK /\ NoOrphanTask
        /\ NobodyStarts /\ SocketsArePolled /\ NobodyFails
    BY RegistryStep DEF OneAccountInv, RegistryInv
  <1>s. SUFFICES NoOrphanTask' /\ NobodyStarts' /\ SocketsArePolled' /\ NobodyFails'
    BY <1>0 DEF OneAccountInv
  <1>1. ASSUME NEW c \in Clients, NEW a \in Accounts, Connect(c, a)
        PROVE  NoOrphanTask' /\ NobodyStarts' /\ SocketsArePolled' /\ NobodyFails'
    <2>1. /\ conns' = [conns EXCEPT ![a] = @ \cup {c}]
          /\ conns \in [Accounts -> SUBSET Clients]
          /\ pc \in [Clients -> Stage]
      BY <1>0, <1>1 DEF Connect, TypeOK
    <2>2. CASE a \notin Registered /\ StopOthers(c, a, Registered)
      \* No account is registered, so the loop is empty.
      <3>1. Registered = {}
        BY <2>2 DEF Registered
      <3>2. CreateTask(c, a)
        BY <2>2, <3>1 DEF StopOthers
      <3>3. NoOrphanTask'
        BY <1>0, <2>2, StopOthersOrphan DEF Registered
      <3>4. Registered' = {a} /\ pc' = [pc EXCEPT ![c] = "open"]
        BY <1>0, <3>1, <3>2, CreateRegistry
      <3> QED
        BY <1>0, <2>1, <3>3, <3>4 DEF NobodyStarts, SocketsArePolled, NobodyFails
    <2>3. CASE /\ conns[a] # {} \/ a \in Registered
               /\ pc' = [pc EXCEPT ![c] = "open"]
               /\ UNCHANGED <<reg, owner, stopping, waiting, rest>>
      <3>1. Registered' = Registered /\ a \in Registered /\ NoOrphanTask'
        BY <1>0, <2>3 DEF SocketsArePolled, Registered, NoOrphanTask, Running, Alive
      <3> QED
        BY <1>0, <2>1, <2>3, <3>1 DEF NobodyStarts, SocketsArePolled, NobodyFails
    <2> QED BY <1>1, <2>2, <2>3 DEF Connect
  <1>2. ASSUME NEW c \in Clients, GoOn(c)
        PROVE  NoOrphanTask' /\ NobodyStarts' /\ SocketsArePolled' /\ NobodyFails'
    BY <1>0, <1>2 DEF GoOn, NobodyStarts
  <1>3. ASSUME NEW c \in Clients, Disconnect(c)
        PROVE  NoOrphanTask' /\ NobodyStarts' /\ SocketsArePolled' /\ NobodyFails'
    <2>1. /\ conns' = [conns EXCEPT ![at[c]] = @ \ {c}]
          /\ conns \in [Accounts -> SUBSET Clients] /\ at[c] \in Accounts
          /\ pc \in [Clients -> Stage]
          /\ \E s \in {"leaving", "off"} : pc' = [pc EXCEPT ![c] = s]
      BY <1>0, <1>3 DEF Disconnect, TypeOK
    <2>2. NoOrphanTask'
      BY <1>0, <1>3
      DEF Disconnect, Stop, NoOrphanTask, Running, Alive, Registered, TypeOK
    <2>3. CASE conns[at[c]] \subseteq {c}
      BY <1>0, <2>1, <2>2, <2>3 DEF NobodyStarts, SocketsArePolled, NobodyFails
    <2>4. CASE UNCHANGED reg
      BY <1>0, <2>1, <2>2, <2>4
      DEF NobodyStarts, SocketsArePolled, NobodyFails, Registered
    <2> QED BY <1>3, <2>3, <2>4 DEF Disconnect
  <1>4. ASSUME NEW c \in Clients, Leave(c) \/ Fail(c)
        PROVE  NoOrphanTask' /\ NobodyStarts' /\ SocketsArePolled' /\ NobodyFails'
    BY <1>0, <1>4
    DEF TypeOK, NoOrphanTask, NobodyStarts, SocketsArePolled, NobodyFails,
        Registered, Running, Alive, Leave, Fail
  <1>5. ASSUME NEW c \in Clients, Prune(c)
        PROVE  NoOrphanTask' /\ NobodyStarts' /\ SocketsArePolled' /\ NobodyFails'
    BY <1>0, <1>5
    DEF TypeOK, NoOrphanTask, NobodyStarts, SocketsArePolled, NobodyFails,
        Registered, Running, Alive, Prune
  <1>6. ASSUME NEW i \in TaskIds, TaskEnds(i)
        PROVE  NoOrphanTask' /\ NobodyStarts' /\ SocketsArePolled' /\ NobodyFails'
    BY <1>0, <1>6
    DEF TypeOK, NoOrphanTask, NobodyStarts, SocketsArePolled, NobodyFails,
        Registered, Running, Alive, TaskEnds
  <1>7. CASE UNCHANGED vars
    BY <1>0, <1>7
    DEF NoOrphanTask, NobodyStarts, SocketsArePolled, NobodyFails, Registered,
        Running, Alive, vars
  <1> QED
    BY <1>1, <1>2, <1>3, <1>4, <1>5, <1>6, <1>7 DEF Next, Handler

LEMMA OneAccountInvariance ==
  ASSUME \A a, b \in Accounts : a = b
  PROVE  Spec => []OneAccountInv
  <1>1. OneAccountInv /\ [Next]_vars => OneAccountInv'
    BY OneAccountStep
  <1> QED BY <1>1, InitOneAccount, PTL DEF Spec

\* While all viewers look at one account, every open socket that is registered
\* is served by a poller, with any number of viewers, broken sockets and failed
\* handlers.
THEOREM ViewersArePolled ==
  ASSUME \A a, b \in Accounts : a = b
  PROVE  Spec => []ConnectedIsPolled
  <1>1. OneAccountInv => ConnectedIsPolled
    BY DEF OneAccountInv, RegistryInv, TypeOK, SocketsArePolled, ConnectedIsPolled
  <1> QED BY <1>1, OneAccountInvariance, PTL

\* And where no handler ends by an exception it does not handle, the last
\* viewer to leave takes the poller along, also if a broadcast had removed its
\* socket before.
THEOREM PollerLeavesWithLast ==
  ASSUME \A a, b \in Accounts : a = b, Faulty = {}
  PROVE  Spec => []LastViewerStops
  <1>1. OneAccountInv => LastViewerStops
    <2> SUFFICES ASSUME OneAccountInv, NEW a \in Accounts,
                        \A c \in Clients : at[c] = a => pc[c] \in {"off", "failed"},
                        NEW i \in Running, owner[i] = a
                 PROVE  FALSE
      BY DEF LastViewerStops
    <2>1. i # NoTask /\ reg[a] = i
      BY ConstantsAssumption DEF OneAccountInv, NoOrphanTask, Running, Alive
    <2>2. PICK c \in Clients : at[c] = a /\ pc[c] \in {"starting", "open", "failed"}
      BY <2>1 DEF OneAccountInv, RegistryInv, PollerHasHandler, Registered
    <2> QED
      BY <2>2 DEF OneAccountInv, NobodyFails
  <1> QED BY <1>1, OneAccountInvariance, PTL
=============================================================================

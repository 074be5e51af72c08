--------------------------- MODULE OrderGateProofs ---------------------------
(***************************************************************************)
(* Proofs about the path from a signal to an order, for any number of      *)
(* accounts, symbols, workers and operators.                               *)
(***************************************************************************)
EXTENDS OrderGate, FiniteSetTheorems, TLAPS

(***************************************************************************)
(* The inductive invariant.  HaltStopsSending alone is not inductive: that *)
(* no second request is sent after the switch went on follows from the     *)
(* executor being one worker at a time (InsideHoldsLock) and from the one  *)
(* that was past the gate being gone once it has sent (NoneAdmitted).      *)
(***************************************************************************)
InsideHoldsLock == \A w \in Workers : job[w] \in Inside <=> holder = w

NoneAdmitted == active /\ late > 0 => \A w \in Workers : job[w] \notin Admitted

LateOnlyWhileHalted == ~active => late = 0

GateInv ==
  /\ GateTypeOK
  /\ InsideHoldsLock
  /\ NoneAdmitted
  /\ LateOnlyWhileHalted
  /\ HaltStopsSending

-----------------------------------------------------------------------------
(***************************************************************************)
(* Lemmas about the operators.                                             *)
(***************************************************************************)

LEMMA AddKeepsBook ==
  ASSUME NEW b \in Book, NEW s \in Symbols, NEW d \in Dirs
  PROVE  Add(b, s, d) \in Book
  BY GateAssumption DEF Add, Plus, Book

LEMMA DropKeepsBook ==
  ASSUME NEW b \in Book, NEW s \in Symbols, NEW d \in Dirs, b[<<s, d>>] > 0
  PROVE  Drop(b, s, d) \in Book
  BY GateAssumption DEF Drop, Book

LEMMA EmptyBookIsBook == EmptyBook \in Book
  BY GateAssumption DEF EmptyBook, Book

LEMMA PlusBounded == ASSUME NEW n \in 0..Bound PROVE Plus(n) \in 0..Bound
  BY GateAssumption DEF Plus

\* Whatever comes of a request, the broker's books stay well-formed.
LEMMA ExecuteKeepsBooks ==
  ASSUME GateTypeOK, NEW r \in Request_, Execute(r)
  PROVE  pos' \in [TradingAccounts -> Book] /\ pend' \in [TradingAccounts -> Book]
  <1>0. pos \in [TradingAccounts -> Book] /\ pend \in [TradingAccounts -> Book]
    BY DEF GateTypeOK
  <1>1. r.acct \in TradingAccounts /\ r.sym \in Symbols /\ r.dir \in Dirs
    BY DEF Request_
  <1>2. CASE r.kind = "market" /\ pos' = [pos EXCEPT ![r.acct] = Add(@, r.sym, r.dir)]
             /\ UNCHANGED pend
    BY <1>0, <1>1, <1>2, AddKeepsBook
  <1>3. CASE r.kind = "pending" /\ pend' = [pend EXCEPT ![r.acct] = Add(@, r.sym, r.dir)]
             /\ UNCHANGED pos
    BY <1>0, <1>1, <1>3, AddKeepsBook
  <1>4. CASE r.kind = "close" /\ pos[r.acct][<<r.sym, r.dir>>] > 0
             /\ pos' = [pos EXCEPT ![r.acct] = Drop(@, r.sym, r.dir)]
             /\ UNCHANGED pend
    BY <1>0, <1>1, <1>4, DropKeepsBook
  <1>5. CASE UNCHANGED <<pos, pend>>
    BY <1>0, <1>5
  <1> QED BY <1>2, <1>3, <1>4, <1>5 DEF Execute

-----------------------------------------------------------------------------
(***************************************************************************)
(* Type correctness.                                                       *)
(***************************************************************************)

LEMMA InitGateInv == GateInit => GateInv
  <1> SUFFICES ASSUME GateInit PROVE GateInv
    OBVIOUS
  <1>1. SwitchTypeOK
    BY DEF GateInit, SwitchInit, SwitchTypeOK, Wishes
  <1>2. req \in [Workers -> Request_]
    BY DEF GateInit, Request_, Dirs, Kind
  <1>3. GateTypeOK
    BY <1>1, <1>2, GateAssumption, EmptyBookIsBook
    DEF GateInit, GateTypeOK, JobStage, Inside, Admitted
  <1> QED
    BY <1>3, GateAssumption
    DEF GateInit, SwitchInit, GateInv, InsideHoldsLock, NoneAdmitted,
        LateOnlyWhileHalted, HaltStopsSending, Inside, Admitted

\* Every action keeps the types.
LEMMA GateTypeStep == GateTypeOK /\ [GateNext]_allVars => GateTypeOK'
  <1> SUFFICES ASSUME GateTypeOK, [GateNext]_allVars PROVE GateTypeOK'
    OBVIOUS
  <1> USE GateAssumption, EmptyBookIsBook
  <1> USE DEF GateTypeOK
  <1>0. UNCHANGED switchVars => SwitchTypeOK'
    BY DEF switchVars, SwitchTypeOK
  <1>1. ASSUME NEW w \in Workers, NEW r \in Request_, Analyse(w, r)
        PROVE GateTypeOK'
    BY <1>0, <1>1 DEF Analyse, To, JobStage
  <1>2. ASSUME NEW w \in Workers, Decide(w) PROVE GateTypeOK'
    BY <1>0, <1>2 DEF Decide, To, JobStage
  <1>3. ASSUME NEW w \in Workers, Enter(w) PROVE GateTypeOK'
    BY <1>0, <1>3 DEF Enter, To, JobStage, Inside
  <1>4. ASSUME NEW w \in Workers, Executor(w) PROVE GateTypeOK'
    <2> USE DEF To, JobStage, Inside, Admitted
    <2>1. ASSUME NEW s \in JobStage, Next_(w, s) PROVE GateTypeOK'
      BY <1>0, <2>1 DEF Next_
    <2>2. ASSUME NEW s \in JobStage, Finish(w, s)
          PROVE  /\ job' \in [Workers -> JobStage]
                 /\ holder' \in Workers \cup {NoWorker}
                 /\ seen' \in [Workers -> Book]
      BY <2>2 DEF Finish
    <2>3. CASE Reject(w)
      BY <1>0, <2>2, <2>3 DEF Reject
    <2>4. CASE Gate(w)
      BY <2>1, <2>3, <2>4 DEF Gate
    <2>5. CASE ReadPositions(w)
      <3>1. Mine(w) \in Book
        BY DEF Mine, Request_
      <3>2. seen' \in [Workers -> Book]
        BY <2>5, <3>1 DEF ReadPositions
      <3> QED BY <1>0, <2>5, <3>2 DEF ReadPositions
    <2>6. CASE CheckRisk(w)
      BY <1>0, <2>3, <2>6 DEF CheckRisk
    <2>7. CASE CheckRate(w)
      BY <2>1, <2>3, <2>7 DEF CheckRate
    <2>8. CASE CheckAuto(w)
      <3>1. CASE req[w].acct \in Paper
                 /\ Finish(w, IF Opens(w) THEN "persist" ELSE "idle")
                 /\ UNCHANGED <<req, retried, pos, pend, rows, late, switchVars>>
        BY <1>0, <2>2, <3>1
      <3> QED BY <2>1, <2>3, <2>8, <3>1 DEF CheckAuto
    <2>9. CASE Find(w)
      BY <2>1, <2>3, <2>9 DEF Find
    <2>10. CASE Filling(w)
      BY <2>1, <2>10 DEF Filling
    <2>11. CASE Tick(w)
      <3>1. CASE Finish(w, "stale")
                 /\ UNCHANGED <<req, retried, pos, pend, rows, late, switchVars>>
        BY <1>0, <2>2, <3>1
      <3> QED BY <2>1, <2>3, <2>11, <3>1 DEF Tick
    <2>12. CASE Send(w)
      <3>1. /\ job' \in [Workers -> JobStage]
            /\ holder' \in Workers \cup {NoWorker}
            /\ seen' \in [Workers -> Book]
        BY <2>2, <2>12 DEF Send
      <3>2. pos' \in [TradingAccounts -> Book] /\ pend' \in [TradingAccounts -> Book]
        BY <2>12, ExecuteKeepsBooks DEF Send
      <3>3. late' \in 0..Bound
        BY <2>12, PlusBounded DEF Send
      <3> QED BY <1>0, <2>12, <3>1, <3>2, <3>3 DEF Send
    <2> QED
      BY <1>4, <2>4, <2>5, <2>6, <2>7, <2>8, <2>9, <2>10, <2>11, <2>12
      DEF Executor
  <1>5. ASSUME NEW w \in Workers, Retry(w) PROVE GateTypeOK'
    BY <1>0, <1>5 DEF Retry, To, JobStage
  <1>6. ASSUME NEW w \in Workers, PersistTrade(w) PROVE GateTypeOK'
    <2>1. req[w].sym \in Symbols BY DEF Request_
    <2>2. rows' \in [Symbols -> 0..Bound]
      BY <1>6, <2>1, PlusBounded DEF PersistTrade
    <2> QED BY <1>0, <1>6, <2>2 DEF PersistTrade, To, JobStage
  <1>7. ASSUME NEW a \in TradingAccounts, NEW s \in Symbols, NEW d \in Dirs, Broker(a, s, d)
        PROVE GateTypeOK'
    <2>1. Add(pos[a], s, d) \in Book BY AddKeepsBook
    <2>2. CASE Fill(a, s, d)
      <3>1. Drop(pend[a], s, d) \in Book BY <2>2, DropKeepsBook DEF Fill
      <3> QED BY <1>0, <2>1, <2>2, <3>1 DEF Fill
    <2>3. CASE Leaves(a, s, d)
      <3>1. pos' \in [TradingAccounts -> Book] /\ pend' \in [TradingAccounts -> Book]
        BY <2>3, DropKeepsBook DEF Leaves
      <3> QED BY <1>0, <2>3, <3>1 DEF Leaves
    <2> QED BY <1>7, <2>2, <2>3 DEF Broker
  <1>8. ASSUME NEW s \in Symbols, WindowMoves(s) PROVE GateTypeOK'
    BY <1>0, <1>8 DEF WindowMoves
  <1>9. CASE Operate
    <2>1. SwitchTypeOK'
      BY <1>9
      DEF Operate, Request, Flipping, Flip, Persist, Tell, SwitchTypeOK, Wishes
    <2> QED BY <1>9, <2>1 DEF Operate
  <1>10. CASE Crash
    <2>1. SwitchTypeOK'
      BY <1>10 DEF Crash, Restart, SwitchTypeOK
    <2> QED BY <1>10, <2>1 DEF Crash, JobStage
  <1>11. CASE UNCHANGED allVars
    BY <1>0, <1>11 DEF allVars, gateVars
  <1> QED
    BY <1>1, <1>2, <1>3, <1>4, <1>5, <1>6, <1>7, <1>8, <1>9, <1>10, <1>11
    DEF GateNext

\* The types of the order gate's state, whatever the accounts, the workers
\* and the limits.
THEOREM GateTypesCorrect == GateSpec => []GateTypeOK
  <1>1. GateInit => GateTypeOK
    BY InitGateInv DEF GateInv
  <1> QED BY <1>1, GateTypeStep, PTL DEF GateSpec

-----------------------------------------------------------------------------
(***************************************************************************)
(* The kill switch.                                                        *)
(***************************************************************************)

\* Every action keeps the inductive invariant.
LEMMA GateInvStep == GateInv /\ [GateNext]_allVars => GateInv'
  <1> SUFFICES ASSUME GateInv, [GateNext]_allVars PROVE GateInv'
    OBVIOUS
  <1>0. GateTypeOK'
    BY GateTypeStep DEF GateInv
  <1>t. /\ GateTypeOK
        /\ job \in [Workers -> JobStage] /\ late \in 0..Bound
        /\ active \in BOOLEAN
    BY DEF GateInv, GateTypeOK, SwitchTypeOK
  <1> USE GateAssumption, <1>0, <1>t
  <1> USE DEF GateInv, InsideHoldsLock, NoneAdmitted, LateOnlyWhileHalted,
              HaltStopsSending
  \* A worker that moves without changing the lock, the switch or the count.
  <1>m. ASSUME NEW w \in Workers, NEW s \in JobStage, To(w, s),
               UNCHANGED <<holder, late, active>>,
               job[w] \in Inside <=> s \in Inside,
               s \in Admitted => job[w] \in Admitted \/ ~active
        PROVE  GateInv'
    BY <1>m DEF To
  \* A worker that leaves the executor.
  <1>f. ASSUME NEW w \in Workers, NEW s \in JobStage \ Inside, Finish(w, s),
               job[w] \in Inside, UNCHANGED <<late, active>>
        PROVE  GateInv'
    BY <1>f DEF Finish, To, Inside
  <1>1. ASSUME NEW w \in Workers, NEW r \in Request_, Analyse(w, r)
        PROVE GateInv'
    BY <1>1, <1>m DEF Analyse, switchVars, JobStage, Inside, Admitted
  <1>2. ASSUME NEW w \in Workers, Decide(w) PROVE GateInv'
    BY <1>2, <1>m DEF Decide, switchVars, JobStage, Inside, Admitted
  <1>3. ASSUME NEW w \in Workers, Enter(w) PROVE GateInv'
    BY <1>3 DEF Enter, To, switchVars, JobStage, Inside, Admitted
  <1>4. ASSUME NEW w \in Workers, Executor(w) PROVE GateInv'
    <2> USE DEF switchVars, JobStage, Inside, Admitted
    <2>1. ASSUME NEW s \in Admitted, Next_(w, s), job[w] \in Inside,
                 job[w] \in Admitted \/ ~active
          PROVE  GateInv'
      BY <2>1, <1>m DEF Next_
    <2>2. ASSUME Reject(w), job[w] \in Inside PROVE GateInv'
      BY <2>2, <1>f DEF Reject
    <2>4. CASE Gate(w)
      BY <2>1, <2>2, <2>4 DEF Gate
    <2>5. CASE ReadPositions(w)
      BY <1>m, <2>5 DEF ReadPositions
    <2>6. CASE CheckRisk(w)
      BY <1>m, <2>2, <2>6 DEF CheckRisk
    <2>7. CASE CheckRate(w)
      BY <2>1, <2>2, <2>7 DEF CheckRate
    <2>8. CASE CheckAuto(w)
      BY <1>f, <2>1, <2>2, <2>8 DEF CheckAuto
    <2>9. CASE Find(w)
      BY <2>1, <2>2, <2>9 DEF Find
    <2>10. CASE Filling(w)
      BY <2>1, <2>10 DEF Filling
    <2>11. CASE Tick(w)
      BY <1>f, <2>1, <2>2, <2>11 DEF Tick
    <2>12. CASE Send(w)
      <3>1. PICK s \in JobStage \ Inside : Finish(w, s)
        BY <2>12 DEF Send
      <3>2. holder = w /\ job[w] \in Admitted
        BY <2>12 DEF Send
      <3>3. active => late = 0
        BY <3>2
      <3>4. late' = IF active THEN 1 ELSE 0
        BY <2>12, <3>3 DEF Send, Plus
      <3>5. \A v \in Workers : job'[v] \notin Inside
        BY <3>1, <3>2 DEF Finish, To
      <3>6. active' = active
        BY <2>12 DEF Send
      <3>7. holder' = NoWorker
        BY <3>1 DEF Finish
      <3> QED BY <3>4, <3>5, <3>6, <3>7
    <2> QED
      BY <1>4, <2>4, <2>5, <2>6, <2>7, <2>8, <2>9, <2>10, <2>11, <2>12
      DEF Executor
  <1>5. ASSUME NEW w \in Workers, Retry(w) PROVE GateInv'
    BY <1>5, <1>m DEF Retry, switchVars, JobStage, Inside, Admitted
  <1>6. ASSUME NEW w \in Workers, PersistTrade(w) PROVE GateInv'
    BY <1>6, <1>m DEF PersistTrade, switchVars, JobStage, Inside, Admitted
  <1>7. ASSUME NEW a \in TradingAccounts, NEW s \in Symbols, NEW d \in Dirs, Broker(a, s, d)
        PROVE GateInv'
    BY <1>7 DEF Broker, Fill, Leaves, switchVars
  <1>8. ASSUME NEW s \in Symbols, WindowMoves(s) PROVE GateInv'
    BY <1>8 DEF WindowMoves, switchVars
  <1>9. CASE Operate
    BY <1>9 DEF Operate
  <1>10. CASE Crash
    BY <1>10 DEF Crash, Inside, Admitted
  <1>11. CASE UNCHANGED allVars
    BY <1>11 DEF allVars, gateVars, switchVars
  <1> QED
    BY <1>1, <1>2, <1>3, <1>4, <1>5, <1>6, <1>7, <1>8, <1>9, <1>10, <1>11
    DEF GateNext

\* However many jobs analyse, queue, retry or sweep positions, at most one
\* request reaches the broker after the kill switch went on.
THEOREM HaltIsEffective == GateSpec => []HaltStopsSending
  <1>1. GateInv => HaltStopsSending
    BY DEF GateInv
  <1> QED BY <1>1, InitGateInv, GateInvStep, PTL DEF GateSpec

-----------------------------------------------------------------------------
(***************************************************************************)
(* The limits, when the settings that defeat them are left out: only       *)
(* market orders, and get_positions never fails.  The inductive invariant  *)
(* says that what the risk check saw is still an upper bound when the      *)
(* order is sent: positions grow only by Send, which needs the lock.       *)
(***************************************************************************)
MarketOnly == "pending" \notin Kinds /\ ~ReadFaults /\ IsFiniteSet(Symbols)

Below(b, c) == \A x \in Symbols \X Dirs : b[x] <= c[x]

NoPending ==
  /\ \A w \in Workers : req[w].kind # "pending"
  /\ \A a \in TradingAccounts, x \in Symbols \X Dirs : pend[a][x] = 0

SeenBounds == \A w \in Workers : job[w] = "risk" => Below(Mine(w), seen[w])

Cleared(w) ==
  /\ ~AtLeast(Mine(w), MaxPositions)
  /\ ~HedgingAllowed => Mine(w)[<<req[w].sym, Opposite(req[w].dir)>>] = 0

Passed == Admitted \ {"positions", "risk"}

PassedAreCleared ==
  \A w \in Workers : job[w] \in Passed /\ Opens(w) => Cleared(w)

\* Requests that open nothing skip the risk checks.
OthersSkip ==
  \A w \in Workers : job[w] \in {"positions", "risk", "rate"} => Opens(w)

MarketInv ==
  /\ GateInv
  /\ NoPending
  /\ SeenBounds
  /\ PassedAreCleared
  /\ OthersSkip
  /\ WithinPositionLimit
  /\ NoOppositePositions

LEMMA DropIsBelow ==
  ASSUME NEW b \in Book, NEW s \in Symbols, NEW d \in Dirs
  PROVE  Below(Drop(b, s, d), b)
  BY GateAssumption DEF Below, Drop, Book

LEMMA OpenIsFinite ==
  ASSUME IsFiniteSet(Symbols), NEW b
  PROVE  IsFiniteSet(Open(b))
  <1>1. IsFiniteSet(Dirs)
    <2>1. Dirs = {"BUY"} \cup {"SELL"} BY DEF Dirs
    <2>2. IsFiniteSet({"BUY"}) BY FS_Singleton
    <2> QED BY <2>1, <2>2, FS_AddElement
  <1>2. IsFiniteSet(1..Bound)
    BY GateAssumption, FS_Interval
  <1>3. IsFiniteSet((Symbols \X Dirs) \X (1..Bound))
    BY <1>1, <1>2, FS_Product
  <1> QED BY <1>3, FS_Subset DEF Open

\* Fewer positions are fewer positions.
LEMMA AtLeastMonotonic ==
  ASSUME IsFiniteSet(Symbols), NEW b \in Book, NEW c \in Book, Below(b, c),
         NEW n \in Nat, AtLeast(b, n)
  PROVE  AtLeast(c, n)
  <1>1. Open(b) \subseteq Open(c)
    BY GateAssumption DEF Open, Below, Book
  <1>2. /\ IsFiniteSet(Open(b)) /\ IsFiniteSet(Open(c))
    BY OpenIsFinite
  <1>3. Cardinality(Open(b)) <= Cardinality(Open(c))
    BY <1>1, <1>2, FS_Subset
  <1>4. Cardinality(Open(b)) \in Nat /\ Cardinality(Open(c)) \in Nat
    BY <1>2, FS_CardinalityType
  <1> QED BY <1>3, <1>4 DEF AtLeast

\* One order opens at most one position.
LEMMA AddOpensOne ==
  ASSUME IsFiniteSet(Symbols), NEW b \in Book, NEW s \in Symbols, NEW d \in Dirs,
         NEW n \in Nat, ~AtLeast(b, n)
  PROVE  ~AtLeast(Add(b, s, d), n + 1)
  <1> DEFINE x == <<s, d>>
             c == Add(b, s, d)
             new == <<x, b[x] + 1>>
  <1>1. c \in Book /\ c = [b EXCEPT ![x] = Plus(b[x])]
    BY AddKeepsBook DEF Add
  <1>2. b[x] \in 0..Bound /\ Plus(b[x]) <= b[x] + 1
    BY GateAssumption DEF Plus, Book
  <1>3. \A y \in Symbols \X Dirs : y # x => c[y] = b[y]
    BY <1>1 DEF Book
  <1>4. c[x] <= b[x] + 1
    BY <1>1, <1>2 DEF Book
  <1>5. Open(c) \subseteq Open(b) \cup {new}
    <2> SUFFICES ASSUME NEW z \in Open(c), z \notin Open(b) PROVE z = new
      OBVIOUS
    <2>1. z \in (Symbols \X Dirs) \X (1..Bound) /\ z[2] <= c[z[1]] /\ ~(z[2] <= b[z[1]])
      BY DEF Open
    <2>2. z[1] = x
      BY <2>1, <1>3
    <2>3. z[2] = b[x] + 1
      BY <2>1, <2>2, <1>2, <1>4, <1>1, GateAssumption DEF Book
    <2> QED BY <2>1, <2>2, <2>3
  <1>6. IsFiniteSet(Open(b)) /\ IsFiniteSet(Open(c))
    BY OpenIsFinite
  <1>7. /\ IsFiniteSet(Open(b) \cup {new})
        /\ Cardinality(Open(b) \cup {new}) <= Cardinality(Open(b)) + 1
    <2>1. IsFiniteSet(Open(b)) BY <1>6
    <2>2. Cardinality(Open(b)) \in Nat BY <2>1, FS_CardinalityType
    <2>3. /\ IsFiniteSet(Open(b) \cup {new})
          /\ Cardinality(Open(b) \cup {new}) =
               IF new \in Open(b) THEN Cardinality(Open(b)) ELSE Cardinality(Open(b)) + 1
      <3> HIDE DEF new
      <3> QED BY <2>1, FS_AddElement
    <2> HIDE DEF new
    <2> QED BY <2>2, <2>3
  <1>8. Cardinality(Open(c)) <= Cardinality(Open(b) \cup {new})
    BY <1>5, <1>7, FS_Subset
  <1>9. /\ Cardinality(Open(b)) \in Nat /\ Cardinality(Open(c)) \in Nat
        /\ Cardinality(Open(b) \cup {new}) \in Nat
    BY <1>6, <1>7, FS_CardinalityType
  <1>10. Cardinality(Open(b)) < n
    BY <1>9 DEF AtLeast
  <1>11. Cardinality(Open(c)) < n + 1
    BY <1>7, <1>8, <1>9, <1>10
  <1> QED BY <1>9, <1>11 DEF AtLeast

LEMMA InitMarketInv ==
  ASSUME MarketOnly
  PROVE  GateInit => MarketInv
  <1> SUFFICES ASSUME GateInit PROVE MarketInv
    OBVIOUS
  <1>1. GateInv BY InitGateInv
  <1>2. \A w \in Workers : job[w] = "idle" /\ req[w].kind = "market"
    BY DEF GateInit
  <1>3. \A a \in TradingAccounts : pos[a] = EmptyBook /\ pend[a] = EmptyBook
    BY DEF GateInit
  <1>4. Open(EmptyBook) = {}
    BY DEF Open, EmptyBook
  <1>5. Cardinality(Open(EmptyBook)) = 0
    BY <1>4, FS_EmptySet
  <1>6. WithinPositionLimit
    BY <1>3, <1>5, GateAssumption DEF WithinPositionLimit, AtLeast
  <1>7. NoOppositePositions
    BY <1>3 DEF NoOppositePositions, EmptyBook, Dirs
  <1>8. NoPending
    BY <1>2, <1>3 DEF NoPending, EmptyBook
  <1> QED
    BY <1>1, <1>2, <1>6, <1>7, <1>8
    DEF MarketInv, SeenBounds, PassedAreCleared, OthersSkip, Passed, Admitted

\* Steps that open nothing: positions only go, a worker that moves goes where
\* what is known of it still holds.
LEMMA NothingOpens ==
  ASSUME MarketOnly, MarketInv, GateInv', NoPending', OthersSkip',
         \A a \in TradingAccounts : Below(pos'[a], pos[a]),
         \A w \in Workers :
           \/ UNCHANGED <<job[w], seen[w], req[w]>>
           \/ job'[w] \notin {"risk"} \cup Passed
           \/ /\ UNCHANGED req[w] /\ job'[w] \in Passed
              /\ Opens(w) => Cleared(w)
           \/ job'[w] = "risk" /\ Below(Mine(w)', seen'[w])
  PROVE  MarketInv'
  <1>1. /\ \A a \in TradingAccounts : pos[a] \in Book /\ pos'[a] \in Book
        /\ req \in [Workers -> Request_] /\ req' \in [Workers -> Request_]
        /\ seen \in [Workers -> Book] /\ seen' \in [Workers -> Book]
    BY DEF MarketInv, GateInv, GateTypeOK
  <1>2. \A a \in TradingAccounts, n \in Nat : AtLeast(pos'[a], n) => AtLeast(pos[a], n)
    BY <1>1, AtLeastMonotonic DEF MarketOnly
  <1>3. WithinPositionLimit'
    BY <1>2, GateAssumption DEF MarketInv, WithinPositionLimit, AtLeast
  <1>4. \A a \in TradingAccounts, x \in Symbols \X Dirs : pos[a][x] = 0 => pos'[a][x] = 0
    <2> TAKE a \in TradingAccounts, x \in Symbols \X Dirs
    <2>1. pos[a][x] \in Nat /\ pos'[a][x] \in Nat /\ pos'[a][x] <= pos[a][x]
      BY <1>1, GateAssumption DEF Book, Below
    <2> QED BY <2>1
  <1>5. NoOppositePositions'
    BY <1>4 DEF MarketInv, NoOppositePositions, Dirs
  <1>6. ASSUME NEW w \in Workers, UNCHANGED req[w], Cleared(w) PROVE Cleared(w)'
    <2>1. req[w].acct \in TradingAccounts /\ req[w].sym \in Symbols
      BY <1>1 DEF Request_
    <2>2. <<req[w].sym, Opposite(req[w].dir)>> \in Symbols \X Dirs
      BY <2>1 DEF Opposite, Dirs
    <2>3. ~AtLeast(pos'[req[w].acct], MaxPositions)
      BY <1>2, <1>6, <2>1, GateAssumption DEF Cleared, Mine
    <2> QED BY <1>4, <1>6, <2>1, <2>2, <2>3 DEF Cleared, Mine, AtLeast
  <1>7. PassedAreCleared'
    <2> SUFFICES ASSUME NEW w \in Workers, job'[w] \in Passed, Opens(w)' PROVE Cleared(w)'
      BY DEF PassedAreCleared
    <2>1. UNCHANGED req[w] /\ Opens(w) /\ Cleared(w)
      BY DEF MarketInv, PassedAreCleared, Passed, Admitted, Opens
    <2> QED BY <1>6, <2>1
  <1>8. SeenBounds'
    <2> SUFFICES ASSUME NEW w \in Workers, job'[w] = "risk" PROVE Below(Mine(w)', seen'[w])
      BY DEF SeenBounds
    <2>1. CASE UNCHANGED <<job[w], seen[w], req[w]>>
      <3>1. Below(Mine(w), seen[w]) /\ req[w].acct \in TradingAccounts
        BY <1>1, <2>1 DEF MarketInv, SeenBounds, Request_
      <3>2. Below(Mine(w)', Mine(w))
        BY <2>1, <3>1 DEF Mine
      <3>3. Mine(w) \in Book /\ Mine(w)' \in Book /\ seen[w] \in Book
        BY <1>1, <2>1, <3>1 DEF Mine
      <3> HIDE DEF Mine
      <3>4. \A x \in Symbols \X Dirs :
               /\ Mine(w)[x] \in Nat /\ Mine(w)'[x] \in Nat /\ seen[w][x] \in Nat
               /\ Mine(w)'[x] <= Mine(w)[x] /\ Mine(w)[x] <= seen[w][x]
        BY <3>1, <3>2, <3>3, GateAssumption DEF Book, Below
      <3> QED BY <2>1, <3>4 DEF Below
    <2> QED BY <2>1 DEF Passed, Admitted
  <1> QED BY <1>3, <1>5, <1>7, <1>8 DEF MarketInv

\* An order that passed the checks, and reaches the broker, breaks no limit.
LEMMA SendKeepsLimits ==
  ASSUME MarketOnly, MarketInv, NEW w \in Workers, job[w] = "send",
         Execute(req[w]), req[w].kind = "market"
  PROVE  WithinPositionLimit' /\ NoOppositePositions'
  <1> DEFINE a == req[w].acct
             s == req[w].sym
             d == req[w].dir
  <1>1. /\ a \in TradingAccounts /\ s \in Symbols /\ d \in Dirs
        /\ pos \in [TradingAccounts -> Book]
    BY DEF MarketInv, GateInv, GateTypeOK, Request_
  <1>2. pos' = [pos EXCEPT ![a] = Add(pos[a], s, d)]
    BY DEF Execute
  <1>3. Cleared(w)
    BY DEF MarketInv, PassedAreCleared, Passed, Admitted, Opens
  <1>4. ~AtLeast(Add(pos[a], s, d), MaxPositions + 1)
    BY <1>1, <1>3, AddOpensOne, GateAssumption DEF MarketOnly, Cleared, Mine
  <1>5. WithinPositionLimit'
    <2> SUFFICES ASSUME NEW b \in TradingAccounts PROVE ~AtLeast(pos'[b], MaxPositions + 1)
      BY DEF WithinPositionLimit, AtLeast
    <2>1. CASE b = a BY <1>1, <1>2, <1>4, <2>1
    <2>2. CASE b # a BY <1>1, <1>2, <2>2 DEF MarketInv, WithinPositionLimit
    <2> QED BY <2>1, <2>2
  <1>6. NoOppositePositions'
    <2> SUFFICES ASSUME ~HedgingAllowed, NEW b \in TradingAccounts, NEW t \in Symbols
                 PROVE  pos'[b][<<t, "BUY">>] = 0 \/ pos'[b][<<t, "SELL">>] = 0
      BY DEF NoOppositePositions
    <2>1. pos[b][<<t, "BUY">>] = 0 \/ pos[b][<<t, "SELL">>] = 0
      BY DEF MarketInv, NoOppositePositions
    <2>2. CASE b # a \/ t # s
      <3>1. pos'[b][<<t, "BUY">>] = pos[b][<<t, "BUY">>]
            /\ pos'[b][<<t, "SELL">>] = pos[b][<<t, "SELL">>]
        BY <1>1, <1>2, <2>2 DEF Add, Book, Dirs
      <3> QED BY <2>1, <3>1
    <2>3. CASE b = a /\ t = s
      <3>1. pos[a][<<s, Opposite(d)>>] = 0
        BY <1>3 DEF Cleared, Mine
      <3>2. pos'[a] = [pos[a] EXCEPT ![<<s, d>>] = Plus(@)]
        BY <1>1, <1>2 DEF Add
      <3>3. pos[a] \in Book
        BY <1>1
      <3>4. Opposite(d) \in Dirs /\ Opposite(d) # d /\ Dirs = {"BUY", "SELL"}
        BY <1>1 DEF Opposite, Dirs
      <3>5. pos'[a][<<s, Opposite(d)>>] = 0
        BY <1>1, <3>1, <3>2, <3>3, <3>4 DEF Book
      <3> QED BY <2>3, <3>4, <3>5
    <2> QED BY <2>2, <2>3
  <1> QED BY <1>5, <1>6

\* Every action keeps the inductive invariant.
LEMMA MarketInvStep ==
  ASSUME MarketOnly
  PROVE  MarketInv /\ [GateNext]_allVars => MarketInv'
  <1> SUFFICES ASSUME MarketInv, [GateNext]_allVars PROVE MarketInv'
    OBVIOUS
  <1>0. GateInv' BY GateInvStep DEF MarketInv
  <1>t. /\ pos \in [TradingAccounts -> Book] /\ pend \in [TradingAccounts -> Book]
        /\ req \in [Workers -> Request_] /\ seen \in [Workers -> Book]
        /\ job \in [Workers -> JobStage] /\ \A v \in Workers : job[v] \in Inside <=> holder = v
    BY DEF MarketInv, GateInv, GateTypeOK, InsideHoldsLock
  <1>n. NoPending /\ OthersSkip
    BY DEF MarketInv
  <1>b. \A a \in TradingAccounts : Below(pos[a], pos[a])
    BY <1>t, GateAssumption DEF Below, Book
  <1> USE MarketInv, MarketOnly
  <1> HIDE DEF MarketInv, MarketOnly
  \* A worker moves to a stage where nothing is claimed of it.
  <1>m. ASSUME NEW w \in Workers, NEW s \in JobStage \ ({"risk"} \cup Passed),
               job' = [job EXCEPT ![w] = s],
               UNCHANGED <<req, pos, pend>>,
               \A v \in Workers : v # w => UNCHANGED seen[v],
               s = "positions" => Opens(w)
        PROVE  MarketInv'
    <2>1. NoPending' BY <1>m, <1>n DEF NoPending
    <2>2. OthersSkip' BY <1>m, <1>n, <1>t DEF OthersSkip, Opens, Passed, Admitted
    <2>3. \A v \in Workers : v # w => UNCHANGED <<job[v], seen[v], req[v]>>
      BY <1>m, <1>t
    <2>4. job'[w] \notin {"risk"} \cup Passed BY <1>m, <1>t
    <2> QED BY <1>0, <1>b, <1>m, <2>1, <2>2, <2>3, <2>4, NothingOpens
  \* A cleared worker moves on.
  <1>c. ASSUME NEW w \in Workers, NEW s \in Passed,
               job' = [job EXCEPT ![w] = s],
               UNCHANGED <<req, pos, pend>>,
               \A v \in Workers : v # w => UNCHANGED seen[v],
               s = "rate" => Opens(w),
               Opens(w) => Cleared(w)
        PROVE  MarketInv'
    <2>1. NoPending' BY <1>c, <1>n DEF NoPending
    <2>2. OthersSkip' BY <1>c, <1>n, <1>t DEF OthersSkip, Opens, Passed, Admitted
    <2>3. \A v \in Workers : v # w => UNCHANGED <<job[v], seen[v], req[v]>>
      BY <1>c, <1>t
    <2>4. job'[w] \in Passed /\ UNCHANGED req[w] BY <1>c, <1>t
    <2> QED BY <1>0, <1>b, <1>c, <2>1, <2>2, <2>3, <2>4, NothingOpens
  <1>r. ASSUME NEW w \in Workers, Reject(w) PROVE MarketInv'
    BY <1>r, <1>m, <1>t DEF Reject, Finish, To, JobStage, Inside, Admitted, Passed
  <1>1. ASSUME NEW w \in Workers, NEW r \in Request_, Analyse(w, r)
        PROVE MarketInv'
    <2>1. NoPending'
      BY <1>1, <1>n, <1>t DEF NoPending, Analyse, MarketOnly
    <2>2. OthersSkip'
      BY <1>1, <1>n, <1>t DEF OthersSkip, Opens, Analyse, To
    <2>3. \A v \in Workers : v # w => UNCHANGED <<job[v], seen[v], req[v]>>
      BY <1>1, <1>t DEF Analyse, To
    <2>4. job'[w] \notin {"risk"} \cup Passed
      BY <1>1, <1>t DEF Analyse, To, Passed, Admitted
    <2>5. UNCHANGED pos BY <1>1 DEF Analyse
    <2> QED BY <1>0, <1>b, <2>1, <2>2, <2>3, <2>4, <2>5, NothingOpens
  <1>2. ASSUME NEW w \in Workers, Decide(w) PROVE MarketInv'
    BY <1>2, <1>m, <1>t DEF Decide, To, JobStage, Passed, Admitted, Inside
  <1>3. ASSUME NEW w \in Workers, Enter(w) PROVE MarketInv'
    BY <1>3, <1>m, <1>t DEF Enter, To, JobStage, Passed, Admitted, Inside
  <1>4. ASSUME NEW w \in Workers, Executor(w) PROVE MarketInv'
    <2> USE DEF To, Passed, Admitted, Inside, JobStage
    <2>a. job[w] \in Passed => (Opens(w) => Cleared(w))
      BY DEF MarketInv, PassedAreCleared
    <2>4. CASE Gate(w)
      <3>1. CASE Opens(w) /\ Next_(w, "positions")
        BY <3>1, <1>m DEF Next_
      <3>2. CASE ~Opens(w) /\ Next_(w, "auto")
        BY <3>2, <1>c DEF Next_
      <3> QED BY <1>r, <2>4, <3>1, <3>2 DEF Gate
    <2>5. CASE ReadPositions(w)
      <3>1. /\ seen' = [seen EXCEPT ![w] = Mine(w)]
            /\ job' = [job EXCEPT ![w] = "risk"] /\ UNCHANGED <<req, pos, pend>>
            /\ job[w] = "positions"
        BY <2>5 DEF ReadPositions, MarketOnly
      <3>2. NoPending' BY <3>1, <1>n DEF NoPending
      <3>3. OthersSkip' BY <3>1, <1>n, <1>t DEF OthersSkip, Opens
      <3>4. \A v \in Workers : v # w => UNCHANGED <<job[v], seen[v], req[v]>>
        BY <3>1, <1>t
      <3>5. job'[w] = "risk" /\ seen'[w] = Mine(w) /\ Mine(w)' = Mine(w)
        BY <3>1, <1>t DEF Mine
      <3>6. Below(Mine(w), Mine(w)) BY <1>b, <1>t DEF Mine, Request_
      <3>7. Below(Mine(w)', seen'[w])
        BY <3>5, <3>6
      <3> QED BY <1>0, <1>b, <3>1, <3>2, <3>3, <3>4, <3>5, <3>7, NothingOpens
    <2>6. CASE CheckRisk(w)
      <3>1. CASE /\ ~LimitReached(w) /\ ~Hedges(w)
                 /\ job' = [job EXCEPT ![w] = "rate"]
                 /\ seen' = [seen EXCEPT ![w] = EmptyBook]
                 /\ UNCHANGED <<req, retried, pos, pend, rows, late, switchVars>>
        <4>1. job[w] = "risk" BY <2>6 DEF CheckRisk
        <4>2. Below(Mine(w), seen[w]) /\ Opens(w)
          BY <4>1, <1>n DEF MarketInv, SeenBounds, OthersSkip
        <4>3. Mine(w) \in Book /\ seen[w] \in Book
          BY <1>t DEF Mine, Request_
        <4>4. ~AtLeast(Mine(w), MaxPositions)
          BY <3>1, <4>2, <4>3, AtLeastMonotonic, GateAssumption DEF LimitReached, MarketOnly
        <4>5. <<req[w].sym, Opposite(req[w].dir)>> \in Symbols \X Dirs
          BY <1>t DEF Request_, Opposite, Dirs
        <4>6. ~HedgingAllowed => Mine(w)[<<req[w].sym, Opposite(req[w].dir)>>] = 0
          <5> HIDE DEF Mine
          <5> DEFINE x == <<req[w].sym, Opposite(req[w].dir)>>
          <5>1. ~HedgingAllowed => ~(seen[w][x] > 0)
            BY <3>1 DEF Hedges
          <5>2. Mine(w)[x] \in Nat /\ seen[w][x] \in Nat /\ Mine(w)[x] <= seen[w][x]
            BY <4>2, <4>3, <4>5, GateAssumption DEF Below, Book
          <5> QED BY <5>1, <5>2
        <4>7. Cleared(w) BY <4>4, <4>6 DEF Cleared
        <4>8. \A v \in Workers : v # w => UNCHANGED seen[v]
          BY <3>1, <1>t
        <4> QED BY <1>c, <3>1, <4>2, <4>7, <4>8
      <3> QED BY <1>r, <2>6, <3>1 DEF CheckRisk
    <2>7. CASE CheckRate(w)
      BY <1>c, <1>r, <2>a, <2>7 DEF CheckRate, Next_
    <2>8. CASE CheckAuto(w)
      <3>1. CASE Finish(w, IF Opens(w) THEN "persist" ELSE "idle")
                 /\ UNCHANGED <<req, retried, pos, pend, rows, late, switchVars>>
        BY <1>m, <1>t, <3>1 DEF Finish
      <3> QED BY <1>c, <1>r, <2>a, <2>8, <3>1 DEF CheckAuto, Next_
    <2>9. CASE Find(w)
      BY <1>c, <1>r, <2>a, <2>9 DEF Find, Next_
    <2>10. CASE Filling(w)
      BY <1>c, <2>a, <2>10 DEF Filling, Next_
    <2>11. CASE Tick(w)
      <3>1. CASE Finish(w, "stale")
                 /\ UNCHANGED <<req, retried, pos, pend, rows, late, switchVars>>
        BY <1>m, <1>t, <3>1 DEF Finish
      <3> QED BY <1>c, <1>r, <2>a, <2>11, <3>1 DEF Tick, Next_
    <2>12. CASE Send(w)
      <3>1. /\ job[w] = "send" /\ UNCHANGED req
            /\ \/ Execute(req[w]) /\ Finish(w, IF Opens(w) THEN "persist" ELSE "idle")
               \/ Finish(w, "idle") /\ UNCHANGED <<pos, pend>>
        BY <2>12 DEF Send
      <3>2. PICK s \in {"persist", "idle"} : Finish(w, s)
        BY <3>1
      <3>3. \A v \in Workers : job'[v] \notin Inside
        BY <3>1, <3>2, <1>t DEF Finish
      <3>4. CASE req[w].kind = "market" /\ Execute(req[w])
        <4>1. UNCHANGED pend BY <3>4 DEF Execute
        <4>2. NoPending' BY <3>1, <4>1, <1>n DEF NoPending
        <4>3. WithinPositionLimit' /\ NoOppositePositions'
          BY <3>1, <3>4, SendKeepsLimits
        <4> QED BY <1>0, <3>3, <4>2, <4>3
                DEF MarketInv, SeenBounds, PassedAreCleared, OthersSkip
      <3>5. CASE UNCHANGED <<pos, pend>> \/ (req[w].kind = "close" /\ Execute(req[w]))
        <4>1. UNCHANGED pend BY <3>5 DEF Execute
        <4>2. \A a \in TradingAccounts : Below(pos'[a], pos[a])
          <5>1. CASE UNCHANGED pos BY <5>1, <1>b
          <5>2. CASE pos' = [pos EXCEPT ![req[w].acct] = Drop(@, req[w].sym, req[w].dir)]
            BY <5>2, <1>b, <1>t, DropIsBelow DEF Request_
          <5> QED BY <3>5, <5>1, <5>2 DEF Execute
        <4>3. NoPending' BY <3>1, <4>1, <1>n DEF NoPending
        <4>4. OthersSkip' BY <3>3 DEF OthersSkip
        <4>5. \A v \in Workers : job'[v] \notin {"risk"} \cup Passed BY <3>3
        <4> QED BY <1>0, <4>2, <4>3, <4>4, <4>5, NothingOpens
      <3> QED BY <3>1, <3>4, <3>5, <1>n DEF Execute, NoPending
    <2> QED
      BY <1>4, <2>4, <2>5, <2>6, <2>7, <2>8, <2>9, <2>10, <2>11, <2>12
      DEF Executor
  <1>5. ASSUME NEW w \in Workers, Retry(w) PROVE MarketInv'
    BY <1>5, <1>m DEF Retry, To, JobStage, Passed, Admitted, Inside
  <1>6. ASSUME NEW w \in Workers, PersistTrade(w) PROVE MarketInv'
    BY <1>6, <1>m DEF PersistTrade, To, JobStage, Passed, Admitted, Inside
  <1>7. ASSUME NEW a \in TradingAccounts, NEW s \in Symbols, NEW d \in Dirs, Broker(a, s, d)
        PROVE MarketInv'
    <2>1. pend[a][<<s, d>>] = 0 BY <1>n DEF NoPending
    <2>2. /\ pos' = [pos EXCEPT ![a] = Drop(@, s, d)]
          /\ UNCHANGED <<pend, job, req, seen>>
      BY <1>7, <2>1 DEF Broker, Fill, Leaves
    <2>3. \A c \in TradingAccounts : Below(pos'[c], pos[c])
      BY <2>2, <1>b, <1>t, DropIsBelow
    <2>4. NoPending' /\ OthersSkip'
      BY <2>2, <1>n DEF NoPending, OthersSkip, Opens
    <2> QED BY <1>0, <2>2, <2>3, <2>4, NothingOpens
  <1>8. ASSUME UNCHANGED <<pos, pend, job, req, seen>> PROVE MarketInv'
    <2>1. NoPending' /\ OthersSkip'
      BY <1>8, <1>n DEF NoPending, OthersSkip, Opens
    <2> QED BY <1>0, <1>b, <1>8, <2>1, NothingOpens
  <1>9. ASSUME NEW s \in Symbols, WindowMoves(s) PROVE MarketInv'
    BY <1>8, <1>9 DEF WindowMoves
  <1>10. CASE Operate
    BY <1>8, <1>10 DEF Operate
  <1>11. CASE Crash
    <2>1. \A w \in Workers : job'[w] = "idle" BY <1>11 DEF Crash
    <2>2. UNCHANGED <<req, pos, pend>> BY <1>11 DEF Crash
    <2>3. NoPending' /\ OthersSkip'
      BY <2>1, <2>2, <1>n DEF NoPending, OthersSkip
    <2>4. \A w \in Workers : job'[w] \notin {"risk"} \cup Passed
      BY <2>1 DEF Passed, Admitted
    <2> QED BY <1>0, <1>b, <2>2, <2>3, <2>4, NothingOpens
  <1>12. CASE UNCHANGED allVars
    BY <1>8, <1>12 DEF allVars, gateVars
  <1> QED
    BY <1>1, <1>2, <1>3, <1>4, <1>5, <1>6, <1>7, <1>9, <1>10, <1>11, <1>12
    DEF GateNext

\* With market orders only, and positions that can be read, no interleaving of
\* jobs, sweeps and the broker takes an account over its position limit.
THEOREM LimitHolds ==
  ASSUME MarketOnly
  PROVE  GateSpec => []WithinPositionLimit
  <1>1. MarketInv => WithinPositionLimit
    BY DEF MarketInv
  <1>2. GateInit => MarketInv
    BY InitMarketInv
  <1>3. MarketInv /\ [GateNext]_allVars => MarketInv'
    BY MarketInvStep
  <1> QED BY <1>1, <1>2, <1>3, PTL DEF GateSpec

\* Nor into opposite positions on one symbol while hedging is disallowed.
THEOREM HedgingHolds ==
  ASSUME MarketOnly
  PROVE  GateSpec => []NoOppositePositions
  <1>1. MarketInv => NoOppositePositions
    BY DEF MarketInv
  <1>2. GateInit => MarketInv
    BY InitMarketInv
  <1>3. MarketInv /\ [GateNext]_allVars => MarketInv'
    BY MarketInvStep
  <1> QED BY <1>1, <1>2, <1>3, PTL DEF GateSpec
-----------------------------------------------------------------------------
(***************************************************************************)
(* The rate limit.  Rows are counted before a request is sent and written  *)
(* after it, so the limit may be passed; by how much follows from counting *)
(* the rows of a symbol together with the workers that were cleared for it *)
(* and have not written theirs: when the count clears a worker it is below *)
(* the limit, and no more workers than there are can be cleared then.      *)
(***************************************************************************)
CountSeesRows == Renamed = {} /\ IsFiniteSet(Workers) /\ Workers # {}

PastTheCount == {"auto", "filling", "find", "tick", "send", "persist"}

Unwritten(s) ==
  {w \in Workers : req[w].sym = s /\ Opens(w) /\ job[w] \in PastTheCount}

RateInv ==
  \A s \in Symbols :
    rows[s] + Cardinality(Unwritten(s)) < MaxTrades + Cardinality(Workers)

\* Only requests that open have a row to write.
RowsAreOfOpenings == \A w \in Workers : job[w] = "persist" => Opens(w)

LEMMA UnwrittenIsFinite ==
  ASSUME CountSeesRows, NEW S \in SUBSET Workers
  PROVE  /\ IsFiniteSet(S)
         /\ Cardinality(S) \in Nat
         /\ Cardinality(S) <= Cardinality(Workers)
         /\ Cardinality(Workers) \in Nat \ {0}
  <1>1. IsFiniteSet(S) /\ Cardinality(S) <= Cardinality(Workers)
    BY FS_Subset DEF CountSeesRows
  <1>2. Cardinality(S) \in Nat /\ Cardinality(Workers) \in Nat
    BY <1>1, FS_CardinalityType DEF CountSeesRows
  <1>3. Cardinality(Workers) # 0
    BY FS_EmptySet DEF CountSeesRows
  <1> QED BY <1>1, <1>2, <1>3

LEMMA InitRate == CountSeesRows /\ GateInit => RateInv /\ RowsAreOfOpenings
  <1> SUFFICES ASSUME CountSeesRows, GateInit
               PROVE  RateInv /\ RowsAreOfOpenings
    OBVIOUS
  <1>1. \A w \in Workers : job[w] = "idle"
    BY DEF GateInit
  <1>2. \A s \in Symbols : rows[s] = 0 /\ Unwritten(s) = {}
    BY <1>1 DEF GateInit, Unwritten, PastTheCount
  <1>3. Cardinality({}) = 0
    BY FS_EmptySet
  <1>4. Cardinality(Workers) \in Nat \ {0}
    BY UnwrittenIsFinite
  <1>5. RateInv
    <2> SUFFICES ASSUME NEW s \in Symbols
                 PROVE  rows[s] + Cardinality(Unwritten(s)) < MaxTrades + Cardinality(Workers)
      BY DEF RateInv
    <2>1. Cardinality(Unwritten(s)) = 0 /\ rows[s] = 0
      BY <1>2, <1>3
    <2> QED BY <2>1, <1>4, GateAssumption
  <1> QED
    BY <1>1, <1>5 DEF RowsAreOfOpenings

\* A step that clears nobody and writes no row keeps the count.
LEMMA CountShrinks ==
  ASSUME CountSeesRows, GateTypeOK, GateTypeOK', NEW s \in Symbols,
         rows[s] + Cardinality(Unwritten(s)) < MaxTrades + Cardinality(Workers),
         rows'[s] <= rows[s], Unwritten(s)' \subseteq Unwritten(s)
  PROVE  rows'[s] + Cardinality(Unwritten(s)') < MaxTrades + Cardinality(Workers)
  <1>1. Unwritten(s) \in SUBSET Workers
    BY DEF Unwritten
  <1>2. IsFiniteSet(Unwritten(s)) /\ Cardinality(Unwritten(s)) \in Nat
    BY <1>1, UnwrittenIsFinite
  <1>3. /\ Cardinality(Unwritten(s)') \in Nat
        /\ Cardinality(Unwritten(s)') <= Cardinality(Unwritten(s))
    BY <1>2, FS_Subset, FS_CardinalityType
  <1>4. rows[s] \in Nat /\ rows'[s] \in Nat /\ Cardinality(Workers) \in Nat
    BY UnwrittenIsFinite, GateAssumption DEF GateTypeOK
  <1> QED BY <1>2, <1>3, <1>4, GateAssumption

LEMMA RateStep ==
  ASSUME CountSeesRows, GateTypeOK, GateTypeOK', RateInv, RowsAreOfOpenings,
         [GateNext]_allVars
  PROVE  RateInv' /\ RowsAreOfOpenings'
  <1>t. job \in [Workers -> JobStage] /\ req \in [Workers -> Request_]
    BY DEF GateTypeOK
  <1> DEFINE Smaller(s) == rows'[s] <= rows[s] /\ Unwritten(s)' \subseteq Unwritten(s)
  <1>r. /\ rows \in [Symbols -> Nat]
        /\ \A s \in Symbols : rows[s] <= rows[s]
    BY GateAssumption DEF GateTypeOK
  <1>s. ASSUME \A s \in Symbols : Smaller(s) PROVE RateInv'
    BY <1>s, CountShrinks DEF RateInv
  \* A worker that goes to stage x, and is not cleared by it.
  <1>m. ASSUME NEW w \in Workers, NEW x \in JobStage, To(w, x), UNCHANGED <<req, rows>>,
               x \in PastTheCount /\ Opens(w) => job[w] \in PastTheCount,
               x = "persist" => Opens(w)
        PROVE  RateInv' /\ RowsAreOfOpenings'
    <2>1. \A s \in Symbols : Smaller(s)
      BY <1>m, <1>t, <1>r DEF Unwritten, Opens, To
    <2>2. RowsAreOfOpenings'
      BY <1>m, <1>t DEF RowsAreOfOpenings, Opens, To
    <2> QED BY <1>s, <2>1, <2>2
  \* A step of somebody else than the workers.
  <1>o. ASSUME UNCHANGED <<job, req>>, \A s \in Symbols : rows'[s] <= rows[s]
        PROVE  RateInv' /\ RowsAreOfOpenings'
    <2>1. \A s \in Symbols : Smaller(s)
      BY <1>o DEF Unwritten, Opens
    <2>2. RowsAreOfOpenings'
      BY <1>o DEF RowsAreOfOpenings, Opens
    <2> QED BY <1>s, <2>1, <2>2
  <1> HIDE DEF Smaller
  <1>1. ASSUME NEW w \in Workers, NEW r \in Request_, Analyse(w, r)
        PROVE  RateInv' /\ RowsAreOfOpenings'
    <2>1. /\ job[w] = "idle" /\ job' = [job EXCEPT ![w] = "thinking"]
          /\ req' = [req EXCEPT ![w] = r] /\ rows' = rows
      BY <1>1 DEF Analyse, To
    <2>2. \A s \in Symbols : Smaller(s)
      BY <2>1, <1>t, <1>r DEF Smaller, Unwritten, Opens, PastTheCount
    <2>3. RowsAreOfOpenings'
      BY <2>1, <1>t DEF RowsAreOfOpenings, Opens
    <2> QED BY <1>s, <2>2, <2>3
  <1>2. ASSUME NEW w \in Workers, Decide(w) \/ Enter(w) \/ Retry(w)
        PROVE  RateInv' /\ RowsAreOfOpenings'
    BY <1>2, <1>m DEF Decide, Enter, Retry, PastTheCount, JobStage, Inside
  <1>3. ASSUME NEW w \in Workers, Executor(w)
        PROVE  RateInv' /\ RowsAreOfOpenings'
    <2> USE DEF PastTheCount, JobStage, Inside, Admitted
    <2>1. ASSUME NEW x \in Admitted, Next_(w, x), x \in PastTheCount /\ Opens(w) => job[w] \in PastTheCount
          PROVE  RateInv' /\ RowsAreOfOpenings'
      BY <2>1, <1>m DEF Next_
    <2>2. ASSUME Reject(w) PROVE RateInv' /\ RowsAreOfOpenings'
      BY <2>2, <1>m DEF Reject, Finish
    <2>3. CASE Gate(w) BY <2>1, <2>2, <2>3 DEF Gate
    <2>4. CASE ReadPositions(w) BY <1>m, <2>4 DEF ReadPositions
    <2>5. CASE CheckRisk(w) BY <1>m, <2>2, <2>5 DEF CheckRisk
    \* The count clears w; the others that are cleared are workers, too.
    <2>6. CASE CheckRate(w)
      <3>1. CASE Counted(w) < MaxTrades /\ Next_(w, "auto")
        <4>1. /\ UNCHANGED <<req, rows>> /\ job' = [job EXCEPT ![w] = "auto"]
              /\ rows[req[w].sym] < MaxTrades
          BY <3>1 DEF Next_, To, Counted, CountSeesRows
        <4>2. ASSUME NEW s \in Symbols
              PROVE  rows'[s] + Cardinality(Unwritten(s)') < MaxTrades + Cardinality(Workers)
          <5>1. CASE s = req[w].sym
            <6>1. Unwritten(s)' \in SUBSET Workers
              BY DEF Unwritten
            <6>2. /\ Cardinality(Unwritten(s)') \in Nat
                  /\ Cardinality(Unwritten(s)') <= Cardinality(Workers)
                  /\ Cardinality(Workers) \in Nat
              BY <6>1, UnwrittenIsFinite
            <6> QED BY <4>1, <5>1, <6>2, <1>r, GateAssumption
          <5>2. CASE s # req[w].sym
            <6>1. Unwritten(s)' \subseteq Unwritten(s)
              BY <4>1, <5>2, <1>t DEF Unwritten, Opens
            <6> QED BY <4>1, <6>1, <1>r, CountShrinks DEF RateInv
          <5> QED BY <5>1, <5>2
        <4>3. RowsAreOfOpenings'
          BY <4>1, <1>t DEF RowsAreOfOpenings, Opens
        <4> QED BY <4>2, <4>3 DEF RateInv
      <3> QED BY <2>2, <2>6, <3>1 DEF CheckRate
    <2>7. CASE CheckAuto(w)
      BY <2>1, <2>2, <1>m, <2>7 DEF CheckAuto, Finish, Opens
    <2>8. CASE Find(w)
      BY <2>1, <2>2, <2>8 DEF Find
    <2>9. CASE Filling(w)
      BY <2>1, <2>9 DEF Filling
    <2>10. CASE Tick(w)
      BY <2>1, <2>2, <1>m, <2>10 DEF Tick, Finish
    <2>11. CASE Send(w)
      BY <1>m, <2>11 DEF Send, Finish
    <2> QED
      BY <1>3, <2>3, <2>4, <2>5, <2>6, <2>7, <2>8, <2>9, <2>10, <2>11 DEF Executor
  \* The row takes the place of the worker that was cleared for it.
  <1>4. ASSUME NEW w \in Workers, PersistTrade(w)
        PROVE  RateInv' /\ RowsAreOfOpenings'
    <2>1. /\ job[w] = "persist" /\ job' = [job EXCEPT ![w] = "idle"] /\ req' = req
          /\ rows' \in {rows, [rows EXCEPT ![req[w].sym] = Plus(@)]}
      BY <1>4 DEF PersistTrade, To
    <2>2. RowsAreOfOpenings'
      BY <2>1, <1>t DEF RowsAreOfOpenings, Opens
    <2>3. ASSUME NEW s \in Symbols
          PROVE  rows'[s] + Cardinality(Unwritten(s)') < MaxTrades + Cardinality(Workers)
      <3>1. CASE s = req[w].sym
        <4>1. w \in Unwritten(s) /\ Unwritten(s)' = Unwritten(s) \ {w}
          BY <2>1, <3>1, <1>t DEF Unwritten, Opens, PastTheCount, RowsAreOfOpenings
        <4>2. Unwritten(s) \in SUBSET Workers
          BY DEF Unwritten
        <4>3. IsFiniteSet(Unwritten(s)) /\ Cardinality(Unwritten(s)) \in Nat /\ Cardinality(Workers) \in Nat
          BY <4>2, UnwrittenIsFinite
        <4>4. Cardinality(Unwritten(s)') = Cardinality(Unwritten(s)) - 1
          BY <4>1, <4>3, FS_RemoveElement
        <4>5. rows'[s] \in {rows[s], Plus(rows[s])}
          BY <2>1, <3>1, <1>r
        <4>6. rows'[s] <= rows[s] + 1 /\ rows'[s] \in Nat
          BY <4>5, <1>r, GateAssumption DEF Plus
        <4>7. rows[s] + Cardinality(Unwritten(s)) < MaxTrades + Cardinality(Workers)
          BY DEF RateInv
        <4> QED BY <4>3, <4>4, <4>6, <4>7, <1>r, GateAssumption
      <3>2. CASE s # req[w].sym
        <4>1. Unwritten(s)' \subseteq Unwritten(s) /\ rows'[s] <= rows[s]
          BY <2>1, <3>2, <1>t, <1>r DEF Unwritten, Opens, PastTheCount
        <4> QED BY <4>1, CountShrinks DEF RateInv
      <3> QED BY <3>1, <3>2
    <2> QED BY <2>2, <2>3 DEF RateInv
  <1>5. ASSUME NEW a \in TradingAccounts, NEW s \in Symbols, NEW d \in Dirs, Broker(a, s, d)
        PROVE  RateInv' /\ RowsAreOfOpenings'
    BY <1>5, <1>o, <1>r DEF Broker, Fill, Leaves
  <1>6. ASSUME NEW s \in Symbols, WindowMoves(s)
        PROVE  RateInv' /\ RowsAreOfOpenings'
    <2>1. \A x \in Symbols : rows'[x] <= rows[x]
      BY <1>6, <1>r DEF WindowMoves
    <2> QED BY <1>6, <1>o, <2>1 DEF WindowMoves
  <1>7. CASE Operate
    BY <1>7, <1>o, <1>r DEF Operate
  <1>8. CASE Crash
    <2>1. \A w \in Workers : job'[w] = "idle"
      BY <1>8 DEF Crash
    <2>2. \A s \in Symbols : Smaller(s)
      BY <1>8, <2>1, <1>r DEF Crash, Smaller, Unwritten, PastTheCount
    <2>3. RowsAreOfOpenings'
      BY <2>1 DEF RowsAreOfOpenings
    <2> QED BY <1>s, <2>2, <2>3
  <1>9. CASE UNCHANGED allVars
    BY <1>9, <1>o, <1>r DEF allVars, gateVars
  <1> QED
    BY <1>1, <1>2, <1>3, <1>4, <1>5, <1>6, <1>7, <1>8, <1>9
    DEF GateNext

\* However the jobs of a symbol interleave, and whatever stale entries are
\* retried, row inserts fail or processes die, the window never holds more rows
\* than the limit and the jobs that run at the same time, where Trade rows and
\* requests carry the same symbol name.
THEOREM OvershootIsBounded ==
  ASSUME CountSeesRows
  PROVE  GateSpec => []RateOvershootBounded
  <1>1. GateTypeOK /\ RateInv => RateOvershootBounded
    <2> SUFFICES ASSUME GateTypeOK, RateInv, NEW s \in Symbols
                 PROVE  rows[s] < MaxTrades + Cardinality(Workers)
      BY DEF RateOvershootBounded
    <2>1. Unwritten(s) \in SUBSET Workers
      BY DEF Unwritten
    <2>2. Cardinality(Unwritten(s)) \in Nat /\ Cardinality(Workers) \in Nat
      BY <2>1, UnwrittenIsFinite
    <2>3. rows[s] \in Nat
      BY GateAssumption DEF GateTypeOK
    <2> QED BY <2>2, <2>3, GateAssumption DEF RateInv
  <1>2. /\ GateTypeOK /\ GateTypeOK' /\ RateInv /\ RowsAreOfOpenings /\ [GateNext]_allVars
        => RateInv' /\ RowsAreOfOpenings'
    BY RateStep
  <1>3. GateInit => RateInv /\ RowsAreOfOpenings
    BY InitRate
  <1> QED BY <1>1, <1>2, <1>3, GateTypesCorrect, PTL DEF GateSpec
=============================================================================

---------------------------- MODULE LiveFeedProofs ----------------------------
(***************************************************************************)
(* Proofs about the hook that keeps the dashboard's socket open, for any   *)
(* number of accounts, switches, drops, sockets and timers.                *)
(***************************************************************************)
EXTENDS LiveFeed, FiniteSetTheorems, TLAPS

(***************************************************************************)
(* The inductive invariant.  The socket and timer of the hook are one at a *)
(* time (AttemptIsRefs) only while both are the ones its references name,  *)
(* which is what the cleanup of an effect closes.  Of the sockets of the   *)
(* left account only the closing one is there after the first switch       *)
(* (ActiveAreChosens), as the references then named all there was.         *)
(***************************************************************************)
Phases == {"closed", "connecting", "open", "closing"}

FeedTypeOK ==
  /\ chosen \in FeedAccounts \cup {NoFeed}
  /\ mounted \in BOOLEAN /\ cleaned \in BOOLEAN
  /\ phase \in [Links -> Phases]
  /\ peer \in [Links -> FeedAccounts \cup {NoFeed}]
  /\ wsRef \in Links \cup {0} /\ timerRef \in Links \cup {0}
  /\ timers \subseteq Links
  /\ toasts \in [was: BOOLEAN, down: BOOLEAN]
  /\ switches \in Nat

Quiet == timers = {} /\ ~toasts.was /\ \A s \in Links : ~Live(s)

\* The effect has run and its cleanup has not.
MountedIsNotCleaned == mounted => ~cleaned

QuietBeforeFeed ==
  \/ ~mounted /\ ~cleaned
  \/ mounted /\ switches = 0 /\ chosen = NoFeed
  => Quiet

PeersAreAccounts == \A s \in Links : Live(s) => peer[s] \in FeedAccounts

AttemptIsRefs ==
  mounted /\ switches = 0 /\ chosen # NoFeed =>
    \/ timers = {} /\ wsRef \in Links /\ \A s \in Links : Live(s) <=> s = wsRef
    \/ timers = {timerRef} /\ \A s \in Links : ~Live(s)

ActiveAreChosens ==
  switches <= 1 =>
    \A s \in Links : phase[s] \in {"connecting", "open"} => peer[s] = chosen

\* An open socket ended the outage; an outage that is over was told of, and
\* one that is not is told of when its closing socket has closed.
OutageIsTold ==
  switches = 0 /\ mounted =>
    /\ \A s \in Links : phase[s] = "open" => ~toasts.down
    /\ toasts.was /\ (\A s \in Links : phase[s] \notin {"open", "closing"}) => toasts.down

FeedInv ==
  /\ FeedTypeOK
  /\ MountedIsNotCleaned
  /\ QuietBeforeFeed
  /\ PeersAreAccounts
  /\ AttemptIsRefs
  /\ ActiveAreChosens
  /\ OutageIsTold

LEMMA InitFeed == FeedInit => FeedInv
  <1> SUFFICES ASSUME FeedInit PROVE FeedInv
    OBVIOUS
  <1>1. FeedTypeOK
    BY DEF FeedInit, FeedTypeOK, Phases
  <1>2. Quiet /\ ~mounted
    BY DEF FeedInit, Quiet, Live
  <1> QED
    BY <1>1, <1>2
    DEF FeedInv, MountedIsNotCleaned, QuietBeforeFeed, PeersAreAccounts,
        AttemptIsRefs, ActiveAreChosens, OutageIsTold, Quiet, Live

-----------------------------------------------------------------------------
\* What connect does: nothing without an account, else it makes one socket,
\* which is none of those that are live or that wsRef names.
LEMMA ConnectMakesOne ==
  ASSUME FeedTypeOK, NEW a \in FeedAccounts \cup {NoFeed},
         NEW ph \in [Links -> Phases], ConnectTo(a, ph)
  PROVE  \/ a = NoFeed /\ phase' = ph /\ peer' = peer /\ wsRef' = wsRef
         \/ /\ a \in FeedAccounts
            /\ wsRef' \in Links /\ wsRef' # wsRef /\ phase[wsRef'] = "closed"
            /\ phase' = [ph EXCEPT ![wsRef'] = "connecting"]
            /\ peer' = [peer EXCEPT ![wsRef'] = a]
  BY DEF ConnectTo, FreeLinks, Live, FeedTypeOK

LEMMA ClosedRefType ==
  ASSUME FeedTypeOK
  PROVE  /\ ClosedRef \in [Links -> Phases]
         /\ \A s \in Links :
              ClosedRef[s] = IF s = wsRef /\ Live(s) THEN "closing" ELSE phase[s]
  BY DEF FeedTypeOK, ClosedRef, Phases

\* Every event of the browser and every click keeps the inductive invariant.
LEMMA FeedStep ==
  ASSUME FeedInv, [FeedNext]_feedVars
  PROVE  FeedInv'
  <1>t. FeedTypeOK
    BY DEF FeedInv
  <1> USE FeedAssumption
      DEF FeedInv, MountedIsNotCleaned, QuietBeforeFeed, PeersAreAccounts,
          AttemptIsRefs, ActiveAreChosens, OutageIsTold, Quiet, Live
  <1>1. CASE Mount
    <2>1. /\ ~mounted /\ ~cleaned /\ wsRef = 0 /\ mounted'
          /\ ConnectTo(chosen, phase)
          /\ UNCHANGED <<chosen, timers, timerRef, cleaned, toasts, shown, switches>>
      BY <1>1 DEF Mount
    <2>2. \A s \in Links : phase[s] = "closed"
      BY <2>1
    <2>3. chosen \in FeedAccounts \cup {NoFeed} /\ phase \in [Links -> Phases]
          /\ peer \in [Links -> FeedAccounts \cup {NoFeed}]
      BY <1>t DEF FeedTypeOK
    <2>4. CASE chosen = NoFeed /\ phase' = phase /\ peer' = peer /\ wsRef' = wsRef
      BY <1>t, <2>1, <2>2, <2>4 DEF FeedTypeOK
    <2>5. CASE /\ chosen \in FeedAccounts
               /\ wsRef' \in Links
               /\ phase' = [phase EXCEPT ![wsRef'] = "connecting"]
               /\ peer' = [peer EXCEPT ![wsRef'] = chosen]
      <3>1. FeedTypeOK'
        BY <1>t, <2>1, <2>5 DEF FeedTypeOK, Phases
      <3>2. \A s \in Links : phase'[s] = IF s = wsRef' THEN "connecting" ELSE "closed"
        BY <2>2, <2>3, <2>5
      <3>3. peer'[wsRef'] = chosen
        BY <2>3, <2>5
      <3> QED BY <2>1, <2>5, <3>1, <3>2, <3>3
    <2> QED BY <1>t, <2>1, <2>3, <2>4, <2>5, ConnectMakesOne
  <1>2. CASE Unmount
    <2>1. FeedTypeOK'
      BY <1>2, <1>t, ClosedRefType DEF Unmount, FeedTypeOK
    <2>2. \A s \in Links : phase'[s] # phase[s] => phase'[s] = "closing" /\ Live(s)
      BY <1>2, <1>t, ClosedRefType DEF Unmount
    <2> QED BY <1>2, <2>1, <2>2 DEF Unmount
  <1>3. ASSUME NEW a \in FeedAccounts \cup {NoFeed}, Select(a) PROVE FeedInv'
    <2>1. /\ mounted /\ a # chosen /\ mounted' = mounted /\ cleaned' = FALSE
          /\ switches' = IF chosen = NoFeed THEN switches ELSE switches + 1
          /\ chosen' = a /\ timers' = timers \ {timerRef} /\ timerRef' = timerRef
          /\ toasts' = toasts
          /\ ConnectTo(a, ClosedRef)
      BY <1>3 DEF Select, SelectBy
    <2>2. /\ ClosedRef \in [Links -> Phases]
          /\ \A s \in Links :
               ClosedRef[s] = IF s = wsRef /\ Live(s) THEN "closing" ELSE phase[s]
      BY <1>t, ClosedRefType
    \* Before the second switch no socket is active but the one wsRef names.
    <2>3. switches' <= 1 => \A s \in Links : ClosedRef[s] \notin {"connecting", "open"}
      <3>1. CASE chosen = NoFeed
        BY <1>t, <2>1, <2>2, <3>1 DEF FeedTypeOK
      <3>2. CASE chosen # NoFeed
        <4>1. switches' <= 1 => switches = 0
          BY <1>t, <2>1, <3>2 DEF FeedTypeOK
        <4> QED BY <2>1, <2>2, <3>2, <4>1
      <3> QED BY <3>1, <3>2
    <2>4. switches' = 0 => chosen = NoFeed /\ switches = 0 /\ Quiet
      BY <1>t, <2>1 DEF FeedTypeOK
    <2>5. peer \in [Links -> FeedAccounts \cup {NoFeed}] /\ phase \in [Links -> Phases]
      BY <1>t DEF FeedTypeOK
    <2>t. /\ chosen' \in FeedAccounts \cup {NoFeed} /\ mounted' \in BOOLEAN
          /\ cleaned' \in BOOLEAN /\ timerRef' \in Links \cup {0}
          /\ timers' \subseteq Links
          /\ toasts' \in [was: BOOLEAN, down: BOOLEAN]
      BY <1>t, <2>1 DEF FeedTypeOK
    <2>n. switches' \in Nat
      BY <1>t, <2>1 DEF FeedTypeOK
    <2>6. CASE a = NoFeed /\ phase' = ClosedRef /\ peer' = peer /\ wsRef' = wsRef
      <3>1. FeedTypeOK'
        BY <1>t, <2>2, <2>t, <2>n, <2>6 DEF FeedTypeOK
      <3>2. switches' # 0
        BY <2>1, <2>4, <2>6
      <3> QED BY <2>1, <2>2, <2>3, <2>6, <3>1, <3>2
    <2>7. CASE /\ a \in FeedAccounts
               /\ wsRef' \in Links /\ wsRef' # wsRef /\ phase[wsRef'] = "closed"
               /\ phase' = [ClosedRef EXCEPT ![wsRef'] = "connecting"]
               /\ peer' = [peer EXCEPT ![wsRef'] = a]
      <3>1. FeedTypeOK'
        BY <1>t, <2>2, <2>t, <2>n, <2>7 DEF FeedTypeOK, Phases
      <3>2. \A s \in Links :
              /\ phase'[s] = IF s = wsRef' THEN "connecting" ELSE ClosedRef[s]
              /\ peer'[s] = IF s = wsRef' THEN a ELSE peer[s]
        BY <2>2, <2>5, <2>7
      <3>3. PeersAreAccounts' /\ ActiveAreChosens'
        BY <2>1, <2>2, <2>3, <2>7, <3>2
      <3>4. AttemptIsRefs' /\ OutageIsTold'
        BY <2>1, <2>2, <2>4, <2>7, <3>2
      <3> QED BY <2>1, <2>7, <3>1, <3>3, <3>4
    <2> QED BY <1>t, <2>1, <2>2, <2>6, <2>7, ConnectMakesOne
  <1>4. ASSUME NEW s \in Links, Opens(s) PROVE FeedInv'
    <2>1. FeedTypeOK'
      BY <1>4, <1>t DEF Opens, FeedTypeOK, Phases
    <2>2. toasts'.was /\ ~toasts'.down
      BY <1>4 DEF Opens
    <2> QED BY <1>4, <1>t, <2>1, <2>2 DEF Opens, FeedTypeOK
  <1>5. ASSUME NEW s \in Links, Drops(s) PROVE FeedInv'
    <2>1. FeedTypeOK'
      BY <1>5, <1>t DEF Drops, FeedTypeOK, Phases
    <2> QED BY <1>5, <1>t, <2>1 DEF Drops, FeedTypeOK
  <1>6. ASSUME NEW s \in Links, Closes(s) PROVE FeedInv'
    <2>1. FeedTypeOK'
      BY <1>6, <1>t DEF Closes, FeedTypeOK, Phases, FreeTimers
    <2>2. /\ phase[s] = "closing" /\ phase' = [phase EXCEPT ![s] = "closed"]
          /\ toasts'.was => toasts'.down
          /\ UNCHANGED <<chosen, mounted, peer, wsRef, cleaned, shown, switches>>
      BY <1>6, <1>t DEF Closes, FeedTypeOK
    <2>3. cleaned => timers' = timers /\ timerRef' = timerRef
      BY <1>6 DEF Closes
    <2>4. ~cleaned => timers' = timers \cup {timerRef'}
      BY <1>6 DEF Closes
    <2>5. phase \in [Links -> Phases]
      BY <1>t DEF FeedTypeOK
    <2>6. \A r \in Links : phase'[r] = IF r = s THEN "closed" ELSE phase[r]
      BY <2>2, <2>5
    <2>7. PeersAreAccounts' /\ ActiveAreChosens' /\ MountedIsNotCleaned' /\ QuietBeforeFeed'
      BY <2>2, <2>6
    <2>8. AttemptIsRefs'
      BY <2>2, <2>4, <2>6
    <2>9. OutageIsTold'
      <3> SUFFICES ASSUME switches = 0, mounted
                   PROVE  /\ \A r \in Links : phase'[r] = "open" => ~toasts'.down
                          /\ toasts'.was => toasts'.down
        BY <2>2
      <3>1. chosen # NoFeed
        BY <2>2
      <3>2. \A r \in Links : Live(r) <=> r = s
        BY <2>2, <3>1
      <3> QED BY <2>2, <2>6, <3>2
    <2> QED BY <2>1, <2>7, <2>8, <2>9
  <1>7. ASSUME NEW s \in Links, Message(s) PROVE FeedInv'
    BY <1>7, <1>t DEF Message, links, FeedTypeOK
  <1>8. ASSUME NEW t \in timers, Retry(t) PROVE FeedInv'
    <2>1. /\ timers' = timers \ {t} /\ ConnectTo(chosen, phase)
          /\ UNCHANGED <<chosen, mounted, timerRef, cleaned, toasts, shown, switches>>
      BY <1>8 DEF Retry
    <2>2. /\ chosen \in FeedAccounts \cup {NoFeed} /\ phase \in [Links -> Phases]
          /\ peer \in [Links -> FeedAccounts \cup {NoFeed}] /\ t \in Links
      BY <1>t DEF FeedTypeOK
    <2>3. CASE chosen = NoFeed /\ phase' = phase /\ peer' = peer /\ wsRef' = wsRef
      BY <1>t, <2>1, <2>3 DEF FeedTypeOK
    <2>4. CASE /\ chosen \in FeedAccounts
               /\ wsRef' \in Links /\ wsRef' # wsRef /\ phase[wsRef'] = "closed"
               /\ phase' = [phase EXCEPT ![wsRef'] = "connecting"]
               /\ peer' = [peer EXCEPT ![wsRef'] = chosen]
      <3>1. FeedTypeOK'
        BY <1>t, <2>1, <2>4 DEF FeedTypeOK, Phases
      <3>2. \A s \in Links :
              /\ phase'[s] = IF s = wsRef' THEN "connecting" ELSE phase[s]
              /\ peer'[s] = IF s = wsRef' THEN chosen ELSE peer[s]
        BY <2>2, <2>4
      <3>3. PeersAreAccounts' /\ ActiveAreChosens' /\ MountedIsNotCleaned' /\ QuietBeforeFeed'
        BY <2>1, <2>2, <2>4, <3>2
      <3>4. mounted /\ switches = 0 => timers = {t} /\ \A s \in Links : ~Live(s)
        BY <2>2, <2>4
      <3>5. AttemptIsRefs' /\ OutageIsTold'
        BY <2>1, <2>4, <3>2, <3>4
      <3> QED BY <3>1, <3>3, <3>5
    <2> QED BY <1>t, <2>1, <2>2, <2>3, <2>4, ConnectMakesOne
  <1>9. CASE UNCHANGED feedVars
    BY <1>9, <1>t DEF feedVars, FeedTypeOK
  <1> QED
    BY <1>1, <1>2, <1>3, <1>4, <1>5, <1>6, <1>7, <1>8, <1>9 DEF FeedNext

-----------------------------------------------------------------------------
\* A socket or a timer, never both and never neither.
LEMMA AttemptIsOne == FeedInv => OneAttempt
  <1> SUFFICES ASSUME FeedInv, switches = 0, mounted, chosen # NoFeed
               PROVE  Cardinality({s \in Links : Live(s)}) + Cardinality(timers) = 1
    BY DEF OneAttempt
  <1> DEFINE L == {s \in Links : Live(s)}
  <1>1. CASE timers = {} /\ wsRef \in Links /\ \A s \in Links : Live(s) <=> s = wsRef
    <2>1. L = {wsRef}
      BY <1>1
    <2> QED BY <1>1, <2>1, FS_Singleton, FS_EmptySet
  <1>2. CASE timers = {timerRef} /\ \A s \in Links : ~Live(s)
    <2>1. Cardinality(L) = 0
      BY <1>2, FS_EmptySet
    <2>2. Cardinality(timers) = 1
      BY <1>2, FS_Singleton
    <2> QED BY <2>1, <2>2
  <1> QED BY <1>1, <1>2 DEF FeedInv, AttemptIsRefs

LEMMA AlwaysFeedInv == FeedSpec => []FeedInv
  <1>1. FeedInv /\ [FeedNext]_feedVars => FeedInv'
    BY FeedStep
  <1> QED BY <1>1, InitFeed, PTL DEF FeedSpec

\* With any number of accounts and lost sockets, and close events delivered
\* at any time: until a followed account is left, the hook makes one attempt
\* at a time and its toasts tell of exactly the outages there are; until a
\* second one is left, only the selected account's messages reach the store.
THEOREM FeedIsRight == FeedSpec => []FeedIsTrue
  <1>1. FeedInv => OpenLinksAreChosens
    BY DEF FeedInv, ActiveAreChosens, OpenLinksAreChosens
  <1>2. FeedInv => ToastTellsOutage
    BY DEF FeedInv, OutageIsTold, ToastTellsOutage
  <1>3. FeedInv => FeedIsTrue
    BY <1>1, <1>2, AttemptIsOne DEF FeedIsTrue
  <1> QED BY <1>3, AlwaysFeedInv, PTL
=============================================================================

------------------------------- MODULE LiveFeed -------------------------------
(***************************************************************************)
(* The dashboard's live feed: the hook that keeps a WebSocket to the       *)
(* selected account open (src/frontend/src/hooks/use-websocket.ts), the    *)
(* store its messages are written to, the selector that changes the        *)
(* account, and the toasts that tell the operator of an outage.            *)
(*                                                                         *)
(* The browser delivers a socket's close event some time after the socket  *)
(* was closed or lost, and the hook keeps one reference to a socket, one   *)
(* to a timer and one "cleaned up" flag for all the sockets it ever made.  *)
(***************************************************************************)
EXTENDS Naturals, FiniteSets

CONSTANTS
  FeedAccounts,  \* ids of accounts
  NoFeed,        \* "all accounts": no account is selected
  MaxSwitches,   \* bound: how often a followed account is left
  MaxDrops,      \* bound: how often the network loses a socket
  MaxLinks       \* bound: sockets and timers at one time

ASSUME FeedAssumption ==
  /\ NoFeed \notin FeedAccounts
  /\ MaxSwitches \in Nat /\ MaxDrops \in Nat /\ MaxLinks \in Nat \ {0}

VARIABLES
  chosen,    \* activeAccountId of the store
  mounted,   \* the component that uses the hook is on the page
  phase,     \* state of every socket
  peer,      \* the account every socket was made for
  wsRef,     \* wsRef.current, 0 is null
  timers,    \* reconnect timers that will fire
  timerRef,  \* reconnectTimerRef.current, 0 is null
  cleaned,   \* cleanedUpRef.current
  toasts,    \* wasConnectedRef and isDownRef
  shown,     \* the account whose balance and positions are shown
  switches,  \* how often a followed account was left
  drops      \* how often the network lost a socket

feedVars == <<chosen, mounted, phase, peer, wsRef, timers, timerRef, cleaned,
              toasts, shown, switches, drops>>

links == <<phase, peer, wsRef, timers, timerRef>>
Links == 1 .. MaxLinks
Live(s) == phase[s] # "closed"
FreeLinks == {s \in Links : ~Live(s) /\ s # wsRef}
FreeTimers == Links \ (timers \cup {timerRef})

\* The store's first state; only the selected account is kept over a reload.
FeedInit ==
  /\ chosen \in FeedAccounts \cup {NoFeed}
  /\ mounted = FALSE
  /\ phase = [s \in Links |-> "closed"]
  /\ peer = [s \in Links |-> NoFeed]
  /\ wsRef = 0 /\ timers = {} /\ timerRef = 0
  /\ cleaned = FALSE
  /\ toasts = [was |-> FALSE, down |-> FALSE]
  /\ shown = NoFeed
  /\ switches = 0 /\ drops = 0

\* connect for account a, in a browser whose sockets are in the phases ph.
ConnectTo(a, ph) ==
  IF a = NoFeed THEN phase' = ph /\ UNCHANGED <<peer, wsRef>>
  ELSE \E s \in FreeLinks :
         /\ \A r \in FreeLinks : s <= r
         /\ phase' = [ph EXCEPT ![s] = "connecting"]
         /\ peer' = [peer EXCEPT ![s] = a]
         /\ wsRef' = s

\* wsRef.current?.close(): the close event is still to come.
ClosedRef == [s \in Links |-> IF s = wsRef /\ Live(s) THEN "closing" ELSE phase[s]]

Mount ==
  /\ ~mounted /\ wsRef = 0 /\ ~cleaned
  /\ mounted' = TRUE
  /\ ConnectTo(chosen, phase)
  /\ UNCHANGED <<chosen, timers, timerRef, cleaned, toasts, shown, switches, drops>>

\* The operator selects another account: the effect of the old account is
\* cleaned up and that of the new one run, before any event is handled.
SelectBy(a, flag) ==
  /\ mounted /\ a # chosen
  /\ chosen # NoFeed => switches < MaxSwitches
  /\ switches' = IF chosen = NoFeed THEN switches ELSE switches + 1
  /\ chosen' = a
  /\ cleaned' = flag
  /\ timers' = timers \ {timerRef}
  /\ ConnectTo(a, ClosedRef)
  /\ UNCHANGED <<mounted, timerRef, toasts, shown, drops>>

\* Bug variant: the effect does not take the cleaned-up flag back.
SelectStaysClean(a) == SelectBy(a, TRUE)

Select(a) == SelectBy(a, FALSE)

\* The component leaves the page for good.
Unmount ==
  /\ mounted
  /\ mounted' = FALSE
  /\ cleaned' = TRUE
  /\ timers' = timers \ {timerRef}
  /\ phase' = ClosedRef
  /\ UNCHANGED <<chosen, peer, wsRef, timerRef, toasts, shown, switches, drops>>

\* Bug variant: the outage is over for the toasts with the first retry.
OpensForgetful(s) ==
  /\ phase[s] = "connecting"
  /\ phase' = [phase EXCEPT ![s] = "open"]
  /\ toasts' = [toasts EXCEPT !.was = TRUE]
  /\ UNCHANGED <<chosen, mounted, peer, wsRef, timers, timerRef, cleaned, shown, switches, drops>>

\* onopen
Opens(s) ==
  /\ phase[s] = "connecting"
  /\ phase' = [phase EXCEPT ![s] = "open"]
  /\ toasts' = [was |-> TRUE, down |-> FALSE]
  /\ UNCHANGED <<chosen, mounted, peer, wsRef, timers, timerRef, cleaned, shown, switches, drops>>

\* The network loses a socket, or the server refuses it; onerror closes it.
Drops(s) ==
  /\ drops < MaxDrops
  /\ phase[s] \in {"connecting", "open"}
  /\ phase' = [phase EXCEPT ![s] = "closing"]
  /\ drops' = drops + 1
  /\ UNCHANGED <<chosen, mounted, peer, wsRef, timers, timerRef, cleaned, toasts, shown, switches>>

\* onclose: tell of an outage once, and retry after the delay.
Closes(s) ==
  /\ phase[s] = "closing"
  /\ phase' = [phase EXCEPT ![s] = "closed"]
  /\ toasts' = [toasts EXCEPT !.down = toasts.was \/ toasts.down]
  /\ IF cleaned
       THEN UNCHANGED <<timers, timerRef>>
       ELSE \E t \in FreeTimers :
              /\ \A r \in FreeTimers : t <= r
              /\ timers' = timers \cup {t}
              /\ timerRef' = t
  /\ UNCHANGED <<chosen, mounted, peer, wsRef, cleaned, shown, switches, drops>>

\* A reconnect timer fires: connectRef.current is connect of today's account.
Retry(t) ==
  /\ t \in timers
  /\ timers' = timers \ {t}
  /\ ConnectTo(chosen, phase)
  /\ UNCHANGED <<chosen, mounted, timerRef, cleaned, toasts, shown, switches, drops>>

\* onmessage: equity, positions and orders go to the store, whichever socket
\* brings them.
Message(s) ==
  /\ phase[s] = "open"
  /\ shown' = peer[s]
  /\ UNCHANGED <<chosen, mounted, links, cleaned, toasts, switches, drops>>

FeedNext ==
  \/ Mount \/ Unmount
  \/ \E a \in FeedAccounts \cup {NoFeed} : Select(a)
  \/ \E s \in Links : Opens(s) \/ Drops(s) \/ Closes(s) \/ Message(s)
  \/ \E t \in timers : Retry(t)

\* The browser delivers events and runs timers; a server that is up accepts.
FeedFairness ==
  /\ WF_feedVars(\E s \in Links : Opens(s))
  /\ WF_feedVars(\E s \in Links : Closes(s))
  /\ WF_feedVars(\E t \in timers : Retry(t))

FeedSpec == FeedInit /\ [][FeedNext]_feedVars /\ FeedFairness

-----------------------------------------------------------------------------

\* As long as no followed account is left there is one attempt to be
\* connected at a time: a socket or a timer, never both and never neither.
OneAttempt ==
  switches = 0 /\ mounted /\ chosen # NoFeed =>
    Cardinality({s \in Links : Live(s)}) + Cardinality(timers) = 1

\* As long as at most one followed account is left, whatever socket is open
\* belongs to the selected account, so its data is that account's.  The
\* retry which the left account's late close event schedules makes a second
\* socket, and from the second switch on nothing closes it.
OpenLinksAreChosens ==
  switches <= 1 => \A s \in Links : phase[s] = "open" => peer[s] = chosen

\* The operator was told of an outage exactly if there is one: "deduped to one
\* toast per distinct outage" (toast-event-subscriber.tsx:18).  Leaving an
\* account tells of an outage that is none.
ToastTellsOutage ==
  switches = 0 /\ mounted /\ toasts.was /\ (\A s \in Links : phase[s] # "closing") =>
    (toasts.down <=> \A s \in Links : phase[s] # "open")

\* What the hook promises of its socket, its timers and its toasts.
FeedIsTrue == OneAttempt /\ OpenLinksAreChosens /\ ToastTellsOutage

\* Whatever is lost and however often the account changes, the selected
\* account is connected in the end.
FeedRecovers ==
  \A a \in FeedAccounts :
    mounted /\ chosen = a ~>
      (\E s \in Links : phase[s] = "open" /\ peer[s] = a) \/ chosen # a \/ ~mounted
=============================================================================

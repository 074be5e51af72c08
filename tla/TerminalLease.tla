--------------------------- MODULE TerminalLease ---------------------------
(***************************************************************************)
(* What the MT5 bridge promises the rest of the backend: the terminal is   *)
(* leased to one task at a time, and a task that holds the lease works on  *)
(* its own account's login, or on a terminal that lost its login, but      *)
(* never on another account's.                                             *)
(***************************************************************************)
CONSTANTS
  Accounts,   \* trading accounts
  Tasks,      \* tasks that use the terminal
  NoAccount   \* the terminal is not logged in

VARIABLES
  login,      \* the account the terminal is logged in to
  lease       \* {}, or {<<t, a>>}: task t works on account a

Init == login = NoAccount /\ lease = {}

\* Task t begins to work on account a, logging in when it has to.
Begin(t, a) ==
  /\ lease = {}
  /\ lease' = {<<t, a>>}
  /\ login' \in {login, a}
  /\ login' \in {a, NoAccount}

\* The lease ends; the login stays for the next task.
End == lease # {} /\ lease' = {} /\ UNCHANGED login

\* Nobody works: the terminal may be logged in or shut down.
Relogin(a) == lease = {} /\ login' = a /\ UNCHANGED lease

Next ==
  \/ \E t \in Tasks, a \in Accounts : Begin(t, a)
  \/ End
  \/ \E a \in Accounts \cup {NoAccount} : Relogin(a)

Spec == Init /\ [][Next]_<<login, lease>>

-----------------------------------------------------------------------------

\* The lease excludes: one task at most, on its own login.
Exclusive ==
  \A x, y \in lease : x = y /\ login \in {x[2], NoAccount}
=============================================================================

SPECIFICATION Spec
CONSTANTS
  Accounts = {a1, a2}
  Clients = {c1, c2, c3}
  TaskIds = {t1, t2, t3}
  Flaky = {}
  Faulty = {}
  NoTask = NoTask
  NoAccount = NoAccount
SYMMETRY Symmetry
INVARIANTS OnePoller

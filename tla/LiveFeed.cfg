SPECIFICATION MachinesSpec
CONSTANTS
  Accounts = {a1, a2, a3}
  Clients = {c1, c2, c3}
  TaskIds = {t1, t2, t3}
  Flaky = {}
  Faulty = {c3}
  NoTask = NoTask
  NoAccount = NoAccount

  FeedAccounts = {a, b}
  NoFeed = NoFeed
  MaxSwitches = 2
  MaxDrops = 2
  MaxLinks = 6

  Combos = {1, 2}
  Raising = {2}
  PoolSize = 1
  Batch = 2
  MaxResumes = 1
  MaxMishaps = 1
CHECK_DEADLOCK FALSE
INVARIANTS EntryIsRunning PollerHasHandler NoOrphanTask FeedIsTrue
PROPERTIES HandlerGetsOn FeedRecovers SweepPageFollows

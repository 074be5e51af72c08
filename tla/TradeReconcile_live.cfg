SPECIFICATION FairSpec
CONSTANTS
  Tickets = {p1}
  System = {p1}
  Pending = {p1}
  Partial = {p1}
  Syncs = {s1, s2}
  Periodic = {s1}
  SyncFaults = {"persist", "abort", "blind"}
PROPERTIES EventuallyReconciled

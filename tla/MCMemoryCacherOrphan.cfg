SPECIFICATION LockSpec
CONSTANTS
  Keys = {k1}
  Values = {v1}
  Callers = {p1, p2}
  Cleaners = {c1}
  Empty = empty
  NoValue = absent
  Cancellable = {"wantKv", "asleep", "wantPq"}
  TTL = 2
  MaxTime = 4
INVARIANTS NoOrphanEntry
CHECK_DEADLOCK FALSE

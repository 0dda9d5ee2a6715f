SPECIFICATION LockSpec
CONSTANTS
  Keys = {k1}
  Values = {v1}
  Callers = {p1, p2}
  Cleaners = {c1}
  Empty = empty
  NoValue = absent
  Cancellable = {}
  TTL = 2
  MaxTime = 4
INVARIANTS NoCircularWait
CHECK_DEADLOCK FALSE

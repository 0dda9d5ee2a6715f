SPECIFICATION FairLockSpec
CONSTANTS
  Keys = {k1}
  Values = {v1}
  Callers = {p1, p2}
  Cleaners = {c1, c2}
  Empty = empty
  NoValue = absent
  Cancellable = {"wantKv", "asleep"}
  TTL = 2
  MaxTime = 4
INVARIANTS WriterAlone NoOrphanEntry
PROPERTIES ImplementsMemoryCacher EveryTurnComes
CHECK_DEADLOCK FALSE

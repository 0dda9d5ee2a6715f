SPECIFICATION ProxySpec
CONSTANTS
  k1 = k1  k2 = k2  r1 = r1  r2 = r2  r3 = r3
  Keys = {k1}
  Requests = {r1, r2, r3}
  Values = {r1, r2, r3}
  KeyOf <- OneKey
  Cleaners = {c1}
  Empty = empty
  NoValue = absent
  Nobody = nobody
  TTL = 3
  PollInterval = 1
  MaxHold = 2
  PollLate = 0
  LastArrival = 5
  MaxTime = 9
SYMMETRY Symmetry
INVARIANTS ProxyTypeOK OneForwardPerWindow OwnLease AnswersAgree QueueCoversStore
PROPERTIES PatientWaiter SweepSparesLive SweepIsComplete ImplementsIdempotency

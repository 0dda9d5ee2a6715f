SPECIFICATION RedisSpec
CONSTANTS
  k1 = k1
  r1 = r1  r2 = r2  r3 = r3
  Keys = {k1}
  Requests = {r1, r2, r3}
  Values = {r1, r2, r3}
  KeyOf <- OneKey
  Placeholder = zero
  NoValue = absent
  Nobody = nobody
  PoolSize = 1
  ConnTimeout = 1
  TTL = 3
  PollInterval = 1
  MaxHold = 1
  PollLate = 0
  LastArrival = 5
  MaxTime = 11
SYMMETRY Symmetry
INVARIANTS RedisTypeOK OneForwardPerWindow AnswersAgree
PROPERTIES ImplementsIdempotency

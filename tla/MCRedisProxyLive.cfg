SPECIFICATION FairRedisSpec
CONSTANTS
  k1 = k1
  r1 = r1  r2 = r2  r3 = r3
  Keys = {k1}
  Requests = {r1, r2, r3}
  Values = {r1, r2, r3}
  KeyOf <- OneKey
  Placeholder = zero
  NoValue = absent
  Nobody = nobody
  PoolSize = 1
  ConnTimeout = 1
  TTL = 2
  PollInterval = 1
  MaxHold = 10
  PollLate = 0
  LastArrival = 1
  MaxTime = 10
PROPERTIES EveryRequestEnds

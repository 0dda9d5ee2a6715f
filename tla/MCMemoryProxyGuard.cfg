SPECIFICATION GuardSpec
CONSTANTS
  k1 = k1  k2 = k2  r1 = r1  r2 = r2  r3 = r3  r4 = r4
  Keys = {k1, k2}
  Requests = {r1, r2, r3}
  Values = {r1, r2, r3}
  KeyOf <- TwoKeys
  Cleaners = {c1}
  Empty = empty
  NoValue = absent
  Nobody = nobody
  TTL = 2
  PollInterval = 1
  MaxUpstream = 2
  MaxHold = 4
  PollLate = 1
  WakeLate = 1
  LastJoin = 1
  LastArrival = 7
  MaxTime = 7
INVARIANTS GuardTypeOK AnswersAgree
PROPERTIES ImplementsMemoryProxy NoAnswerMissed

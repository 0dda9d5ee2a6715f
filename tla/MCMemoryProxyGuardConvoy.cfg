SPECIFICATION GuardSpec
CONSTANTS
  k1 = k1  k2 = k2  r1 = r1  r2 = r2  r3 = r3  r4 = r4
  Keys = {k1}
  Requests = {r1, r2, r3, r4}
  Values = {r1, r2, r3, r4}
  KeyOf <- OneKey
  Cleaners = {c1}
  Empty = empty
  NoValue = absent
  Nobody = nobody
  TTL = 5
  PollInterval = 2
  MaxUpstream = 1
  MaxHold = 3
  PollLate = 2
  WakeLate = 0
  LastJoin = 2
  LastArrival = 5
  MaxTime = 9
SYMMETRY Symmetry
PROPERTIES PromptAnswerCached

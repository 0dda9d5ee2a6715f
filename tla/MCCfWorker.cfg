SPECIFICATION WorkerSpec
CONSTANTS
  k1 = k1  k2 = k2  r1 = r1  r2 = r2  r3 = r3
  Keys = {k1}
  Requests = {r1, r2, r3}
  KeyOf <- OneKey
  Nobody = nobody
  TTL = 2
  PollInterval = 1
  PollLate = 1
  LastArrival = 3
  MaxTime = 6
SYMMETRY Symmetry
INVARIANTS ObjectConsistent OneForwardUnlessFailed AnswersAgree WaiterEndsInTime

SPECIFICATION OutcallSpec
CONSTANTS
  k1 = k1
  Keys = {k1}
  Servers = {k1}
  Tls = {}
  MaxStops = 1
  Replicas = {n1, n2, n3}
  Attempts = 2
  Requests <- AllRequests
  KeyOf <- KeyOfAll
  AgentOf <- SameAgent
  Nobody = nobody
  NoReply = none
  Quorum = 2
  Spread = 1
  Worker = FALSE
  Names = {"x-request-id"}
  Mask = {"price"}
  Statuses = {200, 503}
  Garbled = {}
  TTL = 2
  MaxTime = 3
SYMMETRY Symmetry
INVARIANTS OutcallTypeOK FailureHasCause RetryIsStable AgreedIsUpstream

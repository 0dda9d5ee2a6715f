SPECIFICATION OutcallSpec
CONSTANTS
  k1 = k1
  Keys = {k1}
  Servers = {k1}
  Tls = {}
  MaxStops = 1
  Replicas = {n1, n2}
  Attempts = 2
  Requests <- AllRequests
  KeyOf <- KeyOfAll
  AgentOf <- SameAgent
  Nobody = nobody
  NoReply = none
  Quorum = 2
  Spread = 1
  Worker = TRUE
  Names = {"x-request-id"}
  Mask = {"price"}
  Statuses = {200, 201, 404, 503}
  Garbled = {201}
  TTL = 2
  MaxTime = 4
SYMMETRY Symmetry
INVARIANT AgreedIsUpstream

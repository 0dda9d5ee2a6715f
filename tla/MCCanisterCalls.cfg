SPECIFICATION FairSpec
CONSTANTS
  a = a  b = b
  Calls = {c1, c2}
  Callers = {p1}
  Good = {a, b}
  Bad = {e}
  NoAnswer = none
  MaxAgents = 2
  Funds <- AllFunds
  SubnetSize = 13
  ServiceFee = 100000000
  IngressBytes = 300
  RequestBytes = 200
  ResponseBytes = 1000
  Size <- Sizes
INVARIANTS CallTypeOK BooksBalance NoFreeOutcall RepliesHonest QuoteSuffices OneAgentEquivalent
PROPERTIES EveryCallEnds

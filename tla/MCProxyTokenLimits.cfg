SPECIFICATION Spec
CONSTANTS
  a = a  b = b
  Lists <- SomeLists
  Signers = {s1, s2}
  NoSigner = nobody
  Tasks = {t1, t2}
  Intervals = {1, 4}
  MinInterval = 2
  DefaultInterval = 4
  Grace = 5
  MaxSign = 1
  MaxRefused = 1
  PermittedDrift = 1
  Variables = {"/URL_A"}
  NoName = noname
  MaxTime = 14
INVARIANTS EitherKindAdmits
PROPERTIES RefreshKeepsAgents

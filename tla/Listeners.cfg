SPECIFICATION FairSpec
CONSTANTS
  NoOne = NoOne
  Ids = {l1, l2}
  Ports = {p1}
  Requests = {r1, r2}
  Wanted = {"open"}
  MaxOps = 3
  MaxRestart = 1
  MaxVersions = 3
INVARIANTS NoServerLost
PROPERTIES KeepsAnswering GenerationSettles StoppedFreesPort
CHECK_DEADLOCK FALSE

SPECIFICATION MulticastSpec
CONSTANTS
  s1 = s1  p1 = p1  p2 = p2
  NoOne = NoOne
  Multicasts = {m1}
  Ports = {p1}
  Sessions = {}
  PortOf <- AtFirst
  Admins = {a1, a2}
  Changes = {"name", "mode", "on", "off"}
  MaxOps = 3
  MaxCrash = 0
  Calls = {}
  Members = {}
  Writers = {}
  MaxUpsets = 0
  NoAnswer = NoAnswer
INVARIANTS StoppedStaysClosed
CHECK_DEADLOCK FALSE

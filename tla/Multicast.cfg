SPECIFICATION MulticastSpec
CONSTANTS
  s1 = s1  p1 = p1  p2 = p2
  NoOne = NoOne
  Multicasts = {m1, m2}
  Ports = {p1, p2}
  Sessions = {s1}
  PortOf <- AtFirst
  Admins = {a1, a2}
  Changes = {"mode", "on", "off", "port", "port and on"}
  MaxOps = 3
  MaxCrash = 1
  Calls = {q1, q2}
  Members = {t1, t2}
  Writers = {w1}
  MaxUpsets = 1
  NoAnswer = NoAnswer
INVARIANTS MulticastTypeOK NoOrphanServer SubscribersExact CountsSettle
SYMMETRY Symmetric
CHECK_DEADLOCK FALSE

SPECIFICATION Spec
CONSTANTS
  Free = Free
  Leaked = Leaked
  NoOne = NoOne
  s1 = s1
  s2 = s2
  alice = alice
  bob = bob
  p1 = p1
  p2 = p2
  Sessions = {s1, s2}
  Users = {alice}
  Ports = {p1}
  UserOf <- OneUser
  RemotesOf <- OnePort
  Conns = {c1}
  MaxFail = 0
  MaxCrash = 1
INVARIANTS  BaseCountsConns 

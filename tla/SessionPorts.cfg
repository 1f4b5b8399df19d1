SPECIFICATION FairSpec
CONSTANTS
  Free = Free
  Leaked = Leaked
  NoOne = NoOne
  s1 = s1
  s2 = s2
  alice = alice
  bob = bob
  p1 = p1
  p2 = p2
  Sessions = {s1, s2}
  Users = {alice, bob}
  Ports = {p1, p2}
  UserOf <- TwoUsers
  RemotesOf <- TwoPorts
  Conns = {}
  MaxFail = 0
  MaxCrash = 0
PROPERTIES CancelEndsHandler PortsComeBack

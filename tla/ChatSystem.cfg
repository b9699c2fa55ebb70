CONSTANTS
  Clients = {c1, c2}
  Links = {l1, l2}
  NoLink = NoLink
  NoName = NoName
  MaxServerStarts = 1
  Fds = {f1, f2}
  NoFd = NoFd
  Names = {alice, bob}
  Passwords = {pw}
  GroupNames = {g1, g2}
  LongNames = {}
  PortBase = 5000
  MaxGroups = 2
SPECIFICATION SysSpec
SYMMETRY SysSymmetry
INVARIANTS
  SysTypeOK
  MenuShowsSession
  
  ServerSurvivesClients
  LogoutAssertHolds
  
VIEW SysView

CONSTANTS
  Clients = {c1}
  Links = {l1, l2}
  NoLink = NoLink
  NoName = NoName
  MaxServerStarts = 1
  Fds = {f1, f2}
  NoFd = NoFd
  Names = {alice}
  Passwords = {pw}
  GroupNames = {g1}
  LongNames = {}
  PortBase = 5000
  MaxGroups = 2
SPECIFICATION SysSpec
PROPERTIES
  ConnectOpensConnection

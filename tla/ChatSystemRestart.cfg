CONSTANTS
  Clients = {c1}
  Links = {l1, l2}
  NoLink = NoLink
  NoName = NoName
  MaxServerStarts = 2
  Fds = {f1, f2}
  NoFd = NoFd
  Names = {alice}
  Passwords = {pw}
  GroupNames = {}
  LongNames = {}
  PortBase = 5000
  MaxGroups = 0
SPECIFICATION SysFairSpec
PROPERTIES
  
  GoneClientsAreDropped

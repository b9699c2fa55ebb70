CONSTANTS
  Fds = {f1, f2}
  NoFd = NoFd
  Names = {alice, bob}
  Passwords = {pw1}
  GroupNames = {g1, g2}
  LongNames = {}
  PortBase = 5000
  MaxGroups = 2
SPECIFICATION ProgramSpec
CHECK_DEADLOCK FALSE
INVARIANTS
  ReleasedOnce

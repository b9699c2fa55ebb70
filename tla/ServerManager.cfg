CONSTANTS
  Fds = {f1, f2}
  NoFd = NoFd
  Names = {alice, bob}
  Passwords = {pw1, pw2}
  GroupNames = {g1, g2, g3, gLong}
  LongNames = {gLong}
  PortBase = 5000
  MaxGroups = 2
SPECIFICATION Spec
SYMMETRY Symmetry
INVARIANTS
  TypeOK
  
  SessionsAreConnected
  
  SoftAssertsHold
  SessionsConsistent
PROPERTIES
  SessionNeverStolen
  
